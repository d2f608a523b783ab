------------------------ MODULE PreparationRetriesProofs ------------------------
(***************************************************************************)
(* What the two retry loops guarantee for any families, contracts and      *)
(* acceptance rules.                                                       *)
(***************************************************************************)
EXTENDS PreparationRetries, FiniteSetTheorems, TLAPS

(* A plan under review needed every contract that is still annotated.      *)
Reviewed ==
  stage = "review" =>
    /\ candidate = Accepts(workspace, families, requirements)
    /\ requirements \subseteq candidate

ReturnedReviewed ==
  outcome = "accepted" => stage = "review" /\ Used(families, candidate) = families

IInv == TypeOK /\ Reviewed /\ ReturnedReviewed

LEMMA InitInv == Init => IInv
<1> SUFFICES ASSUME Init PROVE IInv
  OBVIOUS
<1>1. TypeOK
  BY RetriesAssumption DEF Init, TypeOK
<1> QED
  BY <1>1 DEF Init, IInv, Reviewed, ReturnedReviewed

LEMMA AttemptInv == ASSUME IInv, Attempt PROVE IInv'
<1> DEFINE accepted == Accepts(workspace, families, requirements)
<1>1. /\ requirements' = requirements \cap accepted
      /\ candidate' = accepted
      /\ stage' = IF requirements' = requirements THEN "review" ELSE stage
      /\ stage = "plan" /\ outcome = "running"
      /\ UNCHANGED <<workspace, families, outcome>>
  BY DEF Attempt, PlanFrom, Supported
<1>2. TypeOK'
  <2>1. Rounds(workspace, families, requirements) \in Nat
    BY RetriesAssumption DEF IInv, TypeOK
  <2>2. completed' \in 0..Limit
    BY <2>1, RetriesAssumption DEF Attempt, Needed, IInv, TypeOK
  <2> QED
    BY <1>1, <2>2 DEF IInv, TypeOK
<1>3. Reviewed'
  BY <1>1 DEF Reviewed
<1>4. ReturnedReviewed'
  BY <1>1 DEF ReturnedReviewed
<1> QED
  BY <1>2, <1>3, <1>4 DEF IInv

LEMMA DiscardInv == ASSUME IInv, Discard PROVE IInv'
<1>1. families' \subseteq families
  BY DEF Discard, Used
<1>2. TypeOK'
  BY <1>1, RetriesAssumption DEF Discard, IInv, TypeOK
<1> QED
  BY <1>2 DEF Discard, IInv, Reviewed, ReturnedReviewed

LEMMA NextInv == IInv /\ [Next]_vars => IInv'
<1> SUFFICES ASSUME IInv, [Next]_vars PROVE IInv'
  OBVIOUS
<1>1. CASE Attempt
  BY <1>1, AttemptInv
<1>2. CASE OutOfRounds
  BY <1>2 DEF OutOfRounds, IInv, TypeOK, Reviewed, ReturnedReviewed
<1>3. CASE PlanningFails
  BY <1>3 DEF PlanningFails, IInv, TypeOK, Reviewed, ReturnedReviewed
<1>4. CASE Refuse
  BY <1>4 DEF Refuse, IInv, TypeOK, Reviewed, ReturnedReviewed
<1>5. CASE Discard
  BY <1>5, DiscardInv
<1>6. CASE Return
  BY <1>6 DEF Return, IInv, TypeOK, Reviewed, ReturnedReviewed, Used
<1>7. CASE UNCHANGED vars
  BY <1>7 DEF vars, IInv, TypeOK, Reviewed, ReturnedReviewed, Used
<1> QED
  BY <1>1, <1>2, <1>3, <1>4, <1>5, <1>6, <1>7 DEF Next

LEMMA Inductive == Spec => []IInv
<1> QED
  BY InitInv, NextInv, PTL DEF Spec

(* The variables keep their types, and what is required was found on the   *)
(* layout that is left.                                                    *)
THEOREM TypeCorrect == Spec => []TypeOK
<1>1. IInv => TypeOK
  BY DEF IInv
<1> QED
  BY <1>1, Inductive, PTL

(* No annotation and no layout is left in a returned plan that does not    *)
(* serve Java accepted with it, whatever was tried before.                 *)
THEOREM SpeculationNeverLeaks == Spec => []NothingLeaks
<1>1. IInv => NothingLeaks
  BY DEF IInv, TypeOK, Reviewed, ReturnedReviewed, NothingLeaks, SelfSupporting
<1> QED
  BY <1>1, Inductive, PTL

-------------------------------------------------------------------------------
(* Preparation that supports itself is never dropped where preparation     *)
(* only helps.                                                             *)
AboveSupported ==
  Monotone(workspace) =>
    \A F \in SUBSET Families, R \in SUBSET Owners :
      SelfSupporting(F, R) => F \subseteq families /\ R \subseteq requirements

LEMMA InitAbove == Init => AboveSupported
<1> SUFFICES ASSUME Init, Monotone(workspace),
                    NEW F \in SUBSET Families, NEW R \in SUBSET Owners, SelfSupporting(F, R)
             PROVE  F \subseteq families /\ R \subseteq requirements
  BY DEF AboveSupported
<1>1. F \subseteq families /\ families \in SUBSET Families
  BY RetriesAssumption DEF Init, SelfSupporting
<1>2. Required(workspace, F) \subseteq Required(workspace, families)
  BY <1>1 DEF Monotone
<1> QED
  BY <1>1, <1>2 DEF Init, SelfSupporting

(* What supports itself is accepted on top of any larger preparation too.  *)
LEMMA SupportedAccepted ==
  ASSUME TypeOK, Monotone(workspace), AboveSupported,
         NEW F \in SUBSET Families, NEW R \in SUBSET Owners, SelfSupporting(F, R)
  PROVE  /\ F \subseteq families /\ R \subseteq requirements
         /\ Accepts(workspace, F, R) \subseteq Accepts(workspace, families, requirements)
<1>1. F \subseteq families /\ R \subseteq requirements
  BY DEF AboveSupported
<1>2. families \in SUBSET Families /\ requirements \in SUBSET Owners
  BY RetriesAssumption DEF TypeOK
<1> QED
  BY <1>1, <1>2 DEF Monotone

LEMMA NextAbove == IInv /\ AboveSupported /\ [Next]_vars => AboveSupported'
<1> SUFFICES ASSUME IInv, AboveSupported, [Next]_vars, Monotone(workspace'),
                    NEW F \in SUBSET Families, NEW R \in SUBSET Owners, SelfSupporting(F, R)'
             PROVE  F \subseteq families' /\ R \subseteq requirements'
  BY DEF AboveSupported
<1>1. workspace' = workspace
  BY DEF Next, Attempt, OutOfRounds, PlanningFails, Refuse, Discard, Return, vars
<1>2. Monotone(workspace) /\ SelfSupporting(F, R)
  BY <1>1 DEF SelfSupporting, Used
<1>3. /\ F \subseteq families /\ R \subseteq requirements
      /\ Accepts(workspace, F, R) \subseteq Accepts(workspace, families, requirements)
  BY <1>2, SupportedAccepted DEF IInv
<1>4. CASE Attempt
  BY <1>2, <1>3, <1>4 DEF Attempt, PlanFrom, Supported, SelfSupporting
<1>5. CASE Discard
  <2>1. F \subseteq families'
    BY <1>2, <1>3, <1>5 DEF Discard, Used, SelfSupporting, IInv, Reviewed
  <2>2. families' \in SUBSET Families
    BY <1>5, RetriesAssumption DEF Discard, Used, IInv, TypeOK
  <2>3. Required(workspace, F) \subseteq Required(workspace, families')
    BY <1>2, <2>1, <2>2 DEF Monotone
  <2> QED
    BY <1>2, <1>5, <2>1, <2>3 DEF Discard, SelfSupporting
<1>6. CASE OutOfRounds \/ PlanningFails \/ Refuse \/ Return \/ UNCHANGED vars
  BY <1>3, <1>6 DEF OutOfRounds, PlanningFails, Refuse, Return, vars
<1> QED
  BY <1>4, <1>5, <1>6 DEF Next

(* The preparation a returned plan was made with is the largest one that   *)
(* supports itself, wherever preparation can only help.                    *)
THEOREM LargestIsKept == Spec => []LargestSupported
<1>1. AboveSupported => LargestSupported
  BY DEF AboveSupported, LargestSupported
<1> QED
  BY <1>1, InitAbove, NextAbove, Inductive, PTL DEF Spec

-------------------------------------------------------------------------------
(* A round taken before the last attempt is paid by a dropped group.       *)
Paid ==
  stage = "plan" =>
    completed + Cardinality(requirements) * Longest
      <= Cardinality(Required(workspace, families)) * Longest

LEMMA OneFewer ==
  ASSUME NEW a \in Nat, NEW b \in Nat, NEW l \in Nat, a < b
  PROVE  a * l + l <= b * l
<1>1. PICK c \in Nat : b = a + 1 + c
  <2> WITNESS b - a - 1 \in Nat
  <2> QED OBVIOUS
<1>2. b * l = a * l + l + c * l /\ c * l \in Nat /\ a * l \in Nat
  BY <1>1
<1> QED BY <1>2

LEMMA FiniteRequirements ==
  ASSUME IsFiniteSet(Owners), TypeOK
  PROVE  /\ Required(workspace, families) \subseteq Owners
         /\ IsFiniteSet(Required(workspace, families))
         /\ IsFiniteSet(requirements)
<1>1. Required(workspace, families) \subseteq Owners
  BY RetriesAssumption DEF TypeOK
<1> QED
  BY <1>1, FS_Subset DEF TypeOK

LEMMA AttemptPaid ==
  ASSUME IsFiniteSet(Owners), IInv, Paid, Attempt
  PROVE  Paid'
<1> SUFFICES ASSUME stage' = "plan"
             PROVE  completed' + Cardinality(requirements') * Longest
                      <= Cardinality(Required(workspace, families)) * Longest
  BY DEF Paid, Attempt
<1>1. requirements' \subseteq requirements /\ requirements' # requirements
  BY DEF Attempt, Supported
<1>2. IsFiniteSet(requirements) /\ IsFiniteSet(Required(workspace, families))
  BY FiniteRequirements DEF IInv
<1>3. /\ IsFiniteSet(requirements')
      /\ Cardinality(requirements') <= Cardinality(requirements)
      /\ Cardinality(requirements') # Cardinality(requirements)
  BY <1>1, <1>2, FS_Subset
<1>4. /\ Cardinality(requirements) \in Nat /\ Cardinality(requirements') \in Nat
      /\ Cardinality(Required(workspace, families)) \in Nat
  BY <1>2, <1>3, FS_CardinalityType
<1>5. Longest \in Nat /\ Needed(families, requirements) \in 1..Longest /\ completed \in Nat
  BY RetriesAssumption DEF Needed, IInv, TypeOK
<1>6. Cardinality(requirements') * Longest + Longest <= Cardinality(requirements) * Longest
  BY <1>3, <1>4, <1>5, OneFewer
<1>7. /\ Cardinality(requirements) * Longest \in Nat
      /\ Cardinality(requirements') * Longest \in Nat
      /\ Cardinality(Required(workspace, families)) * Longest \in Nat
  BY <1>4, <1>5
<1>8. completed' = completed + Needed(families, requirements) /\ stage = "plan"
  BY DEF Attempt
<1> QED
  BY <1>5, <1>6, <1>7, <1>8 DEF Paid

LEMMA OutOfRoundsTooLow ==
  ASSUME IsFiniteSet(Owners), IInv, Paid, OutOfRounds
  PROVE  LimitOnlyIfTooLow'
<1> DEFINE groups == Cardinality(Required(workspace, families))
           left == Cardinality(requirements)
<1>1. groups \in Nat /\ left \in Nat
  BY FiniteRequirements, FS_CardinalityType DEF IInv
<1>2. /\ Longest \in Nat /\ Needed(families, requirements) \in 1..Longest
      /\ completed \in Nat /\ Limit \in Nat
  BY RetriesAssumption DEF Needed, IInv, TypeOK
<1>3. completed + left * Longest <= groups * Longest
  BY DEF OutOfRounds, Paid
<1>4. completed + Needed(families, requirements) > Limit
  BY DEF OutOfRounds
<1>5. /\ left * Longest \in Nat /\ groups * Longest \in Nat
      /\ (groups + 1) * Longest = groups * Longest + Longest
  BY <1>1, <1>2
<1>6. Limit < (groups + 1) * Longest
  <2> HIDE DEF groups, left
  <2> QED BY <1>1, <1>2, <1>3, <1>4, <1>5
<1> QED
  BY <1>6 DEF OutOfRounds, LimitOnlyIfTooLow

(* A budget of the longest planning for each group and one more is enough, *)
(* however often a family was dropped before.                              *)
THEOREM BudgetCountsGroups ==
  ASSUME IsFiniteSet(Owners)
  PROVE  Spec => []LimitOnlyIfTooLow
<1>1. Init => Paid /\ LimitOnlyIfTooLow
  <2> SUFFICES ASSUME Init PROVE Paid /\ LimitOnlyIfTooLow
    OBVIOUS
  <2>1. Cardinality(Required(workspace, families)) * Longest \in Nat
    BY InitInv, FiniteRequirements, FS_CardinalityType, RetriesAssumption DEF IInv
  <2> QED
    BY <2>1 DEF Init, Paid, LimitOnlyIfTooLow
<1>2. IInv /\ Paid /\ LimitOnlyIfTooLow /\ [Next]_vars => Paid' /\ LimitOnlyIfTooLow'
  <2> SUFFICES ASSUME IInv, Paid, LimitOnlyIfTooLow, [Next]_vars
               PROVE  Paid' /\ LimitOnlyIfTooLow'
    OBVIOUS
  <2>1. CASE Attempt
    BY <2>1, AttemptPaid DEF Attempt, LimitOnlyIfTooLow
  <2>2. CASE OutOfRounds
    BY <2>2, OutOfRoundsTooLow DEF OutOfRounds, Paid
  <2>3. CASE Discard
    <3>1. IInv'
      BY <2>3, DiscardInv
    <3>2. Cardinality(Required(workspace, families))' * Longest \in Nat
      BY <3>1, FS_CardinalityType, FS_Subset, RetriesAssumption DEF IInv, TypeOK
    <3> QED
      BY <2>3, <3>2 DEF Discard, Paid, LimitOnlyIfTooLow
  <2>4. CASE PlanningFails \/ Refuse \/ Return \/ UNCHANGED vars
    BY <2>4 DEF PlanningFails, Refuse, Return, vars, Paid, LimitOnlyIfTooLow
  <2> QED
    BY <2>1, <2>2, <2>3, <2>4 DEF Next
<1> QED
  BY <1>1, <1>2, Inductive, PTL DEF Spec

(* What is prepared belongs to the layout at hand, and nothing of it is    *)
(* left in a returned plan that does not serve it.                         *)
THEOREM PreparationStaysConsistent == Spec => []PreparationConsistent
<1>1. PreparationConsistent <=> TypeOK /\ NothingLeaks
  BY DEF PreparationConsistent
<1> QED
  BY <1>1, TypeCorrect, SpeculationNeverLeaks, PTL
=================================================================================
