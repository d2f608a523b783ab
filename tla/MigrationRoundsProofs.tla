------------------------- MODULE MigrationRoundsProofs -------------------------
(***************************************************************************)
(* What the speculative rounds guarantee in every workspace, whatever the  *)
(* retention rules decide, whichever files strict mode vetoes and however  *)
(* many rounds there are.                                                  *)
(*                                                                         *)
(* The partition of the declarations between the Kotlin texts and the      *)
(* accepted Java (OwnedExactlyOnce) is inductive only together with the    *)
(* fact that a text holds declarations of its own file: a veto works on    *)
(* files, and restores texts and withdraws outputs by that.                *)
(***************************************************************************)
EXTENDS MigrationRounds, FiniteSetTheorems, TLAPS

Texts ==
  /\ workspace \in Workspaces
  /\ virtualSources \in [Files -> SUBSET Declarations]
  /\ \A f \in Files : virtualSources[f] \subseteq DeclaredIn(workspace, f)
  /\ cumulative \subseteq Declarations
  /\ strictVetoed \subseteq Files

IInv == Texts /\ OwnedExactlyOnce /\ DecisionsMatchOutputs

(* A declaration is in the Kotlin text of its own file or in none.         *)
LEMMA OwnText ==
  ASSUME Texts, NEW d \in Remaining(virtualSources)
  PROVE  /\ d \in Declarations
         /\ FileOf(workspace, d) \in Files
         /\ d \in virtualSources[FileOf(workspace, d)]
  BY FilesAssumption DEF Texts, Remaining, DeclaredIn

LEMMA InitInv == Init => IInv
<1> SUFFICES ASSUME Init PROVE IInv
  OBVIOUS
<1>1. Texts
  BY DEF Init, Texts, DeclaredIn
<1>2. OwnedExactlyOnce
  BY FilesAssumption DEF Init, OwnedExactlyOnce, Remaining, DeclaredIn
<1>3. DecisionsMatchOutputs
  BY DEF Init, DecisionsMatchOutputs
<1> QED BY <1>1, <1>2, <1>3 DEF IInv

(* What a completed round does to a declaration, by the file it is in: a   *)
(* vetoed file has all of its own back, elsewhere what is retained stays.  *)
LEMMA RoundTexts ==
  ASSUME Texts, Round
  PROVE  \A d \in Declarations :
           d \in Remaining(virtualSources)' <=>
             IF FileOf(workspace, d) \in VetoedNow THEN TRUE
             ELSE d \in Remaining(virtualSources) /\ d \in KotlinOwned
<1> USE DEF Round
<1> TAKE d \in Declarations
<1>1. FileOf(workspace, d) \in Files
  BY FilesAssumption DEF Texts
<1>2. \A f \in Files : d \in virtualSources'[f] <=>
        IF f \in VetoedNow THEN FileOf(workspace, d) = f
        ELSE d \in virtualSources[f] /\ d \in KotlinOwned
  BY DEF NextSources, DeclaredIn
<1>3. CASE FileOf(workspace, d) \in VetoedNow
  BY <1>1, <1>2, <1>3 DEF Remaining
<1>4. CASE FileOf(workspace, d) \notin VetoedNow
  <2>1. ASSUME d \in Remaining(virtualSources)'
        PROVE  d \in Remaining(virtualSources) /\ d \in KotlinOwned
    <3>1. PICK f \in Files : d \in virtualSources'[f]
      BY <2>1 DEF Remaining
    <3>2. f \notin VetoedNow
      BY <1>2, <1>4, <3>1
    <3> QED BY <1>2, <3>1, <3>2 DEF Remaining
  <2>2. ASSUME d \in Remaining(virtualSources), d \in KotlinOwned
        PROVE  d \in Remaining(virtualSources)'
    BY <1>1, <1>2, <1>4, <2>2, OwnText DEF Remaining
  <2> QED BY <1>4, <2>1, <2>2
<1> QED BY <1>3, <1>4

LEMMA RoundInv ==
  ASSUME IInv, Round
  PROVE  IInv'
<1> USE DEF IInv
<1>1. Texts'
  <2>1. VetoedNow \subseteq Files
    BY DEF VetoedNow
  <2>2. \A f \in Files : NextSources[f] \subseteq DeclaredIn(workspace, f)
    BY DEF Texts, NextSources
  <2>3. NextSources \in [Files -> SUBSET Declarations]
    BY <2>2 DEF NextSources, DeclaredIn, Texts
  <2>4. NextCumulative \subseteq Declarations
    <3>1. Accepted \subseteq Declarations
      BY OwnText DEF Accepted, Emitted
    <3> QED BY <3>1 DEF Texts, NextCumulative
  <2> QED BY <2>1, <2>2, <2>3, <2>4 DEF Texts, Round, DeclaredIn
<1>2. \A d \in Declarations :
        d \in NextCumulative <=>
          IF FileOf(workspace, d) \in VetoedNow THEN FALSE
          ELSE d \in cumulative \/ (d \in Remaining(virtualSources) /\ d \notin KotlinOwned)
  BY DEF NextCumulative, Accepted, Emitted, InFiles
<1>3. OwnedExactlyOnce'
  <2>1. cumulative' = NextCumulative /\ NextCumulative \subseteq Declarations
    BY <1>1 DEF Round, Texts
  <2>2. Remaining(virtualSources)' \subseteq Declarations
    BY <1>1 DEF Texts, Remaining
  <2>3. \A d \in Declarations :
          d \in Remaining(virtualSources)' <=> d \notin NextCumulative
    BY <1>2, RoundTexts DEF OwnedExactlyOnce
  <2> QED BY <2>1, <2>2, <2>3 DEF OwnedExactlyOnce
<1>4. DecisionsMatchOutputs'
  <2>1. javaOwned \ Remaining(virtualSources) = cumulative
    BY DEF OwnedExactlyOnce, DecisionsMatchOutputs
  <2>2. NextJavaOwned = NextCumulative
    BY <2>1 DEF NextJavaOwned, NextCumulative, Accepted
  <2> QED BY <2>2 DEF DecisionsMatchOutputs, Round
<1> QED BY <1>1, <1>3, <1>4

LEMMA NextInv == IInv /\ [Next]_vars => IInv'
<1> SUFFICES ASSUME IInv, [Next]_vars PROVE IInv'
  OBVIOUS
<1> USE DEF IInv, Texts, OwnedExactlyOnce, DecisionsMatchOutputs, Remaining, DeclaredIn
<1>1. CASE Round
  BY <1>1, RoundInv
<1>2. CASE Refuse
  BY <1>2 DEF Refuse
<1>3. CASE RoundLimit
  BY <1>3 DEF RoundLimit
<1>4. CASE UNCHANGED vars
  BY <1>4 DEF vars
<1> QED BY <1>1, <1>2, <1>3, <1>4 DEF Next

LEMMA Inductive == Spec => []IInv
  BY InitInv, NextInv, PTL DEF Spec

(* Between any two rounds every declaration is in exactly one of the       *)
(* Kotlin texts and the accepted Java.                                     *)
THEOREM NothingLostOrDoubled == Spec => []OwnedExactlyOnce
<1>1. IInv => OwnedExactlyOnce
  BY DEF IInv
<1> QED BY <1>1, Inductive, PTL

(* The merged decisions are the accepted outputs, so coverage never meets  *)
(* a Java-owned declaration without Java nor Java without a decision.      *)
THEOREM CoverageNeverDisagrees == Spec => []DecisionsMatchOutputs
<1>1. IInv => DecisionsMatchOutputs
  BY DEF IInv
<1> QED BY <1>1, Inductive, PTL

(* An accepted plan loses no declaration, and doubles only those of        *)
(* sources that strict mode vetoed in some round.                          *)
THEOREM AcceptedPlansAreComplete == Spec => []AcceptedPlanComplete
<1>1. IInv => AcceptedPlanComplete
  <2> SUFFICES ASSUME IInv, NEW f \in Files
               PROVE  /\ DeclaredIn(workspace, f) \subseteq FinalSource(f) \cup cumulative
                      /\ f \notin strictVetoed => FinalSource(f) \cap cumulative = {}
    BY DEF AcceptedPlanComplete
  <2>1. CASE f \in strictVetoed
    BY <2>1 DEF FinalSource
  <2>2. CASE f \notin strictVetoed
    <3>1. FinalSource(f) = virtualSources[f]
      BY <2>2 DEF FinalSource
    <3>2. \A d \in DeclaredIn(workspace, f) : d \in cumulative \/ d \in virtualSources[f]
      BY OwnText DEF IInv, OwnedExactlyOnce, DeclaredIn
    <3>3. virtualSources[f] \cap cumulative = {}
      BY DEF IInv, OwnedExactlyOnce, Remaining
    <3> QED BY <3>1, <3>2, <3>3
  <2> QED BY <2>1, <2>2
<1> QED BY <1>1, Inductive, PTL

-------------------------------------------------------------------------------
(* No veto happens outside strict mode.                                    *)
LEMMA NoVeto ==
  ASSUME ~ Strict(workspace)
  PROVE  VetoedNow = {} /\ InFiles(workspace, VetoedNow) = {}
  BY DEF VetoedNow, InFiles

(* Outside strict mode no round takes a move back.                         *)
THEOREM NoMoveIsTakenBack == Spec => MovesArePermanent
<1>1. ASSUME [Next]_vars
      PROVE  [ ~ Strict(workspace) =>
                 /\ cumulative \subseteq cumulative'
                 /\ \A f \in Files : virtualSources'[f] \subseteq virtualSources[f] ]_vars
  <2>1. CASE Round
    <3> SUFFICES ASSUME ~ Strict(workspace)
                 PROVE  /\ cumulative \subseteq cumulative'
                        /\ \A f \in Files : virtualSources'[f] \subseteq virtualSources[f]
      OBVIOUS
    <3>1. cumulative \subseteq cumulative'
      BY <2>1, NoVeto DEF Round, NextCumulative
    <3>2. \A f \in Files : virtualSources'[f] \subseteq virtualSources[f]
      BY <2>1, NoVeto DEF Round, NextSources
    <3> QED BY <3>1, <3>2
  <2>2. CASE Refuse
    BY <2>2 DEF Refuse
  <2>3. CASE RoundLimit
    BY <2>3 DEF RoundLimit
  <2>4. CASE UNCHANGED vars
    BY <2>4
  <2> QED BY <1>1, <2>1, <2>2, <2>3, <2>4 DEF Next
<1> QED BY <1>1, PTL DEF Spec, MovesArePermanent

-------------------------------------------------------------------------------
(* The variables keep their shape.                                         *)
THEOREM TypeCorrect == Spec => []TypeOK
<1>1. Init => TypeOK
  BY RoundsAssumption DEF Init, TypeOK, Outcomes, DeclaredIn
<1>2. IInv /\ TypeOK /\ [Next]_vars => TypeOK'
  <2> SUFFICES ASSUME IInv, TypeOK, [Next]_vars PROVE TypeOK'
    OBVIOUS
  <2> USE DEF TypeOK, Remaining, DeclaredIn, Outcomes
  <2>1. CASE Round
    <3>1. Texts'
      BY <2>1, RoundInv DEF IInv
    <3>2. /\ repaired' \subseteq Calls(workspace)
          /\ \A call \in repaired' : call[1] \in Remaining(virtualSources)'
      BY <2>1 DEF Round, NextRepaired, Redirected
    <3>3. /\ viaKotlin' \subseteq Calls(workspace)
          /\ \A call \in viaKotlin' : call[1] \in cumulative'
      BY <2>1 DEF Round, NextViaKotlin, NextCumulative
    <3>4. javaOwned' \subseteq Declarations
      <4>1. IInv'
        BY <2>1, RoundInv
      <4> QED BY <4>1 DEF IInv, Texts, DecisionsMatchOutputs
    <3>5. obliged' \subseteq Answered(workspace) /\ unproven' \subseteq Answered(workspace)
      BY <2>1 DEF Round, Signed, Carried
    <3>6. round' \in 0..MaxRounds(workspace)
      BY <2>1, RoundsAssumption DEF Round, Starts, IInv, Texts
    <3>7. outcome' \in Outcomes /\ workspace' = workspace
      BY <2>1 DEF Round
    <3>8. DOMAIN virtualSources' = Files
      BY <3>1 DEF Texts
    <3> QED BY <3>1, <3>2, <3>3, <3>4, <3>5, <3>6, <3>7, <3>8 DEF Texts
  <2>2. CASE Refuse
    BY <2>2 DEF Refuse
  <2>3. CASE RoundLimit
    BY <2>3 DEF RoundLimit
  <2>4. CASE UNCHANGED vars
    BY <2>4 DEF vars
  <2> QED BY <2>1, <2>2, <2>3, <2>4 DEF Next
<1> QED BY <1>1, <1>2, Inductive, PTL DEF Spec

(* The rules seen from a state of the loop: the next round emits neither   *)
(* what carries an obligation, nor a function that accepted Java calls     *)
(* through its Kotlin facade, nor one that a Kotlin text calls in a way no *)
(* repair can rewrite.                                                     *)
LEMMA RulesKeep ==
  ASSUME IInv, TypeOK
  PROVE  /\ Carried \subseteq KotlinOwned
         /\ \A call \in viaKotlin :
              call[2] \in Remaining(virtualSources) => call[2] \in KotlinOwned
         /\ \A call \in Unrepairable(workspace) :
              {call[1], call[2]} \subseteq Remaining(virtualSources) => call[2] \in KotlinOwned
<1> DEFINE texts == [f \in Files |-> DeclaredIn(workspace, f) \cap Remaining(virtualSources)]
<1>1. /\ workspace \in Workspaces
      /\ viaKotlin \in SUBSET Calls(workspace)
      /\ Remaining(virtualSources) \in SUBSET Declarations
      /\ Carried \in SUBSET Remaining(virtualSources)
  BY DEF IInv, Texts, TypeOK, Remaining, Carried
<1>2. virtualSources = texts
  <2>1. \A f \in Files :
          virtualSources[f] = DeclaredIn(workspace, f) \cap Remaining(virtualSources)
    BY OwnText DEF IInv, Texts, Remaining, DeclaredIn
  <2> QED BY <2>1 DEF IInv, Texts
<1>3. /\ Carried \subseteq Kept(workspace, texts, viaKotlin, Carried)
      /\ \A call \in viaKotlin :
           call[2] \in Remaining(virtualSources) =>
             call[2] \in Kept(workspace, texts, viaKotlin, Carried)
      /\ \A call \in Unrepairable(workspace) :
           {call[1], call[2]} \subseteq Remaining(virtualSources) =>
             call[2] \in Kept(workspace, texts, viaKotlin, Carried)
  BY <1>1, KeptAssumption
<1> HIDE DEF texts
<1> QED BY <1>1, <1>2, <1>3 DEF KotlinOwned

LEMMA RoundCalls ==
  ASSUME IInv, TypeOK, CallsReachTheirOwner, Round
  PROVE  CallsReachTheirOwner'
<1> SUFFICES ASSUME ~ Strict(workspace), NEW call \in Calls(workspace)
             PROVE  IF call[1] \in cumulative'
                    THEN call \in viaKotlin' <=> call[2] \notin cumulative'
                    ELSE call \in repaired' <=> call[2] \in cumulative'
  BY DEF CallsReachTheirOwner, Round
<1>1. call[1] \in Declarations /\ call[2] \in Declarations
  BY FilesAssumption DEF IInv, Texts
<1>2. \A d \in Declarations :
        /\ d \in Remaining(virtualSources) <=> d \notin cumulative
        /\ d \in Accepted <=> (d \in Remaining(virtualSources) /\ d \notin KotlinOwned)
        /\ d \in cumulative' <=> (d \in cumulative \/ d \in Accepted)
        /\ d \in Remaining(virtualSources)' <=>
             (d \in Remaining(virtualSources) /\ d \in KotlinOwned)
  <2>1. Texts
    BY DEF IInv
  <2> QED BY <2>1, RoundTexts, NoVeto
          DEF IInv, OwnedExactlyOnce, Accepted, Emitted, Round, NextCumulative
<1>3. IF call[1] \in cumulative
      THEN call \in viaKotlin <=> call[2] \notin cumulative
      ELSE call \in repaired <=> call[2] \in cumulative
  BY DEF CallsReachTheirOwner
<1>4. CASE call[1] \in cumulative
  <2>1. call \in viaKotlin' <=> call \in viaKotlin
    BY <1>1, <1>2, <1>4 DEF Round, NextViaKotlin
  <2>2. call \in viaKotlin => call[2] \notin Accepted
    BY <1>1, <1>2, RulesKeep
  <2> QED BY <1>1, <1>2, <1>3, <1>4, <2>1, <2>2
<1>5. CASE call[1] \in Accepted
  <2>1. call \notin viaKotlin
    BY <1>1, <1>2, <1>5 DEF TypeOK
  <2>2. call \in viaKotlin' <=> call[2] \in KotlinOwned
    BY <1>5, <2>1 DEF Round, NextViaKotlin
  <2>3. KotlinOwned \subseteq Remaining(virtualSources)
    BY DEF KotlinOwned
  <2> QED BY <1>1, <1>2, <1>5, <2>2, <2>3
<1>6. CASE call[1] \notin cumulative /\ call[1] \notin Accepted
  <2>1. call[1] \in KotlinOwned /\ call[1] \in Remaining(virtualSources)'
    BY <1>1, <1>2, <1>6
  <2>2. call \in Redirected <=> call[2] \in Accepted
    BY <1>1, <2>1, NoVeto DEF Redirected, Accepted
  <2>3. call \in repaired' <=> (call \in repaired \/ call \in Redirected)
    <3>1. call[1] \in Remaining(NextSources)
      BY <2>1 DEF Round, Remaining
    <3> QED BY <3>1, NoVeto DEF Round, NextRepaired
  <2> QED BY <1>1, <1>2, <1>3, <1>6, <2>2, <2>3
<1> QED BY <1>4, <1>5, <1>6

(* Outside strict mode every call reaches its function on the side it      *)
(* ended on, in generated Java and in the Kotlin left behind, however many *)
(* rounds lie between the two moves.  Of the retention rules only C003 is  *)
(* used (KeptAssumption).                                                  *)
THEOREM CallsStayLinked == Spec => []CallsReachTheirOwner
<1>1. Init => CallsReachTheirOwner
  BY DEF Init, CallsReachTheirOwner
<1>2. IInv /\ TypeOK /\ CallsReachTheirOwner /\ [Next]_vars => CallsReachTheirOwner'
  <2> SUFFICES ASSUME IInv, TypeOK, CallsReachTheirOwner, [Next]_vars
               PROVE  CallsReachTheirOwner'
    OBVIOUS
  <2>1. CASE Round
    BY <2>1, RoundCalls
  <2>2. CASE Refuse
    BY <2>2 DEF Refuse, CallsReachTheirOwner
  <2>3. CASE RoundLimit
    BY <2>3 DEF RoundLimit, CallsReachTheirOwner
  <2>4. CASE UNCHANGED vars
    BY <2>4 DEF vars, CallsReachTheirOwner
  <2> QED BY <2>1, <2>2, <2>3, <2>4 DEF Next
<1> QED BY <1>1, <1>2, Inductive, TypeCorrect, PTL DEF Spec

-------------------------------------------------------------------------------
(* A call the repair would have to rewrite lost its function this round,   *)
(* and the text that holds it was there when the rules decided the move.   *)
LEMMA RepairSucceeds ==
  ASSUME IInv, TypeOK
  PROVE  ~ CannotRepair
<1> SUFFICES ASSUME NEW call \in Redirected, call \in Unrepairable(workspace) PROVE FALSE
  BY DEF CannotRepair
<1>1. call[1] \in Remaining(virtualSources) /\ call[2] \in Remaining(virtualSources)
  BY DEF Redirected, Emitted, KotlinOwned
<1>2. call[2] \notin KotlinOwned
  BY DEF Redirected, Emitted
<1> QED BY <1>1, <1>2, RulesKeep

(* The rules plan the same texts the repair rewrites, so no run ends for a *)
(* call that cannot be rewritten.  Of the rules, C002 to C007 are used.    *)
THEOREM EveryCallCanBeRepaired == Spec => []RepairNeverRefuses
<1>1. Init => RepairNeverRefuses
  BY DEF Init, RepairNeverRefuses
<1>2. IInv /\ TypeOK /\ RepairNeverRefuses /\ [Next]_vars => RepairNeverRefuses'
  <2> SUFFICES ASSUME IInv, TypeOK, RepairNeverRefuses, [Next]_vars PROVE RepairNeverRefuses'
    OBVIOUS
  <2>1. CASE Round
    BY <2>1 DEF Round, RepairNeverRefuses
  <2>2. CASE Refuse
    BY <2>2, RepairSucceeds DEF Refuse, RepairNeverRefuses
  <2>3. CASE RoundLimit
    BY <2>3 DEF RoundLimit, RepairNeverRefuses
  <2>4. CASE UNCHANGED vars
    BY <2>4 DEF vars, RepairNeverRefuses
  <2> QED BY <2>1, <2>2, <2>3, <2>4 DEF Next
<1> QED BY <1>1, <1>2, Inductive, TypeCorrect, PTL DEF Spec

-------------------------------------------------------------------------------
(* A round that changes nothing would plan the same again: the obligations *)
(* it adds are of texts as they are on disk, which carry none.             *)
LEMMA UnchangedPlansAgain ==
  ASSUME Round, Unchanged
  PROVE  KotlinOwned' = KotlinOwned
<1>1. /\ virtualSources' = virtualSources /\ repaired' = repaired
      /\ viaKotlin' = viaKotlin /\ workspace' = workspace
      /\ obliged' = obliged \cup Signed \cup Carried
  BY DEF Round, Unchanged
<1>2. \A f : Pristine(f)' <=> Pristine(f)
  BY <1>1 DEF Pristine, DeclaredIn
<1>3. Remaining(virtualSources)' = Remaining(virtualSources)
  BY <1>1 DEF Remaining
<1>4. Carried' = Carried
  BY <1>1, <1>2, <1>3 DEF Carried, Signed
<1> QED BY <1>1, <1>3, <1>4 DEF KotlinOwned

(* The plan that is applied is one that planning again would not change.   *)
THEOREM AcceptedPlansAreFinal == Spec => []AcceptedPlanIsFinal
<1>1. Init => AcceptedPlanIsFinal
  BY DEF Init, AcceptedPlanIsFinal
<1>2. AcceptedPlanIsFinal /\ [Next]_vars => AcceptedPlanIsFinal'
  <2> SUFFICES ASSUME AcceptedPlanIsFinal, [Next]_vars PROVE AcceptedPlanIsFinal'
    OBVIOUS
  <2>1. CASE Round
    <3> SUFFICES ASSUME Unchanged, NEW f \in Files, f \notin strictVetoed'
                 PROVE  virtualSources'[f] \subseteq KotlinOwned'
      BY <2>1 DEF AcceptedPlanIsFinal, Round, Starts
    <3>1. f \notin VetoedNow
      BY <2>1 DEF Round
    <3>2. virtualSources'[f] = virtualSources[f] \cap KotlinOwned
      BY <2>1, <3>1 DEF Round, NextSources
    <3> QED BY <2>1, <3>2, UnchangedPlansAgain
  <2>2. CASE Refuse
    BY <2>2 DEF Refuse, AcceptedPlanIsFinal
  <2>3. CASE RoundLimit
    BY <2>3 DEF RoundLimit, AcceptedPlanIsFinal
  <2>4. CASE UNCHANGED vars
    BY <2>4 DEF vars, AcceptedPlanIsFinal, KotlinOwned, Carried, Pristine, Remaining, DeclaredIn
  <2> QED BY <2>1, <2>2, <2>3, <2>4 DEF Next
<1> QED BY <1>1, <1>2, PTL DEF Spec

-------------------------------------------------------------------------------
(* No two sources ever share an output and no foreign Java is overwritten: *)
(* a round compares its outputs with all accepted before.                  *)
THEOREM OneOriginPerOutput == Spec => []OutputsHaveOneOrigin
<1>1. Init => OutputsHaveOneOrigin
  BY DEF Init, OutputsHaveOneOrigin
<1>2. OutputsHaveOneOrigin /\ [Next]_vars => OutputsHaveOneOrigin'
  <2> SUFFICES ASSUME OutputsHaveOneOrigin, [Next]_vars PROVE OutputsHaveOneOrigin'
    OBVIOUS
  <2>1. CASE Round
    <3>1. cumulative' = NextCumulative /\ workspace' = workspace /\ ~ PathConflict
      BY <2>1 DEF Round
    <3>2. \A d \in NextCumulative : d \in cumulative \/ d \in Accepted
      BY DEF NextCumulative
    <3> QED BY <3>1, <3>2 DEF OutputsHaveOneOrigin, PathConflict
  <2>2. CASE Refuse
    BY <2>2 DEF Refuse, OutputsHaveOneOrigin
  <2>3. CASE RoundLimit
    BY <2>3 DEF RoundLimit, OutputsHaveOneOrigin
  <2>4. CASE UNCHANGED vars
    BY <2>4 DEF vars, OutputsHaveOneOrigin
  <2> QED BY <2>1, <2>2, <2>3, <2>4 DEF Next
<1> QED BY <1>1, <1>2, PTL DEF Spec

-------------------------------------------------------------------------------
(* The first round sees every text as it is on disk, so whatever the       *)
(* helper answers for is obliged from then on.                             *)
ObligedFromTheStart ==
  IF round = 0
  THEN /\ virtualSources = [f \in Files |-> DeclaredIn(workspace, f)]
       /\ repaired = {}
  ELSE Declarations \cap Answered(workspace) \subseteq obliged

LEMMA RoundSigned ==
  ASSUME IInv, TypeOK, ObligedFromTheStart, NoUnprovenMove, Round
  PROVE  ObligedFromTheStart' /\ NoUnprovenMove'
<1>1. Accepted \subseteq Remaining(virtualSources) \ KotlinOwned
  BY DEF Accepted, Emitted
<1>2. \A d \in Accepted \cap Answered(workspace) : d \in Signed
  <2> TAKE d \in Accepted \cap Answered(workspace)
  <2>1. d \in Declarations /\ d \in Remaining(virtualSources) /\ FileOf(workspace, d) \in Files
    BY <1>1, OwnText DEF IInv
  <2>2. CASE Pristine(FileOf(workspace, d))
    BY <2>1, <2>2 DEF Signed
  <2>3. CASE ~ Pristine(FileOf(workspace, d))
    <3>1. round # 0
      BY <2>1, <2>3 DEF ObligedFromTheStart, Pristine
    <3>2. d \in Carried
      BY <2>1, <2>3, <3>1 DEF ObligedFromTheStart, Carried
    <3> QED BY <1>1, <3>2, RulesKeep
  <2> QED BY <2>2, <2>3
<1>3. NoUnprovenMove'
  BY <1>2 DEF Round, NoUnprovenMove
<1>4. Declarations \cap Answered(workspace) \subseteq obliged'
  <2>1. CASE round = 0
    <3>1. \A d \in Declarations : FileOf(workspace, d) \in Files /\ d \in Remaining(virtualSources)
      BY <2>1, FilesAssumption DEF ObligedFromTheStart, IInv, Texts, Remaining, DeclaredIn
    <3>2. \A f \in Files : Pristine(f)
      BY <2>1 DEF ObligedFromTheStart, Pristine
    <3> QED BY <3>1, <3>2 DEF Round, Signed
  <2>2. CASE round # 0
    BY <2>2 DEF ObligedFromTheStart, Round
  <2> QED BY <2>1, <2>2
<1>5. round' # 0 /\ workspace' = workspace
  BY RoundsAssumption DEF Round, TypeOK
<1> QED BY <1>3, <1>4, <1>5 DEF ObligedFromTheStart

(* What needed a receipt is never translated on a text that has none.      *)
THEOREM NothingMovesUnproven == Spec => []NoUnprovenMove
<1>1. Init => ObligedFromTheStart /\ NoUnprovenMove
  BY DEF Init, ObligedFromTheStart, NoUnprovenMove
<1>2. /\ IInv /\ TypeOK
      /\ ObligedFromTheStart /\ NoUnprovenMove
      /\ [Next]_vars
      => ObligedFromTheStart' /\ NoUnprovenMove'
  <2> SUFFICES ASSUME IInv, TypeOK, ObligedFromTheStart, NoUnprovenMove, [Next]_vars
               PROVE  ObligedFromTheStart' /\ NoUnprovenMove'
    OBVIOUS
  <2> USE DEF ObligedFromTheStart, NoUnprovenMove, DeclaredIn
  <2>1. CASE Round
    BY <2>1, RoundSigned
  <2>2. CASE Refuse
    BY <2>2 DEF Refuse
  <2>3. CASE RoundLimit
    BY <2>3 DEF RoundLimit
  <2>4. CASE UNCHANGED vars
    BY <2>4 DEF vars
  <2> QED BY <2>1, <2>2, <2>3, <2>4 DEF Next
<1> QED BY <1>1, <1>2, Inductive, TypeCorrect, PTL DEF Spec

-------------------------------------------------------------------------------
(* In strict mode a source moves as a whole: what it retains vetoes it.    *)
Whole ==
  Strict(workspace) =>
    /\ repaired = {}
    /\ \A f \in Files : virtualSources[f] \in {{}, DeclaredIn(workspace, f)}

LEMMA RetainedVetoes ==
  ASSUME Texts, Strict(workspace)
  PROVE  KotlinOwned \subseteq InFiles(workspace, VetoedNow)
<1> SUFFICES ASSUME NEW d \in KotlinOwned PROVE d \in InFiles(workspace, VetoedNow)
  OBVIOUS
<1>1. d \in Remaining(virtualSources)
  BY DEF KotlinOwned
<1>2. FileOf(workspace, d) \in VetoedNow
  BY <1>1, OwnText DEF VetoedNow
<1> QED BY <1>1, <1>2, OwnText DEF InFiles

LEMMA RoundWhole ==
  ASSUME IInv, Whole, Round
  PROVE  Whole'
<1> SUFFICES ASSUME Strict(workspace)
             PROVE  /\ repaired' = {}
                    /\ \A f \in Files : virtualSources'[f] \in {{}, DeclaredIn(workspace, f)}
  BY DEF Whole, Round, DeclaredIn
<1>1. KotlinOwned \subseteq InFiles(workspace, VetoedNow)
  BY RetainedVetoes DEF IInv
<1>2. repaired' = {}
  BY <1>1 DEF Round, NextRepaired, Redirected, Whole
<1>3. \A f \in Files : f \notin VetoedNow => virtualSources[f] \cap KotlinOwned = {}
  BY DEF VetoedNow
<1> QED BY <1>2, <1>3 DEF Round, NextSources

(* So no veto ever takes back what an earlier round accepted.              *)
LEMMA NoWithdrawal ==
  ASSUME IInv, Whole
  PROVE  InFiles(workspace, VetoedNow) \cap cumulative = {}
<1> SUFFICES ASSUME NEW d \in InFiles(workspace, VetoedNow) PROVE d \notin cumulative
  OBVIOUS
<1>1. /\ d \in Declarations /\ FileOf(workspace, d) \in VetoedNow
      /\ FileOf(workspace, d) \in Files /\ Strict(workspace)
      /\ virtualSources[FileOf(workspace, d)] # {}
  BY DEF InFiles, VetoedNow
<1>2. d \in virtualSources[FileOf(workspace, d)]
  BY <1>1 DEF Whole, DeclaredIn
<1> QED BY <1>1, <1>2 DEF IInv, OwnedExactlyOnce, Remaining

(* A round that accepts nothing changes nothing.                           *)
LEMMA RoundMoves ==
  ASSUME IInv, TypeOK, Whole, Accepted = {}
  PROVE  Unchanged
<1>1. \A d \in Emitted : FileOf(workspace, d) \in VetoedNow /\ Strict(workspace)
  BY OwnText DEF IInv, Accepted, Emitted, InFiles, VetoedNow
<1>2. NextSources = virtualSources
  <2>1. \A f \in Files : NextSources[f] = virtualSources[f]
    <3> TAKE f \in Files
    <3>1. CASE f \in VetoedNow
      BY <3>1 DEF NextSources, VetoedNow, Whole
    <3>2. CASE f \notin VetoedNow
      <4>1. \A d \in virtualSources[f] : d \in Remaining(virtualSources) /\ FileOf(workspace, d) = f
        BY DEF Remaining, IInv, Texts, DeclaredIn
      <4>2. virtualSources[f] \subseteq KotlinOwned
        BY <1>1, <3>2, <4>1 DEF Emitted
      <4> QED BY <3>2, <4>2 DEF NextSources
    <3> QED BY <3>1, <3>2
  <2> QED BY <2>1 DEF NextSources, IInv, Texts
<1>3. NextCumulative = cumulative
  BY NoWithdrawal DEF NextCumulative
<1>4. Redirected = {}
  BY <1>1, RetainedVetoes DEF IInv, Redirected
<1>5. NextRepaired = repaired
  <2>1. CASE Strict(workspace)
    BY <1>4, <2>1 DEF NextRepaired, Whole
  <2>2. CASE ~ Strict(workspace)
    BY <1>2, <1>4, <2>2, NoVeto DEF NextRepaired, TypeOK
  <2> QED BY <2>1, <2>2
<1>6. NextViaKotlin = viaKotlin
  BY <1>3 DEF NextViaKotlin, TypeOK
<1> QED BY <1>2, <1>3, <1>5, <1>6 DEF Unchanged

(* Every round so far has moved a declaration.                             *)
RoundsPaid ==
  /\ outcome = "running" => round <= Cardinality(cumulative)
  /\ LimitOnlyIfTooLow

LEMMA RoundPays ==
  ASSUME IsFiniteSet(Declarations), IInv, TypeOK, Whole, RoundsPaid, Round
  PROVE  RoundsPaid'
<1>1. outcome = "running" /\ round <= Cardinality(cumulative) /\ round' = round + 1
  BY DEF Round, Starts, RoundsPaid
<1>2. LimitOnlyIfTooLow'
  BY DEF Round, Starts, LimitOnlyIfTooLow
<1>3. ASSUME outcome' = "running" PROVE round' <= Cardinality(cumulative')
  <2>1. ~ Unchanged
    BY <1>3 DEF Round
  <2>2. PICK d : d \in Accepted
    BY <2>1, RoundMoves
  <2>3. d \in Declarations /\ d \notin cumulative
    BY <2>2, OwnText DEF IInv, OwnedExactlyOnce, Accepted, Emitted
  <2>4. cumulative \cup {d} \subseteq cumulative'
    BY <2>2, NoWithdrawal DEF Round, NextCumulative
  <2>5. cumulative' \subseteq Declarations
    BY RoundInv DEF IInv, Texts
  <2>6. IsFiniteSet(cumulative) /\ IsFiniteSet(cumulative')
    BY <2>5, FS_Subset DEF IInv, Texts
  <2>7. Cardinality(cumulative \cup {d}) = Cardinality(cumulative) + 1
    BY <2>3, <2>6, FS_AddElement
  <2>8. Cardinality(cumulative \cup {d}) <= Cardinality(cumulative')
    BY <2>4, <2>6, FS_Subset
  <2>9. /\ Cardinality(cumulative) \in Nat /\ Cardinality(cumulative') \in Nat
        /\ round \in Nat
    BY <2>6, FS_CardinalityType, RoundsAssumption DEF TypeOK
  <2> QED BY <1>1, <2>7, <2>8, <2>9
<1> QED BY <1>2, <1>3 DEF RoundsPaid

(* Only a --max-pass of at most as many rounds as declarations moved ends  *)
(* a run for want of rounds, strict mode included.                         *)
THEOREM LimitImpliesMoves ==
  ASSUME IsFiniteSet(Declarations)
  PROVE  Spec => []LimitOnlyIfTooLow
<1>1. Init => Whole /\ RoundsPaid
  BY FS_EmptySet DEF Init, Whole, RoundsPaid, LimitOnlyIfTooLow
<1>2. IInv /\ TypeOK /\ Whole /\ RoundsPaid /\ [Next]_vars => Whole' /\ RoundsPaid'
  <2> SUFFICES ASSUME IInv, TypeOK, Whole, RoundsPaid, [Next]_vars
               PROVE  Whole' /\ RoundsPaid'
    OBVIOUS
  <2> USE DEF Whole, RoundsPaid, LimitOnlyIfTooLow, DeclaredIn
  <2>1. CASE Round
    BY <2>1, RoundWhole, RoundPays
  <2>2. CASE Refuse
    BY <2>2 DEF Refuse, Starts
  <2>3. CASE RoundLimit
    BY <2>3 DEF RoundLimit
  <2>4. CASE UNCHANGED vars
    BY <2>4 DEF vars
  <2> QED BY <2>1, <2>2, <2>3, <2>4 DEF Next
<1>3. RoundsPaid => LimitOnlyIfTooLow
  BY DEF RoundsPaid
<1> QED BY <1>1, <1>2, <1>3, Inductive, TypeCorrect, PTL DEF Spec

(* Texts, accepted Java and decisions agree in and after every round.      *)
THEOREM OwnershipStaysConsistent == Spec => []OwnershipConsistent
<1>1. OwnershipConsistent <=> /\ TypeOK
                              /\ OwnedExactlyOnce
                              /\ AcceptedPlanComplete
                              /\ DecisionsMatchOutputs
                              /\ OutputsHaveOneOrigin
  BY DEF OwnershipConsistent
<1> QED
  BY <1>1, TypeCorrect, NothingLostOrDoubled, AcceptedPlansAreComplete, CoverageNeverDisagrees,
     OneOriginPerOutput, PTL
================================================================================
