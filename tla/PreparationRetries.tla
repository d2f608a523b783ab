--------------------------- MODULE PreparationRetries ---------------------------
(***************************************************************************)
(* The two loops around the speculative rounds.  Before it plans, notlin   *)
(* prepares the sources speculatively: getter families get a common layout *)
(* (plan_workspace_migration) and collection contracts a @JvmWildcard for  *)
(* the classes that implement them (plan_workspace_migration_prepared).    *)
(* Preparation that served no accepted Java is dropped and everything is   *)
(* planned again from the originals, until all of it is of use.            *)
(***************************************************************************)
EXTENDS Naturals, FiniteSets

CONSTANTS
  Families,           \* getter families
  Owners,             \* declarations that may become Java
  Workspaces,
  Prepared(_),        \* the families prepare() lays out
  Descendants(_, _),  \* Descendants(w, f): declarations that may use family f
  Required(_, _),     \* Required(w, F): implementers of collection contracts
  Accepts(_, _, _),   \* Accepts(w, F, R): declarations accepted on such sources
  Rounds(_, _, _),    \* speculative rounds that planning takes
  Breaks(_, _, _),    \* overlaying or planning such sources fails
  Intersects(_, _, _),\* strict mode vetoes a source the families of F changed
  Longest,            \* no planning takes more rounds than this
  Limit               \* --max-pass, for all attempts of the inner loop

ASSUME RetriesAssumption ==
  /\ Limit \in Nat /\ Longest \in Nat
  /\ \A w \in Workspaces :
       /\ Prepared(w) \in SUBSET Families
       /\ \A F \in SUBSET Families : Required(w, F) \in SUBSET Owners
       /\ \A F \in SUBSET Families, R \in SUBSET Owners : Rounds(w, F, R) \in 1..Longest

VARIABLES
  workspace,
  families,       \* prepared families not found useless yet
  requirements,   \* implementers whose contracts are annotated
  completed,      \* rounds the attempts for these families took
  candidate,      \* declarations of the last plan
  stage,          \* "plan" or "review": inner or outer loop
  outcome

vars == <<workspace, families, requirements, completed, candidate, stage, outcome>>

Init ==
  /\ workspace \in Workspaces
  /\ families = Prepared(workspace)
  /\ requirements = Required(workspace, families)
  /\ completed = 0
  /\ candidate = {}
  /\ stage = "plan"
  /\ outcome = "running"

PlanFrom(F, R) == Accepts(workspace, F, R)

Needed(F, R) == Rounds(workspace, F, R)

MutantSupportedAny(R, accepted) == IF accepted \cap R # {} THEN R ELSE {}

MutantDropAll(R, accepted) == IF R \subseteq accepted THEN R ELSE {}

(* requirements.retain: the whole group of a failed implementer goes.      *)
Supported(R, accepted) == R \cap accepted

(* retain_used_families: some descendant was accepted.                     *)
Used(F, accepted) == { f \in F : Descendants(workspace, f) \cap accepted # {} }

(* One attempt from the originals, and another with fewer groups if one    *)
(* of them was in vain.                                                    *)
Attempt ==
  LET rounds == Needed(families, requirements)
      accepted == PlanFrom(families, requirements)
  IN /\ outcome = "running"
     /\ stage = "plan"
     /\ ~ Breaks(workspace, families, requirements)
     /\ completed + rounds <= Limit
     /\ completed' = completed + rounds
     /\ candidate' = accepted
     /\ requirements' = Supported(requirements, accepted)
     /\ stage' = IF requirements' = requirements THEN "review" ELSE stage
     /\ UNCHANGED <<workspace, families, outcome>>

MutantOutOfRounds ==
  /\ outcome = "running"
  /\ stage = "plan"
  /\ completed + Needed(families, requirements) >= Limit
  /\ outcome' = "limit"
  /\ UNCHANGED <<workspace, families, requirements, completed, candidate, stage>>

(* The rounds run out: earlier attempts are charged to later ones.         *)
OutOfRounds ==
  /\ outcome = "running"
  /\ stage = "plan"
  /\ completed + Needed(families, requirements) > Limit
  /\ outcome' = "limit"
  /\ UNCHANGED <<workspace, families, requirements, completed, candidate, stage>>

(* The rounds refuse a conflict the preparation may have caused.           *)
PlanningFails ==
  /\ outcome = "running"
  /\ stage = "plan"
  /\ Breaks(workspace, families, requirements)
  /\ outcome' = "failed"
  /\ UNCHANGED <<workspace, families, requirements, completed, candidate, stage>>

Conflict == families # {} /\ Intersects(workspace, families, requirements)

(* verify_strict_vetoes, even if the family would be dropped next.         *)
Refuse ==
  /\ outcome = "running"
  /\ stage = "review"
  /\ Conflict
  /\ outcome' = "vetoed"
  /\ UNCHANGED <<workspace, families, requirements, completed, candidate, stage>>

MutantDiscardNothing ==
  /\ outcome = "running"
  /\ stage = "review"
  /\ ~ Conflict
  /\ Used(families, candidate) # families
  /\ requirements' = Required(workspace, families)
  /\ completed' = 0
  /\ stage' = "plan"
  /\ UNCHANGED <<workspace, families, candidate, outcome>>

(* Families of no use are dropped; with them the requirements found on     *)
(* their layout, and the budget starts afresh.                             *)
Discard ==
  /\ outcome = "running"
  /\ stage = "review"
  /\ ~ Conflict
  /\ Used(families, candidate) # families
  /\ families' = Used(families, candidate)
  /\ requirements' = Required(workspace, families')
  /\ completed' = 0
  /\ stage' = "plan"
  /\ UNCHANGED <<workspace, candidate, outcome>>

(* Without families the plan of the inner loop is returned as it is; with  *)
(* families finish moves its edits back to the originals.                  *)
Return ==
  /\ outcome = "running"
  /\ stage = "review"
  /\ ~ Conflict
  /\ Used(families, candidate) = families
  /\ outcome' = "accepted"
  /\ UNCHANGED <<workspace, families, requirements, completed, candidate, stage>>

Next == Attempt \/ OutOfRounds \/ PlanningFails \/ Refuse \/ Discard \/ Return

Spec == Init /\ [][Next]_vars
FairSpec == Spec /\ WF_vars(Next)

-------------------------------------------------------------------------------
(* The variables have their types; only contracts found on the layout of   *)
(* the families still prepared are required.                               *)
TypeOK ==
  /\ workspace \in Workspaces
  /\ families \subseteq Prepared(workspace)
  /\ requirements \subseteq Required(workspace, families)
  /\ completed \in 0..Limit
  /\ stage \in {"plan", "review"}
  /\ outcome \in {"running", "accepted", "limit", "failed", "vetoed"}

(* Preparation all of which serves Java accepted on top of it.             *)
SelfSupporting(F, R) ==
  /\ F \subseteq Prepared(workspace)
  /\ R \subseteq Required(workspace, F)
  /\ R \subseteq Accepts(workspace, F, R)
  /\ F = Used(F, Accepts(workspace, F, R))

(* "speculative annotations cannot leak": the plan that is returned was    *)
(* made from originals with exactly the preparation that is left, and all  *)
(* of that serves a declaration the plan itself accepts.                   *)
NothingLeaks ==
  outcome = "accepted" =>
    /\ candidate = Accepts(workspace, families, requirements)
    /\ SelfSupporting(families, requirements)

(* A workspace where preparation only ever helps.                          *)
Monotone(w) ==
  \A F1, F2 \in SUBSET Families : F1 \subseteq F2 =>
    /\ Required(w, F1) \subseteq Required(w, F2)
    /\ \A R1, R2 \in SUBSET Owners :
         R1 \subseteq R2 => Accepts(w, F1, R1) \subseteq Accepts(w, F2, R2)

(* Dropping what failed gives nothing away there: the preparation that is  *)
(* left holds every one that supports itself.                              *)
LargestSupported ==
  outcome = "accepted" /\ Monotone(workspace) =>
    \A F \in SUBSET Families, R \in SUBSET Owners :
      SelfSupporting(F, R) => F \subseteq families /\ R \subseteq requirements

(* Every attempt but the last of an inner loop drops a group, so as many   *)
(* attempts as there are groups and one more have to fit the budget; only  *)
(* a lower --max-pass ends the run.                                        *)
LimitOnlyIfTooLow ==
  outcome = "limit" => Limit < (Cardinality(Required(workspace, families)) + 1) * Longest

(* The retry set "strictly shrinks rather than oscillating", in both loops *)
(* although the outer one brings back requirements and rounds.             *)
RetriesEnd == <>(outcome # "running")

(* What is prepared belongs to the layout at hand, and a plan is returned  *)
(* only with the preparation its own Java needs.                           *)
PreparationConsistent == TypeOK /\ NothingLeaks
=================================================================================
