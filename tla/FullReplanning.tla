---------------------------- MODULE FullReplanning ----------------------------
(***************************************************************************)
(* The reference ownership iteration: every pass plans every file (the     *)
(* `incremental == false` mode of plan_workspace_cold_mode, which the      *)
(* repository's tests keep as the implementation to compare with).  No     *)
(* cache and no read tracking: the next retained set is a function of the  *)
(* current one.                                                            *)
(***************************************************************************)
EXTENDS OwnershipPlanning

VARIABLES
  snapshot,   \* the workspace being planned
  retained,   \* the hypothesis of the current pass
  forced,     \* declarations pinned by an ownership cycle
  history,    \* retained sets since the last pin, oldest first
  passes,     \* passes finished
  outcome     \* "running", or how the call returned

vars == <<snapshot, retained, forced, history, passes, outcome>>

Init ==
  /\ snapshot \in Snapshots
  /\ retained = {}
  /\ forced = {}
  /\ history = << {} >>
  /\ passes = 0
  /\ outcome = "running"

Seen(S) == \E i \in 1..Len(history) : history[i] = S

(* The states of the cycle that `exact` closes.                            *)
CycleStates(exact) ==
  { history[j] : j \in { k \in 1..Len(history) :
                           \E i \in 1..k : history[i] = exact } }

Converge(exact) ==
  /\ exact = retained
  /\ outcome' = "converged"
  /\ UNCHANGED <<retained, forced, history>>

(* A repeated set: pin what varies over the cycle and start afresh from    *)
(* there; give up when all of it is pinned already.                        *)
Cycle(exact) ==
  LET newlyForced == CycleVarying(CycleStates(exact)) \ forced
      next == exact \cup forced \cup newlyForced
  IN /\ exact # retained
     /\ Seen(exact)
     /\ outcome' = IF newlyForced = {} THEN "repeated" ELSE outcome
     /\ forced' = forced \cup newlyForced
     /\ retained' = IF newlyForced = {} THEN retained ELSE next
     /\ history' = IF newlyForced = {} THEN history ELSE << next >>

Advance(exact) ==
  /\ exact # retained
  /\ ~ Seen(exact)
  /\ retained' = exact
  /\ history' = Append(history, exact)
  /\ UNCHANGED <<forced, outcome>>

Pass ==
  LET exact == FullPass(snapshot, retained, forced)
  IN /\ outcome = "running"
     /\ passes < MaxPasses(snapshot)
     /\ Converge(exact) \/ Cycle(exact) \/ Advance(exact)
     /\ passes' = passes + 1
     /\ UNCHANGED snapshot

PassLimit ==
  /\ outcome = "running"
  /\ passes = MaxPasses(snapshot)
  /\ outcome' = "limit"
  /\ UNCHANGED <<snapshot, retained, forced, history, passes>>

Next == Pass \/ PassLimit

Spec == Init /\ [][Next]_vars
=============================================================================
