--------------------------- MODULE RetentionFixpoint ---------------------------
(***************************************************************************)
(* plan_workspace_cold_mode as it runs: a pass prepares only the files     *)
(* whose recorded ownership queries the last change of the retained set    *)
(* could answer differently, on parallel workers and in any order, and     *)
(* takes the exact ownership from a cache that keeps the plans of all the  *)
(* others from earlier passes.                                             *)
(***************************************************************************)
EXTENDS OwnershipPlanning, FiniteSets

VARIABLES
  snapshot, retained, forced, history, passes, outcome,   \* as in FullReplanning
  cache,     \* the last plan of each file with the reads it made
  indices    \* the files this pass still has to prepare

(* A slot nothing was stored in yet: it contributes no owner, and its file *)
(* is queued in the first pass.                                            *)
NoPlan == [owned |-> {}, symbols |-> {}, names |-> {}]

iterationVars == <<snapshot, retained, forced, history, passes, outcome>>
vars == <<snapshot, retained, forced, history, passes, outcome, cache, indices>>

MutantWarmInit ==
  /\ snapshot \in Snapshots
  /\ retained \in SUBSET Symbols
  /\ forced = {}
  /\ history = << retained >>
  /\ passes = 0
  /\ outcome = "running"
  /\ cache = [f \in Files |-> NoPlan]
  /\ indices = Files

Init ==
  /\ snapshot \in Snapshots
  /\ retained = {}
  /\ forced = {}
  /\ history = << {} >>
  /\ passes = 0
  /\ outcome = "running"
  /\ cache = [f \in Files |-> NoPlan]
  /\ indices = Files

(* One job of translate_indices.  The workers share the immutable planner  *)
(* and their results are collected whatever order they finish in.          *)
Prepare(f) ==
  /\ outcome = "running"
  /\ passes < MaxPasses(snapshot)
  /\ f \in indices
  /\ cache' = [cache EXCEPT ![f] = CachedPlan(snapshot, f, retained, forced)]
  /\ indices' = indices \ {f}
  /\ UNCHANGED iterationVars

(* The ownership the cache amounts to once the pass has prepared its files.*)
Exact == UNION { cache[f].owned : f \in Files }

MutantNothingSeen(S) == FALSE

Seen(S) == \E i \in 1..Len(history) : history[i] = S

CycleStates(exact) ==
  { history[j] : j \in { k \in 1..Len(history) :
                           \E i \in 1..k : history[i] = exact } }

MutantAffectedByExactReads(next) ==
  { f \in Files : cache[f].symbols \cap Delta(retained, next) # {} }

MutantAffectedByAdditions(next) ==
  { f \in Files :
      AffectedBy(snapshot, cache[f].symbols, cache[f].names, next \ retained) }

(* The files whose cached plan may not hold for the next retained set.     *)
Affected(next) ==
  { f \in Files :
      AffectedBy(snapshot, cache[f].symbols, cache[f].names, Delta(retained, next)) }

Owners(symbols) == { f \in Files : Declared(snapshot, f) \cap symbols # {} }

PassEnds ==
  /\ outcome = "running"
  /\ passes < MaxPasses(snapshot)
  /\ indices = {}
  /\ passes' = passes + 1
  /\ UNCHANGED <<snapshot, cache>>

Converge ==
  /\ PassEnds
  /\ Exact = retained
  /\ outcome' = "converged"
  /\ UNCHANGED <<retained, forced, history, indices>>

(* A retained set seen before: pin what varies over the cycle, and prepare *)
(* again the files that own a pinned declaration besides the affected ones.*)
(* With nothing left to pin the call fails.                                *)
Cycle ==
  LET exact == Exact
      newlyForced == CycleVarying(CycleStates(exact)) \ forced
      next == exact \cup forced \cup newlyForced
  IN /\ PassEnds
     /\ exact # retained
     /\ Seen(exact)
     /\ outcome' = IF newlyForced = {} THEN "repeated" ELSE outcome
     /\ forced' = forced \cup newlyForced
     /\ retained' = IF newlyForced = {} THEN retained ELSE next
     /\ history' = IF newlyForced = {} THEN history ELSE << next >>
     /\ indices' = IF newlyForced = {} THEN indices
                   ELSE Affected(next) \cup Owners(newlyForced)

Advance ==
  LET exact == Exact
  IN /\ PassEnds
     /\ exact # retained
     /\ ~ Seen(exact)
     /\ retained' = exact
     /\ history' = Append(history, exact)
     /\ indices' = Affected(exact)
     /\ UNCHANGED <<forced, outcome>>

MutantPassLimit ==
  /\ outcome = "running"
  /\ passes >= MaxPasses(snapshot) - 1
  /\ outcome' = "limit"
  /\ UNCHANGED <<snapshot, retained, forced, history, passes, cache, indices>>

PassLimit ==
  /\ outcome = "running"
  /\ passes = MaxPasses(snapshot)
  /\ outcome' = "limit"
  /\ UNCHANGED <<snapshot, retained, forced, history, passes, cache, indices>>

Next ==
  \/ \E f \in Files : Prepare(f)
  \/ Converge
  \/ Cycle
  \/ Advance
  \/ PassLimit

Spec == Init /\ [][Next]_vars

(* The workers and the loop are plain running code: nothing stops them.    *)
FairSpec == Spec /\ WF_vars(Next)

-------------------------------------------------------------------------------
Outcomes == {"running", "converged", "repeated", "limit"}

(* Shape of the state: the current hypothesis closes the history and holds *)
(* every pin, and every file has a cache slot.                             *)
TypeOK ==
  /\ snapshot \in Snapshots
  /\ retained \subseteq Symbols
  /\ forced \subseteq retained
  /\ history \in Seq(SUBSET Symbols)
  /\ Len(history) > 0
  /\ history[Len(history)] = retained
  /\ passes \in 0..MaxPasses(snapshot)
  /\ outcome \in Outcomes
  /\ DOMAIN cache = Files
  /\ indices \subseteq Files
  /\ \A f \in Files : cache[f].owned \subseteq Symbols

(* A plan kept from an earlier pass is the plan this pass would make, for  *)
(* every file whose queries are recorded, whatever the other files do: the *)
(* affected_by filter and the pinned owners leave no stale plan behind.    *)
CacheCoherent ==
  outcome = "running" =>
    \A f \in Files \ indices :
      \/ cache[f] = CachedPlan(snapshot, f, retained, forced)
      \/ ~ ReadsRecorded(snapshot, f)

(* What a converged call returns: a retained set that is what the returned *)
(* plans own together, every plan of a file whose queries are recorded     *)
(* exact for that set, and, when all files are such, a set that reproduces *)
(* itself under a full pass.                                               *)
ConvergedPlansExact ==
  outcome = "converged" =>
    /\ retained = Exact
    /\ \A f \in Files :
         \/ cache[f] = CachedPlan(snapshot, f, retained, forced)
         \/ ~ ReadsRecorded(snapshot, f)
    /\ \/ retained = FullPass(snapshot, retained, forced)
       \/ ~ AllReadsRecorded(snapshot)

(* The "entered a repeated retained symbol set" error of the loop cannot   *)
(* be returned: a cycle always has a varying symbol that is not pinned.    *)
NeverRepeated == outcome # "repeated"

(* A workspace without release rules gets the least retained set: nothing  *)
(* is pinned and no smaller set of declarations closed under the rules     *)
(* exists ("recompute the least fixpoint from current facts").             *)
LeastRetention ==
  (outcome = "converged" /\ Monotone(snapshot)) =>
    /\ forced = {}
    /\ \A R \in SUBSET Symbols :
         FullPass(snapshot, R, {}) \subseteq R => retained \subseteq R

(* Pins only ever grow, and a pinned declaration stays retained.           *)
PinsPermanent == [][forced \subseteq forced' /\ forced' \subseteq retained']_vars

(* A pass for every retained set there is between two pins, and a pin for  *)
(* every declaration.                                                      *)
AllPasses == (Cardinality(Symbols) + 1) * 2 ^ Cardinality(Symbols)

(* Pinning breaks every oscillation: with enough passes allowed the call   *)
(* ends with a fixpoint, whatever the rules.                               *)
AlwaysConverges ==
  MaxPasses(snapshot) >= AllPasses => <>(outcome = "converged")

(* A workspace without release rules needs at most one pass more than it   *)
(* has declarations; only rules that release can run into the limit.       *)
LimitOnlyByRelease ==
  (outcome = "limit" /\ Monotone(snapshot)) =>
    MaxPasses(snapshot) <= Cardinality(Symbols)

(* Where all queries are recorded the incremental planner takes exactly    *)
(* the steps of the one that plans everything in every pass.               *)
Full == INSTANCE FullReplanning

ImplementsFullReplanning == Full!Spec

(* What the loop returns can be trusted: in every pass every plan of a     *)
(* file with recorded queries is the one this pass would make, what        *)
(* converges is exact, and nothing ends in the "repeated retained symbol   *)
(* set" error.                                                             *)
PlansConsistent == TypeOK /\ CacheCoherent /\ ConvergedPlansExact /\ NeverRepeated
=============================================================================
