------------------------ MODULE RetentionFixpointProofs ------------------------
(***************************************************************************)
(* Proofs about RetentionFixpoint for every workspace, every planner and   *)
(* every pass limit.  What needs recorded reads says so: of one file, of   *)
(* all files of a workspace, or not at all.                                *)
(***************************************************************************)
EXTENDS RetentionFixpoint, FiniteSetTheorems, TLAPS

(* Every declaration some plan of the workspace decides.                   *)
AllDeclared(w) == UNION { Declared(w, f) : f \in Files }

(* Where the symbols of the state come from: plans own declarations of     *)
(* their own file, and hypotheses and pins are such declarations.          *)
Provenance ==
  /\ \A f \in Files : cache[f].owned \subseteq Declared(snapshot, f)
  /\ \A i \in 1..Len(history) : history[i] \subseteq AllDeclared(snapshot)

(* Every hypothesis since the last pin holds every pin.                    *)
PinsInHistory == \A i \in 1..Len(history) : forced \subseteq history[i]

(* A plan that waits for nothing owns the pinned declarations of its file: *)
(* their owners were planned again when they were pinned.                  *)
PinsPlanned ==
  outcome = "running" =>
    \A f \in Files \ indices : forced \cap Declared(snapshot, f) \subseteq cache[f].owned

IInv ==
  /\ TypeOK
  /\ Provenance
  /\ PinsInHistory
  /\ PinsPlanned
  /\ CacheCoherent

-------------------------------------------------------------------------------
(* A preparation none of whose queries changed its answer, of a file none  *)
(* of whose declarations was pinned meanwhile, is what planning the file   *)
(* again would give: the fact translate_one's cache rests on.              *)
LEMMA KeptPlanExact ==
  ASSUME NEW f \in Files, ReadsRecorded(snapshot, f),
         NEW R1 \in SUBSET Symbols, NEW R2 \in SUBSET Symbols,
         NEW P1 \in SUBSET R1, NEW P2 \in SUBSET R2,
         P1 \cap Declared(snapshot, f) = P2 \cap Declared(snapshot, f),
         ~ AffectedBy(snapshot, CachedPlan(snapshot, f, R1, P1).symbols,
                      CachedPlan(snapshot, f, R1, P1).names, Delta(R1, R2))
  PROVE  CachedPlan(snapshot, f, R2, P2) = CachedPlan(snapshot, f, R1, P1)
<1>1. Hint(R1, P1) = R1 /\ Hint(R2, P2) = R2
  BY DEF Hint
<1>2. CachedPlan(snapshot, f, R1, P1).symbols = SymbolReads(snapshot, f, R1)
  BY <1>1 DEF CachedPlan
<1>3. CachedPlan(snapshot, f, R1, P1).names = NameReads(snapshot, f, R1)
  BY <1>1 DEF CachedPlan
<1>4. /\ Prepared(snapshot, f, R1) = Prepared(snapshot, f, R2)
      /\ SymbolReads(snapshot, f, R1) = SymbolReads(snapshot, f, R2)
      /\ NameReads(snapshot, f, R1) = NameReads(snapshot, f, R2)
  BY <1>2, <1>3 DEF ReadsRecorded
<1> QED
  BY <1>1, <1>4 DEF CachedPlan, KotlinOwned

(* The ownership the cache amounts to at the end of a pass is made of      *)
(* declarations of the workspace and holds every pin.                      *)
LEMMA ExactHoldsPins ==
  ASSUME IInv, outcome = "running", indices = {}
  PROVE  /\ Exact \subseteq AllDeclared(snapshot)
         /\ Exact \subseteq Symbols
         /\ forced \subseteq Exact
<1>1. Exact \subseteq AllDeclared(snapshot) /\ Exact \subseteq Symbols
  BY DEF IInv, TypeOK, Provenance, Exact, AllDeclared
<1>2. forced \subseteq AllDeclared(snapshot)
  BY DEF IInv, TypeOK, Provenance, PinsInHistory
<1>3. \A f \in Files : forced \cap Declared(snapshot, f) \subseteq cache[f].owned
  BY DEF IInv, PinsPlanned
<1>4. forced \subseteq Exact
  BY <1>2, <1>3 DEF Exact, AllDeclared
<1> QED
  BY <1>1, <1>4

(* Where all files record their queries it is what a full pass computes.   *)
LEMMA ExactIsFullPass ==
  ASSUME IInv, outcome = "running", indices = {}, AllReadsRecorded(snapshot)
  PROVE  Exact = FullPass(snapshot, retained, forced)
<1>1. \A f \in Files : cache[f] = CachedPlan(snapshot, f, retained, forced)
  BY DEF IInv, CacheCoherent, AllReadsRecorded
<1>2. \A f \in Files : cache[f].owned = KotlinOwned(snapshot, f, retained, forced)
  <2>1. ASSUME NEW f \in Files
        PROVE  CachedPlan(snapshot, f, retained, forced).owned
                 = KotlinOwned(snapshot, f, retained, forced)
    BY DEF CachedPlan
  <2> QED
    BY <1>1, <2>1
<1> QED
  BY <1>2 DEF Exact, FullPass

-------------------------------------------------------------------------------
LEMMA InitIInv == Init => IInv
<1> SUFFICES ASSUME Init PROVE IInv
  OBVIOUS
<1>1. history \in Seq(SUBSET Symbols) /\ Len(history) = 1 /\ history[1] = {}
  BY DEF Init
<1>2. TypeOK
  <2>1. snapshot \in Snapshots /\ MaxPasses(snapshot) \in Nat
    BY PassesAssumption DEF Init
  <2> QED
    BY <1>1, <2>1 DEF Init, TypeOK, Outcomes, NoPlan
<1>3. Provenance /\ PinsInHistory
  BY <1>1 DEF Init, Provenance, PinsInHistory, NoPlan
<1>4. CacheCoherent /\ PinsPlanned
  BY DEF Init, CacheCoherent, PinsPlanned
<1> QED
  BY <1>2, <1>3, <1>4 DEF IInv

LEMMA PrepareIInv ==
  ASSUME IInv, NEW f \in Files, Prepare(f)
  PROVE  IInv'
<1> DEFINE plan == CachedPlan(snapshot, f, retained, forced)
<1>1. /\ snapshot' = snapshot /\ retained' = retained /\ forced' = forced
      /\ history' = history /\ passes' = passes /\ outcome' = outcome
  BY DEF Prepare, iterationVars
<1>2. /\ DOMAIN cache' = Files
      /\ \A g \in Files : cache'[g] = IF g = f THEN plan ELSE cache[g]
  BY DEF Prepare, IInv, TypeOK
<1>3. Hint(retained, forced) \in SUBSET Symbols
  BY DEF IInv, TypeOK, Hint
<1>4. plan.owned \subseteq Declared(snapshot, f)
  <2>1. plan.owned = KotlinOwned(snapshot, f, retained, forced)
    BY DEF CachedPlan
  <2>2. Prepared(snapshot, f, Hint(retained, forced)) \subseteq Declared(snapshot, f)
    BY <1>3, PreparedAssumption DEF IInv, TypeOK
  <2> QED
    BY <2>1, <2>2 DEF KotlinOwned
<1>5. Provenance'
  <2>1. ASSUME NEW g \in Files PROVE cache'[g].owned \subseteq Declared(snapshot, g)
    BY <1>2, <1>4 DEF IInv, Provenance
  <2> QED
    BY <1>1, <2>1 DEF IInv, Provenance, AllDeclared
<1>6. TypeOK'
  <2>1. \A g \in Files : cache'[g].owned \subseteq Symbols
    BY <1>1, <1>5, DeclaredAssumption DEF Provenance, IInv, TypeOK
  <2>2. indices' \subseteq Files
    BY DEF Prepare, IInv, TypeOK
  <2> QED
    BY <1>1, <1>2, <2>1, <2>2 DEF IInv, TypeOK
<1>7. PinsInHistory'
  BY <1>1 DEF IInv, PinsInHistory
<1>8. CacheCoherent'
  <2>1. ASSUME NEW g \in Files \ indices'
        PROVE  \/ cache'[g] = CachedPlan(snapshot, g, retained, forced)
               \/ ~ ReadsRecorded(snapshot, g)
    <3>1. g = f \/ g \in Files \ indices
      BY DEF Prepare
    <3>2. outcome = "running"
      BY DEF Prepare
    <3> QED
      BY <1>2, <3>1, <3>2 DEF IInv, CacheCoherent
  <2> QED
    BY <1>1, <2>1 DEF CacheCoherent
<1>9. PinsPlanned'
  <2>1. ASSUME NEW g \in Files \ indices'
        PROVE  forced \cap Declared(snapshot, g) \subseteq cache'[g].owned
    <3>1. g = f \/ g \in Files \ indices
      BY DEF Prepare
    <3>2. outcome = "running"
      BY DEF Prepare
    <3>3. CASE g = f
      <4>1. plan.owned = KotlinOwned(snapshot, f, retained, forced)
        BY DEF CachedPlan
      <4> QED
        BY <1>2, <3>3, <4>1 DEF KotlinOwned
    <3>4. CASE g # f
      BY <1>2, <3>1, <3>2, <3>4 DEF IInv, PinsPlanned
    <3> QED
      BY <3>3, <3>4
  <2> QED
    BY <1>1, <2>1 DEF PinsPlanned
<1> QED
  BY <1>5, <1>6, <1>7, <1>8, <1>9 DEF IInv

LEMMA PassesNat ==
  ASSUME IInv
  PROVE  MaxPasses(snapshot) \in Nat
<1>1. snapshot \in Snapshots
  BY DEF IInv, TypeOK
<1> QED
  BY <1>1, PassesAssumption

LEMMA ConvergeIInv ==
  ASSUME IInv, Converge
  PROVE  IInv'
<1>1. outcome' = "converged" /\ passes' = passes + 1 /\ passes < MaxPasses(snapshot)
  BY DEF Converge, PassEnds
<1>2. UNCHANGED <<snapshot, retained, forced, history, cache, indices>>
  BY DEF Converge, PassEnds
<1>3. TypeOK'
  BY <1>1, <1>2, PassesNat DEF IInv, TypeOK, Outcomes
<1>4. Provenance' /\ PinsInHistory'
  BY <1>2 DEF IInv, Provenance, PinsInHistory, AllDeclared
<1>5. CacheCoherent' /\ PinsPlanned'
  BY <1>1 DEF CacheCoherent, PinsPlanned
<1> QED
  BY <1>3, <1>4, <1>5 DEF IInv

(* The pass goes on with the exact ownership as its new hypothesis: the    *)
(* files the change could not affect keep plans that are still exact.      *)
LEMMA AdvanceIInv ==
  ASSUME IInv, Advance
  PROVE  IInv'
<1>1. /\ outcome = "running" /\ indices = {} /\ outcome' = outcome
      /\ passes' = passes + 1 /\ passes < MaxPasses(snapshot)
  BY DEF Advance, PassEnds
<1>2. snapshot' = snapshot /\ forced' = forced /\ cache' = cache
  BY DEF Advance, PassEnds
<1>3. /\ retained' = Exact /\ history' = Append(history, Exact)
      /\ indices' = Affected(Exact)
  BY DEF Advance
<1>4. Exact \subseteq AllDeclared(snapshot) /\ Exact \subseteq Symbols /\ forced \subseteq Exact
  BY <1>1, ExactHoldsPins
<1>5. /\ history' \in Seq(SUBSET Symbols) /\ Len(history') = Len(history) + 1
      /\ history'[Len(history')] = Exact
      /\ \A i \in 1..Len(history') : history'[i] = Exact \/ (i \in 1..Len(history) /\ history'[i] = history[i])
  BY <1>3, <1>4 DEF IInv, TypeOK
<1>6. TypeOK'
  <2>1. retained' \subseteq Symbols /\ forced' \subseteq retained'
    BY <1>2, <1>3, <1>4
  <2>2. Len(history') > 0 /\ history'[Len(history')] = retained'
    BY <1>3, <1>5 DEF IInv, TypeOK
  <2>3. passes' \in 0..MaxPasses(snapshot') /\ outcome' \in Outcomes
    BY <1>1, <1>2, PassesNat DEF IInv, TypeOK
  <2>4. indices' \subseteq Files
    BY <1>3 DEF Affected
  <2> QED
    BY <1>2, <1>5, <2>1, <2>2, <2>3, <2>4 DEF IInv, TypeOK
<1>7. Provenance' /\ PinsInHistory'
  BY <1>2, <1>4, <1>5 DEF IInv, Provenance, PinsInHistory, AllDeclared
<1>8. CacheCoherent'
  <2>1. ASSUME NEW f \in Files, f \notin indices', ReadsRecorded(snapshot, f)
        PROVE  cache[f] = CachedPlan(snapshot, f, Exact, forced)
    <3>1. cache[f] = CachedPlan(snapshot, f, retained, forced)
      BY <1>1, <2>1 DEF IInv, CacheCoherent
    <3>2. ~ AffectedBy(snapshot, cache[f].symbols, cache[f].names, Delta(retained, Exact))
      BY <1>3, <2>1 DEF Affected
    <3>3. CachedPlan(snapshot, f, Exact, forced) = CachedPlan(snapshot, f, retained, forced)
      <4>1. retained \in SUBSET Symbols /\ forced \in SUBSET retained
        BY DEF IInv, TypeOK
      <4>2. Exact \in SUBSET Symbols /\ forced \in SUBSET Exact
        BY <1>4
      <4>3. ~ AffectedBy(snapshot, CachedPlan(snapshot, f, retained, forced).symbols,
                         CachedPlan(snapshot, f, retained, forced).names, Delta(retained, Exact))
        BY <3>1, <3>2
      <4> QED
        BY <2>1, <4>1, <4>2, <4>3, KeptPlanExact
    <3> QED
      BY <3>1, <3>3
  <2> QED
    BY <1>2, <1>3, <2>1 DEF CacheCoherent
<1>9. PinsPlanned'
  BY <1>1, <1>2 DEF IInv, PinsPlanned
<1> QED
  BY <1>6, <1>7, <1>8, <1>9 DEF IInv

(* The states of a cycle that is being broken hold the exact ownership and *)
(* the current hypothesis; symbols the cycle varies over are not pinned.   *)
LEMMA CycleStatesShape ==
  ASSUME IInv, outcome = "running", indices = {}, Seen(Exact)
  PROVE  /\ Exact \in CycleStates(Exact)
         /\ retained \in CycleStates(Exact)
         /\ \A S \in CycleStates(Exact) :
              S \subseteq AllDeclared(snapshot) /\ S \subseteq Symbols /\ forced \subseteq S
<1>1. PICK i \in 1..Len(history) : history[i] = Exact
  BY DEF Seen
<1>2. /\ i \in 1..i /\ i \in 1..Len(history)
      /\ Len(history) \in 1..Len(history) /\ i \in 1..Len(history)
  BY DEF IInv, TypeOK
<1>3. Exact \in CycleStates(Exact)
  BY <1>1, <1>2 DEF CycleStates
<1>4. history[Len(history)] \in CycleStates(Exact)
  BY <1>1, <1>2 DEF CycleStates
<1>5. retained \in CycleStates(Exact)
  BY <1>4 DEF IInv, TypeOK
<1>6. ASSUME NEW S \in CycleStates(Exact)
      PROVE  S \subseteq AllDeclared(snapshot) /\ S \subseteq Symbols /\ forced \subseteq S
  <2>1. PICK j \in 1..Len(history) : S = history[j]
    BY DEF CycleStates
  <2>2. S \in SUBSET Symbols
    BY <2>1 DEF IInv, TypeOK
  <2> QED
    BY <2>1, <2>2 DEF IInv, Provenance, PinsInHistory
<1> QED
  BY <1>3, <1>5, <1>6

LEMMA CycleAlwaysPins ==
  ASSUME IInv, outcome = "running", indices = {}, Seen(Exact), Exact # retained
  PROVE  CycleVarying(CycleStates(Exact)) \ forced # {}
<1>1. PICK s \in Symbols : (s \in Exact /\ s \notin retained) \/ (s \notin Exact /\ s \in retained)
  BY ExactHoldsPins DEF IInv, TypeOK
<1>2. s \in UNION CycleStates(Exact)
  BY <1>1, CycleStatesShape
<1>3. ~ \A S \in CycleStates(Exact) : s \in S
  BY <1>1, CycleStatesShape
<1>4. s \notin forced
  BY <1>3, CycleStatesShape
<1> QED
  BY <1>2, <1>3, <1>4 DEF CycleVarying

LEMMA CycleIInv ==
  ASSUME IInv, Cycle
  PROVE  IInv' /\ outcome' = "running"
<1> DEFINE newlyForced == CycleVarying(CycleStates(Exact)) \ forced
           next == Exact \cup forced \cup newlyForced
<1>1. /\ outcome = "running" /\ indices = {} /\ Seen(Exact) /\ Exact # retained
      /\ passes' = passes + 1 /\ passes < MaxPasses(snapshot)
  BY DEF Cycle, PassEnds
<1>2. newlyForced # {}
  BY <1>1, CycleAlwaysPins
<1>3. snapshot' = snapshot /\ cache' = cache
  BY DEF Cycle, PassEnds
<1>4. /\ outcome' = outcome /\ forced' = forced \cup newlyForced
      /\ retained' = next /\ history' = << next >>
      /\ indices' = Affected(next) \cup Owners(newlyForced)
  BY <1>2 DEF Cycle
<1>5. newlyForced \subseteq AllDeclared(snapshot) /\ newlyForced \subseteq Symbols
  BY <1>1, CycleStatesShape DEF CycleVarying
<1>6. Exact \subseteq AllDeclared(snapshot) /\ Exact \subseteq Symbols /\ forced \subseteq Exact
  BY <1>1, ExactHoldsPins
<1>7. next \subseteq AllDeclared(snapshot) /\ next \subseteq Symbols
  BY <1>5, <1>6
<1> HIDE DEF newlyForced
<1>8. history' \in Seq(SUBSET Symbols) /\ Len(history') = 1 /\ history'[1] = next
  BY <1>4, <1>7
<1>9. TypeOK'
  <2>1. retained' \subseteq Symbols /\ forced' \subseteq retained'
    BY <1>4, <1>7
  <2>2. Len(history') > 0 /\ history'[Len(history')] = retained'
    BY <1>4, <1>8
  <2>3. passes' \in 0..MaxPasses(snapshot') /\ outcome' \in Outcomes
    BY <1>1, <1>3, <1>4, PassesNat DEF IInv, TypeOK
  <2>4. indices' \subseteq Files
    BY <1>4 DEF Affected, Owners
  <2> QED
    BY <1>3, <1>8, <2>1, <2>2, <2>3, <2>4 DEF IInv, TypeOK
<1>10. Provenance'
  BY <1>3, <1>7, <1>8 DEF IInv, Provenance, AllDeclared
<1>11. PinsInHistory'
  BY <1>4, <1>8 DEF PinsInHistory
<1>12. CacheCoherent'
  <2>1. ASSUME NEW f \in Files, f \notin indices', ReadsRecorded(snapshot, f)
        PROVE  cache[f] = CachedPlan(snapshot, f, next, forced \cup newlyForced)
    <3>1. cache[f] = CachedPlan(snapshot, f, retained, forced)
      BY <1>1, <2>1 DEF IInv, CacheCoherent
    <3>2. ~ AffectedBy(snapshot, cache[f].symbols, cache[f].names, Delta(retained, next))
      BY <1>4, <2>1 DEF Affected
    <3>3. newlyForced \cap Declared(snapshot, f) = {}
      BY <1>4, <2>1 DEF Owners
    <3>4. retained \in SUBSET Symbols /\ forced \in SUBSET retained
      BY DEF IInv, TypeOK
    <3>5. next \in SUBSET Symbols /\ forced \cup newlyForced \in SUBSET next
      BY <1>7
    <3>6. forced \cap Declared(snapshot, f) = (forced \cup newlyForced) \cap Declared(snapshot, f)
      BY <3>3
    <3>7. ~ AffectedBy(snapshot, CachedPlan(snapshot, f, retained, forced).symbols,
                       CachedPlan(snapshot, f, retained, forced).names, Delta(retained, next))
      BY <3>1, <3>2
    <3> HIDE DEF next
    <3>8. CachedPlan(snapshot, f, next, forced \cup newlyForced)
            = CachedPlan(snapshot, f, retained, forced)
      BY <2>1, <3>4, <3>5, <3>6, <3>7, KeptPlanExact
    <3> QED
      BY <3>1, <3>8
  <2> HIDE DEF next
  <2> QED
    BY <1>3, <1>4, <2>1 DEF CacheCoherent
<1>13. PinsPlanned'
  <2>1. ASSUME NEW f \in Files, f \notin indices'
        PROVE  (forced \cup newlyForced) \cap Declared(snapshot, f) \subseteq cache[f].owned
    <3>1. newlyForced \cap Declared(snapshot, f) = {}
      BY <1>4, <2>1 DEF Owners
    <3>2. forced \cap Declared(snapshot, f) \subseteq cache[f].owned
      BY <1>1 DEF IInv, PinsPlanned
    <3> QED
      BY <3>1, <3>2
  <2> QED
    BY <1>3, <1>4, <2>1 DEF PinsPlanned
<1> QED
  BY <1>1, <1>4, <1>9, <1>10, <1>11, <1>12, <1>13 DEF IInv

LEMMA PassLimitIInv ==
  ASSUME IInv, PassLimit
  PROVE  IInv'
<1>1. outcome' = "limit"
  BY DEF PassLimit
<1>2. UNCHANGED <<snapshot, retained, forced, history, passes, cache, indices>>
  BY DEF PassLimit
<1> QED
  BY <1>1, <1>2 DEF IInv, TypeOK, Outcomes, Provenance, PinsInHistory, PinsPlanned, CacheCoherent, AllDeclared

LEMMA StutterIInv ==
  ASSUME IInv, UNCHANGED vars
  PROVE  IInv'
BY DEF vars, IInv, TypeOK, Provenance, PinsInHistory, PinsPlanned, CacheCoherent, AllDeclared

LEMMA NextIInv == IInv /\ [Next]_vars => IInv'
BY PrepareIInv, ConvergeIInv, CycleIInv, AdvanceIInv, PassLimitIInv, StutterIInv DEF Next

-------------------------------------------------------------------------------
LEMMA InvariantIInv == Spec => []IInv
BY InitIInv, NextIInv, PTL DEF Spec

(* The state of plan_workspace_cold_mode keeps its shape: the current      *)
(* hypothesis closes the history and holds every pin.                      *)
THEOREM TypeCorrect == Spec => []TypeOK
BY InvariantIInv, PTL DEF IInv

(* The incremental planner never reuses a plan of a file with recorded     *)
(* queries that the current hypothesis would change, whatever the other    *)
(* files do (RetentionReads::affected_by and the pinned owners).           *)
THEOREM CacheStaysCoherent == Spec => []CacheCoherent
BY InvariantIInv, PTL DEF IInv

(* A converged call returns what its plans own; the plans of files with    *)
(* recorded queries hold for that set, and if all files are such, the set  *)
(* reproduces itself.                                                      *)
THEOREM ConvergedExactly == Spec => []ConvergedPlansExact
<1>1. Init => ConvergedPlansExact
  BY DEF Init, ConvergedPlansExact
<1>2. IInv /\ ConvergedPlansExact /\ [Next]_vars => ConvergedPlansExact'
  <2> SUFFICES ASSUME IInv, ConvergedPlansExact, [Next]_vars
               PROVE  ConvergedPlansExact'
    OBVIOUS
  <2>1. CASE \E f \in Files : Prepare(f)
    BY <2>1 DEF Prepare, iterationVars, ConvergedPlansExact
  <2>2. CASE Converge
    <3>1. outcome = "running" /\ indices = {} /\ Exact = retained
      BY <2>2 DEF Converge, PassEnds
    <3>2. UNCHANGED <<snapshot, retained, forced, cache>>
      BY <2>2 DEF Converge, PassEnds
    <3>3. retained = FullPass(snapshot, retained, forced) \/ ~ AllReadsRecorded(snapshot)
      BY <3>1, ExactIsFullPass
    <3>4. \A f \in Files : \/ cache[f] = CachedPlan(snapshot, f, retained, forced)
                         \/ ~ ReadsRecorded(snapshot, f)
      BY <3>1 DEF IInv, CacheCoherent
    <3> QED
      BY <3>1, <3>2, <3>3, <3>4 DEF ConvergedPlansExact, Exact
  <2>3. CASE Cycle
    BY <2>3, CycleIInv DEF ConvergedPlansExact
  <2>4. CASE Advance
    BY <2>4 DEF Advance, PassEnds, ConvergedPlansExact
  <2>5. CASE PassLimit
    BY <2>5 DEF PassLimit, ConvergedPlansExact
  <2>6. CASE UNCHANGED vars
    BY <2>6 DEF vars, ConvergedPlansExact, Exact
  <2> QED
    BY <2>1, <2>2, <2>3, <2>4, <2>5, <2>6 DEF Next
<1> QED
  BY <1>1, <1>2, InvariantIInv, PTL DEF Spec

(* The error "workspace retention entered a repeated retained symbol set"  *)
(* is unreachable.                                                         *)
THEOREM RepeatedUnreachable == Spec => []NeverRepeated
<1>1. Init => NeverRepeated
  BY DEF Init, NeverRepeated
<1>2. IInv /\ NeverRepeated /\ [Next]_vars => NeverRepeated'
  <2> SUFFICES ASSUME IInv, NeverRepeated, [Next]_vars
               PROVE  NeverRepeated'
    OBVIOUS
  <2>1. CASE \E f \in Files : Prepare(f)
    BY <2>1 DEF Prepare, iterationVars, NeverRepeated
  <2>2. CASE Converge
    BY <2>2 DEF Converge, NeverRepeated
  <2>3. CASE Cycle
    BY <2>3, CycleIInv DEF NeverRepeated
  <2>4. CASE Advance
    BY <2>4 DEF Advance, NeverRepeated
  <2>5. CASE PassLimit
    BY <2>5 DEF PassLimit, NeverRepeated
  <2>6. CASE UNCHANGED vars
    BY <2>6 DEF vars, NeverRepeated
  <2> QED
    BY <2>1, <2>2, <2>3, <2>4, <2>5, <2>6 DEF Next
<1> QED
  BY <1>1, <1>2, InvariantIInv, PTL DEF Spec

(* A pin is never lifted, and a pinned declaration never leaves the        *)
(* retained set, in any later pass.                                        *)
THEOREM PinsArePermanent == Spec => PinsPermanent
<1>1. IInv /\ [Next]_vars => [forced \subseteq forced' /\ forced' \subseteq retained']_vars
  <2> SUFFICES ASSUME IInv, [Next]_vars
               PROVE  [forced \subseteq forced' /\ forced' \subseteq retained']_vars
    OBVIOUS
  <2>1. IInv'
    BY NextIInv
  <2>2. forced' \subseteq retained'
    BY <2>1 DEF IInv, TypeOK
  <2>3. CASE Next
    <3>1. forced \subseteq forced'
      BY <2>3 DEF Next, Prepare, iterationVars, Converge, PassEnds, Cycle, Advance, PassLimit
    <3> QED
      BY <2>2, <3>1
  <2> QED
    BY <2>3
<1> QED
  BY <1>1, InvariantIInv, PTL DEF Spec, PinsPermanent

-------------------------------------------------------------------------------
(* Without release rules the iteration climbs: nothing is pinned, every    *)
(* earlier hypothesis is contained in the current one, a plan kept from an *)
(* earlier pass owns no more than this pass would find, stale or not, a    *)
(* pass only adds, and the hypothesis stays below every set the rules      *)
(* leave closed.                                                           *)
Climbing ==
  Monotone(snapshot) =>
    /\ forced = {}
    /\ \A i \in 1..Len(history) : history[i] \subseteq retained
    /\ \A f \in Files : cache[f].owned \subseteq Prepared(snapshot, f, retained)
    /\ retained \subseteq Exact
    /\ \A R \in SUBSET Symbols : FullPass(snapshot, R, {}) \subseteq R => retained \subseteq R

LEMMA ExactBelowClosed ==
  ASSUME IInv, Climbing, Monotone(snapshot),
         NEW R \in SUBSET Symbols, FullPass(snapshot, R, {}) \subseteq R
  PROVE  Exact \subseteq R
<1>1. retained \subseteq R /\ retained \in SUBSET Symbols
  BY DEF Climbing, IInv, TypeOK
<1>2. \A f \in Files : cache[f].owned \subseteq Prepared(snapshot, f, R)
  <2>1. \A f \in Files : Prepared(snapshot, f, retained) \subseteq Prepared(snapshot, f, R)
    BY <1>1 DEF Monotone
  <2> QED
    BY <2>1 DEF Climbing
<1>3. \A f \in Files : KotlinOwned(snapshot, f, R, {}) = Prepared(snapshot, f, R)
  BY DEF KotlinOwned, Hint
<1> QED
  BY <1>2, <1>3 DEF Exact, FullPass

LEMMA PrepareClimbing ==
  ASSUME IInv, Climbing, NEW f \in Files, Prepare(f)
  PROVE  Climbing'
<1>1. /\ snapshot' = snapshot /\ retained' = retained /\ forced' = forced
      /\ history' = history
  BY DEF Prepare, iterationVars
<1> SUFFICES ASSUME Monotone(snapshot) PROVE Climbing'
  BY <1>1 DEF Climbing, Monotone
<1>2. forced = {}
  BY DEF Climbing
<1>3. cache'[f].owned = Prepared(snapshot, f, retained)
  <2>1. cache'[f] = CachedPlan(snapshot, f, retained, forced)
    BY DEF Prepare, IInv, TypeOK
  <2> QED
    BY <1>2, <2>1 DEF CachedPlan, KotlinOwned, Hint
<1>4. \A g \in Files : g # f => cache'[g] = cache[g]
  BY DEF Prepare, IInv, TypeOK
<1>5. \A g \in Files : /\ cache[g].owned \subseteq cache'[g].owned
                       /\ cache'[g].owned \subseteq Prepared(snapshot, g, retained)
  BY <1>3, <1>4 DEF Climbing
<1>6. Exact \subseteq Exact'
  BY <1>5 DEF Exact
<1>7. retained \subseteq Exact'
  BY <1>6 DEF Climbing
<1>8. \A R \in SUBSET Symbols : FullPass(snapshot, R, {}) \subseteq R => retained \subseteq R
  BY DEF Climbing
<1>9. \A R : FullPass(snapshot', R, {})  = FullPass(snapshot, R, {})
  BY <1>1
<1> QED
  BY <1>1, <1>2, <1>5, <1>7, <1>8, <1>9 DEF Climbing

LEMMA AdvanceClimbing ==
  ASSUME IInv, Climbing, Advance
  PROVE  Climbing'
<1>1. /\ outcome = "running" /\ indices = {} /\ snapshot' = snapshot /\ forced' = forced
      /\ cache' = cache /\ retained' = Exact /\ history' = Append(history, Exact)
  BY DEF Advance, PassEnds
<1> SUFFICES ASSUME Monotone(snapshot) PROVE Climbing'
  BY <1>1 DEF Climbing, Monotone
<1>2. forced = {} /\ retained \in SUBSET Symbols
  BY DEF Climbing, IInv, TypeOK
<1>3. Exact \in SUBSET Symbols
  BY <1>1, ExactHoldsPins
<1>4. retained \subseteq Exact
  BY DEF Climbing
<1>5. \A f \in Files : cache[f].owned \subseteq Prepared(snapshot, f, Exact)
  <2>1. \A f \in Files : Prepared(snapshot, f, retained) \subseteq Prepared(snapshot, f, Exact)
    BY <1>2, <1>3, <1>4 DEF Monotone
  <2> QED
    BY <2>1 DEF Climbing
<1>6. ASSUME NEW i \in 1..Len(history') PROVE history'[i] \subseteq Exact
  <2>1. history'[i] = Exact \/ (i \in 1..Len(history) /\ history'[i] = history[i])
    BY <1>1, <1>3 DEF IInv, TypeOK
  <2> QED
    BY <1>4, <2>1 DEF Climbing
<1>7. \A R \in SUBSET Symbols : FullPass(snapshot, R, {}) \subseteq R => Exact \subseteq R
  BY ExactBelowClosed
<1>8. Exact' = Exact
  BY <1>1 DEF Exact
<1> QED
  BY <1>1, <1>2, <1>5, <1>6, <1>7, <1>8 DEF Climbing

(* A climbing iteration never returns to an earlier hypothesis.            *)
LEMMA ClimbingNeverCycles ==
  ASSUME IInv, Climbing, Monotone(snapshot), Cycle
  PROVE  FALSE
<1>1. Exact # retained /\ Seen(Exact)
  BY DEF Cycle
<1>2. Exact \subseteq retained
  BY <1>1 DEF Climbing, Seen
<1>3. retained \subseteq Exact
  BY DEF Climbing
<1> QED
  BY <1>1, <1>2, <1>3

LEMMA AlwaysClimbing == Spec => []Climbing
<1>1. Init => Climbing
  <2> SUFFICES ASSUME Init PROVE Climbing
    OBVIOUS
  <2>1. retained = {} /\ forced = {} /\ history = << {} >>
    BY DEF Init
  <2>2. \A i \in 1..Len(history) : history[i] \subseteq retained
    BY <2>1
  <2>3. \A f \in Files : cache[f].owned = {}
    BY DEF Init, NoPlan
  <2> QED
    BY <2>1, <2>2, <2>3 DEF Climbing
<1>2. IInv /\ Climbing /\ [Next]_vars => Climbing'
  <2> SUFFICES ASSUME IInv, Climbing, [Next]_vars
               PROVE  Climbing'
    OBVIOUS
  <2>1. CASE UNCHANGED <<snapshot, retained, forced, history, cache>>
    <3>1. /\ snapshot' = snapshot /\ retained' = retained /\ forced' = forced
          /\ history' = history /\ cache' = cache
      BY <2>1
    <3> QED
      BY <3>1 DEF Climbing, Monotone, FullPass, KotlinOwned, Hint, Exact
  <2>2. CASE Cycle
    <3>1. snapshot' = snapshot
      BY <2>2 DEF Cycle, PassEnds
    <3>2. ~ Monotone(snapshot)
      BY <2>2, ClimbingNeverCycles
    <3> QED
      BY <3>1, <3>2 DEF Climbing, Monotone
  <2>3. CASE Advance
    BY <2>3, AdvanceClimbing
  <2>4. CASE \E f \in Files : Prepare(f)
    BY <2>4, PrepareClimbing
  <2> QED
    BY <2>1, <2>2, <2>3, <2>4
    DEF Next, vars, Prepare, iterationVars, Converge, PassEnds, PassLimit
<1> QED
  BY <1>1, <1>2, InvariantIInv, PTL DEF Spec

(* A call on a workspace without release rules pins nothing and retains    *)
(* nothing beyond what any set closed under the rules holds, whether or    *)
(* not all queries are recorded; where they are, ConvergedExactly adds     *)
(* that the set is closed itself, so it is the least.                      *)
THEOREM LeastRetained == Spec => []LeastRetention
<1>1. Climbing => LeastRetention
  BY DEF Climbing, LeastRetention
<1> QED
  BY <1>1, AlwaysClimbing, PTL

(* Every pass of a climbing iteration but the last adds a declaration.     *)
PassesPaid ==
  (Monotone(snapshot) /\ outcome = "running") => passes <= Cardinality(retained)

(* A workspace without release rules converges within one pass more than   *)
(* it has declarations: the pass limit cannot be what ends the call.       *)
THEOREM LimitImpliesRelease ==
  ASSUME IsFiniteSet(Symbols)
  PROVE  Spec => []LimitOnlyByRelease
<1>1. Init => PassesPaid /\ LimitOnlyByRelease
  BY FS_EmptySet DEF Init, PassesPaid, LimitOnlyByRelease
<1>2. IInv /\ Climbing /\ PassesPaid /\ LimitOnlyByRelease /\ [Next]_vars
        => (PassesPaid /\ LimitOnlyByRelease)'
  <2> SUFFICES ASSUME IInv, Climbing, PassesPaid, LimitOnlyByRelease, [Next]_vars
               PROVE  (PassesPaid /\ LimitOnlyByRelease)'
    OBVIOUS
  <2>1. CASE UNCHANGED <<snapshot, retained, passes, outcome>>
    BY <2>1 DEF PassesPaid, LimitOnlyByRelease, Monotone
  <2>2. CASE Converge
    BY <2>2 DEF Converge, PassesPaid, LimitOnlyByRelease
  <2>3. CASE Cycle
    <3>1. snapshot' = snapshot
      BY <2>3 DEF Cycle, PassEnds
    <3>2. ~ Monotone(snapshot)
      BY <2>3, ClimbingNeverCycles
    <3> QED
      BY <3>1, <3>2 DEF PassesPaid, LimitOnlyByRelease, Monotone
  <2>4. CASE Advance
    <3>1. /\ outcome = "running" /\ indices = {} /\ snapshot' = snapshot
          /\ outcome' = outcome /\ passes' = passes + 1
          /\ retained' = Exact /\ Exact # retained
      BY <2>4 DEF Advance, PassEnds
    <3> SUFFICES ASSUME Monotone(snapshot) PROVE passes + 1 <= Cardinality(Exact)
      BY <3>1 DEF PassesPaid, LimitOnlyByRelease, Monotone
    <3>2. Exact \subseteq Symbols
      BY <3>1, ExactHoldsPins
    <3>3. retained \subseteq Exact
      BY DEF Climbing
    <3>4. IsFiniteSet(Exact)
      BY <3>2, FS_Subset
    <3>5. Cardinality(retained) <= Cardinality(Exact) /\ Cardinality(retained) # Cardinality(Exact)
      BY <3>1, <3>3, <3>4, FS_Subset
    <3>6. Cardinality(retained) \in Nat /\ Cardinality(Exact) \in Nat
      BY <3>3, <3>4, FS_Subset, FS_CardinalityType
    <3>7. passes <= Cardinality(retained) /\ passes \in Nat
      BY <3>1 DEF PassesPaid, IInv, TypeOK
    <3> QED
      BY <3>5, <3>6, <3>7
  <2>5. CASE PassLimit
    <3>1. /\ outcome = "running" /\ passes = MaxPasses(snapshot) /\ outcome' = "limit"
          /\ snapshot' = snapshot
      BY <2>5 DEF PassLimit
    <3> SUFFICES ASSUME Monotone(snapshot) PROVE MaxPasses(snapshot) <= Cardinality(Symbols)
      BY <3>1 DEF PassesPaid, LimitOnlyByRelease
    <3>2. MaxPasses(snapshot) <= Cardinality(retained)
      BY <3>1 DEF PassesPaid
    <3>3. Cardinality(retained) <= Cardinality(Symbols) /\ IsFiniteSet(retained)
      BY FS_Subset DEF IInv, TypeOK
    <3>4. Cardinality(retained) \in Nat /\ Cardinality(Symbols) \in Nat
      BY <3>3, FS_CardinalityType
    <3> QED
      BY <3>2, <3>3, <3>4, PassesNat
  <2> QED
    BY <2>1, <2>2, <2>3, <2>4, <2>5
    DEF Next, vars, Prepare, iterationVars
<1> QED
  BY <1>1, <1>2, InvariantIInv, AlwaysClimbing, PTL DEF Spec


-------------------------------------------------------------------------------
(* No retained set is met twice between two pins.                          *)
HistoryDistinct ==
  \A i \in 1..Len(history), j \in 1..Len(history) : history[i] = history[j] => i = j

(* Every pass taken so far is paid by a pin, at most one pass for every    *)
(* set there is, or by an entry of the history since the last pin.         *)
PassesCounted ==
  outcome = "running" =>
    passes < Cardinality(forced) * Cardinality(SUBSET Symbols) + Len(history)

EnoughNeverLimit == outcome = "limit" => MaxPasses(snapshot) < AllPasses

(* A history without repetition is no longer than there are sets.          *)
LEMMA HistoryBounded ==
  ASSUME IsFiniteSet(Symbols), IInv, HistoryDistinct
  PROVE  /\ Cardinality(SUBSET Symbols) \in Nat
         /\ Len(history) \in Nat
         /\ Len(history) <= Cardinality(SUBSET Symbols)
<1>1. IsFiniteSet(SUBSET Symbols)
  BY FS_SUBSET
<1>2. Cardinality(SUBSET Symbols) \in Nat
  BY <1>1, FS_CardinalityType
<1>3. history \in [1..Len(history) -> SUBSET Symbols] /\ Len(history) \in Nat
  BY DEF IInv, TypeOK
<1>4. IsFiniteSet(1..Len(history)) /\ Cardinality(1..Len(history)) = Len(history)
  <2>1. Len(history) \in Int /\ 1 \in Int /\ ~ (1 > Len(history))
    BY <1>3 DEF IInv, TypeOK
  <2>2. /\ IsFiniteSet(1..Len(history))
        /\ Cardinality(1..Len(history))
             = IF 1 > Len(history) THEN 0 ELSE Len(history) - 1 + 1
    BY <2>1, FS_Interval
  <2> QED
    BY <2>1, <2>2
<1>5. ~ (Cardinality(SUBSET Symbols) < Cardinality(1..Len(history)))
  BY <1>1, <1>3, <1>4, FS_PigeonHole DEF HistoryDistinct
<1> QED
  BY <1>2, <1>3, <1>4, <1>5

(* The pins are finitely many, and a larger set of pins counts for more.   *)
LEMMA PinsBounded ==
  ASSUME IsFiniteSet(Symbols), IInv
  PROVE  /\ Cardinality(forced) \in Nat
         /\ Cardinality(Symbols) \in Nat
         /\ Cardinality(forced) <= Cardinality(Symbols)
<1>1. forced \in SUBSET Symbols
  BY DEF IInv, TypeOK
<1> QED
  BY <1>1, FS_Subset, FS_CardinalityType

LEMMA TimesLess ==
  ASSUME NEW a \in Nat, NEW b \in Nat, NEW k \in Nat, a + 1 <= b
  PROVE  a * k \in Nat /\ b * k \in Nat /\ a * k + k <= b * k
<1>1. a * k \in Nat /\ b * k \in Nat /\ (b - (a + 1)) * k \in Nat
  <2>1. b - (a + 1) \in Nat
    OBVIOUS
  <2> QED
    BY <2>1
<1>2. b * k = a * k + k + (b - (a + 1)) * k
  OBVIOUS
<1> QED
  BY <1>1, <1>2

LEMMA InitCounted ==
  ASSUME IsFiniteSet(Symbols), Init
  PROVE  HistoryDistinct /\ PassesCounted /\ EnoughNeverLimit
<1>1. history = << {} >> /\ passes = 0 /\ forced = {} /\ outcome = "running"
  BY DEF Init
<1>2. Len(history) = 1 /\ 1..Len(history) = {1}
  BY <1>1
<1>3. Cardinality(SUBSET Symbols) \in Nat /\ Cardinality(forced) = 0
  BY <1>1, FS_SUBSET, FS_CardinalityType, FS_EmptySet
<1>4. HistoryDistinct
  BY <1>2 DEF HistoryDistinct
<1>5. PassesCounted
  BY <1>1, <1>2, <1>3 DEF PassesCounted
<1> QED
  BY <1>1, <1>4, <1>5 DEF EnoughNeverLimit

LEMMA AdvanceCounted ==
  ASSUME IsFiniteSet(Symbols), IInv, HistoryDistinct, PassesCounted, Advance
  PROVE  HistoryDistinct' /\ PassesCounted' /\ EnoughNeverLimit'
<1>1. /\ outcome = "running" /\ outcome' = "running" /\ forced' = forced
      /\ passes' = passes + 1 /\ indices = {}
      /\ history' = Append(history, Exact) /\ ~ Seen(Exact)
  BY DEF Advance, PassEnds
<1>2. /\ history \in Seq(SUBSET Symbols) /\ Exact \in SUBSET Symbols
      /\ passes \in Nat
  BY <1>1, ExactHoldsPins, PassesNat DEF IInv, TypeOK
<1>3. /\ Len(history') = Len(history) + 1 /\ Len(history) \in Nat
      /\ history'[Len(history) + 1] = Exact
      /\ \A i \in 1..Len(history) : history'[i] = history[i]
  BY <1>1, <1>2
<1>4. HistoryDistinct'
  <2> SUFFICES ASSUME NEW i \in 1..(Len(history) + 1), NEW j \in 1..(Len(history) + 1),
                      history'[i] = history'[j]
               PROVE  i = j
    BY <1>3 DEF HistoryDistinct
  <2>1. \A k \in 1..Len(history) : history[k] # Exact
    BY <1>1 DEF Seen
  <2>2. CASE i \in 1..Len(history) /\ j \in 1..Len(history)
    BY <1>3, <2>2 DEF HistoryDistinct
  <2>3. CASE ~ (i \in 1..Len(history) /\ j \in 1..Len(history))
    BY <1>3, <2>1, <2>3
  <2> QED
    BY <2>2, <2>3
<1>5. PassesCounted'
  <2>1. Cardinality(forced) * Cardinality(SUBSET Symbols) \in Nat
    BY HistoryBounded, PinsBounded
  <2> QED
    BY <1>1, <1>2, <1>3, <2>1 DEF PassesCounted
<1> QED
  BY <1>1, <1>4, <1>5 DEF EnoughNeverLimit

(* A cycle starts a history of its own and pays for the one it ends.       *)
LEMMA CycleCounted ==
  ASSUME IsFiniteSet(Symbols), IInv, HistoryDistinct, PassesCounted, Cycle
  PROVE  HistoryDistinct' /\ PassesCounted' /\ EnoughNeverLimit'
<1> DEFINE newlyForced == CycleVarying(CycleStates(Exact)) \ forced
           K == Cardinality(SUBSET Symbols)
<1>1. /\ outcome = "running" /\ indices = {} /\ Seen(Exact) /\ Exact # retained
      /\ passes' = passes + 1
  BY DEF Cycle, PassEnds
<1>2. newlyForced # {}
  BY <1>1, CycleAlwaysPins
<1>3. /\ outcome' = outcome /\ forced' = forced \cup newlyForced
      /\ history' = << Exact \cup forced \cup newlyForced >>
  BY <1>2 DEF Cycle
<1>4. IInv'
  BY CycleIInv
<1>5. Len(history') = 1
  BY <1>3
<1>6. HistoryDistinct'
  BY <1>5 DEF HistoryDistinct
<1>7. forced' \in SUBSET Symbols /\ passes \in Nat
  BY <1>4, PassesNat DEF IInv, TypeOK
<1>8. IsFiniteSet(forced')
  BY <1>7, FS_Subset
<1>9. /\ Cardinality(forced') \in Nat
      /\ Cardinality(forced) + 1 <= Cardinality(forced')
  <2>1. forced \in SUBSET forced' /\ forced # forced'
    BY <1>2, <1>3
  <2> HIDE DEF newlyForced
  <2>2. Cardinality(forced) <= Cardinality(forced') /\ Cardinality(forced) # Cardinality(forced')
    BY <1>8, <2>1, FS_Subset
  <2>3. Cardinality(forced') \in Nat
    BY <1>8, FS_CardinalityType
  <2> QED
    BY <2>2, <2>3, PinsBounded
<1>10. Len(history) \in Nat /\ K \in Nat /\ Len(history) <= K
  BY HistoryBounded
<1> HIDE DEF newlyForced, K
<1>11. /\ Cardinality(forced) * K \in Nat /\ Cardinality(forced') * K \in Nat
       /\ Cardinality(forced) * K + K <= Cardinality(forced') * K
  BY <1>9, <1>10, PinsBounded, TimesLess
<1>12. passes < Cardinality(forced) * K + Len(history)
  BY <1>1 DEF PassesCounted, K
<1>13. passes + 1 < Cardinality(forced') * K + 1
  BY <1>7, <1>10, <1>11, <1>12
<1>14. PassesCounted'
  BY <1>1, <1>5, <1>13 DEF PassesCounted, K
<1> QED
  BY <1>1, <1>3, <1>6, <1>14 DEF EnoughNeverLimit

LEMMA PassLimitCounted ==
  ASSUME IsFiniteSet(Symbols), IInv, HistoryDistinct, PassesCounted, PassLimit
  PROVE  HistoryDistinct' /\ PassesCounted' /\ EnoughNeverLimit'
<1> DEFINE K == Cardinality(SUBSET Symbols)
           n == Cardinality(Symbols)
           p == Cardinality(forced)
<1>1. /\ outcome = "running" /\ outcome' = "limit" /\ passes = MaxPasses(snapshot)
      /\ snapshot' = snapshot /\ history' = history
  BY DEF PassLimit
<1>2. Len(history) \in Nat /\ K \in Nat /\ Len(history) <= K
  BY HistoryBounded
<1>3. p \in Nat /\ n \in Nat /\ p + 1 <= n + 1
  BY PinsBounded
<1>4. AllPasses = (n + 1) * K
  BY FS_SUBSET DEF AllPasses
<1>5. passes < p * K + Len(history) /\ MaxPasses(snapshot) \in Nat
  BY <1>1, PassesNat DEF PassesCounted
<1> HIDE DEF K, n, p
<1>6. p * K \in Nat /\ (n + 1) * K \in Nat /\ p * K + K <= (n + 1) * K
  BY <1>2, <1>3, TimesLess
<1>7. MaxPasses(snapshot) < AllPasses
  BY <1>1, <1>2, <1>4, <1>5, <1>6
<1> QED
  BY <1>1, <1>7 DEF HistoryDistinct, PassesCounted, EnoughNeverLimit, AllPasses

(* A call that may take enough passes never ends at the pass limit,        *)
(* whatever its rules release: the pins exhaust every oscillation.  What   *)
(* AlwaysConverges adds to this is that the passes are taken.              *)
THEOREM EnoughPassesSuffice ==
  ASSUME IsFiniteSet(Symbols)
  PROVE  Spec => [](outcome = "limit" => MaxPasses(snapshot) < AllPasses)
<1>1. Init => HistoryDistinct /\ PassesCounted /\ EnoughNeverLimit
  BY InitCounted
<1>2. IInv /\ HistoryDistinct /\ PassesCounted /\ EnoughNeverLimit /\ [Next]_vars
        => (HistoryDistinct /\ PassesCounted /\ EnoughNeverLimit)'
  <2> SUFFICES ASSUME IInv, HistoryDistinct, PassesCounted, EnoughNeverLimit, [Next]_vars
               PROVE  HistoryDistinct' /\ PassesCounted' /\ EnoughNeverLimit'
    OBVIOUS
  <2>1. CASE UNCHANGED iterationVars
    BY <2>1 DEF iterationVars, HistoryDistinct, PassesCounted, EnoughNeverLimit, AllPasses
  <2>2. CASE Converge
    BY <2>2 DEF Converge, HistoryDistinct, PassesCounted, EnoughNeverLimit
  <2>3. CASE Cycle
    BY <2>3, CycleCounted
  <2>4. CASE Advance
    BY <2>4, AdvanceCounted
  <2>5. CASE PassLimit
    BY <2>5, PassLimitCounted
  <2> QED
    BY <2>1, <2>2, <2>3, <2>4, <2>5 DEF Next, Prepare, vars, iterationVars
<1>3. EnoughNeverLimit <=> (outcome = "limit" => MaxPasses(snapshot) < AllPasses)
  BY DEF EnoughNeverLimit
<1> QED
  BY <1>1, <1>2, <1>3, InvariantIInv, PTL DEF Spec

-------------------------------------------------------------------------------
(* The three ways a pass ends are those of the full replanning: the cached *)
(* plans amount to a full pass.                                            *)
LEMMA PassEndImplements ==
  ASSUME IInv, AllReadsRecorded(snapshot), Converge \/ Cycle \/ Advance
  PROVE  Full!Pass
<1>1. /\ outcome = "running" /\ indices = {} /\ passes < MaxPasses(snapshot)
      /\ passes' = passes + 1 /\ snapshot' = snapshot
  BY DEF Converge, Cycle, Advance, PassEnds
<1>2. Exact = Full!FullPass(snapshot, retained, forced)
  <2>1. Exact = FullPass(snapshot, retained, forced)
    BY <1>1, ExactIsFullPass
  <2>2. FullPass(snapshot, retained, forced) = Full!FullPass(snapshot, retained, forced)
    BY DEF FullPass, Full!FullPass, KotlinOwned, Full!KotlinOwned, Hint, Full!Hint
  <2> QED
    BY <2>1, <2>2
<1>3. CASE Converge
  <2>1. Full!Converge(Exact)
    BY <1>3 DEF Converge, Full!Converge
  <2> QED
    BY <1>1, <1>2, <2>1 DEF Full!Pass
<1>4. CASE Cycle
  <2>1. Full!Cycle(Exact)
    BY <1>4 DEF Cycle, Full!Cycle, Seen, Full!Seen, CycleStates, Full!CycleStates,
                CycleVarying, Full!CycleVarying
  <2> QED
    BY <1>1, <1>2, <2>1 DEF Full!Pass
<1>5. CASE Advance
  <2>1. Full!Advance(Exact)
    BY <1>5 DEF Advance, Full!Advance, Seen, Full!Seen
  <2> QED
    BY <1>1, <1>2, <2>1 DEF Full!Pass
<1> QED
  BY <1>3, <1>4, <1>5

(* On a workspace whose files all record their queries the incremental     *)
(* planner takes exactly the steps of the full replanning, so the two      *)
(* agree on every retained set, pin and outcome.  Without the hypothesis   *)
(* this is false: InterfaceRetention is a rule of the code that breaks it. *)
THEOREM Refinement == Spec /\ AllReadsRecorded(snapshot) => ImplementsFullReplanning
<1>1. Init => Full!Init
  BY DEF Init, Full!Init
<1>2. IInv /\ AllReadsRecorded(snapshot) /\ [Next]_vars => [Full!Next]_Full!vars
  <2> SUFFICES ASSUME IInv, AllReadsRecorded(snapshot), [Next]_vars
               PROVE  [Full!Next]_Full!vars
    OBVIOUS
  <2>1. CASE \E f \in Files : Prepare(f)
    BY <2>1 DEF Prepare, iterationVars, Full!vars
  <2>2. CASE Converge \/ Cycle \/ Advance
    BY <2>2, PassEndImplements DEF Full!Next
  <2>3. CASE PassLimit
    BY <2>3 DEF PassLimit, Full!PassLimit, Full!Next
  <2>4. CASE UNCHANGED vars
    BY <2>4 DEF vars, Full!vars
  <2> QED
    BY <2>1, <2>2, <2>3, <2>4 DEF Next
<1>3. AllReadsRecorded(snapshot) /\ [Next]_vars => AllReadsRecorded(snapshot)'
  <2>1. [Next]_vars => snapshot' = snapshot
    BY DEF Next, vars, Prepare, iterationVars, Converge, Cycle, Advance, PassEnds, PassLimit
  <2> QED
    BY <2>1
<1> QED
  BY <1>1, <1>2, <1>3, InvariantIInv, PTL DEF Spec, Full!Spec, ImplementsFullReplanning

(* Every plan the loop holds or returns of a file with recorded queries is *)
(* exact, and the repetition error is never returned, recorded or not.     *)
THEOREM PlansStayConsistent == Spec => []PlansConsistent
<1>1. PlansConsistent <=> TypeOK /\ CacheCoherent /\ ConvergedPlansExact /\ NeverRepeated
  BY DEF PlansConsistent
<1> QED
  BY <1>1, TypeCorrect, CacheStaysCoherent, ConvergedExactly, RepeatedUnreachable, PTL
=============================================================================
