-------------------------- MODULE MigrationApplyProofs --------------------------
(***************************************************************************)
(* Proofs about MigrationApply.  What carries them: as long as runs do not *)
(* overlap, the one under way finds the tree its plan was made from,       *)
(* changed by nobody but itself and the user's edits, who move no          *)
(* declaration; so at every point of every phase the tree is known.  Runs  *)
(* that overlap have no tree of their own; of those that agree it is known *)
(* of each declaration that its Java is there before its Kotlin goes, and  *)
(* that nobody removes it (Secured, JavaFirst).                            *)
(***************************************************************************)
EXTENDS MigrationApply, TLAPS

KotlinFiles == [state : {"absent", "text", "torn"}, decls : SUBSET Declarations, edit : 0..MaxEdits]
JavaFiles == [state : {"absent", "partial", "generated"}, edit : 0..MaxEdits]
Trees == [kotlin : [Sources -> KotlinFiles], java : [Declarations -> JavaFiles]]
Places == Ended \cup WritePhases \cup {"idle", "planned", "finish"}

Typed ==
  /\ kotlin \in [Sources -> KotlinFiles] /\ java \in [Declarations -> JavaFiles]
  /\ pc \in [Runs -> Places]
  /\ keep \in [Runs -> SUBSET Declarations]
  /\ todo \in [Runs -> SUBSET (Sources \cup Declarations)]
  /\ open \in [Runs -> Sources \cup Declarations \cup {None}]
  /\ faults \in 0..MaxFaults /\ edits \in 0..MaxEdits
  /\ stale \subseteq Runs
  /\ DOMAIN snapshot = Runs
  /\ \A r \in Runs : pc[r] # "idle" => snapshot[r] \in Trees /\ keep[r] \subseteq Planned(r)

Flags ==
  /\ wrote \in [Runs -> BOOLEAN]
  /\ overlapped \in BOOLEAN /\ clobbered \in BOOLEAN /\ late \in BOOLEAN

(* What a run has still to do is what its phase does.                      *)
Agenda ==
  \A r \in Runs :
    /\ open[r] # None => pc[r] \in {"java", "sources"} /\ open[r] \in todo[r]
    /\ pc[r] \in WritePhases => todo[r] \subseteq Items(r, pc[r])
    /\ pc[r] = "idle" => keep[r] = {}

(* Declarations are where they are declared, and only in whole files.      *)
Layout ==
  \A s \in Sources :
    /\ kotlin[s].decls \subseteq DeclaredOnDisk(s)
    /\ kotlin[s].state # "text" => kotlin[s].decls = {}
    /\ \A r \in Runs : pc[r] # "idle" =>
         /\ snapshot[r].kotlin[s].decls \subseteq DeclaredOnDisk(s)
         /\ snapshot[r].kotlin[s].state # "text" => snapshot[r].kotlin[s].decls = {}

(* The edit marks, on disk and in snapshots, are those of the user so far. *)
Recent ==
  /\ \A s \in Sources : kotlin[s].edit <= edits
  /\ \A d \in Declarations : java[d].edit <= edits
  /\ \A r \in Runs : pc[r] # "idle" =>
       /\ \A s \in Sources : snapshot[r].kotlin[s].edit <= edits
       /\ \A d \in Declarations : snapshot[r].java[d].edit <= edits

-------------------------------------------------------------------------------
LEMMA PhaseItems ==
  ASSUME NEW r
  PROVE  /\ Items(r, "java") = Moved(r) /\ Items(r, "stale") = StaleItems(r)
         /\ Items(r, "sources") = SourceItems(r) /\ Items(r, "finish") = {}
  BY DEF Items

LEMMA PhaseOrder ==
  /\ FirstPhase = "java" /\ NextPhase("java") = "stale"
  /\ NextPhase("stale") = "sources" /\ NextPhase("sources") = "finish"
<1>1. /\ Phases[1] = "java" /\ Phases[2] = "stale"
      /\ Phases[3] = "sources" /\ Phases[4] = "finish"
  BY DEF Phases
<1>2. \A n \in 1..3 : n = 1 \/ n = 2 \/ n = 3
  OBVIOUS
<1>3. (CHOOSE n \in 1..3 : Phases[n] = "java") = 1
  BY <1>1, <1>2
<1>4. (CHOOSE n \in 1..3 : Phases[n] = "stale") = 2
  BY <1>1, <1>2
<1>5. (CHOOSE n \in 1..3 : Phases[n] = "sources") = 3
  BY <1>1, <1>2
<1>. QED BY <1>1, <1>3, <1>4, <1>5 DEF FirstPhase, NextPhase

(* What a plan is made of depends on the plan alone.                       *)
LEMMA PlanFixed ==
  ASSUME NEW r, snapshot'[r] = snapshot[r], keep'[r] = keep[r]
  PROVE  /\ Planned(r)' = Planned(r) /\ Moved(r)' = Moved(r)
         /\ StaleItems(r)' = StaleItems(r) /\ SourceItems(r)' = SourceItems(r)
         /\ VerifyItems(r)' = VerifyItems(r)
         /\ \A phase : Items(r, phase)' = Items(r, phase)
<1>1. Planned(r)' = Planned(r) /\ Moved(r)' = Moved(r) /\ SourceItems(r)' = SourceItems(r)
  BY DEF Planned, Moved, SourceItems
<1>2. StaleItems(r)' = StaleItems(r) /\ VerifyItems(r)' = VerifyItems(r)
  BY <1>1 DEF StaleItems, VerifyItems
<1>. QED BY <1>1, <1>2 DEF Items

LEMMA PlannedTyped ==
  ASSUME Typed, NEW r \in Runs, pc[r] # "idle"
  PROVE  /\ Planned(r) \subseteq Declarations /\ Moved(r) \subseteq Declarations
         /\ StaleItems(r) \subseteq Declarations /\ SourceItems(r) \subseteq Sources
<1>1. \A s \in Sources : snapshot[r].kotlin[s].decls \subseteq Declarations
  BY DEF Typed, Trees, KotlinFiles
<1>. QED BY <1>1 DEF Planned, Moved, StaleItems, SourceItems

-------------------------------------------------------------------------------
LEMMA InitTyped == Init => Typed /\ Flags /\ Agenda /\ Layout /\ Recent
<1>. SUFFICES ASSUME Init PROVE Typed /\ Flags /\ Agenda /\ Layout /\ Recent
  OBVIOUS
<1>. USE ApplyAssumption
<1>1. PICK left, leftover \in SUBSET Declarations :
        /\ leftover \subseteq left
        /\ kotlin = [ s \in Sources |->
             IF left \cap DeclaredOnDisk(s) = {} THEN NoSource
             ELSE [state |-> "text", decls |-> left \cap DeclaredOnDisk(s), edit |-> 0] ]
        /\ java = [ d \in Declarations |-> IF d \in left \ leftover THEN NoJava ELSE Generated ]
  BY Zenon DEF Init
<1>2. NoSource \in KotlinFiles /\ NoJava \in JavaFiles /\ Generated \in JavaFiles
  BY DEF NoSource, NoJava, Generated, KotlinFiles, JavaFiles
<1>3. \A s \in Sources : [state |-> "text", decls |-> left \cap DeclaredOnDisk(s), edit |-> 0] \in KotlinFiles
  BY DEF KotlinFiles
<1>4. kotlin \in [Sources -> KotlinFiles] /\ java \in [Declarations -> JavaFiles]
  BY <1>1, <1>2, <1>3
<1>5. Typed
  BY <1>4 DEF Init, Typed, Places
<1>6. Flags
  BY Zenon DEF Init, Flags
<1>7. Agenda
  BY DEF Init, Agenda, WritePhases
<1>8. Layout
  BY <1>1 DEF Init, Layout, NoSource, DeclaredOnDisk
<1>9. Recent
  BY <1>1 DEF Init, Recent, NoSource, NoJava, Generated
<1>. QED BY <1>5, <1>6, <1>7, <1>8, <1>9

LEMMA StepFlags == Flags /\ [Next]_vars => Flags'
<1>. SUFFICES ASSUME Flags, [Next]_vars PROVE Flags'
  OBVIOUS
<1>1. ASSUME NEW r \in Runs, Step(r) PROVE Flags'
  BY <1>1, Zenon
     DEF Flags, Step, Plan, Reject, Verify, Proceed, Truncate, Fill, LeaveSource, DeleteSource,
         RemoveStale, Finish, Clobbers, history
<1>2. ASSUME NEW r \in Runs, WriteError(r) \/ Kill(r) PROVE Flags'
  BY <1>2, Zenon DEF Flags, WriteError, Kill, history
<1>3. ASSUME UserEdit PROVE Flags'
  BY <1>3, Zenon DEF Flags, UserEdit
<1>4. CASE UNCHANGED vars
  BY <1>4, Zenon DEF Flags, vars
<1>. QED BY <1>1, <1>2, <1>3, <1>4, Zenon DEF Next

(* What happens to the files one by one.                                   *)
LEMMA StepTyped == Typed /\ Agenda /\ [Next]_vars => Typed'
<1>. SUFFICES ASSUME Typed, Agenda, [Next]_vars PROVE Typed'
  OBVIOUS
<1>. USE ApplyAssumption
<1>0. ASSUME NEW r \in Runs, pc[r] # "idle", UNCHANGED plans
      PROVE  Planned(r)' = Planned(r)
  BY <1>0 DEF Planned, plans
<1>1. ASSUME NEW r \in Runs, Plan(r) PROVE Typed'
  <2>1. PICK retained \in SUBSET UNION { kotlin[s].decls : s \in Sources } :
          keep' = [keep EXCEPT ![r] = retained]
    BY <1>1 DEF Plan
  <2>2. retained \subseteq Declarations
    BY <2>1 DEF Typed, KotlinFiles
  <2>3. [kotlin |-> kotlin, java |-> java] \in Trees
    BY DEF Typed, Trees
  <2>4. /\ snapshot' = [snapshot EXCEPT ![r] = [kotlin |-> kotlin, java |-> java]]
        /\ pc' = [pc EXCEPT ![r] = "planned"]
        /\ UNCHANGED <<kotlin, java, todo, open, faults, edits, stale>>
    BY <1>1 DEF Plan, disk
  <2>5. snapshot'[r] = [kotlin |-> kotlin, java |-> java] /\ keep'[r] = retained
    BY <2>1, <2>4 DEF Typed
  <2>6. Planned(r)' = UNION { kotlin[s].decls : s \in Sources }
    BY <2>5 DEF Planned
  <2>7. \A q \in Runs \ {r} : snapshot'[q] = snapshot[q] /\ keep'[q] = keep[q] /\ pc'[q] = pc[q]
    BY <2>1, <2>4 DEF Typed
  <2>8. \A q \in Runs \ {r} : Planned(q)' = Planned(q)
    BY <2>7 DEF Planned
  <2>9. \A q \in Runs : pc'[q] # "idle" => snapshot'[q] \in Trees /\ keep'[q] \subseteq Planned(q)'
    BY <2>1, <2>3, <2>5, <2>6, <2>7, <2>8 DEF Typed
  <2>. QED BY <2>1, <2>2, <2>4, <2>9 DEF Typed, Places
<1>2. ASSUME NEW r \in Runs, Reject(r) \/ Finish(r) \/ Kill(r) \/ WriteError(r) PROVE Typed'
  <2>1. /\ pc[r] # "idle"
        /\ \E p \in Ended : pc' = [pc EXCEPT ![r] = p]
        /\ open' = open \/ open' = [open EXCEPT ![r] = None]
        /\ faults' \in 0..MaxFaults
        /\ UNCHANGED <<kotlin, java, keep, snapshot, todo, edits, stale>>
    BY <1>2 DEF Reject, Finish, Kill, WriteError, disk, plans, history, Ended, Active, WritePhases, Typed
  <2>2. \A q \in Runs : Planned(q)' = Planned(q)
    BY <2>1 DEF Planned
  <2>. QED BY <2>1, <2>2 DEF Typed, Places
<1>3. ASSUME NEW r \in Runs, Verify(r) \/ Proceed(r) \/ LeaveSource(r) PROVE Typed'
  <2>1. UNCHANGED <<kotlin, java, keep, snapshot, open, faults, edits, stale>>
    BY <1>3 DEF Verify, Proceed, LeaveSource, disk, plans, history
  <2>2. pc[r] # "idle"
    BY <1>3 DEF Verify, Proceed, LeaveSource, WritePhases
  <2>3. \A q \in Runs : Planned(q)' = Planned(q)
    BY <2>1 DEF Planned
  <2>4. pc' \in [Runs -> Places] /\ \A q \in Runs : pc'[q] = "idle" <=> pc[q] = "idle"
    BY <1>3, <2>2, PhaseOrder
       DEF Verify, Proceed, LeaveSource, Typed, Places, WritePhases, Ended
  <2>5. todo' \in [Runs -> SUBSET (Sources \cup Declarations)]
    <3>1. \A phase \in WritePhases \cup {"finish"} : Items(r, phase) \subseteq Sources \cup Declarations
      BY <2>2, PlannedTyped, PhaseItems DEF WritePhases
    <3>2. pc[r] \in WritePhases => NextPhase(pc[r]) \in WritePhases \cup {"finish"}
      BY PhaseOrder DEF WritePhases
    <3>3. FirstPhase \in WritePhases
      BY PhaseOrder DEF WritePhases
    <3>4. CASE Verify(r)
      BY <3>1, <3>3, <3>4 DEF Verify, Typed
    <3>5. CASE Proceed(r)
      BY <3>1, <3>2, <3>5 DEF Proceed, Typed
    <3>6. CASE LeaveSource(r)
      BY <3>6 DEF LeaveSource, Typed
    <3>. QED BY <1>3, <3>4, <3>5, <3>6
  <2>. QED BY <2>1, <2>3, <2>4, <2>5 DEF Typed
<1>4. ASSUME NEW r \in Runs, Truncate(r) PROVE Typed'
  <2>1. PICK f \in todo[r] :
          /\ \/ java' = [java EXCEPT ![f] = [@ EXCEPT !.state = "partial"]] /\ kotlin' = kotlin
             \/ kotlin' = [kotlin EXCEPT ![f] = [@ EXCEPT !.state = "torn", !.decls = {}]] /\ java' = java
          /\ open' = [open EXCEPT ![r] = f]
    BY <1>4 DEF Truncate
  <2>2. java' \in [Declarations -> JavaFiles] /\ kotlin' \in [Sources -> KotlinFiles]
    <3>1. \A d \in Declarations : [java[d] EXCEPT !.state = "partial"] \in JavaFiles
      BY DEF Typed, JavaFiles
    <3>2. \A s \in Sources : [kotlin[s] EXCEPT !.state = "torn", !.decls = {}] \in KotlinFiles
      <4>1. \A k \in KotlinFiles : [k EXCEPT !.state = "torn"] \in KotlinFiles
        BY DEF KotlinFiles
      <4>2. \A k \in KotlinFiles : [k EXCEPT !.decls = {}] \in KotlinFiles
        BY DEF KotlinFiles
      <4>3. \A k \in KotlinFiles : [k EXCEPT !.state = "torn", !.decls = {}] \in KotlinFiles
        BY <4>1, <4>2
      <4>. QED BY <4>3 DEF Typed
    <3>3. java' \in [Declarations -> JavaFiles]
      BY <2>1, <3>1 DEF Typed
    <3>4. kotlin' \in [Sources -> KotlinFiles]
      <4>1. CASE kotlin' = kotlin
        BY <4>1 DEF Typed
      <4>2. CASE f \in Sources /\ kotlin' # kotlin
        <5>1. PICK file \in KotlinFiles : kotlin' = [kotlin EXCEPT ![f] = file]
          BY <2>1, <3>2, <4>2
        <5>. QED BY <5>1 DEF Typed
      <4>3. CASE f \notin Sources /\ kotlin' # kotlin
        <5>1. \E file : kotlin' = [kotlin EXCEPT ![f] = file]
          BY <2>1, <4>3
        <5>. QED BY <4>3, <5>1 DEF Typed
      <4>. QED BY <4>1, <4>2, <4>3
    <3>. QED BY <3>3, <3>4
  <2>3. UNCHANGED <<pc, keep, snapshot, todo, faults, edits, stale>>
    BY <1>4 DEF Truncate, plans
  <2>4. \A q \in Runs : Planned(q)' = Planned(q)
    BY <2>3 DEF Planned
  <2>5. open' \in [Runs -> Sources \cup Declarations \cup {None}]
    BY <2>1 DEF Typed
  <2>. QED BY <2>2, <2>3, <2>4, <2>5 DEF Typed
<1>5. ASSUME NEW r \in Runs, Fill(r) PROVE Typed'
  <2>1. Generated \in JavaFiles
    BY DEF Generated, JavaFiles
  <2>2. [state |-> "text", decls |-> keep[r] \cap snapshot[r].kotlin[open[r]].decls, edit |-> 0]
          \in KotlinFiles
    BY DEF Typed, KotlinFiles
  <2>3. java' \in [Declarations -> JavaFiles] /\ kotlin' \in [Sources -> KotlinFiles]
    <3>1. CASE pc[r] = "java"
      BY <1>5, <2>1, <3>1 DEF Fill, Typed
    <3>2. CASE pc[r] # "java"
      <4>1. PICK file \in KotlinFiles : kotlin' = [kotlin EXCEPT ![open[r]] = file]
        BY <1>5, <2>2, <3>2 DEF Fill
      <4>. QED BY <1>5, <3>2, <4>1 DEF Fill, Typed
    <3>. QED BY <3>1, <3>2
  <2>4. UNCHANGED <<pc, keep, snapshot, faults, edits, stale>>
    BY <1>5 DEF Fill, plans, history
  <2>5. \A q \in Runs : Planned(q)' = Planned(q)
    BY <2>4 DEF Planned
  <2>6. /\ todo' \in [Runs -> SUBSET (Sources \cup Declarations)]
        /\ open' \in [Runs -> Sources \cup Declarations \cup {None}]
    BY <1>5 DEF Fill, Typed
  <2>. QED BY <2>3, <2>4, <2>5, <2>6 DEF Typed
<1>6. ASSUME NEW r \in Runs, DeleteSource(r) \/ RemoveStale(r) PROVE Typed'
  <2>1. NoSource \in KotlinFiles /\ NoJava \in JavaFiles
    BY DEF NoSource, NoJava, KotlinFiles, JavaFiles
  <2>2. java' \in [Declarations -> JavaFiles] /\ kotlin' \in [Sources -> KotlinFiles]
    BY <1>6, <2>1 DEF DeleteSource, RemoveStale, Typed
  <2>3. UNCHANGED <<keep, snapshot, open, faults, edits, stale>>
    BY <1>6 DEF DeleteSource, RemoveStale, plans
  <2>4. \A q \in Runs : Planned(q)' = Planned(q)
    BY <2>3 DEF Planned
  <2>5. todo' \in [Runs -> SUBSET (Sources \cup Declarations)]
    BY <1>6 DEF DeleteSource, RemoveStale, Typed
  <2>6. pc' = pc \/ (pc[r] = "sources" /\ pc' = [pc EXCEPT ![r] = "failed"])
    BY <1>6 DEF DeleteSource, RemoveStale
  <2>. QED BY <2>2, <2>3, <2>4, <2>5, <2>6 DEF Typed, Places, Ended
<1>7. ASSUME UserEdit PROVE Typed'
  <2>1. edits + 1 \in 0..MaxEdits
    BY <1>7 DEF UserEdit, Typed
  <2>2. java' \in [Declarations -> JavaFiles] /\ kotlin' \in [Sources -> KotlinFiles]
    <3>1. \A d \in Declarations : [java[d] EXCEPT !.edit = edits + 1] \in JavaFiles
      BY <2>1 DEF Typed, JavaFiles
    <3>2. \A s \in Sources : [kotlin[s] EXCEPT !.edit = edits + 1] \in KotlinFiles
      BY <2>1 DEF Typed, KotlinFiles
    <3>. QED BY <1>7, <3>1, <3>2 DEF UserEdit, Typed
  <2>3. UNCHANGED <<pc, keep, snapshot, todo, open, faults>> /\ edits' = edits + 1 /\ stale' \subseteq Runs
    BY <1>7 DEF UserEdit, plans, Typed
  <2>4. \A q \in Runs : Planned(q)' = Planned(q)
    BY <2>3 DEF Planned
  <2>. QED BY <2>1, <2>2, <2>3, <2>4 DEF Typed
<1>8. CASE UNCHANGED vars
  <2>1. \A q \in Runs : Planned(q)' = Planned(q)
    BY <1>8 DEF Planned, vars
  <2>. QED BY <1>8, <2>1 DEF vars, Typed
<1>. QED BY <1>1, <1>2, <1>3, <1>4, <1>5, <1>6, <1>7, <1>8 DEF Next, Step

LEMMA OthersStay ==
  ASSUME Typed, NEW r \in Runs, NEW q \in Runs \ {r}, Step(r) \/ WriteError(r) \/ Kill(r)
  PROVE  /\ pc'[q] = pc[q] /\ keep'[q] = keep[q] /\ snapshot'[q] = snapshot[q]
         /\ todo'[q] = todo[q] /\ open'[q] = open[q]
  BY DEF Step, Plan, Reject, Verify, Proceed, Truncate, Fill, LeaveSource, DeleteSource,
       RemoveStale, Finish, WriteError, Kill, plans, Typed

LEMMA StepAgenda == Typed /\ Agenda /\ [Next]_vars => Agenda'
<1>. SUFFICES ASSUME Typed, Agenda, [Next]_vars PROVE Agenda'
  OBVIOUS
<1>. USE ApplyAssumption
<1>. DEFINE Due(r) ==
       /\ open[r] # None => pc[r] \in {"java", "sources"} /\ open[r] \in todo[r]
       /\ pc[r] \in WritePhases => todo[r] \subseteq Items(r, pc[r])
       /\ pc[r] = "idle" => keep[r] = {}
<1>1. ASSUME NEW r \in Runs, NEW q \in Runs \ {r}, Step(r) \/ WriteError(r) \/ Kill(r)
      PROVE  Due(q)'
  BY <1>1, OthersStay, PlanFixed DEF Agenda
<1>2. ASSUME NEW r \in Runs, Plan(r) PROVE Due(r)'
  BY <1>2 DEF Plan, Typed, Agenda, WritePhases
<1>3. ASSUME NEW r \in Runs, Reject(r) \/ Finish(r) \/ Kill(r) \/ WriteError(r) PROVE Due(r)'
  <2>1. pc'[r] \in Ended
    BY <1>3 DEF Reject, Finish, Kill, WriteError, Typed, Ended
  <2>2. open'[r] = None
    BY <1>3 DEF Reject, Finish, Kill, WriteError, Typed, Agenda, WritePhases
  <2>. QED BY <2>1, <2>2 DEF Ended, WritePhases
<1>4. ASSUME NEW r \in Runs, Verify(r) \/ Proceed(r) PROVE Due(r)'
  <2>1. open'[r] = None /\ keep'[r] = keep[r] /\ snapshot'[r] = snapshot[r]
    BY <1>4 DEF Verify, Proceed, Typed, Agenda, plans
  <2>2. \A phase : Items(r, phase)' = Items(r, phase)
    BY <2>1, PlanFixed
  <2>3. pc'[r] # "idle" /\ (pc'[r] \in WritePhases => todo'[r] = Items(r, pc'[r]))
    <3>1. CASE Verify(r)
      BY <3>1, PhaseOrder DEF Verify, Typed, WritePhases
    <3>2. CASE Proceed(r)
      BY <3>2, PhaseOrder DEF Proceed, Typed, WritePhases
    <3>. QED BY <1>4, <3>1, <3>2
  <2>. QED BY <2>1, <2>2, <2>3
<1>5. ASSUME NEW r \in Runs,
             Truncate(r) \/ Fill(r) \/ LeaveSource(r) \/ DeleteSource(r) \/ RemoveStale(r)
      PROVE  Due(r)'
  <2>1. keep'[r] = keep[r] /\ snapshot'[r] = snapshot[r] /\ todo'[r] \subseteq todo[r]
    <3>1. UNCHANGED plans
      BY <1>5 DEF Truncate, Fill, LeaveSource, DeleteSource, RemoveStale
    <3>2. CASE Truncate(r)
      BY <3>1, <3>2 DEF Truncate, plans
    <3>3. CASE Fill(r) \/ LeaveSource(r)
      BY <3>1, <3>3 DEF Fill, LeaveSource, plans, Typed
    <3>4. CASE DeleteSource(r)
      BY <3>1, <3>4 DEF DeleteSource, plans, Typed
    <3>5. CASE RemoveStale(r)
      BY <3>1, <3>5 DEF RemoveStale, plans, Typed
    <3>. QED BY <1>5, <3>2, <3>3, <3>4, <3>5
  <2>2. pc'[r] = pc[r] \/ pc'[r] = "failed"
    BY <1>5 DEF Truncate, Fill, LeaveSource, DeleteSource, RemoveStale, Typed
  <2>3. pc[r] # "idle"
    BY <1>5 DEF Truncate, Fill, LeaveSource, DeleteSource, RemoveStale, Agenda
  <2>4. open'[r] # None => pc'[r] \in {"java", "sources"} /\ open'[r] \in todo'[r]
    <3>1. CASE Truncate(r)
      BY <3>1 DEF Truncate, Typed, Agenda
    <3>2. CASE Fill(r)
      BY <3>2 DEF Fill, Typed
    <3>3. CASE LeaveSource(r) \/ DeleteSource(r) \/ RemoveStale(r)
      BY <3>3 DEF LeaveSource, DeleteSource, RemoveStale, Typed, Agenda
    <3>. QED BY <1>5, <3>1, <3>2, <3>3
  <2>5. (pc[r] \in WritePhases => todo[r] \subseteq Items(r, pc[r]))'
    <3>1. CASE pc'[r] = pc[r]
      <4>1. Items(r, pc[r])' = Items(r, pc[r])
        BY <2>1, <3>1, PlanFixed DEF Items
      <4>. QED BY <2>1, <3>1, <4>1 DEF Agenda
    <3>. QED BY <2>2, <3>1 DEF WritePhases
  <2>. QED BY <2>2, <2>3, <2>4, <2>5
<1>6. ASSUME UserEdit \/ UNCHANGED vars, NEW r \in Runs PROVE Due(r)'
  <2>1. UNCHANGED <<pc, keep, snapshot, todo, open>>
    BY <1>6 DEF UserEdit, vars, plans
  <2>. QED BY <2>1, PlanFixed DEF Agenda
<1>7. ASSUME NEW r \in Runs, Step(r) \/ WriteError(r) \/ Kill(r) PROVE Due(r)'
  BY <1>7, <1>2, <1>3, <1>4, <1>5 DEF Step
<1>8. \A r \in Runs : Due(r)'
  BY <1>1, <1>6, <1>7 DEF Next
<1>. QED BY <1>8 DEF Agenda

(* A step changes a source, if any, to one of these; the snapshots of the  *)
(* runs are what they were, or the tree.                                   *)
LEMMA SnapshotStep ==
  ASSUME Typed, [Next]_vars, NEW r \in Runs, pc'[r] # "idle"
  PROVE  \/ pc[r] # "idle" /\ snapshot'[r] = snapshot[r]
         \/ Plan(r) /\ snapshot'[r].kotlin = kotlin /\ snapshot'[r].java = java
            /\ UNCHANGED <<kotlin, java, edits>>
<1>1. CASE Plan(r)
  BY <1>1 DEF Plan, Typed, disk
<1>2. ASSUME NEW q \in Runs \ {r}, Step(q) \/ WriteError(q) \/ Kill(q)
      PROVE  pc'[r] = pc[r] /\ snapshot'[r] = snapshot[r]
  BY <1>2, OthersStay
<1>3. CASE (Step(r) /\ ~Plan(r)) \/ WriteError(r) \/ Kill(r)
  <2>1. snapshot' = snapshot
    BY <1>3 DEF Step, Reject, Verify, Proceed, Truncate, Fill, LeaveSource, DeleteSource,
         RemoveStale, Finish, WriteError, Kill, plans
  <2>2. CASE Reject(r) \/ Verify(r) \/ Proceed(r) \/ Finish(r) \/ WriteError(r) \/ Kill(r)
    BY <2>1, <2>2 DEF Reject, Verify, Proceed, Finish, WriteError, Kill, WritePhases, Active
  <2>3. CASE Truncate(r) \/ Fill(r) \/ LeaveSource(r) \/ DeleteSource(r) \/ RemoveStale(r)
    <3>1. pc'[r] = pc[r] \/ pc[r] = "sources"
      BY <2>3 DEF Truncate, Fill, LeaveSource, DeleteSource, RemoveStale
    <3>. QED BY <2>1, <3>1
  <2>. QED BY <1>3, <2>2, <2>3 DEF Step
<1>4. CASE UserEdit \/ UNCHANGED vars
  BY <1>4 DEF UserEdit, vars, plans
<1>. QED BY <1>1, <1>2, <1>3, <1>4 DEF Next

LEMMA StepLayout == Typed /\ Agenda /\ Layout /\ [Next]_vars => Layout'
<1>. SUFFICES ASSUME Typed, Agenda, Layout, [Next]_vars PROVE Layout'
  OBVIOUS
<1>. USE ApplyAssumption
<1>1. \A s \in Sources, r \in Runs : pc'[r] # "idle" =>
        /\ snapshot'[r].kotlin[s].decls \subseteq DeclaredOnDisk(s)
        /\ snapshot'[r].kotlin[s].state # "text" => snapshot'[r].kotlin[s].decls = {}
  BY SnapshotStep DEF Layout
<1>. DEFINE Fits(k, s) ==
       k.decls \subseteq DeclaredOnDisk(s) /\ (k.state # "text" => k.decls = {})
<1>2. ASSUME NEW s \in Sources PROVE Fits(kotlin'[s], s)
  <2>0. Fits(kotlin[s], s)
    BY DEF Layout
  <2>1. CASE kotlin'[s] = kotlin[s]
    BY <2>0, <2>1
  <2>2. ASSUME NEW r \in Runs, Truncate(r), kotlin'[s] # kotlin[s] PROVE Fits(kotlin'[s], s)
    <3>1. PICK f \in todo[r] : kotlin' = [kotlin EXCEPT ![f] = [@ EXCEPT !.state = "torn", !.decls = {}]]
      BY <2>2 DEF Truncate
    <3>2. kotlin'[s] = [[kotlin[s] EXCEPT !.state = "torn"] EXCEPT !.decls = {}]
      BY <2>2, <3>1 DEF Typed
    <3>3. kotlin'[s].decls = {}
      BY <3>2 DEF Typed, KotlinFiles
    <3>. QED BY <3>3
  <2>3. ASSUME NEW r \in Runs, Fill(r), kotlin'[s] # kotlin[s] PROVE Fits(kotlin'[s], s)
    <3>1. pc[r] # "java" /\ pc[r] # "idle"
      BY <2>3 DEF Fill, Agenda
    <3>2. PICK file : /\ kotlin' = [kotlin EXCEPT ![open[r]] = file]
                      /\ file.state = "text"
                      /\ file.decls = keep[r] \cap snapshot[r].kotlin[open[r]].decls
      BY <2>3, <3>1 DEF Fill
    <3>3. s = open[r] /\ kotlin'[s] = file
      BY <2>3, <3>2 DEF Typed
    <3>. QED BY <3>1, <3>2, <3>3 DEF Layout
  <2>4. ASSUME NEW r \in Runs, DeleteSource(r), kotlin'[s] # kotlin[s] PROVE Fits(kotlin'[s], s)
    BY <2>4 DEF DeleteSource, NoSource, Typed
  <2>5. ASSUME UserEdit, kotlin'[s] # kotlin[s] PROVE Fits(kotlin'[s], s)
    <3>1. PICK f \in Sources : kotlin' = [kotlin EXCEPT ![f].edit = edits + 1]
      BY <2>5 DEF UserEdit
    <3>2. kotlin'[s].state = kotlin[s].state /\ kotlin'[s].decls = kotlin[s].decls
      BY <2>5, <3>1 DEF Typed, KotlinFiles
    <3>. QED BY <2>0, <3>2
  <2>6. ASSUME NEW r \in Runs,
               Plan(r) \/ Reject(r) \/ Verify(r) \/ Proceed(r) \/ LeaveSource(r) \/ RemoveStale(r)
               \/ Finish(r) \/ WriteError(r) \/ Kill(r)
        PROVE  kotlin' = kotlin
    BY <2>6 DEF Plan, Reject, Verify, Proceed, LeaveSource, RemoveStale, Finish, WriteError, Kill, disk
  <2>. QED BY <2>1, <2>2, <2>3, <2>4, <2>5, <2>6 DEF Next, Step, vars
<1>. QED BY <1>1, <1>2 DEF Layout, DeclaredOnDisk

LEMMA StepRecent == Typed /\ Recent /\ [Next]_vars => Recent'
<1>. SUFFICES ASSUME Typed, Recent, [Next]_vars PROVE Recent'
  OBVIOUS
<1>. USE ApplyAssumption
<1>1. /\ edits \in Nat /\ edits' \in Nat /\ edits <= edits'
      /\ \A s \in Sources : kotlin[s].edit \in Nat
      /\ \A d \in Declarations : java[d].edit \in Nat
  <2>1. edits' = edits \/ edits' = edits + 1
    BY DEF Next, Step, Plan, Reject, Verify, Proceed, Truncate, Fill, LeaveSource, DeleteSource,
         RemoveStale, Finish, WriteError, Kill, UserEdit, vars
  <2>. QED BY <2>1 DEF Typed, KotlinFiles, JavaFiles
<1>2. ASSUME NEW r \in Runs, pc[r] # "idle"
      PROVE  /\ \A s \in Sources : snapshot[r].kotlin[s].edit \in Nat
             /\ \A d \in Declarations : snapshot[r].java[d].edit \in Nat
  BY <1>2 DEF Typed, Trees, KotlinFiles, JavaFiles
<1>3. ASSUME NEW r \in Runs, pc'[r] # "idle"
      PROVE  /\ \A s \in Sources : snapshot'[r].kotlin[s].edit <= edits'
             /\ \A d \in Declarations : snapshot'[r].java[d].edit <= edits'
  <2>1. CASE pc[r] # "idle" /\ snapshot'[r] = snapshot[r]
    BY <1>1, <1>2, <2>1 DEF Recent
  <2>2. CASE snapshot'[r].kotlin = kotlin /\ snapshot'[r].java = java
    BY <1>1, <2>2 DEF Recent
  <2>. QED BY <1>3, <2>1, <2>2, SnapshotStep
<1>. DEFINE Near(f) == f.edit <= edits'
<1>4. ASSUME NEW s \in Sources PROVE Near(kotlin'[s])
  <2>0. Near(kotlin[s])
    BY <1>1 DEF Recent
  <2>1. CASE kotlin'[s] = kotlin[s]
    BY <2>0, <2>1
  <2>2. ASSUME NEW r \in Runs, Truncate(r), kotlin'[s] # kotlin[s] PROVE Near(kotlin'[s])
    <3>1. PICK f \in todo[r] : kotlin' = [kotlin EXCEPT ![f] = [@ EXCEPT !.state = "torn", !.decls = {}]]
      BY <2>2 DEF Truncate
    <3>2. kotlin'[s] = [[kotlin[s] EXCEPT !.state = "torn"] EXCEPT !.decls = {}]
      BY <2>2, <3>1 DEF Typed
    <3>3. kotlin'[s].edit = kotlin[s].edit
      BY <3>2 DEF Typed, KotlinFiles
    <3>. QED BY <2>0, <3>3
  <2>3. ASSUME NEW r \in Runs, Fill(r), kotlin'[s] # kotlin[s] PROVE Near(kotlin'[s])
    <3>1. pc[r] # "java"
      BY <2>3 DEF Fill
    <3>2. PICK file : kotlin' = [kotlin EXCEPT ![open[r]] = file] /\ file.edit = 0
      BY <2>3, <3>1 DEF Fill
    <3>3. kotlin'[s] = file
      BY <2>3, <3>2 DEF Typed
    <3>. QED BY <1>1, <3>2, <3>3
  <2>4. ASSUME NEW r \in Runs, DeleteSource(r), kotlin'[s] # kotlin[s] PROVE Near(kotlin'[s])
    BY <1>1, <2>4 DEF DeleteSource, NoSource, Typed
  <2>5. ASSUME UserEdit, kotlin'[s] # kotlin[s] PROVE Near(kotlin'[s])
    <3>1. PICK f \in Sources : kotlin' = [kotlin EXCEPT ![f].edit = edits + 1]
      BY <2>5 DEF UserEdit
    <3>2. kotlin'[s].edit = edits + 1 /\ edits' = edits + 1
      BY <2>5, <3>1 DEF Typed, KotlinFiles, UserEdit
    <3>. QED BY <1>1, <3>2
  <2>6. ASSUME NEW r \in Runs,
               Plan(r) \/ Reject(r) \/ Verify(r) \/ Proceed(r) \/ LeaveSource(r) \/ RemoveStale(r)
               \/ Finish(r) \/ WriteError(r) \/ Kill(r)
        PROVE  kotlin' = kotlin
    BY <2>6 DEF Plan, Reject, Verify, Proceed, LeaveSource, RemoveStale, Finish, WriteError, Kill, disk
  <2>. QED BY <2>1, <2>2, <2>3, <2>4, <2>5, <2>6 DEF Next, Step, vars
<1>5. ASSUME NEW d \in Declarations PROVE Near(java'[d])
  <2>0. Near(java[d])
    BY <1>1 DEF Recent
  <2>1. CASE java'[d] = java[d]
    BY <2>0, <2>1
  <2>2. ASSUME NEW r \in Runs, Truncate(r), java'[d] # java[d] PROVE Near(java'[d])
    <3>1. PICK f \in todo[r] : java' = [java EXCEPT ![f] = [@ EXCEPT !.state = "partial"]]
      BY <2>2 DEF Truncate
    <3>2. java'[d] = [java[d] EXCEPT !.state = "partial"]
      BY <2>2, <3>1 DEF Typed
    <3>3. java'[d].edit = java[d].edit
      BY <3>2 DEF Typed, JavaFiles
    <3>. QED BY <2>0, <3>3
  <2>3. ASSUME NEW r \in Runs, Fill(r), java'[d] # java[d] PROVE Near(java'[d])
    BY <1>1, <2>3 DEF Fill, Generated, Typed
  <2>4. ASSUME NEW r \in Runs, RemoveStale(r), java'[d] # java[d] PROVE Near(java'[d])
    BY <1>1, <2>4 DEF RemoveStale, NoJava, Typed
  <2>5. ASSUME UserEdit, java'[d] # java[d] PROVE Near(java'[d])
    <3>1. PICK f \in Declarations : java' = [java EXCEPT ![f].edit = edits + 1]
      BY <2>5 DEF UserEdit
    <3>2. java'[d].edit = edits + 1 /\ edits' = edits + 1
      BY <2>5, <3>1 DEF Typed, JavaFiles, UserEdit
    <3>. QED BY <1>1, <3>2
  <2>6. ASSUME NEW r \in Runs,
               Plan(r) \/ Reject(r) \/ Verify(r) \/ Proceed(r) \/ LeaveSource(r) \/ DeleteSource(r)
               \/ Finish(r) \/ WriteError(r) \/ Kill(r)
        PROVE  java' = java
    BY <2>6 DEF Plan, Reject, Verify, Proceed, LeaveSource, DeleteSource, Finish, WriteError, Kill, disk
  <2>. QED BY <2>1, <2>2, <2>3, <2>4, <2>5, <2>6 DEF Next, Step, vars
<1>. QED BY <1>3, <1>4, <1>5 DEF Recent

-------------------------------------------------------------------------------
(* How far a run is with a file its plan changes.                          *)
JavaDone(r, d) == pc[r] \in {"stale", "sources", "finish"} \/ (pc[r] = "java" /\ d \notin todo[r])
StaleDone(r, d) == pc[r] \in {"sources", "finish"} \/ (pc[r] = "stale" /\ d \notin todo[r])
SourceDone(r, s) == pc[r] = "finish" \/ (pc[r] = "sources" /\ s \notin todo[r])

(* What the tree looks like to a run that is alone with the user.          *)
KotlinProgress(r) ==
  \A s \in Sources :
    /\ open[r] = s => kotlin[s].state = "torn" /\ kotlin[s].decls = {}
    /\ open[r] # s /\ s \in SourceItems(r) /\ SourceDone(r, s)
         => kotlin[s].decls = keep[r] \cap snapshot[r].kotlin[s].decls
    /\ open[r] # s /\ ~(s \in SourceItems(r) /\ SourceDone(r, s))
         => /\ kotlin[s].decls = snapshot[r].kotlin[s].decls
            /\ kotlin[s].state = snapshot[r].kotlin[s].state

JavaProgress(r) ==
  \A d \in Declarations :
    open[r] # d =>
      /\ d \in Moved(r) /\ JavaDone(r, d) => java[d].state = "generated"
      /\ d \in StaleItems(r) /\ StaleDone(r, d) => java[d].state # "generated"
      /\ ~(d \in Moved(r) /\ JavaDone(r, d)) /\ ~(d \in StaleItems(r) /\ StaleDone(r, d))
           => java[d].state = snapshot[r].java[d].state

(* Runs are alone until two of them overlap.                               *)
Alone ==
  ~overlapped =>
    /\ \A r, q \in Runs : Active(r) /\ Active(q) => r = q
    /\ \A r \in Runs : Active(r) => KotlinProgress(r) /\ JavaProgress(r)

LEMMA ItemsApart ==
  ASSUME Typed, NEW r \in Runs, pc[r] # "idle"
  PROVE  /\ Moved(r) \cap StaleItems(r) = {}
         /\ Moved(r) \cap SourceItems(r) = {} /\ StaleItems(r) \cap SourceItems(r) = {}
<1>1. Moved(r) \cap StaleItems(r) = {}
  BY DEF StaleItems
<1>. QED BY <1>1, PlannedTyped, ApplyAssumption

(* Going on to the next phase leaves every item as far as it was.          *)
LEMMA PhaseKeepsDone ==
  ASSUME Typed, Agenda, NEW r \in Runs, Verify(r) \/ Proceed(r), Active(r)'
  PROVE  /\ UNCHANGED <<kotlin, java>>
         /\ keep'[r] = keep[r] /\ snapshot'[r] = snapshot[r] /\ open'[r] = open[r]
         /\ Moved(r)' = Moved(r) /\ StaleItems(r)' = StaleItems(r) /\ SourceItems(r)' = SourceItems(r)
         /\ \A d \in Moved(r) : JavaDone(r, d)' <=> JavaDone(r, d)
         /\ \A d \in StaleItems(r) : StaleDone(r, d)' <=> StaleDone(r, d)
         /\ \A s \in SourceItems(r) : SourceDone(r, s)' <=> SourceDone(r, s)
<1>1. /\ UNCHANGED <<kotlin, java>>
      /\ keep'[r] = keep[r] /\ snapshot'[r] = snapshot[r] /\ open'[r] = open[r]
  BY DEF Verify, Proceed, disk, plans
<1>2. /\ Moved(r)' = Moved(r) /\ StaleItems(r)' = StaleItems(r) /\ SourceItems(r)' = SourceItems(r)
      /\ \A phase : Items(r, phase)' = Items(r, phase)
  BY <1>1, PlanFixed
<1>3. \/ pc[r] = "planned" /\ pc'[r] = "java" /\ todo'[r] = Moved(r)
      \/ pc[r] = "java" /\ pc'[r] = "stale" /\ todo[r] = {} /\ todo'[r] = StaleItems(r)
      \/ pc[r] = "stale" /\ pc'[r] = "sources" /\ todo[r] = {} /\ todo'[r] = SourceItems(r)
      \/ pc[r] = "sources" /\ pc'[r] = "finish" /\ todo[r] = {}
  <2>1. CASE Verify(r)
    <3>1. pc'[r] # "failed"
      BY DEF Active, Ended
    <3>. QED BY <2>1, <3>1, PhaseOrder, PhaseItems DEF Verify, Typed
  <2>2. CASE Proceed(r)
    BY <2>2, PhaseOrder, PhaseItems DEF Proceed, Typed, WritePhases
  <2>. QED BY <2>1, <2>2
<1>4. \A d \in Moved(r) : JavaDone(r, d)' <=> JavaDone(r, d)
  BY <1>3 DEF JavaDone
<1>5. \A d \in StaleItems(r) : StaleDone(r, d)' <=> StaleDone(r, d)
  BY <1>3 DEF StaleDone
<1>6. \A s \in SourceItems(r) : SourceDone(r, s)' <=> SourceDone(r, s)
  BY <1>3 DEF SourceDone
<1>. QED BY <1>1, <1>2, <1>4, <1>5, <1>6

LEMMA ProgressOfPhase ==
  ASSUME Typed, Agenda, NEW r \in Runs, Verify(r) \/ Proceed(r), Active(r)',
         KotlinProgress(r), JavaProgress(r)
  PROVE  KotlinProgress(r)' /\ JavaProgress(r)'
<1>1. KotlinProgress(r)'
  BY PhaseKeepsDone DEF KotlinProgress
<1>2. JavaProgress(r)'
  BY PhaseKeepsDone DEF JavaProgress
<1>. QED BY <1>1, <1>2

LEMMA ProgressOfJava ==
  ASSUME Typed, Agenda, NEW r \in Runs, pc[r] = "java", Truncate(r) \/ Fill(r),
         KotlinProgress(r), JavaProgress(r)
  PROVE  KotlinProgress(r)' /\ JavaProgress(r)'
<1>. USE ApplyAssumption
<1>1. /\ keep'[r] = keep[r] /\ snapshot'[r] = snapshot[r] /\ pc'[r] = pc[r] /\ kotlin' = kotlin
  <2>1. UNCHANGED <<keep, snapshot, pc>>
    BY DEF Truncate, Fill, plans
  <2>2. kotlin' = kotlin
    BY DEF Truncate, Fill
  <2>. QED BY <2>1, <2>2
<1>2. Moved(r)' = Moved(r) /\ StaleItems(r)' = StaleItems(r) /\ SourceItems(r)' = SourceItems(r)
  BY <1>1, PlanFixed
<1>3. todo[r] \subseteq Moved(r) /\ Moved(r) \subseteq Declarations
  BY PhaseItems, PlannedTyped DEF Agenda, WritePhases
<1>4. open[r] \notin Sources /\ open'[r] \notin Sources
  <2>1. open[r] \notin Sources
    BY <1>3 DEF Agenda
  <2>2. open'[r] \in todo[r] \cup {None}
    BY DEF Truncate, Fill, Typed
  <2>. QED BY <1>3, <2>1, <2>2
<1>5. KotlinProgress(r)'
  BY <1>1, <1>2, <1>4 DEF KotlinProgress, SourceDone
<1>6. CASE Truncate(r)
  <2>1. PICK f \in todo[r] : /\ java' = [java EXCEPT ![f] = [@ EXCEPT !.state = "partial"]]
                             /\ open' = [open EXCEPT ![r] = f]
    BY <1>6 DEF Truncate
  <2>2. todo'[r] = todo[r] /\ open[r] = None /\ open'[r] = f
    BY <1>6, <2>1 DEF Truncate, Typed
  <2>3. \A d \in Declarations : d # f => java'[d] = java[d]
    BY <2>1 DEF Typed
  <2>. QED BY <1>1, <1>2, <1>5, <2>2, <2>3 DEF JavaProgress, JavaDone, StaleDone
<1>7. CASE Fill(r)
  <2>1. /\ java' = [java EXCEPT ![open[r]] = Generated]
        /\ todo'[r] = todo[r] \ {open[r]} /\ open'[r] = None
    BY <1>7 DEF Fill, Typed
  <2>2. open[r] \in todo[r]
    BY <1>7 DEF Fill, Agenda
  <2>3. \A d \in Declarations : d # open[r] => java'[d] = java[d]
    BY <2>1 DEF Typed
  <2>4. java'[open[r]].state = "generated"
    BY <1>3, <2>1, <2>2 DEF Typed, Generated
  <2>. QED BY <1>1, <1>2, <1>3, <1>5, <2>1, <2>2, <2>3, <2>4, ItemsApart
       DEF JavaProgress, JavaDone, StaleDone
<1>. QED BY <1>6, <1>7

LEMMA ProgressOfSources ==
  ASSUME Typed, Agenda, NEW r \in Runs, pc[r] = "sources",
         Truncate(r) \/ Fill(r) \/ LeaveSource(r) \/ DeleteSource(r), Active(r)',
         KotlinProgress(r), JavaProgress(r)
  PROVE  KotlinProgress(r)' /\ JavaProgress(r)'
<1>. USE ApplyAssumption
<1>1. /\ keep'[r] = keep[r] /\ snapshot'[r] = snapshot[r] /\ pc'[r] = pc[r] /\ java' = java
  <2>1. UNCHANGED <<keep, snapshot>>
    BY DEF Truncate, Fill, LeaveSource, DeleteSource, plans
  <2>2. java' = java
    BY DEF Truncate, Fill, LeaveSource, DeleteSource, disk
  <2>3. pc'[r] = pc[r]
    BY DEF Truncate, Fill, LeaveSource, DeleteSource, Active, Ended, Typed
  <2>. QED BY <2>1, <2>2, <2>3
<1>2. Moved(r)' = Moved(r) /\ StaleItems(r)' = StaleItems(r) /\ SourceItems(r)' = SourceItems(r)
  BY <1>1, PlanFixed
<1>3. todo[r] \subseteq SourceItems(r) /\ SourceItems(r) \subseteq Sources
  BY PhaseItems, PlannedTyped DEF Agenda, WritePhases
<1>4. open[r] \notin Declarations /\ open'[r] \notin Declarations
  <2>1. open[r] \notin Declarations
    BY <1>3 DEF Agenda
  <2>2. open'[r] \in todo[r] \cup {open[r], None}
    BY DEF Truncate, Fill, LeaveSource, DeleteSource, Typed
  <2>. QED BY <1>3, <2>1, <2>2
<1>5. JavaProgress(r)'
  BY <1>1, <1>2, <1>4 DEF JavaProgress, JavaDone, StaleDone
<1>6. CASE Truncate(r)
  <2>1. PICK f \in todo[r] :
          /\ kotlin' = [kotlin EXCEPT ![f] = [@ EXCEPT !.state = "torn", !.decls = {}]]
          /\ open' = [open EXCEPT ![r] = f]
    BY <1>6 DEF Truncate
  <2>2. todo'[r] = todo[r] /\ open[r] = None /\ open'[r] = f
    BY <1>6, <2>1 DEF Truncate, Typed
  <2>3. \A s \in Sources : s # f => kotlin'[s] = kotlin[s]
    BY <2>1 DEF Typed
  <2>4. kotlin'[f] = [[kotlin[f] EXCEPT !.state = "torn"] EXCEPT !.decls = {}]
    BY <1>3, <2>1 DEF Typed
  <2>5. kotlin'[f].state = "torn" /\ kotlin'[f].decls = {}
    BY <1>3, <2>4 DEF Typed, KotlinFiles
  <2>. QED BY <1>1, <1>2, <1>5, <2>2, <2>3, <2>5 DEF KotlinProgress, SourceDone
<1>7. ASSUME NEW s \in todo[r], open[r] \in {s, None}, open'[r] = None, todo'[r] = todo[r] \ {s},
             \A t \in Sources : t # s => kotlin'[t] = kotlin[t],
             kotlin'[s].decls = keep[r] \cap snapshot[r].kotlin[s].decls
      PROVE  KotlinProgress(r)'
  BY <1>1, <1>2, <1>3, <1>7 DEF KotlinProgress, SourceDone
<1>8. CASE Fill(r)
  <2>1. PICK file : /\ kotlin' = [kotlin EXCEPT ![open[r]] = file]
                    /\ file.decls = keep[r] \cap snapshot[r].kotlin[open[r]].decls
    BY <1>8 DEF Fill
  <2>2. open[r] \in todo[r] /\ todo'[r] = todo[r] \ {open[r]} /\ open'[r] = None
    BY <1>8 DEF Fill, Agenda, Typed
  <2>3. kotlin'[open[r]] = file /\ \A t \in Sources : t # open[r] => kotlin'[t] = kotlin[t]
    BY <1>3, <2>1, <2>2 DEF Typed
  <2>. QED BY <1>5, <1>7, <2>1, <2>2, <2>3
<1>9. CASE LeaveSource(r)
  <2>1. PICK s \in todo[r] : /\ snapshot[r].kotlin[s].decls \subseteq keep[r]
                             /\ todo' = [todo EXCEPT ![r] = @ \ {s}]
    BY <1>9 DEF LeaveSource
  <2>2. kotlin' = kotlin /\ open[r] = None /\ open'[r] = None /\ todo'[r] = todo[r] \ {s}
    BY <1>9, <2>1 DEF LeaveSource, disk, Typed
  <2>3. kotlin[s].decls = snapshot[r].kotlin[s].decls
    BY <1>3, <2>2 DEF KotlinProgress, SourceDone
  <2>. QED BY <1>1, <1>2, <1>3, <1>5, <2>1, <2>2, <2>3 DEF KotlinProgress, SourceDone
<1>10. CASE DeleteSource(r)
  <2>1. PICK s \in todo[r] : /\ keep[r] \cap snapshot[r].kotlin[s].decls = {}
                             /\ kotlin' = [kotlin EXCEPT ![s] = NoSource]
                             /\ todo' = [todo EXCEPT ![r] = @ \ {s}]
    BY <1>1, <1>10 DEF DeleteSource, Typed
  <2>2. open[r] = None /\ open'[r] = None /\ todo'[r] = todo[r] \ {s} /\ s \notin todo'[r]
    BY <1>10, <2>1 DEF DeleteSource, Typed
  <2>3. kotlin'[s].decls = {} /\ \A t \in Sources : t # s => kotlin'[t] = kotlin[t]
    BY <1>3, <2>1 DEF NoSource, Typed
  <2>. QED BY <1>1, <1>2, <1>3, <1>5, <2>1, <2>2, <2>3 DEF KotlinProgress, SourceDone
<1>. QED BY <1>6, <1>8, <1>9, <1>10

LEMMA ProgressOfStale ==
  ASSUME Typed, Agenda, NEW r \in Runs, RemoveStale(r), KotlinProgress(r), JavaProgress(r)
  PROVE  KotlinProgress(r)' /\ JavaProgress(r)'
<1>. USE ApplyAssumption
<1>1. /\ keep'[r] = keep[r] /\ snapshot'[r] = snapshot[r] /\ pc'[r] = pc[r] /\ open'[r] = open[r]
      /\ kotlin' = kotlin /\ pc[r] = "stale"
  BY DEF RemoveStale, plans
<1>2. Moved(r)' = Moved(r) /\ StaleItems(r)' = StaleItems(r) /\ SourceItems(r)' = SourceItems(r)
  BY <1>1, PlanFixed
<1>3. todo[r] \subseteq StaleItems(r) /\ StaleItems(r) \subseteq Declarations
  BY <1>1, PhaseItems, PlannedTyped DEF Agenda, WritePhases
<1>4. PICK d \in todo[r] : /\ todo' = [todo EXCEPT ![r] = @ \ {d}]
                           /\ IF java[d].state = "generated" THEN java' = [java EXCEPT ![d] = NoJava]
                              ELSE java' = java
  BY DEF RemoveStale
<1>5. java'[d].state # "generated" /\ \A e \in Declarations : e # d => java'[e] = java[e]
  BY <1>3, <1>4 DEF Typed, NoJava
<1>6. todo'[r] = todo[r] \ {d} /\ d \notin Moved(r)
  BY <1>1, <1>3, <1>4, ItemsApart DEF Typed
<1>7. KotlinProgress(r)'
  BY <1>1, <1>2 DEF KotlinProgress, SourceDone
<1>8. \A e \in Declarations : /\ JavaDone(r, e)' /\ JavaDone(r, e)
                              /\ e # d => (StaleDone(r, e)' <=> StaleDone(r, e))
                              /\ StaleDone(r, d)'
  BY <1>1, <1>6 DEF JavaDone, StaleDone
<1>9. JavaProgress(r)'
  BY <1>1, <1>2, <1>3, <1>5, <1>6, <1>8 DEF JavaProgress
<1>. QED BY <1>7, <1>9

LEMMA ProgressOfPlan ==
  ASSUME Typed, Agenda, NEW r \in Runs, Plan(r)
  PROVE  KotlinProgress(r)' /\ JavaProgress(r)'
<1>1. /\ pc'[r] = "planned" /\ snapshot'[r] = [kotlin |-> kotlin, java |-> java]
      /\ kotlin' = kotlin /\ java' = java
  BY DEF Plan, disk, Typed
<1>2. open'[r] \notin Sources \cup Declarations
  BY ApplyAssumption DEF Plan, Agenda, Typed
<1>3. \A f : ~JavaDone(r, f)' /\ ~StaleDone(r, f)' /\ ~SourceDone(r, f)'
  BY <1>1 DEF JavaDone, StaleDone, SourceDone
<1>. QED BY <1>1, <1>2, <1>3 DEF KotlinProgress, JavaProgress

LEMMA EditedContent ==
  ASSUME Typed, UserEdit
  PROVE  /\ \A s \in Sources : kotlin'[s].decls = kotlin[s].decls /\ kotlin'[s].state = kotlin[s].state
         /\ \A d \in Declarations : java'[d].state = java[d].state
<1>1. ASSUME NEW f \in Sources, kotlin' = [kotlin EXCEPT ![f].edit = edits + 1], NEW s \in Sources
      PROVE  kotlin'[s].decls = kotlin[s].decls /\ kotlin'[s].state = kotlin[s].state
  BY <1>1 DEF Typed, KotlinFiles
<1>2. ASSUME NEW f \in Declarations, java' = [java EXCEPT ![f].edit = edits + 1],
             NEW d \in Declarations
      PROVE  java'[d].state = java[d].state
  BY <1>2 DEF Typed, JavaFiles
<1>. QED BY <1>1, <1>2 DEF UserEdit

LEMMA ProgressOfEdit ==
  ASSUME Typed, Agenda, UserEdit, NEW r \in Runs, KotlinProgress(r), JavaProgress(r)
  PROVE  KotlinProgress(r)' /\ JavaProgress(r)'
<1>1. UNCHANGED <<pc, keep, snapshot, todo, open>>
  BY DEF UserEdit, plans
<1>2. Moved(r)' = Moved(r) /\ StaleItems(r)' = StaleItems(r) /\ SourceItems(r)' = SourceItems(r)
  BY <1>1, PlanFixed
<1>. QED BY <1>1, <1>2, EditedContent
       DEF KotlinProgress, JavaProgress, JavaDone, StaleDone, SourceDone

LEMMA Acting ==
  ASSUME Typed, Agenda, NEW r \in Runs, (Step(r) /\ ~Plan(r)) \/ WriteError(r) \/ Kill(r)
  PROVE  Active(r) /\ UNCHANGED overlapped
<1>1. overlapped' = overlapped
  BY Zenon DEF Step, Reject, Verify, Proceed, Truncate, Fill, LeaveSource, DeleteSource, RemoveStale,
       Finish, WriteError, Kill, history
<1>2. Active(r)
  BY DEF Step, Reject, Verify, Proceed, Truncate, Fill, LeaveSource, DeleteSource, RemoveStale,
       Finish, WriteError, Kill, Active, Ended, WritePhases, Agenda
<1>. QED BY <1>1, <1>2

LEMMA StepAlone == Typed /\ Agenda /\ Alone /\ [Next]_vars => Alone'
<1>. SUFFICES ASSUME Typed, Agenda, Alone, [Next]_vars, ~overlapped'
              PROVE  /\ \A r, q \in Runs : Active(r)' /\ Active(q)' => r = q
                     /\ \A r \in Runs : Active(r)' => KotlinProgress(r)' /\ JavaProgress(r)'
  BY DEF Alone
<1>1. ASSUME NEW r \in Runs, Plan(r)
      PROVE  \A q \in Runs : Active(q)' => q = r /\ KotlinProgress(q)' /\ JavaProgress(q)'
  <2>1. \A q \in Runs : ~Active(q)
    BY <1>1, Zenon DEF Plan
  <2>2. \A q \in Runs \ {r} : ~Active(q)'
    BY <1>1, <2>1, OthersStay DEF Step, Active
  <2>. QED BY <1>1, <2>2, ProgressOfPlan
<1>2. ASSUME NEW r \in Runs, (Step(r) /\ ~Plan(r)) \/ WriteError(r) \/ Kill(r)
      PROVE  \A q \in Runs : Active(q)' => q = r /\ KotlinProgress(q)' /\ JavaProgress(q)'
  <2>1. Active(r) /\ ~overlapped
    BY <1>2, Acting, Zenon
  <2>2. KotlinProgress(r) /\ JavaProgress(r) /\ \A q \in Runs \ {r} : ~Active(q)
    BY <2>1 DEF Alone
  <2>3. \A q \in Runs \ {r} : ~Active(q)'
    BY <1>2, <2>2, OthersStay DEF Active
  <2>4. ASSUME Active(r)' PROVE KotlinProgress(r)' /\ JavaProgress(r)'
    <3>1. ~Reject(r) /\ ~Finish(r) /\ ~WriteError(r) /\ ~Kill(r)
      BY <2>4 DEF Reject, Finish, WriteError, Kill, Active, Ended, Typed
    <3>2. CASE Verify(r) \/ Proceed(r)
      BY <2>2, <2>4, <3>2, ProgressOfPhase
    <3>3. CASE Truncate(r) \/ Fill(r)
      BY <2>2, <2>4, <3>3, ProgressOfJava, ProgressOfSources DEF Truncate, Fill, Agenda
    <3>4. CASE LeaveSource(r) \/ DeleteSource(r)
      BY <2>2, <2>4, <3>4, ProgressOfSources DEF LeaveSource, DeleteSource
    <3>5. CASE RemoveStale(r)
      BY <2>2, <3>5, ProgressOfStale
    <3>. QED BY <1>2, <3>1, <3>2, <3>3, <3>4, <3>5 DEF Step
  <2>. QED BY <2>3, <2>4
<1>3. ASSUME UserEdit \/ UNCHANGED vars
      PROVE  /\ ~overlapped /\ \A q \in Runs : Active(q)' <=> Active(q)
             /\ \A q \in Runs : KotlinProgress(q) /\ JavaProgress(q)
                                  => KotlinProgress(q)' /\ JavaProgress(q)'
  <2>1. CASE UserEdit
    <3>1. ~overlapped
      BY <2>1, Zenon DEF UserEdit
    <3>2. pc' = pc
      BY <2>1 DEF UserEdit
    <3>. QED BY <2>1, <3>1, <3>2, ProgressOfEdit DEF Active
  <2>2. CASE UNCHANGED vars
    <3>1. ~overlapped
      BY <2>2, Zenon DEF vars
    <3>2. UNCHANGED <<kotlin, java, pc, keep, snapshot, todo, open>>
      BY <2>2 DEF vars
    <3>. QED BY <3>1, <3>2, PlanFixed
         DEF Active, KotlinProgress, JavaProgress, JavaDone, StaleDone, SourceDone
  <2>. QED BY <1>3, <2>1, <2>2
<1>4. CASE UserEdit \/ UNCHANGED vars
  BY <1>3, <1>4 DEF Alone
<1>. QED BY <1>1, <1>2, <1>4 DEF Next

-------------------------------------------------------------------------------
(* A declaration is on disk, or in a source torn while a run kept it.      *)
Present(d) ==
  \/ InKotlin(d)
  \/ java[d].state = "generated"
  \/ kotlin[FileOf[d]].state = "torn" /\ \E q \in Runs : d \in keep[q]

(* So was it when a run planned.                                           *)
Whole(r) ==
  \A d \in Declarations :
    \/ d \in snapshot[r].kotlin[FileOf[d]].decls
    \/ snapshot[r].java[d].state = "generated"
    \/ snapshot[r].kotlin[FileOf[d]].state = "torn" /\ \E q \in Runs : d \in keep[q]

AllPresent ==
  ~overlapped =>
    /\ \A d \in Declarations : Present(d)
    /\ \A r \in Runs : pc[r] # "idle" => Whole(r)

LEMMA PlannedWhere ==
  ASSUME Typed, Layout, NEW r \in Runs, pc[r] # "idle", NEW d \in Declarations
  PROVE  d \in Planned(r) <=> d \in snapshot[r].kotlin[FileOf[d]].decls
<1>1. FileOf[d] \in Sources
  BY ApplyAssumption
<1>2. \A s \in Sources : d \in snapshot[r].kotlin[s].decls => s = FileOf[d]
  BY DEF Layout, DeclaredOnDisk
<1>. QED BY <1>1, <1>2 DEF Planned

(* At every point of a run, what it has not done yet and what it has done  *)
(* account for every declaration between them.                             *)
Accounted ==
  Typed /\ Agenda /\ Layout =>
    \A r \in Runs : Active(r) /\ KotlinProgress(r) /\ JavaProgress(r) /\ Whole(r) =>
      \A d \in Declarations : Present(d)

LEMMA PresentInProgress == Accounted
<1>. SUFFICES ASSUME Typed, Agenda, Layout, NEW r \in Runs, Active(r), KotlinProgress(r),
                     JavaProgress(r), Whole(r), NEW d \in Declarations
              PROVE  Present(d)
  BY DEF Accounted
<1>. USE ApplyAssumption
<1>. DEFINE s == FileOf[d]
            before == snapshot[r].kotlin[s]
<1>0. s \in Sources /\ pc[r] # "idle"
  BY DEF Active
<1>1. d \in Planned(r) <=> d \in before.decls
  BY <1>0, PlannedWhere
<1>2. open[r] = s => pc[r] = "sources" /\ s \in SourceItems(r)
  BY <1>0, PhaseItems, PlannedTyped DEF Agenda, WritePhases
<1>3. open[r] = d => pc[r] = "java" /\ d \in todo[r] /\ d \in Moved(r)
  BY <1>0, PhaseItems, PlannedTyped DEF Agenda, WritePhases
<1>4. CASE d \in before.decls /\ d \in Moved(r)
  <2>0. d \notin keep[r] /\ s \in SourceItems(r)
    BY <1>0, <1>4 DEF Moved, SourceItems
  <2>1. CASE pc[r] \in {"sources", "finish"}
    <3>1. open[r] # d /\ JavaDone(r, d)
      BY <1>3, <2>1 DEF JavaDone
    <3>. QED BY <1>4, <3>1 DEF JavaProgress, Present
  <2>2. CASE pc[r] \notin {"sources", "finish"}
    <3>1. open[r] # s /\ ~SourceDone(r, s)
      BY <1>2, <2>2 DEF SourceDone
    <3>. QED BY <1>0, <1>4, <3>1 DEF KotlinProgress, Present, InKotlin
  <2>. QED BY <2>1, <2>2
<1>5. CASE d \in before.decls /\ d \in keep[r]
  <2>1. CASE open[r] = s
    BY <1>0, <1>5, <2>1 DEF KotlinProgress, Present
  <2>2. CASE open[r] # s
    BY <1>0, <1>5, <2>2 DEF KotlinProgress, Present, InKotlin
  <2>. QED BY <2>1, <2>2
<1>6. CASE d \notin before.decls
  <2>1. d \notin Moved(r) /\ d \notin StaleItems(r)
    BY <1>1, <1>6 DEF Moved, StaleItems
  <2>2. java[d].state = snapshot[r].java[d].state
    BY <1>3, <2>1 DEF JavaProgress
  <2>3. CASE before.state = "torn"
    <3>1. s \notin SourceItems(r)
      BY <1>0, <2>3 DEF Layout, SourceItems
    <3>2. kotlin[s].state = "torn"
      BY <1>0, <1>2, <2>3, <3>1 DEF KotlinProgress
    <3>. QED BY <1>6, <2>2, <3>2 DEF Whole, Present
  <2>. QED BY <1>6, <2>2, <2>3 DEF Whole, Present
<1>. QED BY <1>1, <1>4, <1>5, <1>6 DEF Moved

LEMMA KeepGrows ==
  ASSUME Typed, Agenda, [Next]_vars, NEW q \in Runs
  PROVE  keep[q] \subseteq keep'[q]
<1>1. CASE Plan(q)
  BY <1>1 DEF Plan, Agenda
<1>2. ASSUME NEW r \in Runs, Step(r) \/ WriteError(r) \/ Kill(r), r # q PROVE keep'[q] = keep[q]
  BY <1>2, OthersStay
<1>3. CASE (Step(q) /\ ~Plan(q)) \/ WriteError(q) \/ Kill(q)
  BY <1>3 DEF Step, Reject, Verify, Proceed, Truncate, Fill, LeaveSource, DeleteSource, RemoveStale,
       Finish, WriteError, Kill, plans
<1>4. CASE UserEdit \/ UNCHANGED vars
  BY <1>4 DEF UserEdit, vars, plans
<1>. QED BY <1>1, <1>2, <1>3, <1>4 DEF Next

LEMMA StepPresent ==
  Typed /\ Agenda /\ Layout /\ Alone /\ AllPresent /\ [Next]_vars
    /\ Typed' /\ Agenda' /\ Layout' /\ Alone' => AllPresent'
<1>. SUFFICES ASSUME Typed, Agenda, Layout, Alone, AllPresent, [Next]_vars,
                     Typed', Agenda', Layout', Alone', ~overlapped'
              PROVE  /\ \A d \in Declarations : Present(d)'
                     /\ \A r \in Runs : pc'[r] # "idle" => Whole(r)'
  BY DEF AllPresent
<1>1. ~overlapped
  <2>1. ASSUME NEW r \in Runs, Plan(r) PROVE ~overlapped
    BY <2>1, Zenon DEF Plan
  <2>2. ASSUME NEW r \in Runs, (Step(r) /\ ~Plan(r)) \/ WriteError(r) \/ Kill(r) PROVE ~overlapped
    BY <2>2, Acting, Zenon
  <2>3. CASE UserEdit \/ UNCHANGED vars
    BY <2>3, Zenon DEF UserEdit, vars
  <2>. QED BY <2>1, <2>2, <2>3 DEF Next
<1>2. /\ \A d \in Declarations : Present(d)
      /\ \A r \in Runs : pc[r] # "idle" => Whole(r)
  BY <1>1 DEF AllPresent
<1>3. \A q \in Runs : keep[q] \subseteq keep'[q]
  BY KeepGrows
<1>4. ASSUME NEW r \in Runs, pc'[r] # "idle" PROVE Whole(r)'
  <2>1. CASE pc[r] # "idle" /\ snapshot'[r] = snapshot[r]
    BY <1>2, <1>3, <2>1 DEF Whole
  <2>2. CASE snapshot'[r].kotlin = kotlin /\ snapshot'[r].java = java
    BY <1>2, <1>3, <2>2 DEF Whole, Present, InKotlin
  <2>. QED BY <1>4, <2>1, <2>2, SnapshotStep
<1>5. ASSUME NEW d \in Declarations,
             kotlin'[FileOf[d]].decls = kotlin[FileOf[d]].decls,
             kotlin'[FileOf[d]].state = kotlin[FileOf[d]].state,
             java'[d].state = java[d].state
      PROVE  Present(d)'
  BY <1>2, <1>3, <1>5 DEF Present, InKotlin
<1>6. ASSUME UNCHANGED disk, NEW d \in Declarations PROVE Present(d)'
  BY <1>5, <1>6 DEF disk
<1>7. ASSUME UserEdit, NEW d \in Declarations PROVE Present(d)'
  BY <1>5, <1>7, EditedContent, ApplyAssumption
<1>8. ASSUME NEW r \in Runs, Active(r)', NEW d \in Declarations PROVE Present(d)'
  <2>1. KotlinProgress(r)' /\ JavaProgress(r)' /\ pc'[r] # "idle"
    BY <1>8 DEF Alone, Active
  <2>2. Whole(r)'
    BY <1>4, <2>1
  <2>3. Accounted'
    BY PresentInProgress, PTL
  <2>. QED BY <1>8, <2>1, <2>2, <2>3 DEF Accounted
<1>9. ASSUME NEW r \in Runs, Step(r) \/ WriteError(r) \/ Kill(r), ~Active(r)' PROVE UNCHANGED disk
  <2>1. ~Fill(r) /\ ~Truncate(r) /\ ~RemoveStale(r)
    BY <1>9 DEF Fill, Truncate, RemoveStale, Active, Ended, Agenda, WritePhases
  <2>2. CASE DeleteSource(r)
    BY <1>9, <2>2 DEF DeleteSource, Active, Ended, disk
  <2>. QED BY <1>9, <2>1, <2>2 DEF Step, Plan, Reject, Verify, Proceed, LeaveSource, Finish,
         WriteError, Kill, disk
<1>. QED BY <1>4, <1>6, <1>7, <1>8, <1>9 DEF Next, vars, disk

-------------------------------------------------------------------------------
(* An outdated run has not written, will not, and finds a file changed.    *)
Outdated(r) ==
  /\ ~wrote[r]
  /\ pc[r] \in Ended \cup {"planned"}
  /\ pc[r] = "planned" =>
       \E f \in VerifyItems(r) : f \in Sources \cup Declarations /\ Planning(r, f).edit < OnDisk(f).edit

StaleHalts ==
  /\ \A r \in Runs : pc[r] \in {"idle", "planned"} => ~wrote[r]
  /\ ~overlapped => \A r \in stale : Outdated(r)

LEMMA StillUnwritten ==
  ASSUME Typed, Flags, Agenda, [Next]_vars, NEW r \in Runs, ~wrote[r], pc[r] \notin WritePhases
  PROVE  ~wrote'[r]
<1>1. ASSUME NEW q \in Runs, Truncate(q) \/ DeleteSource(q) \/ RemoveStale(q) PROVE ~wrote'[r]
  <2>1. q # r
    BY <1>1, PhaseItems DEF Truncate, DeleteSource, RemoveStale, WritePhases
  <2>2. wrote' = wrote \/ wrote' = [wrote EXCEPT ![q] = TRUE]
    BY <1>1, Zenon DEF Truncate, DeleteSource, RemoveStale
  <2>. QED BY <2>1, <2>2, Zenon DEF Flags
<1>2. ASSUME NEW q \in Runs, Plan(q) \/ Reject(q) \/ Verify(q) \/ Proceed(q) \/ Fill(q)
                             \/ LeaveSource(q) \/ Finish(q) \/ WriteError(q) \/ Kill(q)
      PROVE  ~wrote'[r]
  BY <1>2, Zenon DEF Plan, Reject, Verify, Proceed, Fill, LeaveSource, Finish, WriteError, Kill
<1>3. CASE UserEdit \/ UNCHANGED vars
  BY <1>3, Zenon DEF UserEdit, vars
<1>. QED BY <1>1, <1>2, <1>3 DEF Next, Step

LEMMA StepStale ==
  Typed /\ Flags /\ Agenda /\ Recent /\ Alone /\ StaleHalts /\ [Next]_vars => StaleHalts'
<1>. SUFFICES ASSUME Typed, Flags, Agenda, Recent, Alone, StaleHalts, [Next]_vars PROVE StaleHalts'
  OBVIOUS
<1>. USE ApplyAssumption
<1>1. ASSUME NEW r \in Runs, pc'[r] \in {"idle", "planned"} PROVE ~wrote'[r]
  <2>1. pc[r] \in {"idle", "planned"}
    <3>1. ASSUME NEW q \in Runs, q # r, Step(q) \/ WriteError(q) \/ Kill(q) PROVE pc'[r] = pc[r]
      BY <3>1, OthersStay
    <3>2. CASE Step(r) \/ WriteError(r) \/ Kill(r)
      <4>1. CASE Plan(r)
        BY <4>1 DEF Plan
      <4>2. CASE Reject(r) \/ Verify(r) \/ Proceed(r) \/ Finish(r) \/ WriteError(r) \/ Kill(r)
        BY <1>1, <4>2, PhaseOrder
           DEF Reject, Verify, Proceed, Finish, WriteError, Kill, Typed, WritePhases
      <4>3. CASE Truncate(r) \/ Fill(r) \/ LeaveSource(r) \/ DeleteSource(r) \/ RemoveStale(r)
        BY <1>1, <4>3 DEF Truncate, Fill, LeaveSource, DeleteSource, RemoveStale, Typed, Agenda
      <4>. QED BY <3>2, <4>1, <4>2, <4>3 DEF Step
    <3>3. CASE UserEdit \/ UNCHANGED vars
      BY <1>1, <3>3 DEF UserEdit, vars
    <3>. QED BY <1>1, <3>1, <3>2, <3>3 DEF Next
  <2>2. ~wrote[r]
    BY <2>1 DEF StaleHalts
  <2>. QED BY <2>1, <2>2, StillUnwritten DEF WritePhases
<1>2. ASSUME ~overlapped', NEW r \in stale' PROVE Outdated(r)'
  <2>0. r \in Runs
    BY DEF Next, Step, Plan, Reject, Verify, Proceed, Truncate, Fill, LeaveSource, DeleteSource,
         RemoveStale, Finish, WriteError, Kill, UserEdit, history, vars, Typed
  <2>1. ASSUME NEW q \in Runs, Plan(q)
        PROVE  ~overlapped /\ \A p \in Runs : ~Active(p)
    BY <1>2, <2>1, Zenon DEF Plan
  <2>2. ASSUME NEW q \in Runs, Step(q) \/ WriteError(q) \/ Kill(q)
        PROVE  ~overlapped /\ (~Plan(q) => Active(q)) /\ stale' = stale
    <3>1. CASE Plan(q)
      BY <2>1, <3>1 DEF Plan
    <3>2. CASE ~Plan(q)
      <4>1. (Step(q) /\ ~Plan(q)) \/ WriteError(q) \/ Kill(q)
        BY <2>2, <3>2
      <4>2. ~overlapped /\ Active(q)
        BY <1>2, <4>1, Acting, Zenon
      <4>3. stale' = stale
        BY <4>1 DEF Step, Reject, Verify, Proceed, Truncate, Fill, LeaveSource, DeleteSource,
             RemoveStale, Finish, WriteError, Kill, history
      <4>. QED BY <4>2, <4>3
    <3>. QED BY <3>1, <3>2
  <2>3. ASSUME NEW q \in Runs, Step(q) \/ WriteError(q) \/ Kill(q) PROVE Outdated(r)'
    <3>1. r \in stale /\ Outdated(r) /\ ~overlapped
      BY <2>2, <2>3 DEF StaleHalts
    <3>2. ~wrote'[r]
      BY <2>0, <3>1, StillUnwritten DEF Outdated, Ended, WritePhases
    <3>3. CASE pc[r] \in Ended
      <4>1. q # r
        BY <2>2, <2>3, <3>3 DEF Active, Plan, Ended
      <4>. QED BY <2>0, <2>3, <3>2, <3>3, <4>1, OthersStay DEF Outdated, Ended
    <3>4. CASE pc[r] = "planned"
      <4>1. Active(r)
        BY <3>4 DEF Active, Ended
      <4>2. q = r /\ ~Plan(q)
        BY <2>0, <2>1, <2>2, <2>3, <3>1, <4>1 DEF Alone
      <4>3. Reject(r) \/ Verify(r) \/ Kill(r)
        BY <2>3, <3>4, <4>2 DEF Step, Proceed, Truncate, Fill, LeaveSource, DeleteSource, RemoveStale,
             Finish, WriteError, WritePhases, Agenda
      <4>4. PICK f \in VerifyItems(r) : f \in Sources \cup Declarations /\ Planning(r, f).edit < OnDisk(f).edit
        BY <3>1, <3>4 DEF Outdated
      <4>5. Planning(r, f).edit \in Nat /\ OnDisk(f).edit \in Nat
        BY <2>0, <3>4, <4>4 DEF Planning, OnDisk, Typed, Trees, KotlinFiles, JavaFiles
      <4>6. OnDisk(f) # Planning(r, f)
        BY <4>4, <4>5
      <4>7. pc'[r] \in Ended
        BY <2>0, <4>3, <4>4, <4>6 DEF Reject, Verify, Kill, Ended, Typed
      <4>. QED BY <3>2, <4>7 DEF Outdated, Ended
    <3>. QED BY <3>1, <3>3, <3>4 DEF Outdated
  <2>4. CASE UserEdit
    <3>1. UNCHANGED <<pc, keep, snapshot, wrote>> /\ stale' = stale \cup { q \in Runs : pc[q] = "planned" }
      BY <2>4 DEF UserEdit, plans
    <3>2. ~overlapped
      BY <1>2, <2>4, Zenon DEF UserEdit
    <3>3. VerifyItems(r)' = VerifyItems(r) /\ \A f : Planning(r, f)' = Planning(r, f)
      BY <3>1, PlanFixed DEF Planning
    <3>4. PICK e \in Sources \cup Declarations :
            /\ OnDisk(e)'.edit = edits + 1
            /\ e \in Sources => kotlin[e].state = "text"
            /\ e \notin Sources => java[e].state = "generated"
            /\ \A f \in Sources \cup Declarations : f # e => OnDisk(f)' = OnDisk(f)
      <4>1. ASSUME NEW s \in Sources, kotlin[s].state = "text",
                   kotlin' = [kotlin EXCEPT ![s].edit = edits + 1], java' = java
            PROVE  /\ OnDisk(s)'.edit = edits + 1
                   /\ \A f \in Sources \cup Declarations : f # s => OnDisk(f)' = OnDisk(f)
        BY <4>1 DEF OnDisk, Typed, KotlinFiles
      <4>2. ASSUME NEW d \in Declarations, java[d].state = "generated",
                   java' = [java EXCEPT ![d].edit = edits + 1], kotlin' = kotlin
            PROVE  /\ OnDisk(d)'.edit = edits + 1
                   /\ \A f \in Sources \cup Declarations : f # d => OnDisk(f)' = OnDisk(f)
        BY <4>2 DEF OnDisk, Typed, JavaFiles
      <4>. QED BY <2>4, <4>1, <4>2 DEF UserEdit
    <3>5. CASE pc[r] # "planned"
      <4>1. r \in stale
        BY <3>1, <3>5
      <4>. QED BY <3>1, <3>2, <3>5, <4>1 DEF StaleHalts, Outdated
    <3>6. CASE pc[r] = "planned"
      <4>1. Active(r) /\ open[r] = None
        BY <2>0, <3>6 DEF Active, Ended, Agenda
      <4>2. KotlinProgress(r) /\ JavaProgress(r)
        BY <2>0, <3>2, <4>1 DEF Alone
      <4>3. e \in VerifyItems(r)
        <5>1. CASE e \in Sources
          <6>1. snapshot[r].kotlin[e].state = "text"
            BY <3>4, <3>6, <4>1, <4>2, <5>1 DEF KotlinProgress, SourceDone
          <6>. QED BY <5>1, <6>1 DEF VerifyItems
        <5>2. CASE e \notin Sources
          <6>1. snapshot[r].java[e].state = "generated"
            BY <3>4, <3>6, <4>1, <4>2, <5>2 DEF JavaProgress, JavaDone, StaleDone
          <6>. QED BY <5>2, <6>1 DEF VerifyItems
        <5>. QED BY <5>1, <5>2
      <4>4. Planning(r, e).edit <= edits /\ Planning(r, e).edit \in Nat /\ edits \in Nat
        BY <2>0, <3>6, <4>3 DEF Planning, Recent, Typed, Trees, KotlinFiles, JavaFiles
      <4>5. Planning(r, e)'.edit < OnDisk(e)'.edit
        BY <3>3, <3>4, <4>4
      <4>6. ~wrote'[r]
        BY <2>0, <3>6, StillUnwritten DEF StaleHalts, WritePhases
      <4>. QED BY <3>1, <3>3, <3>6, <4>3, <4>5, <4>6 DEF Outdated
    <3>. QED BY <3>5, <3>6
  <2>5. CASE UNCHANGED vars
    <3>1. ~overlapped
      BY <1>2, <2>5, Zenon DEF vars
    <3>2. ~wrote'[r]
      BY <2>5, <3>1, Zenon DEF StaleHalts, Outdated, vars
    <3>3. UNCHANGED <<kotlin, java, pc, keep, snapshot, stale>>
      BY <2>5 DEF vars
    <3>4. VerifyItems(r)' = VerifyItems(r)
      BY <3>3, PlanFixed
    <3>. QED BY <3>1, <3>2, <3>3, <3>4 DEF StaleHalts, Outdated, Planning, OnDisk
  <2>. QED BY <2>3, <2>4, <2>5 DEF Next
<1>. QED BY <1>1, <1>2, Zenon DEF StaleHalts

-------------------------------------------------------------------------------
(* While the user rests, what a writing run has not reached is as planned. *)
Intact(r) ==
  /\ \A s \in SourceItems(r) :
       open[r] # s /\ ~SourceDone(r, s) => kotlin[s] = snapshot[r].kotlin[s]
  /\ \A d \in Moved(r) : open[r] # d /\ ~JavaDone(r, d) => java[d] = snapshot[r].java[d]
  /\ \A d \in StaleItems(r) :
       ~StaleDone(r, d) /\ java[d].state = "generated" => java[d] = snapshot[r].java[d]

Untouched ==
  ~late /\ ~overlapped =>
    /\ ~clobbered
    /\ \A r \in Runs : pc[r] \in WritePhases => Intact(r)

LEMMA IntactOfVerify ==
  ASSUME Typed, Agenda, Layout, NEW r \in Runs, Verify(r), Active(r)', KotlinProgress(r), JavaProgress(r)
  PROVE  Intact(r)'
<1>1. pc[r] = "planned" /\ \A f \in VerifyItems(r) : OnDisk(f) = Planning(r, f)
  BY DEF Verify, Active, Ended, Typed
<1>2. SourceItems(r) \subseteq Sources /\ Moved(r) \subseteq Declarations /\ StaleItems(r) \subseteq Declarations
  BY <1>1, PlannedTyped
<1>3. \A s \in SourceItems(r) : kotlin[s] = snapshot[r].kotlin[s]
  <2>1. \A s \in SourceItems(r) : s \in VerifyItems(r)
    BY <1>1 DEF SourceItems, VerifyItems, Layout
  <2>. QED BY <1>1, <1>2, <2>1 DEF OnDisk, Planning
<1>4. \A d \in Moved(r) : java[d] = snapshot[r].java[d]
  BY <1>1, <1>2, ApplyAssumption DEF VerifyItems, OnDisk, Planning
<1>5. \A d \in StaleItems(r) : java[d].state = "generated" => java[d] = snapshot[r].java[d]
  <2>1. \A d \in Declarations : open[r] # d => java[d].state = snapshot[r].java[d].state
    BY <1>1 DEF JavaProgress, JavaDone, StaleDone
  <2>2. open[r] = None
    BY <1>1 DEF Agenda
  <2>3. \A d \in StaleItems(r) : java[d].state = "generated" => d \in VerifyItems(r)
    BY <1>2, <2>1, <2>2, ApplyAssumption DEF VerifyItems
  <2>. QED BY <1>1, <1>2, <2>3, ApplyAssumption DEF OnDisk, Planning
<1>. QED BY <1>3, <1>4, <1>5, PhaseKeepsDone DEF Intact

LEMMA IntactOfWrite ==
  ASSUME Typed, Agenda, NEW r \in Runs, pc'[r] \in WritePhases, Intact(r),
         Truncate(r) \/ Fill(r) \/ LeaveSource(r) \/ DeleteSource(r) \/ RemoveStale(r)
  PROVE  Intact(r)'
<1>. USE ApplyAssumption
<1>1. keep'[r] = keep[r] /\ snapshot'[r] = snapshot[r] /\ pc'[r] = pc[r] /\ pc[r] # "idle"
  <2>1. UNCHANGED plans
    BY DEF Truncate, Fill, LeaveSource, DeleteSource, RemoveStale
  <2>2. pc'[r] = pc[r]
    BY DEF Truncate, Fill, LeaveSource, DeleteSource, RemoveStale, WritePhases, Typed
  <2>. QED BY <2>1, <2>2 DEF plans, WritePhases
<1>2. Moved(r)' = Moved(r) /\ StaleItems(r)' = StaleItems(r) /\ SourceItems(r)' = SourceItems(r)
  BY <1>1, PlanFixed
<1>3. /\ Moved(r) \subseteq Declarations /\ StaleItems(r) \subseteq Declarations
      /\ SourceItems(r) \subseteq Sources /\ Moved(r) \cap StaleItems(r) = {}
  BY <1>1, PlannedTyped, ItemsApart
<1>4. PICK f : /\ f \in todo[r] /\ open[r] \in {f, None}
               /\ \/ open'[r] = f /\ todo'[r] = todo[r]
                  \/ open'[r] = None /\ todo'[r] = todo[r] \ {f}
               /\ \A s \in Sources \ {f} : kotlin'[s] = kotlin[s]
               /\ \A d \in Declarations \ {f} : java'[d] = java[d]
  <2>1. CASE Truncate(r)
    <3>1. PICK f \in todo[r] :
            /\ \/ java' = [java EXCEPT ![f] = [@ EXCEPT !.state = "partial"]] /\ kotlin' = kotlin
               \/ kotlin' = [kotlin EXCEPT ![f] = [@ EXCEPT !.state = "torn", !.decls = {}]] /\ java' = java
            /\ open' = [open EXCEPT ![r] = f]
      BY <2>1 DEF Truncate
    <3>2. open[r] = None /\ todo' = todo /\ open'[r] = f
      BY <2>1, <3>1 DEF Truncate, Typed
    <3>3. \A s \in Sources \ {f} : kotlin'[s] = kotlin[s]
      BY <3>1 DEF Typed
    <3>4. \A d \in Declarations \ {f} : java'[d] = java[d]
      BY <3>1 DEF Typed
    <3>. QED BY <3>1, <3>2, <3>3, <3>4
  <2>2. CASE Fill(r)
    <3>1. open[r] \in todo[r] /\ todo'[r] = todo[r] \ {open[r]} /\ open'[r] = None
      BY <2>2 DEF Fill, Agenda, Typed
    <3>2. \/ kotlin' = kotlin /\ \E file : java' = [java EXCEPT ![open[r]] = file]
          \/ java' = java /\ \E file : kotlin' = [kotlin EXCEPT ![open[r]] = file]
      BY <2>2 DEF Fill
    <3>. QED BY <3>1, <3>2 DEF Typed
  <2>3. CASE LeaveSource(r)
    BY <2>3 DEF LeaveSource, disk, Typed
  <2>4. CASE DeleteSource(r)
    <3>1. PICK s \in todo[r] : /\ kotlin' = [kotlin EXCEPT ![s] = NoSource]
                               /\ todo' = [todo EXCEPT ![r] = @ \ {s}]
      BY <2>4 DEF DeleteSource, Typed, WritePhases
    <3>2. open[r] = None /\ open'[r] = None /\ java' = java /\ todo'[r] = todo[r] \ {s}
      BY <2>4, <3>1 DEF DeleteSource, Typed
    <3>. QED BY <3>1, <3>2 DEF Typed
  <2>5. CASE RemoveStale(r)
    <3>1. PICK d \in todo[r] : /\ java' = [java EXCEPT ![d] = NoJava] \/ java' = java
                               /\ todo' = [todo EXCEPT ![r] = @ \ {d}]
      BY <2>5 DEF RemoveStale
    <3>2. open[r] = None /\ open'[r] = None /\ kotlin' = kotlin /\ todo'[r] = todo[r] \ {d}
      BY <2>5, <3>1 DEF RemoveStale, Agenda, Typed
    <3>. QED BY <3>1, <3>2 DEF Typed
  <2>. QED BY <2>1, <2>2, <2>3, <2>4, <2>5
<1>5. \A g : /\ JavaDone(r, g) => JavaDone(r, g)'
             /\ StaleDone(r, g) => StaleDone(r, g)'
             /\ SourceDone(r, g) => SourceDone(r, g)'
  BY <1>1, <1>4 DEF JavaDone, StaleDone, SourceDone
<1>6. todo[r] \subseteq Items(r, pc[r])
  BY <1>1 DEF Agenda
<1>7. \A s \in SourceItems(r) : open'[r] # s /\ ~SourceDone(r, s)' => kotlin'[s] = snapshot[r].kotlin[s]
  <2>1. ASSUME NEW s \in SourceItems(r), open'[r] # s, ~SourceDone(r, s)' PROVE s # f
    <3>1. CASE pc[r] = "sources"
      BY <1>1, <1>4, <2>1, <3>1 DEF SourceDone
    <3>2. CASE pc[r] \in {"java", "stale"}
      BY <1>3, <1>4, <1>6, <3>2, PhaseItems
    <3>. QED BY <1>1, <3>1, <3>2 DEF WritePhases
  <2>. QED BY <1>3, <1>4, <1>5, <2>1 DEF Intact
<1>8. \A d \in Moved(r) : open'[r] # d /\ ~JavaDone(r, d)' => java'[d] = snapshot[r].java[d]
  <2>1. ASSUME NEW d \in Moved(r), open'[r] # d, ~JavaDone(r, d)' PROVE d # f
    BY <1>1, <1>4, <2>1 DEF JavaDone, WritePhases
  <2>. QED BY <1>3, <1>4, <1>5, <2>1 DEF Intact
<1>9. \A d \in StaleItems(r) : ~StaleDone(r, d)' /\ java'[d].state = "generated"
                                 => java'[d] = snapshot[r].java[d]
  <2>1. ASSUME NEW d \in StaleItems(r), ~StaleDone(r, d)' PROVE d # f
    <3>1. CASE pc[r] = "stale"
      <4>1. open'[r] = None
        BY <3>1 DEF Truncate, Fill, LeaveSource, DeleteSource, RemoveStale, Agenda, Typed
      <4>. QED BY <1>1, <1>3, <1>4, <2>1, <3>1, <4>1 DEF StaleDone
    <3>2. CASE pc[r] = "java"
      BY <1>3, <1>4, <1>6, <3>2, PhaseItems
    <3>. QED BY <1>1, <2>1, <3>1, <3>2 DEF StaleDone, WritePhases
  <2>. QED BY <1>3, <1>4, <1>5, <2>1 DEF Intact
<1>. QED BY <1>1, <1>2, <1>7, <1>8, <1>9 DEF Intact

(* So a write finds what was planned.                                      *)
LEMMA NoClobber ==
  ASSUME Typed, Agenda, NEW r \in Runs, Intact(r), ~clobbered,
         Truncate(r) \/ DeleteSource(r) \/ RemoveStale(r)
  PROVE  ~clobbered'
<1>. USE ApplyAssumption
<1>1. pc[r] \in WritePhases
  BY PhaseItems DEF Truncate, DeleteSource, RemoveStale, WritePhases
<1>2. /\ Moved(r) \subseteq Declarations /\ StaleItems(r) \subseteq Declarations
      /\ SourceItems(r) \subseteq Sources /\ todo[r] \subseteq Items(r, pc[r])
  BY <1>1, PlannedTyped DEF Agenda, WritePhases
<1>3. ASSUME NEW f \in todo[r], open[r] = None, pc[r] = "java" PROVE OnDisk(f) = Planning(r, f)
  BY <1>2, <1>3, PhaseItems DEF Intact, JavaDone, OnDisk, Planning
<1>4. ASSUME NEW f \in todo[r], open[r] = None, pc[r] = "sources" PROVE OnDisk(f) = Planning(r, f)
  BY <1>2, <1>4, PhaseItems DEF Intact, SourceDone, OnDisk, Planning
<1>5. ASSUME NEW f \in todo[r], pc[r] = "stale", java[f].state = "generated"
      PROVE OnDisk(f) = Planning(r, f)
  BY <1>2, <1>5, PhaseItems DEF Intact, StaleDone, OnDisk, Planning
<1>6. CASE Truncate(r)
  <2>1. PICK f \in todo[r] : (pc[r] = "java" \/ pc[r] = "sources") /\ open[r] = None /\ Clobbers(r, f)
    BY <1>6, Zenon DEF Truncate
  <2>2. OnDisk(f) = Planning(r, f)
    BY <1>3, <1>4, <2>1
  <2>. QED BY <2>1, <2>2, Zenon DEF Clobbers
<1>7. CASE DeleteSource(r)
  <2>1. pc[r] = "sources" /\ open[r] = None
        /\ (clobbered' = clobbered \/ \E f \in todo[r] : Clobbers(r, f))
    BY <1>7, Zenon DEF DeleteSource
  <2>2. CASE clobbered' = clobbered
    BY <2>2, Zenon
  <2>3. ASSUME NEW f \in todo[r], Clobbers(r, f) PROVE ~clobbered'
    <3>1. OnDisk(f) = Planning(r, f)
      BY <1>4, <2>1
    <3>. QED BY <2>3, <3>1, Zenon DEF Clobbers
  <2>. QED BY <2>1, <2>2, <2>3, Zenon
<1>8. CASE RemoveStale(r)
  <2>1. pc[r] = "stale"
        /\ (clobbered' = clobbered \/ \E f \in todo[r] : java[f].state = "generated" /\ Clobbers(r, f))
    BY <1>8, Zenon DEF RemoveStale
  <2>2. CASE clobbered' = clobbered
    BY <2>2, Zenon
  <2>3. ASSUME NEW f \in todo[r], java[f].state = "generated", Clobbers(r, f) PROVE ~clobbered'
    <3>1. OnDisk(f) = Planning(r, f)
      BY <1>5, <2>1, <2>3
    <3>. QED BY <2>3, <3>1, Zenon DEF Clobbers
  <2>. QED BY <2>1, <2>2, <2>3, Zenon
<1>. QED BY <1>6, <1>7, <1>8

LEMMA StepUntouched ==
  Typed /\ Agenda /\ Layout /\ Alone /\ Untouched /\ [Next]_vars => Untouched'
<1>. SUFFICES ASSUME Typed, Agenda, Layout, Alone, Untouched, [Next]_vars, ~late', ~overlapped'
              PROVE  /\ ~clobbered'
                     /\ \A r \in Runs : pc'[r] \in WritePhases => Intact(r)'
  BY DEF Untouched
<1>1. ASSUME NEW r \in Runs, Plan(r)
      PROVE  ~clobbered' /\ \A q \in Runs : pc'[q] \notin WritePhases
  <2>1. ~late /\ ~overlapped /\ (clobbered' = clobbered) /\ \A q \in Runs : ~Active(q)
    BY <1>1, Zenon DEF Plan
  <2>2. ~clobbered'
    BY <2>1, Zenon DEF Untouched
  <2>3. \A q \in Runs : pc'[q] \notin WritePhases
    BY <1>1, <2>1, OthersStay DEF Plan, Step, Active, Ended, WritePhases, Typed
  <2>. QED BY <2>2, <2>3
<1>2. ASSUME NEW r \in Runs, (Step(r) /\ ~Plan(r)) \/ WriteError(r) \/ Kill(r)
      PROVE  ~clobbered' /\ \A q \in Runs : pc'[q] \in WritePhases => Intact(q)'
  <2>1. ~late /\ ~overlapped /\ Active(r)
    <3>1. ~overlapped /\ Active(r)
      BY <1>2, Acting, Zenon
    <3>2. ~late
      BY <1>2, Zenon DEF Step, Reject, Verify, Proceed, Truncate, Fill, LeaveSource, DeleteSource,
           RemoveStale, Finish, WriteError, Kill, history
    <3>. QED BY <3>1, <3>2
  <2>2. ~clobbered /\ (pc[r] \in WritePhases => Intact(r))
    BY <2>1 DEF Untouched
  <2>3. KotlinProgress(r) /\ JavaProgress(r) /\ \A q \in Runs \ {r} : ~Active(q)
    BY <2>1 DEF Alone
  <2>4. ASSUME NEW q \in Runs \ {r} PROVE pc'[q] \notin WritePhases
    BY <1>2, <2>3, OthersStay DEF Active, Ended, WritePhases
  <2>5. ~clobbered'
    <3>1. CASE Truncate(r) \/ DeleteSource(r) \/ RemoveStale(r)
      <4>1. pc[r] \in WritePhases
        BY <3>1, PhaseItems DEF Truncate, DeleteSource, RemoveStale, WritePhases
      <4>. QED BY <2>2, <3>1, <4>1, NoClobber
    <3>2. CASE Reject(r) \/ Verify(r) \/ Proceed(r) \/ Fill(r) \/ LeaveSource(r) \/ Finish(r)
               \/ WriteError(r) \/ Kill(r)
      BY <2>2, <3>2, Zenon
         DEF Reject, Verify, Proceed, Fill, LeaveSource, Finish, WriteError, Kill, history
    <3>. QED BY <1>2, <3>1, <3>2 DEF Step
  <2>6. ASSUME pc'[r] \in WritePhases PROVE Intact(r)'
    <3>0. Active(r)'
      BY <2>6 DEF Active, WritePhases, Ended
    <3>1. ~Reject(r) /\ ~Finish(r) /\ ~WriteError(r) /\ ~Kill(r)
      BY <3>0 DEF Reject, Finish, WriteError, Kill, Active, Ended, Typed
    <3>2. CASE Verify(r)
      BY <2>3, <3>0, <3>2, IntactOfVerify
    <3>3. CASE Proceed(r)
      <4>1. Intact(r)
        BY <2>2, <3>3 DEF Proceed
      <4>. QED BY <3>0, <3>3, <4>1, PhaseKeepsDone DEF Intact
    <3>4. CASE Truncate(r) \/ Fill(r) \/ LeaveSource(r) \/ DeleteSource(r) \/ RemoveStale(r)
      <4>1. pc[r] \in WritePhases
        BY <3>4, PhaseItems
           DEF Truncate, Fill, LeaveSource, DeleteSource, RemoveStale, WritePhases, Agenda
      <4>. QED BY <2>2, <2>6, <3>4, <4>1, IntactOfWrite
    <3>. QED BY <1>2, <3>1, <3>2, <3>3, <3>4 DEF Step
  <2>. QED BY <2>4, <2>5, <2>6
<1>3. CASE UserEdit
  <2>1. ~late /\ ~overlapped /\ (clobbered' = clobbered) /\ \A q \in Runs : pc[q] \notin WritePhases
    BY <1>3, Zenon DEF UserEdit
  <2>2. ~clobbered'
    BY <2>1, Zenon DEF Untouched
  <2>3. pc' = pc
    BY <1>3 DEF UserEdit
  <2>. QED BY <2>1, <2>2, <2>3
<1>4. CASE UNCHANGED vars
  <2>1. ~late /\ ~overlapped /\ clobbered' = clobbered
    BY <1>4, Zenon DEF vars
  <2>2. ~clobbered'
    BY <2>1, Zenon DEF Untouched
  <2>3. UNCHANGED <<kotlin, java, pc, keep, snapshot, todo, open>>
    BY <1>4 DEF vars
  <2>4. \A r \in Runs : /\ Moved(r)' = Moved(r) /\ StaleItems(r)' = StaleItems(r)
                        /\ SourceItems(r)' = SourceItems(r)
    BY <2>3, PlanFixed
  <2>5. \A r \in Runs : pc[r] \in WritePhases => Intact(r)
    BY <2>1 DEF Untouched
  <2>. QED BY <2>2, <2>3, <2>4, <2>5 DEF Intact, JavaDone, StaleDone, SourceDone
<1>. QED BY <1>1, <1>2, <1>3, <1>4 DEF Next

-------------------------------------------------------------------------------
(* Overlapping runs.  Those that agree and meet no fault close what they   *)
(* open.                                                                   *)
Closing ==
  /\ \A d \in Declarations : java[d].state = "partial" => \E r \in Runs : open[r] = d
  /\ \A s \in Sources : kotlin[s].state = "torn" => \E r \in Runs : open[r] = s

MovedBySome(d) == \E r \in Runs : pc[r] # "idle" /\ d \in Moved(r)

(* The text, now and when a run planned, is there only with d in it.       *)
Declares(file, d) == file.state = "text" => d \in file.decls

InSource(d) ==
  /\ kotlin[FileOf[d]].state # "absent"
  /\ Declares(kotlin[FileOf[d]], d)
  /\ \A r \in Runs : pc[r] # "idle" => Declares(snapshot[r].kotlin[FileOf[d]], d)

(* Java of an earlier migration that no plan knows a source of.            *)
LongMoved(d) ==
  /\ java[d].state = "generated"
  /\ ~InKotlin(d)
  /\ \A r \in Runs : pc[r] # "idle" => d \notin Planned(r)

(* What one run moves no run keeps, so its Java, once begun, stays.        *)
Secured(d) ==
  IF MovedBySome(d) THEN java[d].state # "absent" \/ InSource(d)
  ELSE LongMoved(d) \/ InSource(d)

JavaFirst(d) ==
  \A r \in Runs : pc[r] # "idle" /\ d \in Moved(r) /\ JavaDone(r, d) => java[d].state # "absent"

Cooperating ==
  Agree /\ faults = 0 =>
    Closing /\ \A d \in Declarations : Secured(d) /\ JavaFirst(d)

LEMMA Begun == Typed /\ Agenda /\ [Next]_vars =>
  \A r \in Runs : pc[r] # "idle" =>
    pc'[r] # "idle" /\ keep'[r] = keep[r] /\ snapshot'[r] = snapshot[r]
<1>. SUFFICES ASSUME Typed, Agenda, [Next]_vars, NEW r \in Runs, pc[r] # "idle"
              PROVE  pc'[r] # "idle" /\ keep'[r] = keep[r] /\ snapshot'[r] = snapshot[r]
  OBVIOUS
<1>1. ASSUME NEW q \in Runs \ {r}, Step(q) \/ WriteError(q) \/ Kill(q)
      PROVE  pc'[r] # "idle" /\ keep'[r] = keep[r] /\ snapshot'[r] = snapshot[r]
  BY <1>1, OthersStay
<1>2. CASE Step(r) \/ WriteError(r) \/ Kill(r)
  <2>1. UNCHANGED plans
    BY <1>2 DEF Step, Plan, Reject, Verify, Proceed, Truncate, Fill, LeaveSource, DeleteSource,
         RemoveStale, Finish, WriteError, Kill
  <2>2. pc'[r] # "idle"
    <3>1. CASE Truncate(r) \/ Fill(r) \/ LeaveSource(r) \/ DeleteSource(r) \/ RemoveStale(r)
      BY <3>1 DEF Truncate, Fill, LeaveSource, DeleteSource, RemoveStale, Typed
    <3>2. CASE Verify(r) \/ Proceed(r)
      BY <3>2, PhaseOrder DEF Verify, Proceed, Typed, WritePhases
    <3>3. CASE Reject(r) \/ Finish(r) \/ WriteError(r) \/ Kill(r)
      BY <3>3 DEF Reject, Finish, WriteError, Kill, Typed
    <3>4. ~Plan(r)
      BY DEF Plan
    <3>. QED BY <1>2, <3>1, <3>2, <3>3, <3>4 DEF Step
  <2>. QED BY <2>1, <2>2 DEF plans
<1>3. CASE UserEdit \/ UNCHANGED vars
  BY <1>3 DEF UserEdit, vars, plans
<1>. QED BY <1>1, <1>2, <1>3 DEF Next

(* Agreement and the absence of faults are lost for good once lost.        *)
LEMMA AgreedBefore ==
  ASSUME Typed, Agenda, [Next]_vars, Agree', faults' = 0
  PROVE  /\ Agree /\ faults = 0
         /\ \A r \in Runs : ~WriteError(r) /\ ~Kill(r)
<1>1. \A r \in Runs : ~WriteError(r) /\ ~Kill(r)
  BY DEF WriteError, Kill, Typed
<1>2. faults = 0
  BY <1>1 DEF Next, Step, Plan, Reject, Verify, Proceed, Truncate, Fill, LeaveSource, DeleteSource,
       RemoveStale, Finish, UserEdit, vars
<1>3. ASSUME NEW r \in Runs, NEW q \in Runs, r # q, pc[r] # "idle"
      PROVE  keep[q] \cap Moved(r) = {}
  <2>1. Moved(r)' = Moved(r) /\ pc'[r] # "idle"
    BY <1>3, Begun, PlanFixed
  <2>2. keep[q] \subseteq keep'[q]
    BY KeepGrows
  <2>. QED BY <1>3, <2>1, <2>2 DEF Agree
<1>. QED BY <1>1, <1>2, <1>3 DEF Agree

(* What a step without a fault can do to a Java file.                      *)
LEMMA JavaStep ==
  ASSUME Typed, Agenda, [Next]_vars, NEW d \in Declarations
  PROVE  \/ java'[d].state = java[d].state
         \/ \E q \in Runs : /\ pc[q] = "java" /\ d \in Moved(q) /\ d \in todo[q]
                            /\ open'[q] = d /\ java'[d].state = "partial"
         \/ java'[d].state = "generated"
         \/ \E q \in Runs : /\ pc[q] = "stale" /\ d \in StaleItems(q)
                            /\ java'[d].state = "absent"
<1>. USE ApplyAssumption
<1>1. ASSUME NEW q \in Runs, Truncate(q), java'[d].state # java[d].state
      PROVE  pc[q] = "java" /\ d \in Moved(q) /\ d \in todo[q] /\ open'[q] = d
             /\ java'[d].state = "partial"
  <2>1. PICK f \in todo[q] : /\ java' = [java EXCEPT ![f] = [@ EXCEPT !.state = "partial"]]
                             /\ pc[q] = "java" /\ open' = [open EXCEPT ![q] = f]
    BY <1>1 DEF Truncate
  <2>2. f = d
    BY <1>1, <2>1 DEF Typed
  <2>3. java'[d].state = "partial" /\ open'[q] = d
    BY <2>1, <2>2 DEF Typed, JavaFiles
  <2>4. d \in Moved(q)
    BY <2>1, <2>2, PhaseItems DEF Agenda, WritePhases
  <2>. QED BY <2>1, <2>2, <2>3, <2>4
<1>2. ASSUME NEW q \in Runs, Fill(q), java'[d].state # java[d].state PROVE java'[d].state = "generated"
  BY <1>2 DEF Fill, Typed, Generated
<1>3. ASSUME NEW q \in Runs, RemoveStale(q), java'[d].state # java[d].state
      PROVE  pc[q] = "stale" /\ d \in StaleItems(q) /\ java'[d].state = "absent"
  <2>1. PICK f \in todo[q] : java' = [java EXCEPT ![f] = NoJava] /\ pc[q] = "stale"
    BY <1>3 DEF RemoveStale
  <2>2. f = d /\ java'[d].state = "absent"
    BY <1>3, <2>1 DEF Typed, NoJava
  <2>. QED BY <2>1, <2>2, PhaseItems DEF Agenda, WritePhases
<1>4. UserEdit => java'[d].state = java[d].state
  BY EditedContent
<1>5. ASSUME NEW q \in Runs,
             Plan(q) \/ Reject(q) \/ Verify(q) \/ Proceed(q) \/ LeaveSource(q) \/ DeleteSource(q)
             \/ Finish(q) \/ WriteError(q) \/ Kill(q)
      PROVE  java' = java
  BY <1>5 DEF Plan, Reject, Verify, Proceed, LeaveSource, DeleteSource, Finish, WriteError, Kill, disk
<1>. QED BY <1>1, <1>2, <1>3, <1>4, <1>5 DEF Next, Step, vars

(* And to a source: torn, written as one plan has it, deleted.             *)
LEMMA SourceStep ==
  ASSUME Typed, Agenda, [Next]_vars, NEW s \in Sources
  PROVE  \/ kotlin'[s].state = kotlin[s].state /\ kotlin'[s].decls = kotlin[s].decls
         \/ /\ kotlin'[s].state = "torn" /\ kotlin'[s].decls = {}
            /\ \E q \in Runs : open'[q] = s
         \/ \E q \in Runs : /\ pc[q] = "sources" /\ s \in SourceItems(q)
                            /\ kotlin'[s].state = "text"
                            /\ kotlin'[s].decls = keep[q] \cap snapshot[q].kotlin[s].decls
         \/ \E q \in Runs : /\ pc[q] = "sources" /\ s \in SourceItems(q)
                            /\ keep[q] \cap snapshot[q].kotlin[s].decls = {}
                            /\ kotlin'[s] = NoSource
<1>. USE ApplyAssumption
<1>1. ASSUME NEW q \in Runs, Truncate(q), kotlin'[s] # kotlin[s]
      PROVE  kotlin'[s].state = "torn" /\ kotlin'[s].decls = {} /\ open'[q] = s
  <2>1. PICK f \in todo[q] :
          /\ kotlin' = [kotlin EXCEPT ![f] = [@ EXCEPT !.state = "torn", !.decls = {}]]
          /\ open' = [open EXCEPT ![q] = f]
    BY <1>1 DEF Truncate
  <2>2. f = s /\ open'[q] = s
    BY <1>1, <2>1 DEF Typed
  <2>3. kotlin'[s] = [[kotlin[s] EXCEPT !.state = "torn"] EXCEPT !.decls = {}]
    BY <2>1, <2>2 DEF Typed
  <2>4. kotlin'[s].state = "torn" /\ kotlin'[s].decls = {}
    BY <2>3 DEF Typed, KotlinFiles
  <2>. QED BY <2>2, <2>4
<1>2. ASSUME NEW q \in Runs, Fill(q), kotlin'[s] # kotlin[s]
      PROVE  /\ pc[q] = "sources" /\ s \in SourceItems(q)
             /\ kotlin'[s].state = "text"
             /\ kotlin'[s].decls = keep[q] \cap snapshot[q].kotlin[s].decls
  <2>1. pc[q] = "sources" /\ open[q] \in todo[q]
    BY <1>2 DEF Fill, Agenda
  <2>2. PICK file : /\ kotlin' = [kotlin EXCEPT ![open[q]] = file]
                    /\ file.state = "text"
                    /\ file.decls = keep[q] \cap snapshot[q].kotlin[open[q]].decls
    BY <1>2, <2>1 DEF Fill
  <2>3. s = open[q] /\ kotlin'[s] = file
    BY <1>2, <2>2 DEF Typed
  <2>4. s \in SourceItems(q)
    BY <2>1, <2>3, PhaseItems DEF Agenda, WritePhases
  <2>. QED BY <2>1, <2>2, <2>3, <2>4
<1>3. ASSUME NEW q \in Runs, DeleteSource(q), kotlin'[s] # kotlin[s]
      PROVE  /\ pc[q] = "sources" /\ s \in SourceItems(q)
             /\ keep[q] \cap snapshot[q].kotlin[s].decls = {}
             /\ kotlin'[s] = NoSource
  <2>1. PICK f \in todo[q] : /\ keep[q] \cap snapshot[q].kotlin[f].decls = {}
                             /\ kotlin' = [kotlin EXCEPT ![f] = NoSource]
                             /\ pc[q] = "sources"
    BY <1>3 DEF DeleteSource
  <2>2. f = s /\ kotlin'[s] = NoSource
    BY <1>3, <2>1 DEF Typed
  <2>. QED BY <2>1, <2>2, PhaseItems DEF Agenda, WritePhases
<1>4. UserEdit => kotlin'[s].state = kotlin[s].state /\ kotlin'[s].decls = kotlin[s].decls
  BY EditedContent
<1>5. ASSUME NEW q \in Runs,
             Plan(q) \/ Reject(q) \/ Verify(q) \/ Proceed(q) \/ LeaveSource(q) \/ RemoveStale(q)
             \/ Finish(q) \/ WriteError(q) \/ Kill(q)
      PROVE  kotlin' = kotlin
  BY <1>5 DEF Plan, Reject, Verify, Proceed, LeaveSource, RemoveStale, Finish, WriteError, Kill, disk
<1>. QED BY <1>1, <1>2, <1>3, <1>4, <1>5 DEF Next, Step, vars

(* A file is closed without a fault only when it is written.               *)
LEMMA ClosedWritten ==
  ASSUME Typed, Agenda, [Next]_vars, \A r \in Runs : ~WriteError(r) /\ ~Kill(r),
         NEW q \in Runs, NEW f, f # None, open[q] = f, open'[q] # f
  PROVE  /\ f \in Declarations => java'[f].state = "generated"
         /\ f \in Sources => kotlin'[f].state = "text"
<1>. USE ApplyAssumption
<1>1. Fill(q)
  <2>1. Step(q)
    BY OthersStay DEF Next, vars, UserEdit
  <2>2. open[q] # None
    OBVIOUS
  <2>3. ~Truncate(q) /\ ~LeaveSource(q) /\ ~DeleteSource(q) /\ ~Proceed(q)
    BY <2>2 DEF Truncate, LeaveSource, DeleteSource, Proceed
  <2>4. open' = open \/ Fill(q)
    BY <2>1, <2>3 DEF Step, Plan, Reject, Verify, RemoveStale, Finish
  <2>. QED BY <2>4
<1>2. CASE pc[q] = "java"
  <2>1. f \in Declarations
    BY <1>2, PhaseItems, PlannedTyped DEF Agenda, WritePhases
  <2>. QED BY <1>1, <1>2, <2>1 DEF Fill, Typed, Generated
<1>3. CASE pc[q] # "java"
  <2>1. pc[q] = "sources" /\ f \in Sources
    BY <1>3, PhaseItems, PlannedTyped DEF Agenda, WritePhases
  <2>2. kotlin' = [kotlin EXCEPT ![open[q]] =
               [state |-> "text", decls |-> keep[q] \cap snapshot[q].kotlin[open[q]].decls,
                edit |-> 0]]
    BY <1>1, <2>1, Zenon DEF Fill
  <2>3. kotlin'[f].state = "text"
    BY <2>1, <2>2 DEF Typed
  <2>. QED BY <2>1, <2>3
<1>. QED BY <1>2, <1>3

(* The Java phase is done with a declaration once its file is written.     *)
LEMMA DoneWritten ==
  ASSUME Typed, Agenda, [Next]_vars, \A q \in Runs : ~WriteError(q) /\ ~Kill(q),
         NEW r \in Runs, pc[r] # "idle", NEW d \in Moved(r), JavaDone(r, d)', ~JavaDone(r, d)
  PROVE  java'[d].state = "generated"
<1>. USE ApplyAssumption
<1>1. Active(r)' /\ d \in Declarations
  BY PlannedTyped DEF JavaDone, Active, Ended
<1>2. Step(r)
  <2>1. ASSUME NEW q \in Runs \ {r}, Step(q) PROVE FALSE
    BY <2>1, OthersStay DEF JavaDone
  <2>2. CASE UserEdit \/ UNCHANGED vars
    BY <2>2 DEF UserEdit, vars, JavaDone
  <2>. QED BY <2>1, <2>2 DEF Next
<1>3. ~Plan(r) /\ ~Verify(r) /\ ~Proceed(r)
  BY <1>1, PhaseKeepsDone DEF Plan
<1>4. ~Reject(r) /\ ~Finish(r)
  BY <1>1 DEF Reject, Finish, Active, Ended, Typed
<1>5. ~LeaveSource(r) /\ ~DeleteSource(r) /\ ~RemoveStale(r)
  BY DEF LeaveSource, DeleteSource, RemoveStale, JavaDone
<1>6. ~Truncate(r)
  BY DEF Truncate, JavaDone
<1>7. Fill(r)
  BY <1>2, <1>3, <1>4, <1>5, <1>6 DEF Step
<1>8. pc[r] = "java" /\ open[r] = d
  BY <1>7 DEF Fill, JavaDone, Agenda, Typed
<1>. QED BY <1>1, <1>7, <1>8 DEF Fill, Typed, Generated

(* Java that some run moved a declaration to is never removed: whoever     *)
(* removes it would have to keep the declaration.                          *)
LEMMA JavaStays ==
  ASSUME Typed, Agenda, Agree, [Next]_vars,
         NEW d \in Declarations, MovedBySome(d), java[d].state # "absent"
  PROVE  java'[d].state # "absent"
<1>1. ASSUME NEW q \in Runs, d \in StaleItems(q) PROVE FALSE
  <2>1. PICK r \in Runs : pc[r] # "idle" /\ d \in Moved(r)
    BY DEF MovedBySome
  <2>2. d \in keep[q] /\ d \notin Moved(q)
    BY <1>1 DEF StaleItems
  <2>. QED BY <2>1, <2>2 DEF Agree
<1>. QED BY <1>1, JavaStep

(* A source that declares something keeps it, or it is moved, its Java     *)
(* having been written first.                                              *)
LEMMA SourceKeeps ==
  ASSUME Typed, Agenda, Layout, Agree, [Next]_vars,
         NEW d \in Declarations, InSource(d), JavaFirst(d)
  PROVE  InSource(d)' \/ (MovedBySome(d) /\ java'[d].state # "absent")
<1>. USE ApplyAssumption
<1>. DEFINE s == FileOf[d]
<1>0. s \in Sources
  OBVIOUS
<1>1. \A r \in Runs : pc'[r] # "idle" => Declares(snapshot'[r].kotlin[s], d)
  BY SnapshotStep DEF InSource
<1>2. ASSUME NEW q \in Runs, pc[q] = "sources", s \in SourceItems(q)
      PROVE  /\ d \in snapshot[q].kotlin[s].decls
             /\ d \in keep[q] \/ (MovedBySome(d) /\ java'[d].state # "absent")
  <2>1. pc[q] # "idle"
    BY <1>2
  <2>2. d \in snapshot[q].kotlin[s].decls
    BY <1>0, <1>2, <2>1 DEF SourceItems, Layout, InSource, Declares
  <2>3. ASSUME d \notin keep[q] PROVE MovedBySome(d) /\ java'[d].state # "absent"
    <3>1. d \in Moved(q)
      BY <1>0, <2>2, <2>3 DEF Moved, Planned
    <3>2. MovedBySome(d) /\ java[d].state # "absent"
      BY <1>2, <2>1, <3>1 DEF MovedBySome, JavaFirst, JavaDone
    <3>. QED BY <3>2, JavaStays
  <2>. QED BY <2>2, <2>3
<1>3. CASE kotlin'[s].state = kotlin[s].state /\ kotlin'[s].decls = kotlin[s].decls
  BY <1>1, <1>3 DEF InSource, Declares
<1>4. CASE kotlin'[s].state = "torn"
  BY <1>1, <1>4 DEF InSource, Declares
<1>5. ASSUME NEW q \in Runs, pc[q] = "sources", s \in SourceItems(q),
             kotlin'[s].state = "text",
             kotlin'[s].decls = keep[q] \cap snapshot[q].kotlin[s].decls
      PROVE  InSource(d)' \/ (MovedBySome(d) /\ java'[d].state # "absent")
  BY <1>1, <1>2, <1>5 DEF InSource, Declares
<1>6. ASSUME NEW q \in Runs, pc[q] = "sources", s \in SourceItems(q),
             keep[q] \cap snapshot[q].kotlin[s].decls = {}
      PROVE  MovedBySome(d) /\ java'[d].state # "absent"
  BY <1>2, <1>6
<1>. QED BY <1>0, <1>3, <1>4, <1>5, <1>6, SourceStep

LEMMA LongMovedStays ==
  ASSUME Typed, Agenda, Layout, Typed', Layout', [Next]_vars,
         NEW d \in Declarations, LongMoved(d)
  PROVE  LongMoved(d)'
<1>. USE ApplyAssumption
<1>. DEFINE s == FileOf[d]
<1>0. s \in Sources
  OBVIOUS
<1>1. java'[d].state = "generated"
  BY JavaStep DEF LongMoved, Moved, StaleItems
<1>2. d \notin kotlin'[s].decls
  <2>1. ASSUME NEW q \in Runs, pc[q] = "sources" PROVE d \notin snapshot[q].kotlin[s].decls
    BY <1>0, <2>1, PlannedWhere DEF LongMoved
  <2>. QED BY <1>0, <2>1, SourceStep DEF LongMoved, InKotlin, NoSource
<1>3. ASSUME NEW r \in Runs, pc'[r] # "idle" PROVE d \notin Planned(r)'
  <2>1. CASE pc[r] # "idle" /\ snapshot'[r] = snapshot[r]
    BY <2>1 DEF LongMoved, Planned
  <2>2. CASE snapshot'[r].kotlin = kotlin
    <3>1. \A t \in Sources : d \notin kotlin[t].decls
      BY DEF Layout, LongMoved, InKotlin, DeclaredOnDisk
    <3>. QED BY <2>2, <3>1 DEF Planned
  <2>. QED BY <1>3, <2>1, <2>2, SnapshotStep
<1>. QED BY <1>1, <1>2, <1>3 DEF LongMoved, InKotlin

LEMMA StepSecured ==
  ASSUME Typed, Agenda, Layout, Typed', Layout', Agree, [Next]_vars,
         \A q \in Runs : ~WriteError(q) /\ ~Kill(q),
         NEW d \in Declarations, Secured(d), JavaFirst(d)
  PROVE  Secured(d)' /\ JavaFirst(d)'
<1>1. Secured(d)'
  <2>1. CASE MovedBySome(d)
    <3>1. MovedBySome(d)'
      BY <2>1, Begun, PlanFixed DEF MovedBySome
    <3>. QED BY <2>1, <3>1, JavaStays, SourceKeeps DEF Secured
  <2>2. CASE ~MovedBySome(d) /\ LongMoved(d)
    <3>1. LongMoved(d)'
      BY <2>2, LongMovedStays
    <3>2. ~MovedBySome(d)'
      BY <3>1 DEF MovedBySome, LongMoved, Moved
    <3>. QED BY <3>1, <3>2 DEF Secured
  <2>3. CASE ~MovedBySome(d) /\ InSource(d)
    BY <2>3, SourceKeeps DEF Secured
  <2>. QED BY <2>1, <2>2, <2>3 DEF Secured
<1>2. ASSUME NEW r \in Runs, pc'[r] # "idle", d \in Moved(r)', JavaDone(r, d)'
      PROVE  java'[d].state # "absent"
  <2>1. ~Plan(r)
    BY <1>2 DEF Plan, Typed, JavaDone
  <2>2. pc[r] # "idle"
    BY <1>2, <2>1, SnapshotStep
  <2>3. d \in Moved(r)
    BY <1>2, <2>2, Begun, PlanFixed
  <2>4. CASE JavaDone(r, d)
    <3>1. MovedBySome(d) /\ java[d].state # "absent"
      BY <2>2, <2>3, <2>4 DEF MovedBySome, JavaFirst
    <3>. QED BY <3>1, JavaStays
  <2>5. CASE ~JavaDone(r, d)
    BY <1>2, <2>2, <2>3, <2>5, DoneWritten
  <2>. QED BY <2>4, <2>5
<1>. QED BY <1>1, <1>2 DEF JavaFirst

LEMMA StepClosing ==
  ASSUME Typed, Agenda, Closing, [Next]_vars, \A q \in Runs : ~WriteError(q) /\ ~Kill(q)
  PROVE  Closing'
<1>. USE ApplyAssumption
<1>1. ASSUME NEW d \in Declarations, java'[d].state = "partial" PROVE \E q \in Runs : open'[q] = d
  <2>1. CASE java'[d].state = java[d].state
    <3>1. PICK q \in Runs : open[q] = d
      BY <1>1, <2>1 DEF Closing
    <3>. QED BY <1>1, <3>1, ClosedWritten
  <2>. QED BY <1>1, <2>1, JavaStep
<1>2. ASSUME NEW s \in Sources, kotlin'[s].state = "torn" PROVE \E q \in Runs : open'[q] = s
  <2>1. CASE kotlin'[s].state = kotlin[s].state
    <3>1. PICK q \in Runs : open[q] = s
      BY <1>2, <2>1 DEF Closing
    <3>. QED BY <1>2, <3>1, ClosedWritten
  <2>. QED BY <1>2, <2>1, SourceStep DEF NoSource
<1>. QED BY <1>1, <1>2 DEF Closing

LEMMA StepCooperating ==
  Typed /\ Agenda /\ Layout /\ Cooperating /\ [Next]_vars /\ Typed' /\ Layout' => Cooperating'
<1>. SUFFICES ASSUME Typed, Agenda, Layout, Cooperating, [Next]_vars, Typed', Layout',
                     Agree', faults' = 0
              PROVE  Closing' /\ \A d \in Declarations : Secured(d)' /\ JavaFirst(d)'
  BY DEF Cooperating
<1>1. /\ Agree /\ faults = 0
      /\ \A r \in Runs : ~WriteError(r) /\ ~Kill(r)
  BY AgreedBefore
<1>. QED BY <1>1, StepClosing, StepSecured DEF Cooperating

LEMMA InitCooperating == Init => Cooperating
<1>. SUFFICES ASSUME Init PROVE Closing /\ \A d \in Declarations : Secured(d) /\ JavaFirst(d)
  BY DEF Cooperating
<1>. USE ApplyAssumption
<1>1. PICK left, leftover \in SUBSET Declarations :
        /\ leftover \subseteq left
        /\ kotlin = [ s \in Sources |->
             IF left \cap DeclaredOnDisk(s) = {} THEN NoSource
             ELSE [state |-> "text", decls |-> left \cap DeclaredOnDisk(s), edit |-> 0] ]
        /\ java = [ d \in Declarations |-> IF d \in left \ leftover THEN NoJava ELSE Generated ]
  BY Zenon DEF Init
<1>2. \A r \in Runs : pc[r] = "idle"
  BY DEF Init
<1>3. Closing
  BY <1>1 DEF Closing, NoSource, NoJava, Generated
<1>4. ASSUME NEW d \in Declarations PROVE LongMoved(d) \/ InSource(d)
  <2>1. FileOf[d] \in Sources
    OBVIOUS
  <2>2. CASE d \in left
    <3>1. d \in left \cap DeclaredOnDisk(FileOf[d])
      BY <2>2 DEF DeclaredOnDisk
    <3>2. kotlin[FileOf[d]] = [state |-> "text", decls |-> left \cap DeclaredOnDisk(FileOf[d]), edit |-> 0]
      BY <1>1, <2>1, <3>1
    <3>. QED BY <1>2, <3>1, <3>2 DEF InSource, Declares
  <2>3. CASE d \notin left
    <3>1. java[d].state = "generated"
      BY <1>1, <2>3 DEF Generated
    <3>2. d \notin kotlin[FileOf[d]].decls
      BY <1>1, <2>1, <2>3 DEF NoSource
    <3>. QED BY <1>2, <3>1, <3>2 DEF LongMoved, InKotlin
  <2>. QED BY <2>2, <2>3
<1>. QED BY <1>2, <1>3, <1>4 DEF Secured, JavaFirst, MovedBySome

-------------------------------------------------------------------------------
IInv ==
  Typed /\ Flags /\ Agenda /\ Layout /\ Recent /\ Alone /\ AllPresent /\ StaleHalts /\ Untouched
  /\ Cooperating

LEMMA InitHolds == Init => IInv
<1>. SUFFICES ASSUME Init PROVE IInv
  OBVIOUS
<1>1. Typed /\ Flags /\ Agenda /\ Layout /\ Recent
  BY InitTyped
<1>2. \A r \in Runs : pc[r] = "idle" /\ ~Active(r)
  BY DEF Init, Active
<1>3. Alone
  BY <1>2, Zenon DEF Alone
<1>4. AllPresent
  <2>1. PICK left, leftover \in SUBSET Declarations :
          /\ leftover \subseteq left
          /\ kotlin = [ s \in Sources |->
               IF left \cap DeclaredOnDisk(s) = {} THEN NoSource
               ELSE [state |-> "text", decls |-> left \cap DeclaredOnDisk(s), edit |-> 0] ]
          /\ java = [ d \in Declarations |-> IF d \in left \ leftover THEN NoJava ELSE Generated ]
    BY Zenon DEF Init
  <2>2. ASSUME NEW d \in left PROVE InKotlin(d)
    <3>1. FileOf[d] \in Sources /\ d \in left \cap DeclaredOnDisk(FileOf[d])
      BY ApplyAssumption DEF DeclaredOnDisk
    <3>. QED BY <2>1, <3>1 DEF InKotlin
  <2>3. \A d \in Declarations : d \notin left => java[d].state = "generated"
    BY <2>1 DEF Generated
  <2>. QED BY <1>2, <2>2, <2>3 DEF AllPresent, Present
<1>5. StaleHalts
  <2>1. \A r \in Runs : ~wrote[r]
    BY Zenon DEF Init
  <2>2. stale = {}
    BY DEF Init
  <2>. QED BY <2>1, <2>2, Zenon DEF StaleHalts
<1>6. Untouched
  <2>1. ~clobbered
    BY Zenon DEF Init
  <2>2. \A r \in Runs : pc[r] \notin WritePhases
    BY <1>2 DEF WritePhases
  <2>. QED BY <2>1, <2>2, Zenon DEF Untouched
<1>. QED BY <1>1, <1>3, <1>4, <1>5, <1>6, InitCooperating DEF IInv

LEMMA StepHolds == IInv /\ [Next]_vars => IInv'
<1>. SUFFICES ASSUME IInv, [Next]_vars PROVE IInv'
  OBVIOUS
<1>1. Typed' /\ Flags' /\ Agenda' /\ Layout' /\ Recent' /\ Alone'
  BY StepTyped, StepFlags, StepAgenda, StepLayout, StepRecent, StepAlone DEF IInv
<1>2. AllPresent' /\ StaleHalts' /\ Untouched' /\ Cooperating'
  BY <1>1, StepPresent, StepStale, StepUntouched, StepCooperating DEF IInv
<1>. QED BY <1>1, <1>2 DEF IInv

LEMMA AlwaysIInv == Spec => []IInv
  BY InitHolds, StepHolds, PTL DEF Spec

(* Whatever fails or is killed, and however often it is run again, every   *)
(* declaration is in Kotlin, in finished Java, or in a source that a run   *)
(* was rewriting when it stopped: for every number of files and runs, as   *)
(* long as runs do not overlap.                                            *)
THEOREM DeclarationsSurvive == Spec => []NothingLost
<1>1. IInv => NothingLost
  BY DEF IInv, AllPresent, Present, NothingLost
<1>. QED BY <1>1, AlwaysIInv, PTL

(* The variables are typed, a plan that is carried out leaves the tree it  *)
(* describes, and one that is outdated when it is verified writes nothing. *)
THEOREM TreeStaysConsistent == Spec => []TreeConsistent
<1>1. IInv => TypeOK
  <2>. SUFFICES ASSUME IInv PROVE TypeOK
    OBVIOUS
  <2>1. wrote \in [Runs -> BOOLEAN] /\ overlapped \in BOOLEAN /\ clobbered \in BOOLEAN /\ late \in BOOLEAN
    BY Zenon DEF IInv, Flags
  <2>2. \A r \in Runs : open[r] # None => pc[r] \in {"java", "sources"} /\ open[r] \in todo[r]
    BY DEF IInv, Agenda
  <2>3. Typed
    BY DEF IInv
  <2>. QED BY <2>1, <2>2, <2>3, Zenon DEF TypeOK, Typed, KotlinFiles, JavaFiles, Places
<1>2. IInv => StalePlanWritesNothing
  BY DEF IInv, StaleHalts, Outdated, StalePlanWritesNothing
<1>3. IInv => AppliedPlanIsOnDisk
  <2>. SUFFICES ASSUME IInv, NEW r \in Runs, pc[r] = "finish", ~overlapped
                PROVE  /\ \A d \in Moved(r) : ~InKotlin(d) /\ java[d].state = "generated"
                       /\ \A d \in keep[r] : InKotlin(d) /\ (d \in Types => java[d].state # "generated")
    BY DEF AppliedPlanIsOnDisk
  <2>. USE ApplyAssumption
  <2>1. Active(r) /\ open[r] = None
    BY DEF Active, Ended, IInv, Agenda
  <2>2. KotlinProgress(r) /\ JavaProgress(r)
    BY <2>1 DEF IInv, Alone
  <2>3. /\ Moved(r) \subseteq Declarations /\ Moved(r) \subseteq Planned(r)
        /\ keep[r] \subseteq Declarations /\ keep[r] \subseteq Planned(r)
    BY PlannedTyped DEF IInv, Typed, Moved
  <2>4. ASSUME NEW d \in Declarations, d \in Planned(r)
        PROVE  kotlin[FileOf[d]].decls = keep[r] \cap snapshot[r].kotlin[FileOf[d]].decls
               /\ d \in snapshot[r].kotlin[FileOf[d]].decls
    <3>1. d \in snapshot[r].kotlin[FileOf[d]].decls
      BY <2>4, PlannedWhere DEF IInv
    <3>. QED BY <2>1, <2>2, <3>1 DEF KotlinProgress, SourceDone, SourceItems
  <2>5. \A d \in Moved(r) : ~InKotlin(d)
    BY <2>3, <2>4 DEF InKotlin, Moved
  <2>6. \A d \in keep[r] : InKotlin(d)
    BY <2>3, <2>4 DEF InKotlin
  <2>7. \A d \in Moved(r) : java[d].state = "generated"
    BY <2>1, <2>2, <2>3 DEF JavaProgress, JavaDone
  <2>8. \A d \in keep[r] : d \in Types => java[d].state # "generated"
    <3>1. \A d \in keep[r] : d \in Types => d \in StaleItems(r)
      BY <2>3 DEF StaleItems, Moved
    <3>. QED BY <2>1, <2>2, <2>3, <3>1 DEF JavaProgress, StaleDone
  <2>. QED BY <2>5, <2>6, <2>7, <2>8
<1>4. IInv => TreeConsistent
  BY <1>1, <1>2, <1>3 DEF TreeConsistent
<1>. QED BY <1>4, AlwaysIInv, PTL

(* A run writes over, removes and deletes only what its plan was made      *)
(* from, unless another run or an edit comes between its verification and  *)
(* the write.                                                              *)
THEOREM EarlierEditsSurvive == Spec => []OnlyLateEditsAreLost
<1>1. IInv => OnlyLateEditsAreLost
  BY Zenon DEF IInv, Untouched, OnlyLateEditsAreLost
<1>. QED BY <1>1, AlwaysIInv, PTL

(* Runs that overlap but agree on what stays in Kotlin lose nothing, how   *)
(* many there are and however their steps interleave: the one that deletes *)
(* or rewrites a source has written the Java of what it moved before, and  *)
(* nobody removes that Java.                                               *)
THEOREM AgreeingRunsAreSafe == Spec => []AgreeingRunsLoseNothing
<1>1. IInv => AgreeingRunsLoseNothing
  <2>. SUFFICES ASSUME IInv, Agree, faults = 0, \A r \in Runs : open[r] = None,
                       NEW d \in Declarations
                PROVE  InKotlin(d) \/ java[d].state = "generated"
    BY DEF AgreeingRunsLoseNothing
  <2>. USE ApplyAssumption
  <2>1. Closing /\ Secured(d) /\ Typed
    BY DEF IInv, Cooperating
  <2>2. java[d].state # "absent" => java[d].state = "generated"
    <3>1. java[d].state \in {"absent", "partial", "generated"}
      BY <2>1 DEF Typed, JavaFiles
    <3>. QED BY <2>1, <3>1 DEF Closing
  <2>3. kotlin[FileOf[d]].state \in {"absent", "text"}
    <3>1. FileOf[d] \in Sources
      OBVIOUS
    <3>2. kotlin[FileOf[d]].state \in {"absent", "text", "torn"}
      BY <2>1, <3>1 DEF Typed, KotlinFiles
    <3>. QED BY <2>1, <3>1, <3>2 DEF Closing
  <2>. QED BY <2>1, <2>2, <2>3 DEF Secured, LongMoved, InSource, Declares, InKotlin
<1>. QED BY <1>1, AlwaysIInv, PTL

=================================================================================
