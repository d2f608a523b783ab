------------------------ MODULE GeneratedJavaProofs ------------------------
(***************************************************************************)
(* Proofs about what the generated Java relies on: its dependency in the   *)
(* build scripts (BuildScripts) and its constructors (CtorDefaults).       *)
(*                                                                         *)
(* Scripts.  Once a script is configured (or open, or damaged) it stays    *)
(* so, whatever overlaps, and what a run needs configured is so or still   *)
(* on its list.                                                            *)
(*                                                                         *)
(* Constructors.  The patterns of a plan differ, each rung of the ladder   *)
(* omits one parameter more than the one before it, further to the left,   *)
(* and a delegation reaches that rung or a constructor that takes every    *)
(* parameter.  So the defaults a running constructor has evaluated come    *)
(* before all it still leaves out.  And each constructor a call runs gets  *)
(* for its parameters what the call means for them, and leaves out only    *)
(* parameters the call gives nothing.                                      *)
(***************************************************************************)
EXTENDS BuildScripts, CtorDefaults, FiniteSetTheorems, SequenceTheorems, WellFoundedInduction, TLAPS


LEMMA NearestType ==
  ASSUME NEW d
  PROVE  Nearest(d) \in Scripts \cup {None}
<1> DEFINE found == { ScriptIn[e] : e \in Visited(d) } \ {None}
<1>1. found \subseteq Scripts
  BY DEF Visited, Scripts
<1>2. Nearest(d) = IF found = {} THEN None ELSE CHOOSE s \in found : TRUE
  BY DEF Nearest
<1> HIDE DEF found
<1>3. found # {} => (CHOOSE s \in found : TRUE) \in found
  OBVIOUS
<1> QED
  BY <1>1, <1>2, <1>3

(* A script that has its block, is about to get it, or lost it to an       *)
(* interrupted write.                                                      *)
Settled(s) == scripts[s].blocks > 0 \/ s \in damaged \/ \E r \in Runs : open[r] = s

(* The scripts a run found wanting are still on its list, in its snapshot  *)
(* before it verified it, or settled.                                      *)
Pending(r) ==
  CASE pc[r] = "planned" -> DOMAIN before[r]
    [] pc[r] = "scripts" -> todo[r]
    [] OTHER -> {}

(* A block is only ever planned for a script without one.                  *)
OneBlock ==
  /\ \A s \in Scripts : scripts[s].blocks <= 1
  /\ \A r \in Runs : \A s \in DOMAIN before[r] : before[r][s].blocks = 0

PlansSettled ==
  \A r \in Runs : pc[r] \in { "planned", "scripts", "success" } =>
    \A d \in sees[r] :
      Nearest(d) # None => Settled(Nearest(d)) \/ Nearest(d) \in Pending(r)

JavaSettled == \A d \in generated : Nearest(d) # None => Settled(Nearest(d))

ProducesSeen == \A r \in Runs : produces[r] \subseteq sees[r]

(* Only runs past their verification write, and a run with an outdated     *)
(* batch never gets there.                                                 *)
WritersVerified ==
  \A r \in Runs :
    /\ r \in wrote => pc[r] \notin { "idle", "planned" }
    /\ r \in stale => pc[r] = "failed" /\ r \notin wrote

IInv ==
  /\ TypeOK
  /\ OneBlock
  /\ ProducesSeen
  /\ PlansSettled
  /\ JavaSettled
  /\ WritersVerified

LEMMA InitIInv == Init => IInv
<1> SUFFICES ASSUME Init PROVE IInv
  OBVIOUS
<1>1. /\ DOMAIN NoSnapshots = {}
      /\ NoSnapshots \in [{} -> Contents]
  BY DEF NoSnapshots
<1>2. \A r \in Runs : before[r] = NoSnapshots
  BY DEF Init
<1>3. TypeOK
  BY <1>1, <1>2, BuildAssumption DEF Init, TypeOK, Contents, Unedited
<1>4. OneBlock
  BY <1>1, <1>2 DEF Init, OneBlock, Unedited
<1> QED
  BY <1>3, <1>4 DEF Init, IInv, ProducesSeen, PlansSettled, JavaSettled, WritersVerified

(* No step unsettles a script.                                             *)
LEMMA SettledStays ==
  ASSUME IInv, [Next]_vars, NEW s \in Scripts, Settled(s)
  PROVE  Settled(s)'
<1> USE DEF IInv, TypeOK, Settled
<1>1. ASSUME NEW r \in Runs, Fill(r) PROVE Settled(s)'
  <2>1. CASE open[r] = s
    <3>1. before[r][s] \in Contents
      BY <1>1, <2>1 DEF Fill
    <3>2. After(r, s).blocks > 0
      BY <3>1 DEF After, Contents
    <3>3. scripts'[s] = After(r, s)
      BY <1>1, <2>1 DEF Fill
    <3> QED
      BY <3>2, <3>3
  <2>2. CASE open[r] # s
    <3>1. scripts'[s] = scripts[s] /\ damaged' = damaged
      BY <1>1, <2>2 DEF Fill
    <3>2. \A q \in Runs : open[q] = s => open'[q] = s
      BY <1>1, <2>2 DEF Fill
    <3> QED
      BY <3>1, <3>2
  <2> QED
    BY <2>1, <2>2
<1>2. ASSUME NEW r \in Runs, StopInWrite(r) PROVE Settled(s)'
  <2>1. CASE open[r] = s
    BY <1>2, <2>1 DEF StopInWrite
  <2>2. CASE open[r] # s
    <3>1. scripts'[s] = scripts[s] /\ damaged \subseteq damaged'
      BY <1>2, <2>2 DEF StopInWrite
    <3>2. \A q \in Runs : open[q] = s => open'[q] = s
      BY <1>2, <2>2 DEF StopInWrite
    <3> QED
      BY <3>1, <3>2
  <2> QED
    BY <2>1, <2>2
<1>3. ASSUME NEW r \in Runs, NEW t \in Scripts, Truncate(r, t) PROVE Settled(s)'
  <2>1. CASE t = s
    BY <1>3, <2>1 DEF Truncate
  <2>2. CASE t # s
    <3>1. scripts'[s] = scripts[s] /\ damaged' = damaged
      BY <1>3, <2>2 DEF Truncate
    <3>2. None \notin Scripts
      BY DEF Scripts
    <3>3. \A q \in Runs : open[q] = s => open'[q] = s
      BY <1>3, <2>2, <3>2 DEF Truncate
    <3> QED
      BY <3>1, <3>3
  <2> QED
    BY <2>1, <2>2
<1>4. ASSUME NEW t \in Scripts, Edit(t) PROVE Settled(s)'
  <2>1. scripts[s] \in Contents /\ scripts'[s].blocks = scripts[s].blocks
    BY <1>4 DEF Edit, Contents
  <2> QED
    BY <1>4, <2>1 DEF Edit
<1>5. ASSUME UNCHANGED << scripts, damaged, open >> PROVE Settled(s)'
  BY <1>5
<1> QED
  BY <1>1, <1>2, <1>3, <1>4, <1>5
  DEF Next, Plan, Verify, Finish, Stop, WriteJava, vars

(* The snapshots a run planned with are not touched afterwards.            *)
LEMMA StepKeepsTypes ==
  ASSUME IInv, [Next]_vars
  PROVE  TypeOK'
<1> USE DEF IInv
<1>1. ASSUME NEW r \in Runs, Plan(r) PROVE TypeOK'
  <2>1. PICK target \in SUBSET Directories :
          /\ before' = [before EXCEPT ![r] = [s \in Unconfigured(target) |-> scripts[s]]]
          /\ produces' = [produces EXCEPT ![r] = target]
          /\ sees' = [sees EXCEPT ![r] = target \cup using]
    BY <1>1 DEF Plan
  <2>2. Unconfigured(target) \subseteq Scripts
    BY NearestType DEF Unconfigured, Required
  <2>3. /\ DOMAIN before'[r] = Unconfigured(target)
        /\ before'[r] \in [Unconfigured(target) -> Contents]
    BY <2>1, <2>2 DEF TypeOK
  <2>4. \A q \in Runs : q # r => before'[q] = before[q]
    BY <2>1 DEF TypeOK
  <2>5. before' = [q \in Runs |-> before'[q]]
    BY <2>1 DEF TypeOK
  <2>6. todo[r] = {} /\ open[r] = None
    BY <1>1 DEF Plan, TypeOK
  <2> QED
    BY <1>1, <2>1, <2>2, <2>3, <2>4, <2>5, <2>6 DEF TypeOK, Plan
<1>2. ASSUME NEW r \in Runs, Verify(r) PROVE TypeOK'
  <2>1. /\ todo' \in [Runs -> SUBSET Scripts]
        /\ pc' \in [Runs -> { "idle", "planned", "scripts", "success", "failed" }]
    BY <1>2 DEF TypeOK, Verify
  <2>2. open[r] = None
    BY <1>2 DEF TypeOK, Verify
  <2>3. ASSUME NEW q \in Runs
        PROVE  /\ todo'[q] \subseteq DOMAIN before[q]
               /\ pc'[q] \in { "idle", "planned" } => todo'[q] = {}
               /\ open[q] # None => pc'[q] = "scripts" /\ open[q] \in todo'[q]
    <3>1. CASE q # r
      <4>1. pc'[q] = pc[q] /\ todo'[q] = todo[q]
        BY <1>2, <3>1 DEF TypeOK, Verify
      <4> QED
        BY <4>1 DEF TypeOK
    <3>2. CASE q = r
      <4>1. \/ pc'[r] = "scripts" /\ todo'[r] = DOMAIN before[r]
            \/ pc'[r] = "failed" /\ todo'[r] = todo[r]
        BY <1>2 DEF TypeOK, Verify
      <4> QED
        BY <2>2, <3>2, <4>1 DEF TypeOK
    <3> QED
      BY <3>1, <3>2
  <2> QED
    BY <1>2, <2>1, <2>3 DEF TypeOK, Verify
<1>3. ASSUME NEW r \in Runs, NEW s \in Scripts, Truncate(r, s) PROVE TypeOK'
  <2>1. [text |-> Truncated, blocks |-> 0] \in Contents
    BY DEF Contents
  <2> QED
    BY <1>3, <2>1 DEF TypeOK, Truncate
<1>4. ASSUME NEW r \in Runs, open[r] # None PROVE After(r, open[r]) \in Contents
  BY <1>4 DEF TypeOK, After, Contents
<1>5. ASSUME NEW r \in Runs, Fill(r) PROVE TypeOK'
  <2>1. After(r, open[r]) \in Contents
    BY <1>4, <1>5 DEF Fill
  <2> QED
    BY <1>5, <2>1 DEF TypeOK, Fill
<1>6. ASSUME NEW r \in Runs, NEW d \in Directories, WriteJava(r, d) PROVE TypeOK'
  BY <1>6 DEF TypeOK, WriteJava
<1>7. ASSUME NEW r \in Runs, Finish(r) PROVE TypeOK'
  BY <1>7 DEF TypeOK, Finish, ScriptsDone
<1>8. ASSUME NEW r \in Runs, Stop(r) PROVE TypeOK'
  BY <1>8, BuildAssumption DEF TypeOK, Stop
<1>9. ASSUME NEW r \in Runs, StopInWrite(r) PROVE TypeOK'
  <2>1. After(r, open[r]) \in Contents
    BY <1>4, <1>9 DEF StopInWrite
  <2>2. scripts' \in [Scripts -> Contents]
    BY <1>9, <2>1 DEF TypeOK, StopInWrite
  <2> QED
    BY <1>9, <2>2, BuildAssumption DEF TypeOK, StopInWrite
<1>10. ASSUME NEW s \in Scripts, Edit(s) PROVE TypeOK'
  <2>1. edits' \in 0 .. MaxEdits
    BY <1>10, BuildAssumption DEF TypeOK, Edit
  <2>2. [scripts[s] EXCEPT !.text = edits + 1] \in Contents
    BY <1>10, <2>1 DEF TypeOK, Edit, Contents
  <2> QED
    BY <1>10, <2>1, <2>2 DEF TypeOK, Edit
<1>11. ASSUME UNCHANGED vars PROVE TypeOK'
  BY <1>11 DEF TypeOK, vars
<1> QED
  BY <1>1, <1>2, <1>3, <1>5, <1>6, <1>7, <1>8, <1>9, <1>10, <1>11 DEF Next

(* A block is appended only to a snapshot without one.                     *)
LEMMA StepKeepsOneBlock ==
  ASSUME IInv, [Next]_vars
  PROVE  OneBlock'
<1> USE DEF IInv
<1>1. ASSUME NEW r \in Runs, Plan(r) PROVE OneBlock'
  <2>1. PICK target \in SUBSET Directories :
          before' = [before EXCEPT ![r] = [s \in Unconfigured(target) |-> scripts[s]]]
    BY <1>1 DEF Plan
  <2>2. \A s \in DOMAIN before'[r] : before'[r][s].blocks = 0
    BY <2>1 DEF TypeOK, Unconfigured
  <2>3. \A q \in Runs : q # r => before'[q] = before[q]
    BY <2>1 DEF TypeOK
  <2> QED
    BY <1>1, <2>2, <2>3 DEF OneBlock, Plan
<1>2. ASSUME NEW r \in Runs, open[r] # None
      PROVE  After(r, open[r]).blocks = 1
  BY <1>2 DEF TypeOK, OneBlock, After, Contents
<1>3. ASSUME NEW r \in Runs, Fill(r) \/ StopInWrite(r) PROVE OneBlock'
  <2>1. before' = before /\ open[r] \in Scripts
    BY <1>3 DEF Fill, StopInWrite, TypeOK
  <2>2. After(r, open[r]).blocks = 1
    BY <1>2, <1>3 DEF Fill, StopInWrite
  <2>3. \/ scripts' = scripts
        \/ scripts' = [scripts EXCEPT ![open[r]] = After(r, open[r])]
    BY <1>3 DEF Fill, StopInWrite
  <2>4. \A s \in Scripts : scripts'[s] = scripts[s] \/ scripts'[s] = After(r, open[r])
    BY <2>1, <2>3 DEF TypeOK
  <2> QED
    BY <2>1, <2>2, <2>4 DEF OneBlock
<1>4. ASSUME NEW r \in Runs, NEW s \in Scripts, Truncate(r, s) PROVE OneBlock'
  BY <1>4 DEF OneBlock, Truncate, TypeOK
<1>5. ASSUME NEW s \in Scripts, Edit(s) PROVE OneBlock'
  <2>1. \A t \in Scripts : scripts'[t].blocks = scripts[t].blocks
    BY <1>5 DEF Edit, TypeOK, Contents
  <2> QED
    BY <1>5, <2>1 DEF OneBlock, Edit
<1>6. ASSUME UNCHANGED << scripts, before >> PROVE OneBlock'
  BY <1>6 DEF OneBlock
<1> QED
  BY <1>1, <1>3, <1>4, <1>5, <1>6 DEF Next, vars, Verify, WriteJava, Finish, Stop

(* What a planned run needs is settled, or it is on its list.              *)
LEMMA StepKeepsPlansSettled ==
  ASSUME IInv, [Next]_vars
  PROVE  PlansSettled'
<1> USE DEF IInv
<1>1. \A s \in Scripts : Settled(s) => Settled(s)'
  BY SettledStays
<1>2. \A d : Nearest(d) # None => Nearest(d) \in Scripts
  BY NearestType
<1>3. ASSUME NEW r \in Runs, pc'[r] \in { "planned", "scripts", "success" },
             NEW d \in sees'[r], Nearest(d) # None
      PROVE  Settled(Nearest(d))' \/ Nearest(d) \in Pending(r)'
  <2> DEFINE s == Nearest(d)
  <2>1. s \in Scripts
    BY <1>2, <1>3
  <2>2. ASSUME sees'[r] = sees[r], pc[r] \in { "planned", "scripts", "success" },
               s \in Pending(r) => Settled(s)' \/ s \in Pending(r)'
        PROVE  Settled(s)' \/ s \in Pending(r)'
    <3>1. Settled(s) \/ s \in Pending(r)
      BY <1>3, <2>2 DEF PlansSettled
    <3> QED
      BY <1>1, <2>1, <2>2, <3>1
  <2>3. ASSUME Plan(r) PROVE Settled(s)' \/ s \in Pending(r)'
    <3>1. PICK target \in SUBSET Directories :
            /\ before' = [before EXCEPT ![r] = [t \in Unconfigured(target) |-> scripts[t]]]
            /\ sees' = [sees EXCEPT ![r] = target \cup using]
      BY <2>3 DEF Plan
    <3>2. s \in Required(target)
      BY <1>3, <3>1 DEF Required, TypeOK
    <3>3. pc'[r] = "planned" /\ DOMAIN before'[r] = Unconfigured(target)
      BY <2>3, <3>1 DEF Plan, TypeOK
    <3>4. CASE scripts[s].blocks = 0
      BY <3>2, <3>3, <3>4 DEF Unconfigured, Pending
    <3>5. CASE scripts[s].blocks # 0
      <4>1. scripts[s] \in Contents
        BY <2>1 DEF TypeOK
      <4>2. scripts[s].blocks > 0
        BY <3>5, <4>1 DEF Contents
      <4> QED
        BY <1>1, <2>1, <4>2 DEF Settled
    <3> QED
      BY <3>4, <3>5
  <2>4. ASSUME Verify(r) PROVE Settled(s)' \/ s \in Pending(r)'
    BY <1>3, <2>2, <2>4 DEF Verify, Pending, TypeOK
  <2>5. ASSUME Fill(r) PROVE Settled(s)' \/ s \in Pending(r)'
    <3>1. pc[r] = "scripts" /\ pc' = pc /\ sees' = sees /\ todo'[r] = todo[r] \ {open[r]}
      BY <2>5 DEF Fill, TypeOK
    <3>2. Settled(open[r])
      BY <2>5 DEF Fill, Settled
    <3>3. open[r] \in Scripts
      BY <2>5 DEF Fill, TypeOK
    <3>4. s \in Pending(r) => Settled(s)' \/ s \in Pending(r)'
      BY <1>1, <3>1, <3>2, <3>3 DEF Pending
    <3> QED
      BY <2>2, <3>1, <3>4
  <2>6. ASSUME Finish(r) PROVE Settled(s)' \/ s \in Pending(r)'
    <3>1. pc[r] = "scripts" /\ todo[r] = {} /\ sees' = sees
      BY <2>6 DEF Finish, ScriptsDone
    <3>2. Pending(r) = {}
      BY <3>1 DEF Pending
    <3> QED
      BY <2>2, <3>1, <3>2
  <2>7. ASSUME UNCHANGED << pc[r], sees[r], before[r], todo[r] >>
        PROVE  Settled(s)' \/ s \in Pending(r)'
    <3>1. Pending(r)' = Pending(r)
      BY <2>7 DEF Pending
    <3> QED
      BY <1>3, <2>2, <2>7, <3>1
  <2>8. ASSUME Stop(r) \/ StopInWrite(r) PROVE FALSE
    BY <1>3, <2>8 DEF Stop, StopInWrite, TypeOK
  <2>9. ASSUME NEW t \in Scripts, Truncate(r, t) PROVE UNCHANGED << pc[r], sees[r], before[r], todo[r] >>
    BY <2>9 DEF Truncate
  <2>10. ASSUME NEW e \in Directories, WriteJava(r, e) PROVE UNCHANGED << pc[r], sees[r], before[r], todo[r] >>
    BY <2>10 DEF WriteJava
  <2>11. ASSUME NEW t \in Scripts, Edit(t) PROVE UNCHANGED << pc[r], sees[r], before[r], todo[r] >>
    BY <2>11 DEF Edit
  <2>12. ASSUME NEW q \in Runs, q # r,
                \/ Plan(q) \/ Verify(q) \/ Fill(q) \/ Finish(q) \/ Stop(q) \/ StopInWrite(q)
                \/ \E t \in Scripts : Truncate(q, t)
                \/ \E e \in Directories : WriteJava(q, e)
         PROVE  UNCHANGED << pc[r], sees[r], before[r], todo[r] >>
    BY <2>12 DEF TypeOK, Plan, Verify, Fill, Finish, Stop, StopInWrite, Truncate, WriteJava
  <2>13. ASSUME UNCHANGED vars PROVE UNCHANGED << pc[r], sees[r], before[r], todo[r] >>
    BY <2>13 DEF vars
  <2> QED
    BY <2>3, <2>4, <2>5, <2>6, <2>7, <2>8, <2>9, <2>10, <2>11, <2>12, <2>13 DEF Next
<1> QED
  BY <1>3 DEF PlansSettled

LEMMA StepKeepsJavaSettled ==
  ASSUME IInv, [Next]_vars
  PROVE  JavaSettled' /\ ProducesSeen'
<1> USE DEF IInv
<1>1. \A s \in Scripts : Settled(s) => Settled(s)'
  BY SettledStays
<1>2. \A d : Nearest(d) # None => Nearest(d) \in Scripts
  BY NearestType
<1>3. ASSUME generated' = generated PROVE JavaSettled'
  BY <1>1, <1>2, <1>3 DEF JavaSettled
<1>4. ASSUME NEW r \in Runs, NEW d \in Directories, WriteJava(r, d) PROVE JavaSettled'
  <2>1. d \in sees[r] /\ pc[r] = "scripts" /\ Pending(r) = {}
    BY <1>4 DEF WriteJava, ScriptsDone, Pending, ProducesSeen
  <2>2. Nearest(d) # None => Settled(Nearest(d))
    BY <2>1 DEF PlansSettled
  <2>3. generated' = generated \cup {d}
    BY <1>4 DEF WriteJava
  <2> QED
    BY <1>1, <1>2, <2>2, <2>3 DEF JavaSettled
<1>5. ASSUME NEW r \in Runs, Plan(r) PROVE ProducesSeen'
  BY <1>5 DEF Plan, ProducesSeen, TypeOK
<1>6. ASSUME NEW r \in Runs, NEW d \in Directories, WriteJava(r, d) PROVE ProducesSeen'
  BY <1>6 DEF WriteJava, ProducesSeen, TypeOK
<1>7. ASSUME UNCHANGED << produces, sees >> PROVE ProducesSeen'
  BY <1>7 DEF ProducesSeen
<1> QED
  BY <1>3, <1>4, <1>5, <1>6, <1>7
  DEF Next, vars, Plan, Verify, Truncate, Fill, Finish, Stop, StopInWrite, Edit

LEMMA StepKeepsWritersVerified ==
  ASSUME IInv, [Next]_vars
  PROVE  WritersVerified'
<1> USE DEF IInv
<1>1. ASSUME NEW r \in Runs, Verify(r) PROVE WritersVerified'
  <2>1. ASSUME NEW q \in Runs, q # r
        PROVE  pc'[q] = pc[q] /\ (q \in stale' <=> q \in stale)
    BY <1>1, <2>1 DEF Verify, TypeOK
  <2>2. r \notin wrote /\ wrote' = wrote
    BY <1>1 DEF Verify, WritersVerified
  <2>3. r \in stale' => ~ BatchCurrent(r)
    BY <1>1 DEF Verify, WritersVerified, BatchCurrent
  <2>4. r \in stale' => pc'[r] = "failed"
    BY <1>1, <2>3 DEF Verify, TypeOK
  <2> QED
    BY <2>1, <2>2, <2>4 DEF WritersVerified
<1>2. ASSUME NEW r \in Runs, Plan(r) \/ Finish(r) \/ Stop(r) PROVE WritersVerified'
  BY <1>2 DEF Plan, Finish, ScriptsDone, Stop, WritersVerified, TypeOK
<1>3. ASSUME NEW r \in Runs, Fill(r) \/ StopInWrite(r) PROVE WritersVerified'
  BY <1>3 DEF Fill, StopInWrite, WritersVerified, TypeOK
<1>4. ASSUME NEW r \in Runs, NEW s \in Scripts, Truncate(r, s) PROVE WritersVerified'
  BY <1>4 DEF Truncate, WritersVerified, TypeOK
<1>5. ASSUME NEW r \in Runs, NEW d \in Directories, WriteJava(r, d) PROVE WritersVerified'
  BY <1>5 DEF WriteJava, ScriptsDone, WritersVerified, TypeOK
<1>6. ASSUME UNCHANGED << pc, stale, wrote >> PROVE WritersVerified'
  BY <1>6 DEF WritersVerified
<1> QED
  BY <1>1, <1>2, <1>3, <1>4, <1>5, <1>6 DEF Next, vars, Edit

THEOREM Invariance == Spec => []IInv
<1>1. IInv /\ [Next]_vars => IInv'
  <2> SUFFICES ASSUME IInv, [Next]_vars PROVE IInv'
    OBVIOUS
  <2>1. TypeOK' /\ OneBlock'
    BY StepKeepsTypes, StepKeepsOneBlock
  <2>2. PlansSettled' /\ JavaSettled' /\ ProducesSeen' /\ WritersVerified'
    BY StepKeepsPlansSettled, StepKeepsJavaSettled, StepKeepsWritersVerified
  <2> QED
    BY <2>1, <2>2 DEF IInv
<1> QED
  BY <1>1, InitIInv, PTL DEF Spec

(* However runs interleave, stop and are repeated, no script carries the   *)
(* block twice.                                                            *)
THEOREM BlockNeverTwice == Spec => []BlockOnce
<1>1. IInv => BlockOnce
  BY DEF IInv, OneBlock, BlockOnce
<1> QED
  BY <1>1, Invariance, PTL

(* An outdated batch of scripts is rejected before anything is written.    *)
THEOREM OutdatedWritesNothing == Spec => []StaleScriptWritesNothing
<1>1. IInv => StaleScriptWritesNothing
  BY DEF IInv, TypeOK, WritersVerified, StaleScriptWritesNothing
<1> QED
  BY <1>1, Invariance, PTL

(* Java that a run wrote has its dependency configured, at every moment.   *)
THEOREM DependencyPrecedesJava == Spec => []JavaHasItsDependency
<1>1. IInv => JavaHasItsDependency
  BY DEF IInv, JavaSettled, Settled, JavaHasItsDependency, Configured
<1> QED
  BY <1>1, Invariance, PTL

(* And so has, once a run succeeded, all Java it knew of.                  *)
THEOREM SuccessIsConfigured == Spec => []SuccessConfigures
<1>1. ASSUME IInv, NEW r \in Runs, pc[r] = "success", NEW d \in sees[r]
      PROVE  Configured(d)
  <2>1. Pending(r) = {}
    BY <1>1 DEF Pending
  <2> QED
    BY <1>1, <2>1 DEF IInv, PlansSettled, Settled, Configured
<1>2. IInv => SuccessConfigures
  BY <1>1 DEF SuccessConfigures
<1> QED
  BY <1>2, Invariance, PTL

(* The shape of the state.                                                 *)
THEOREM ScriptTypes == Spec => []TypeOK
<1>1. IInv => TypeOK
  BY DEF IInv
<1> QED
  BY <1>1, Invariance, PTL

(* Both, and at every moment: scripts stay whole, with one block at most.  *)
THEOREM ScriptsStayConsistent == Spec => []ScriptsConsistent
<1>1. ScriptsConsistent <=> TypeOK /\ BlockOnce
  BY DEF ScriptsConsistent
<1> QED
  BY <1>1, ScriptTypes, BlockNeverTwice, PTL

(* Java and its dependency go together.                                    *)
THEOREM JavaStaysConfigured == Spec => []JavaConfigured
<1>1. JavaConfigured <=> JavaHasItsDependency /\ SuccessConfigures
  BY DEF JavaConfigured
<1> QED
  BY <1>1, DependencyPrecedesJava, SuccessIsConfigured, PTL

-----------------------------------------------------------------------------
(* Constructors: sets in order. *)

(* Places that differ, one for each member: each place has its member.     *)
LEMMA Enumerated ==
  ASSUME NEW S, IsFiniteSet(S), NEW f \in [S -> 0 .. Cardinality(S) - 1], IsInjective(f),
         NEW k \in 1 .. Cardinality(S)
  PROVE  \E i \in S : f[i] = k - 1
<1> DEFINE n == Cardinality(S)
           T == 0 .. n - 1
<1>1. n \in Nat
  BY FS_CardinalityType
<1>2. IsFiniteSet(T) /\ Cardinality(T) = n
  <2> HIDE DEF n
  <2>1. n - 1 \in Int /\ 0 \in Int
    BY <1>1
  <2>2. IsFiniteSet(T) /\ Cardinality(T) = IF 0 > n - 1 THEN 0 ELSE (n - 1) - 0 + 1
    BY <2>1, FS_Interval
  <2> QED BY <1>1, <2>2
<1>3. f \in Injection(S, T)
  BY DEF Injection
<1>4. f \in Surjection(S, T)
  <2> HIDE DEF T, n
  <2>1. Cardinality(S) = Cardinality(T)
    BY <1>2 DEF n
  <2> QED BY <1>2, <1>3, <2>1, FS_Injection DEF T
<1>5. k - 1 \in T
  BY <1>1
<1> QED BY <1>4, <1>5 DEF Surjection

(* A finite set in some order, given by what comes before each member: how *)
(* much that is gives each member a place of its own, and no place is left *)
(* out.                                                                    *)
Ordering(S, under) ==
  /\ under \in [S -> SUBSET S]
  /\ \A i \in S : i \notin under[i]
  /\ \A i, m \in S : i \in under[m] => under[i] \subseteq under[m]
  /\ \A i, m \in S : i = m \/ i \in under[m] \/ m \in under[i]

LEMMA Places ==
  ASSUME NEW S, IsFiniteSet(S), NEW under, Ordering(S, under)
  PROVE  /\ \A i, m \in S : Cardinality(under[i]) = Cardinality(under[m]) => i = m
         /\ \A i, m \in S : Cardinality(under[i]) < Cardinality(under[m]) => i \in under[m]
         /\ \A i \in S : Cardinality(under[i]) + 1 \in 1 .. Cardinality(S)
         /\ \A k \in 1 .. Cardinality(S) : \E i \in S : Cardinality(under[i]) = k - 1
<1> DEFINE n == Cardinality(S)
           place == [i \in S |-> Cardinality(under[i])]
<1>1. n \in Nat
  BY FS_CardinalityType
<1>2. ASSUME NEW i \in S, NEW T, T \subseteq S, under[i] \subseteq T, i \in T
      PROVE  place[i] \in Nat /\ Cardinality(T) \in Nat /\ place[i] < Cardinality(T)
  <2>1. IsFiniteSet(T) /\ IsFiniteSet(under[i])
    BY <1>2, FS_Subset
  <2>2. /\ IsFiniteSet(under[i] \cup {i})
        /\ Cardinality(under[i] \cup {i}) = Cardinality(under[i]) + 1
    BY <2>1, FS_AddElement DEF Ordering
  <2>3. under[i] \cup {i} \in SUBSET T
    BY <1>2
  <2>4. Cardinality(under[i] \cup {i}) <= Cardinality(T)
    BY <2>1, <2>3, FS_Subset
  <2> QED BY <2>1, <2>2, <2>4, FS_CardinalityType
<1>3. \A i \in S : place[i] \in 0 .. n - 1
  <2> SUFFICES ASSUME NEW i \in S PROVE place[i] \in 0 .. n - 1
    OBVIOUS
  <2>1. under[i] \subseteq S
    BY DEF Ordering
  <2>2. place[i] \in Nat /\ place[i] < n
    BY <1>2, <2>1
  <2> QED BY <1>1, <2>2
<1>4. \A i, m \in S : i \in under[m] => place[i] < place[m]
  BY <1>2 DEF Ordering
<1>. HIDE DEF place, n
<1>5. \A i, m \in S : (place[i] = place[m] => i = m) /\ (place[i] < place[m] => i \in under[m])
  <2> SUFFICES ASSUME NEW i \in S, NEW m \in S
               PROVE  (place[i] = place[m] => i = m) /\ (place[i] < place[m] => i \in under[m])
    OBVIOUS
  <2>1. place[i] \in 0 .. n - 1 /\ place[m] \in 0 .. n - 1
    BY <1>3
  <2>2. i = m \/ i \in under[m] \/ m \in under[i]
    BY DEF Ordering
  <2>3. (i \in under[m] => place[i] < place[m]) /\ (m \in under[i] => place[m] < place[i])
    BY <1>4
  <2> QED BY <1>1, <2>1, <2>2, <2>3
<1>6. place \in [S -> 0 .. n - 1] /\ IsInjective(place)
  <2>1. place \in [S -> 0 .. n - 1]
    BY <1>3 DEF place
  <2> QED BY <2>1, <1>5 DEF IsInjective
<1>7. \A k \in 1 .. n : \E i \in S : place[i] = k - 1
  BY <1>6, Enumerated DEF n
<1>8. \A i \in S : place[i] = Cardinality(under[i]) /\ place[i] + 1 \in 1 .. n
  <2>1. \A i \in S : place[i] = Cardinality(under[i])
    BY DEF place
  <2> QED BY <1>1, <1>3, <2>1
<1> QED BY <1>5, <1>7, <1>8 DEF n

Below(S, i) == {j \in S : j < i}

(* The members of a set in order: each once.                               *)
LEMMA AscendingIs ==
  ASSUME NEW S, S \subseteq Nat, IsFiniteSet(S)
  PROVE  /\ Cardinality(S) \in Nat
         /\ Ascending(S) \in [1 .. Cardinality(S) -> S]
         /\ \A j, k \in 1 .. Cardinality(S) : j < k => Ascending(S)[j] < Ascending(S)[k]
         /\ \A i \in S : \E k \in 1 .. Cardinality(S) : Ascending(S)[k] = i
         /\ \A i \in S, k \in 1 .. Cardinality(S) :
               Cardinality(Below(S, i)) = k - 1 => Ascending(S)[k] = i
<1> DEFINE n == Cardinality(S)
           under == [i \in S |-> {j \in S : j < i}]
           at(k) == CHOOSE i \in S : Cardinality({j \in S : j < i}) = k - 1
<1>1. n \in Nat
  BY FS_CardinalityType
<1>2. Ordering(S, under)
  <2>1. \A i, m \in S : i = m \/ i < m \/ m < i
    OBVIOUS
  <2>2. \A i, m, j \in S : j < i /\ i < m => j < m
    OBVIOUS
  <2>3. \A i \in S : ~(i < i)
    OBVIOUS
  <2> QED BY <2>1, <2>2, <2>3 DEF Ordering
<1>3. Ascending(S) = [k \in 1 .. n |-> at(k)]
  BY DEF Ascending, n
<1>4. \A k \in 1 .. n : at(k) \in S /\ Cardinality(under[at(k)]) = k - 1
  <2> SUFFICES ASSUME NEW k \in 1 .. n
               PROVE  at(k) \in S /\ Cardinality(under[at(k)]) = k - 1
    OBVIOUS
  <2>1. \E i \in S : Cardinality(under[i]) = k - 1
    <3> HIDE DEF under
    <3>1. \A h \in 1 .. Cardinality(S) : \E i \in S : Cardinality(under[i]) = h - 1
      BY <1>2, Places
    <3> QED BY <3>1
  <2>2. at(k) \in S /\ Cardinality({j \in S : j < at(k)}) = k - 1
    BY <2>1
  <2> HIDE DEF at
  <2> QED BY <2>2
<1>5. \A i, j \in S : i \in under[j] <=> i < j
  OBVIOUS
<1>9. \A i \in S : under[i] = Below(S, i)
  BY DEF Below
<1>. HIDE DEF n, under, at
<1>6. \A j, k \in 1 .. n : j < k => at(j) < at(k)
  <2> SUFFICES ASSUME NEW j \in 1 .. n, NEW k \in 1 .. n, j < k PROVE at(j) < at(k)
    OBVIOUS
  <2>1. /\ at(j) \in S /\ Cardinality(under[at(j)]) = j - 1
        /\ at(k) \in S /\ Cardinality(under[at(k)]) = k - 1
    BY <1>4
  <2>2. Cardinality(under[at(j)]) < Cardinality(under[at(k)])
    BY <1>1, <2>1
  <2>3. at(j) \in under[at(k)]
    BY <1>2, <2>1, <2>2, Places
  <2> QED BY <1>5, <2>1, <2>3
<1>7. \A i \in S, k \in 1 .. n : Cardinality(under[i]) = k - 1 => at(k) = i
  <2> SUFFICES ASSUME NEW i \in S, NEW k \in 1 .. n, Cardinality(under[i]) = k - 1
               PROVE  at(k) = i
    OBVIOUS
  <2>1. at(k) \in S /\ Cardinality(under[at(k)]) = Cardinality(under[i])
    BY <1>4
  <2> QED BY <1>2, <2>1, Places
<1>8. \A i \in S : \E k \in 1 .. n : at(k) = i
  <2> SUFFICES ASSUME NEW i \in S PROVE \E k \in 1 .. n : at(k) = i
    OBVIOUS
  <2> DEFINE k == Cardinality(under[i]) + 1
  <2>1. k \in 1 .. n
    BY <1>2, Places DEF n
  <2>2. Cardinality(under[i]) = k - 1
    <3>1. Cardinality(under[i]) \in Int
      <4>1. IsFiniteSet(under[i])
        BY <1>2, FS_Subset DEF Ordering
      <4> QED BY <4>1, FS_CardinalityType
    <3> QED BY <3>1
  <2> HIDE DEF k
  <2> QED BY <1>7, <2>1, <2>2
<1> QED
  BY <1>1, <1>3, <1>4, <1>6, <1>7, <1>8, <1>9 DEF n

(* And in the reverse order.                                               *)
LEMMA DescendingIs ==
  ASSUME NEW S, S \subseteq Nat, IsFiniteSet(S)
  PROVE  /\ Cardinality(S) \in Nat
         /\ Descending(S) \in [1 .. Cardinality(S) -> S]
         /\ \A j, k \in 1 .. Cardinality(S) : j < k => Descending(S)[j] > Descending(S)[k]
<1> DEFINE n == Cardinality(S)
           under == [i \in S |-> {j \in S : j > i}]
           at(k) == CHOOSE i \in S : Cardinality({j \in S : j > i}) = k - 1
<1>1. n \in Nat
  BY FS_CardinalityType
<1>2. Ordering(S, under)
  <2>1. \A i, m \in S : i = m \/ i > m \/ m > i
    OBVIOUS
  <2>2. \A i, m, j \in S : j > i /\ i > m => j > m
    OBVIOUS
  <2>3. \A i \in S : ~(i > i)
    OBVIOUS
  <2> QED BY <2>1, <2>2, <2>3 DEF Ordering
<1>3. Descending(S) = [k \in 1 .. n |-> at(k)]
  BY DEF Descending, n
<1>4. \A k \in 1 .. n : at(k) \in S /\ Cardinality(under[at(k)]) = k - 1
  <2> SUFFICES ASSUME NEW k \in 1 .. n
               PROVE  at(k) \in S /\ Cardinality(under[at(k)]) = k - 1
    OBVIOUS
  <2>1. \E i \in S : Cardinality(under[i]) = k - 1
    <3> HIDE DEF under
    <3>1. \A h \in 1 .. Cardinality(S) : \E i \in S : Cardinality(under[i]) = h - 1
      BY <1>2, Places
    <3> QED BY <3>1
  <2>2. at(k) \in S /\ Cardinality({j \in S : j > at(k)}) = k - 1
    BY <2>1
  <2> HIDE DEF at
  <2> QED BY <2>2
<1>5. \A i, j \in S : i \in under[j] <=> i > j
  OBVIOUS
<1>. HIDE DEF n, under, at
<1>6. \A j, k \in 1 .. n : j < k => at(j) > at(k)
  <2> SUFFICES ASSUME NEW j \in 1 .. n, NEW k \in 1 .. n, j < k PROVE at(j) > at(k)
    OBVIOUS
  <2>1. /\ at(j) \in S /\ Cardinality(under[at(j)]) = j - 1
        /\ at(k) \in S /\ Cardinality(under[at(k)]) = k - 1
    BY <1>4
  <2>2. Cardinality(under[at(j)]) < Cardinality(under[at(k)])
    BY <1>1, <2>1
  <2>3. at(j) \in under[at(k)]
    BY <1>2, <2>1, <2>2, Places
  <2> QED BY <1>5, <2>1, <2>3
<1> QED BY <1>1, <1>3, <1>4, <1>6 DEF n

(* A sequence that ascends through a set is its members in order.          *)
LEMMA AscendingOnly ==
  ASSUME NEW n \in Nat, NEW s \in [1 .. n -> Nat],
         \A j, k \in 1 .. n : j < k => s[j] < s[k]
  PROVE  LET S == {s[k] : k \in 1 .. n}
         IN  IsFiniteSet(S) /\ Cardinality(S) = n /\ Ascending(S) = s
<1> DEFINE S == {s[k] : k \in 1 .. n}
           Img(m) == {s[k] : k \in 1 .. m}
<1>1. \A j, k \in 1 .. n : s[j] = s[k] => j = k
  <2> SUFFICES ASSUME NEW j \in 1 .. n, NEW k \in 1 .. n, s[j] = s[k] PROVE j = k
    OBVIOUS
  <2>1. s[j] \in Nat /\ ~(s[j] < s[k]) /\ ~(s[k] < s[j])
    OBVIOUS
  <2> QED BY <2>1
<1>2. \A m \in 0 .. n : IsFiniteSet(Img(m)) /\ Cardinality(Img(m)) = m
  <2> SUFFICES ASSUME NEW m \in 0 .. n
               PROVE  IsFiniteSet(Img(m)) /\ Cardinality(Img(m)) = m
    OBVIOUS
  <2> DEFINE T == {s[k] : k \in 1 .. m}
             f == [k \in 1 .. m |-> s[k]]
  <2>1. IsFiniteSet(1 .. m) /\ Cardinality(1 .. m) = m
    BY FS_Interval
  <2>2. f \in Bijection(1 .. m, T)
    BY <1>1 DEF Bijection, Injection, Surjection, IsInjective
  <2>3. ExistsBijection(1 .. m, T)
    BY <2>2 DEF ExistsBijection
  <2> HIDE DEF T
  <2>4. IsFiniteSet(T) /\ Cardinality(T) = m
    BY <2>1, <2>3, FS_Bijection
  <2> QED BY <2>4 DEF T
<1>3. IsFiniteSet(S) /\ Cardinality(S) = n /\ S \subseteq Nat
  <2>1. S \subseteq Nat /\ S = Img(n)
    OBVIOUS
  <2> HIDE DEF S, Img
  <2> QED BY <1>2, <2>1
<1>4. \A k \in 1 .. n : s[k] \in S /\ Cardinality(Below(S, s[k])) = k - 1
  <2> SUFFICES ASSUME NEW k \in 1 .. n
               PROVE  Cardinality(Below(S, s[k])) = k - 1
    OBVIOUS
  <2>1. Below(S, s[k]) = {s[j] : j \in 1 .. k - 1}
    <3>1. \A j \in 1 .. n : s[j] < s[k] <=> j < k
      <4> SUFFICES ASSUME NEW j \in 1 .. n PROVE s[j] < s[k] <=> j < k
        OBVIOUS
      <4>1. (j < k => s[j] < s[k]) /\ (k < j => s[k] < s[j]) /\ s[j] \in Nat /\ s[k] \in Nat
        OBVIOUS
      <4> QED BY <4>1
    <3>2. \A j : j \in 1 .. k - 1 <=> j \in 1 .. n /\ j < k
      OBVIOUS
    <3> QED BY <3>1, <3>2 DEF Below
  <2>2. Below(S, s[k]) = Img(k - 1) /\ k - 1 \in 0 .. n
    BY <2>1
  <2> HIDE DEF S, Img
  <2> QED BY <1>2, <2>2
<1>5. S \subseteq Nat /\ \A k \in 1 .. n : s[k] \in S
  BY <1>3
<1>. HIDE DEF S
<1>6. Ascending(S) \in [1 .. n -> S] /\ \A k \in 1 .. n : Ascending(S)[k] = s[k]
  <2>1. /\ Ascending(S) \in [1 .. Cardinality(S) -> S]
        /\ \A i \in S, k \in 1 .. Cardinality(S) :
              Cardinality(Below(S, i)) = k - 1 => Ascending(S)[k] = i
    BY <1>3, <1>5, AscendingIs
  <2> QED BY <1>3, <1>4, <1>5, <2>1
<1>7. Ascending(S) = s
  BY <1>6
<1> QED BY <1>3, <1>7 DEF S

(* A set as a sequence: each member once.                                  *)
LEMMA SetToSeqIs ==
  ASSUME NEW S, IsFiniteSet(S)
  PROVE  /\ Cardinality(S) \in Nat
         /\ SetToSeq(S) \in [1 .. Cardinality(S) -> S]
         /\ \A j, k \in 1 .. Cardinality(S) : SetToSeq(S)[j] = SetToSeq(S)[k] => j = k
         /\ \A x \in S : \E k \in 1 .. Cardinality(S) : SetToSeq(S)[k] = x
<1> DEFINE n == Cardinality(S)
<1>1. n \in Nat /\ ExistsBijection(1 .. n, S)
  BY FS_CardinalityType
<1>2. PICK f \in Bijection(1 .. n, S) : TRUE
  BY <1>1 DEF ExistsBijection
<1>3. f \in [1 .. n -> S] /\ IsInjective(f)
  BY <1>2 DEF Bijection, Injection
<1>4. SetToSeq(S) \in [1 .. n -> S] /\ IsInjective(SetToSeq(S))
  BY <1>3 DEF SetToSeq
<1>5. SetToSeq(S) \in Surjection(1 .. n, S)
  <2>1. SetToSeq(S) \in Injection(1 .. n, S)
    BY <1>4 DEF Injection
  <2>2. Cardinality(1 .. n) = Cardinality(S)
    BY <1>1, FS_Interval
  <2> HIDE DEF n
  <2> QED BY <2>1, <2>2, FS_Injection
<1>. HIDE DEF n
<1>6. \A j, k \in 1 .. n : SetToSeq(S)[j] = SetToSeq(S)[k] => j = k
  BY <1>4 DEF IsInjective
<1>7. \A x \in S : \E k \in 1 .. n : SetToSeq(S)[k] = x
  BY <1>5 DEF Surjection
<1> QED BY <1>1, <1>4, <1>6, <1>7 DEF n

(* A sequence by its length.                                               *)
LEMMA SequenceIs ==
  ASSUME NEW s, IsSequence(s)
  PROVE  /\ Len(s) \in Nat /\ DOMAIN s = 1 .. Len(s)
         /\ s \in [1 .. Len(s) -> Range(s)]
         /\ \A x : x \in Range(s) <=> \E k \in 1 .. Len(s) : s[k] = x
BY DEF IsSequence, Range

(* A ladder over a class of n parameters: each rung omits one parameter    *)
(* more than the one before it, further to the left.                       *)
Step(l, k, x) ==
  /\ x \in l[k]
  /\ IF k = 1 THEN l[k] = {x}
     ELSE l[k] = l[k - 1] \cup {x} /\ \A y \in l[k - 1] : x < y
Climbs(l) == \A k \in DOMAIN l : \E x \in l[k] : Step(l, k, x)
Steps(l, S) ==
  /\ Len(l) \in Nat /\ DOMAIN l = 1 .. Len(l) /\ l \in Seq(SUBSET S)
  /\ \A k \in DOMAIN l : IsFiniteSet(l[k]) /\ Cardinality(l[k]) = k /\ l[k] # {}
  /\ Climbs(l)

(* The sets of the first k of some numbers, in descending order, are the   *)
(* rungs of a ladder.                                                      *)
LEMMA CumulativeIs ==
  ASSUME NEW S, S \subseteq Nat, IsFiniteSet(S)
  PROVE  Steps(Cumulative(Descending(S)), S)
<1> DEFINE order == Descending(S)
           n == Cardinality(S)
           upto(k) == {order[j] : j \in 1 .. k}
           l == Cumulative(order)
<1>1. /\ n \in Nat /\ order \in [1 .. n -> S]
      /\ \A j, k \in 1 .. n : j < k => order[j] > order[k]
  BY DescendingIs
<1>. HIDE DEF n, order
<1>2. l = [k \in 1 .. n |-> upto(k)]
  BY <1>1 DEF Cumulative
<1>3. Len(l) = n /\ DOMAIN l = 1 .. n /\ l \in Seq(SUBSET S) /\ \A k \in 1 .. n : l[k] = upto(k)
  <2>1. \A k \in 1 .. n : upto(k) \in SUBSET S
    BY <1>1
  <2> HIDE DEF l, upto
  <2>2. l \in [1 .. n -> SUBSET S]
    BY <1>2, <2>1
  <2> QED BY <1>1, <1>2, <2>2
<1>4. \A j, k \in 1 .. n : order[j] = order[k] => j = k
  <2> SUFFICES ASSUME NEW j \in 1 .. n, NEW k \in 1 .. n, order[j] = order[k] PROVE j = k
    OBVIOUS
  <2>1. (j < k => order[j] > order[k]) /\ (k < j => order[k] > order[j]) /\ order[j] \in Nat
    BY <1>1
  <2> QED BY <1>1, <2>1
<1>5. \A k \in 1 .. n : IsFiniteSet(upto(k)) /\ Cardinality(upto(k)) = k /\ upto(k) # {}
  <2> SUFFICES ASSUME NEW k \in 1 .. n
               PROVE  IsFiniteSet(upto(k)) /\ Cardinality(upto(k)) = k /\ upto(k) # {}
    OBVIOUS
  <2> DEFINE f == [j \in 1 .. k |-> order[j]]
  <2>1. IsFiniteSet(1 .. k) /\ Cardinality(1 .. k) = k
    BY <1>1, FS_Interval
  <2>2. f \in Bijection(1 .. k, upto(k))
    BY <1>1, <1>4 DEF Bijection, Injection, Surjection, IsInjective
  <2>3. ExistsBijection(1 .. k, upto(k))
    BY <2>2 DEF ExistsBijection
  <2>4. order[1] \in upto(k)
    BY <1>1
  <2> HIDE DEF upto
  <2>5. IsFiniteSet(upto(k)) /\ Cardinality(upto(k)) = k
    BY <2>1, <2>3, FS_Bijection
  <2> QED BY <2>4, <2>5
<1>6. \A k \in 1 .. n : \E x \in l[k] : Step(l, k, x)
  <2> SUFFICES ASSUME NEW k \in 1 .. n PROVE order[k] \in l[k] /\ Step(l, k, order[k])
    OBVIOUS
  <2>1. l[k] = upto(k) /\ order[k] \in upto(k)
    BY <1>1, <1>3
  <2>2. CASE k = 1
    <3>1. upto(k) = {order[k]}
      BY <2>2
    <3> QED BY <2>1, <2>2, <3>1 DEF Step
  <2>3. CASE k # 1
    <3>1. k - 1 \in 1 .. n /\ l[k - 1] = upto(k - 1)
      BY <1>1, <1>3, <2>3
    <3>2. upto(k) = upto(k - 1) \cup {order[k]}
      <4>1. 1 .. k = (1 .. k - 1) \cup {k}
        BY <1>1
      <4> QED BY <4>1
    <3>3. \A y \in upto(k - 1) : order[k] < y
      <4> SUFFICES ASSUME NEW j \in 1 .. k - 1 PROVE order[k] < order[j]
        OBVIOUS
      <4>1. j \in 1 .. n /\ j < k
        BY <1>1
      <4>2. order[j] > order[k] /\ order[j] \in S /\ order[k] \in S
        BY <1>1, <4>1
      <4> QED BY <4>2
    <3> HIDE DEF l, upto
    <3> QED BY <2>1, <2>3, <3>1, <3>2, <3>3 DEF Step
  <2> QED BY <2>2, <2>3
<1>. HIDE DEF l, upto
<1>7. Steps(l, S)
  BY <1>1, <1>3, <1>5, <1>6 DEF Steps, Climbs
<1> QED BY <1>7 DEF l, order

(* A function on the first n numbers is a sequence.                        *)
LEMMA SequenceBy ==
  ASSUME NEW n \in Nat, NEW s, DOMAIN s = 1 .. n, s = [k \in 1 .. n |-> s[k]]
  PROVE  IsSequence(s) /\ Len(s) = n
<1>1. s \in [1 .. n -> Range(s)]
  BY DEF Range
<1> QED BY <1>1 DEF IsSequence

Joined(u, s, t) ==
  /\ IsSequence(u)
  /\ Len(u) = Len(s) + Len(t)
  /\ \A k \in 1 .. Len(s) : u[k] = s[k]
  /\ \A k \in 1 .. Len(t) : u[Len(s) + k] = t[k]

(* Two sequences one after the other.                                      *)
LEMMA Joins ==
  ASSUME NEW s, IsSequence(s), NEW t, IsSequence(t)
  PROVE  Joined(s \o t, s, t)
<1> DEFINE X == Range(s) \cup Range(t)
           u == s \o t
<1>1. s \in Seq(X) /\ t \in Seq(X) /\ Len(s) \in Nat /\ Len(t) \in Nat
  BY DEF IsSequence
<1>. HIDE DEF X
<1>2. /\ u \in Seq(X) /\ Len(u) = Len(s) + Len(t)
      /\ \A k \in 1 .. Len(s) : u[k] = s[k]
      /\ \A k \in 1 .. Len(t) : u[Len(s) + k] = t[k]
  BY <1>1
<1>. HIDE DEF u
<1>3. DOMAIN u = 1 .. Len(u) /\ Len(u) \in Nat /\ u = [k \in 1 .. Len(u) |-> u[k]]
  BY <1>2
<1>4. IsSequence(u)
  BY <1>3, SequenceBy
<1>5. Joined(u, s, t)
  BY <1>2, <1>4 DEF Joined
<1> QED BY <1>5 DEF u

-----------------------------------------------------------------------------
(* The plan of a class. *)

Defaulted(d) == {i \in Positions(d) : HasDefault(d, i)}

(* The parameters of a class by their number.                              *)
LEMMA ClassIs ==
  ASSUME NEW d, KotlinClass(d)
  PROVE  /\ Len(d.params) \in Nat /\ Positions(d) = 1 .. Len(d.params)
         /\ IsFiniteSet(Positions(d)) /\ Cardinality(Positions(d)) = Len(d.params)
         /\ Positions(d) \subseteq Nat
         /\ Defaulted(d) \subseteq Positions(d)
         /\ \A S \in SUBSET Positions(d) : IsFiniteSet(S) /\ S \subseteq Nat
<1>1. Len(d.params) \in Nat /\ Positions(d) = 1 .. Len(d.params)
  BY SequenceIs DEF KotlinClass, Positions
<1>2. IsFiniteSet(Positions(d)) /\ Cardinality(Positions(d)) = Len(d.params)
  BY <1>1, FS_Interval
<1>3. Positions(d) \subseteq Nat
  BY <1>1
<1>4. \A S \in SUBSET Positions(d) : IsFiniteSet(S) /\ S \subseteq Nat
  BY <1>2, <1>3, FS_Subset
<1> QED BY <1>1, <1>2, <1>3, <1>4 DEF Defaulted

(* A ladder over some positions is one over more.                          *)
LEMMA StepsWithin ==
  ASSUME NEW l, NEW S, NEW T, S \subseteq T, Steps(l, S)
  PROVE  Steps(l, T)
<1>1. l \in Seq(SUBSET T)
  BY DEF Steps
<1> QED BY <1>1 DEF Steps

(* The ladder of a class omits defaults only.                              *)
LEMMA LadderIs ==
  ASSUME NEW d, KotlinClass(d)
  PROVE  Steps(Ladder(d), Defaulted(d))
<1> DEFINE S == {i \in Positions(d) : \A j \in i .. Len(d.params) : HasDefault(d, j)}
           D == {i \in Positions(d) : HasDefault(d, i)}
<1>1. S \subseteq D /\ D = Defaulted(d)
  <2>1. \A i \in Positions(d) : i \in i .. Len(d.params)
    BY ClassIs
  <2> QED BY <2>1 DEF Defaulted
<1>2. S \subseteq Nat /\ IsFiniteSet(S) /\ D \subseteq Nat /\ IsFiniteSet(D)
  <2>1. S \in SUBSET Positions(d) /\ D \in SUBSET Positions(d)
    OBVIOUS
  <2> HIDE DEF S, D
  <2> QED BY <2>1, ClassIs
<1>3. TrailingPatterns(d) = Cumulative(Descending(S)) /\ JvmOverloadPatterns(d) = Cumulative(Descending(D))
  BY DEF TrailingPatterns, JvmOverloadPatterns
<1>. HIDE DEF S, D
<1>4. Steps(TrailingPatterns(d), D) /\ Steps(JvmOverloadPatterns(d), D)
  BY <1>1, <1>2, <1>3, CumulativeIs, StepsWithin
<1>5. Steps(<< >>, D)
  BY DEF Steps, Climbs
<1> QED BY <1>1, <1>4, <1>5 DEF Ladder

(* So do the patterns its callers use.                                     *)
LEMMA NeededIs ==
  ASSUME NEW d, KotlinClass(d)
  PROVE  IsFiniteSet(Needed(d)) /\ \A p \in Needed(d) : p \subseteq Defaulted(d) /\ p # {}
<1>1. \A p \in Patterns(d) : p \subseteq Defaulted(d) /\ p # {}
  BY DEF Patterns, NotThePrimary, Omitted, Defaulted
<1>2. Needed(d) \subseteq Patterns(d)
  BY DEF Needed
<1>3. Needed(d) \subseteq SUBSET Defaulted(d)
  BY <1>1, <1>2
<1>4. IsFiniteSet(SUBSET Defaulted(d))
  BY ClassIs, FS_Subset, FS_SUBSET
<1> QED BY <1>1, <1>2, <1>3, <1>4, FS_Subset

(* What is planned for a class that moves.                                 *)
Shape(d, ladder, o) ==
  /\ Steps(ladder, Defaulted(d))
  /\ IsSequence(o) /\ Len(o) \in Nat /\ DOMAIN o = 1 .. Len(o)
  /\ \A k \in DOMAIN o : o[k] \subseteq Defaulted(d) /\ o[k] # {}
  /\ \A j, k \in DOMAIN o : o[j] = o[k] => j = k
  /\ Len(ladder) <= Len(o)
  /\ \A k \in DOMAIN ladder : o[k] = ladder[k]
  /\ \A k \in DOMAIN o : k > Len(ladder) => o[k] \in Needed(d)
  /\ Needed(d) = {} => Len(o) = Len(ladder)
  /\ Range(ladder) = Range(Ladder(d))

(* A class that moves is not blocked.                                      *)
LEMMA Unblocked ==
  ASSUME NEW d, KotlinClass(d), ~Retained(d)
  PROVE  ~Blocked(d)
<1>1. CASE HasDefaults(d)
  BY <1>1 DEF Retained
<1>2. CASE ~HasDefaults(d)
  <2>1. Defaulted(d) = {}
    BY <1>2 DEF HasDefaults, Defaulted
  <2>2. Needed(d) = {}
    BY <2>1, NeededIs
  <2> QED BY <2>2 DEF Blocked
<1> QED BY <1>1, <1>2

(* The plan of a class that moves.                                         *)
LEMMA PlanShape ==
  ASSUME NEW d, KotlinClass(d), ~Retained(d)
  PROVE  Shape(d, Planned(d).ladder, Planned(d).overloads)
<1> DEFINE l == Ladder(d)
           t == SetToSeq(Needed(d))
           o == l \o t
<1>1. Planned(d).ladder = l /\ Planned(d).overloads = o
  BY Unblocked DEF Planned
<1>2. Steps(l, Defaulted(d))
  BY LadderIs
<1>3. /\ Cardinality(Needed(d)) \in Nat
      /\ t \in [1 .. Cardinality(Needed(d)) -> Needed(d)]
      /\ \A j, k \in 1 .. Cardinality(Needed(d)) : t[j] = t[k] => j = k
  BY NeededIs, SetToSeqIs
<1>4. t \in Seq(Needed(d)) /\ Len(t) = Cardinality(Needed(d)) /\ DOMAIN t = 1 .. Len(t)
  BY <1>3
<1>5. l \in Seq(SUBSET Defaulted(d)) /\ Len(l) \in Nat /\ DOMAIN l = 1 .. Len(l)
  BY <1>2 DEF Steps
<1>6. \A j \in DOMAIN l, k \in DOMAIN t : l[j] # t[k]
  <2>1. \A k \in DOMAIN t : t[k] \in Needed(d)
    BY <1>3
  <2>2. Needed(d) \cap Range(l) = {}
    BY DEF Needed
  <2> HIDE DEF l, t
  <2> QED BY <2>1, <2>2 DEF Range
<1>7. \A j, k \in DOMAIN l : l[j] = l[k] => j = k
  BY <1>2 DEF Steps
<1>8. \A k \in DOMAIN l : l[k] \subseteq Defaulted(d) /\ l[k] # {}
  BY <1>2, <1>5 DEF Steps
<1>9. \A k \in DOMAIN t : t[k] \in Needed(d) /\ t[k] \subseteq Defaulted(d) /\ t[k] # {}
  BY <1>3, NeededIs
<1>10. Needed(d) = {} => Len(t) = 0
  BY <1>4, FS_EmptySet
<1>. HIDE DEF l, t
<1>0. IsSequence(o)
  <2>1. IsSequence(l) /\ IsSequence(t)
    BY <1>4, <1>5 DEF IsSequence, Range
  <2> QED BY <2>1, Joins DEF Joined
<1>11. /\ Len(o) = Len(l) + Len(t) /\ DOMAIN o = 1 .. Len(o)
       /\ \A k \in 1 .. Len(o) : o[k] = IF k <= Len(l) THEN l[k] ELSE t[k - Len(l)]
       /\ Len(t) \in Nat
  BY <1>3, <1>4, <1>5
<1>. HIDE DEF o
<1>12. \A k \in 1 .. Len(o) : (k <= Len(l) /\ k \in DOMAIN l /\ o[k] = l[k])
                              \/ (k > Len(l) /\ k - Len(l) \in DOMAIN t /\ o[k] = t[k - Len(l)])
  BY <1>4, <1>5, <1>11
<1>13. \A j, k \in DOMAIN o : o[j] = o[k] => j = k
  <2> SUFFICES ASSUME NEW j \in DOMAIN o, NEW k \in DOMAIN o, o[j] = o[k] PROVE j = k
    OBVIOUS
  <2>0. j \in Nat /\ k \in Nat
    BY <1>11
  <2>1. CASE j <= Len(l) /\ k <= Len(l)
    BY <1>7, <1>12, <1>11, <1>5, <2>0, <2>1
  <2>2. CASE j > Len(l) /\ k > Len(l)
    <3>1. j - Len(l) \in DOMAIN t /\ k - Len(l) \in DOMAIN t /\ t[j - Len(l)] = t[k - Len(l)]
      BY <1>12, <1>11, <1>5, <2>0, <2>2
    <3>2. j - Len(l) = k - Len(l)
      BY <1>3, <1>4, <3>1
    <3> QED BY <3>2, <2>0, <1>5
  <2>3. CASE j <= Len(l) /\ k > Len(l)
    BY <1>6, <1>12, <1>11, <1>5, <2>0, <2>3
  <2>4. CASE k <= Len(l) /\ j > Len(l)
    BY <1>6, <1>12, <1>11, <1>5, <2>0, <2>4
  <2> QED BY <2>0, <2>1, <2>2, <2>3, <2>4, <1>5
<1>14. \A k \in DOMAIN o : o[k] \subseteq Defaulted(d) /\ o[k] # {}
  BY <1>8, <1>9, <1>11, <1>12
<1>15. \A k \in DOMAIN l : k \in 1 .. Len(o) /\ o[k] = l[k]
  BY <1>5, <1>11
<1>16. \A k \in DOMAIN o : k > Len(l) => o[k] \in Needed(d)
  BY <1>9, <1>11, <1>12, <1>5
<1>17. Len(l) <= Len(o) /\ Len(o) \in Nat /\ (Needed(d) = {} => Len(o) = Len(l))
  <2>1. Len(l) \in Nat /\ Len(t) \in Nat /\ Len(o) = Len(l) + Len(t)
    BY <1>5, <1>11
  <2> QED BY <1>10, <2>1
<1>18. Shape(d, l, o)
  BY <1>0, <1>2, <1>11, <1>13, <1>14, <1>15, <1>16, <1>17 DEF Shape, l
<1> QED BY <1>1, <1>18

(* Constructors of fewer parameters than the primary.                      *)
Kept(d, p) == Positions(d) \ p

(* The types of some parameters, in order.                                 *)
LEMMA TypesIs ==
  ASSUME NEW d, KotlinClass(d), NEW S, S \subseteq Positions(d)
  PROVE  /\ IsFiniteSet(S) /\ Cardinality(S) \in Nat
         /\ Ascending(S) \in [1 .. Cardinality(S) -> S]
         /\ Types(d, S) \in Seq(Range(Types(d, S)))
         /\ Len(Types(d, S)) = Cardinality(S) /\ DOMAIN Types(d, S) = 1 .. Cardinality(S)
         /\ \A k \in 1 .. Cardinality(S) : Types(d, S)[k] = d.params[Ascending(S)[k]].type
<1>1. IsFiniteSet(S) /\ S \subseteq Nat
  BY ClassIs
<1>2. Cardinality(S) \in Nat /\ Ascending(S) \in [1 .. Cardinality(S) -> S]
  BY <1>1, AscendingIs
<1>3. Types(d, S) = [k \in 1 .. Cardinality(S) |-> d.params[Ascending(S)[k]].type]
  BY DEF Types
<1> DEFINE t == Types(d, S)
<1>4. DOMAIN t = 1 .. Cardinality(S) /\ \A k \in 1 .. Cardinality(S) : t[k] \in Range(t)
  BY <1>3 DEF Range
<1>5. t \in [1 .. Cardinality(S) -> Range(t)]
  BY <1>3, <1>4
<1>. HIDE DEF t
<1>6. t \in Seq(Range(t)) /\ Len(t) = Cardinality(S)
  BY <1>2, <1>5
<1> QED BY <1>1, <1>2, <1>3, <1>4, <1>6 DEF t

(* Erasure keeps the number of parameters.                                 *)
LEMMA ErasedIs ==
  ASSUME NEW s, NEW n \in Nat, DOMAIN s = 1 .. n
  PROVE  Len(ErasedTypes(s)) = n /\ DOMAIN ErasedTypes(s) = 1 .. n
BY DEF ErasedTypes

(* An overload keeps the parameters its pattern does not omit.             *)
LEMMA KeptIs ==
  ASSUME NEW d, KotlinClass(d), NEW p, p \subseteq Positions(d)
  PROVE  /\ Kept(d, p) \subseteq Positions(d)
         /\ Cardinality(p) \in Nat
         /\ Cardinality(Kept(d, p)) = Len(d.params) - Cardinality(p)
         /\ p # {} => Cardinality(p) > 0 /\ Cardinality(Kept(d, p)) < Len(d.params)
         /\ Cardinality(Kept(d, p)) = 0 => p = Positions(d)
<1>1. IsFiniteSet(Positions(d)) /\ Cardinality(Positions(d)) = Len(d.params) /\ IsFiniteSet(p)
      /\ Len(d.params) \in Nat
  BY ClassIs
<1>2. Positions(d) \cap p = p
  OBVIOUS
<1>3. Cardinality(Kept(d, p)) = Len(d.params) - Cardinality(p) /\ IsFiniteSet(Kept(d, p))
  BY <1>1, <1>2, FS_Difference DEF Kept
<1>4. Cardinality(p) \in Nat /\ (p # {} => Cardinality(p) # 0)
  BY <1>1, FS_CardinalityType, FS_EmptySet
<1>5. Cardinality(Kept(d, p)) = 0 => Kept(d, p) = {}
  BY <1>3, FS_EmptySet
<1>6. Kept(d, p) = {} => p = Positions(d)
  BY DEF Kept
<1> QED BY <1>1, <1>3, <1>4, <1>5, <1>6 DEF Kept

(* The constructors of a class, in the order they are written.             *)
Lists(e, d, o) ==
  LET n == Len(o)
      extra == Len(NoArgument(d))
  IN /\ Len(e) = 1 + n + extra + Len(d.secondaries) /\ DOMAIN e = 1 .. Len(e)
     /\ e[1] = Primary(d)
     /\ \A k \in 1 .. n : e[1 + k] = Overload(d, o[k])
     /\ \A k \in 1 .. extra : e[1 + n + k] = NoArgument(d)[k]
     /\ \A k \in 1 .. Len(d.secondaries) : e[1 + n + extra + k] = Secondary(d.secondaries[k])

(* At most one constructor without parameters is written for persistence.  *)
LEMMA NoArgumentIs ==
  ASSUME NEW d
  PROVE  /\ IsSequence(NoArgument(d))
         /\ \/ NoArgument(d) = << >> /\ Len(NoArgument(d)) = 0
            \/ NoArgument(d) # << >> /\ Len(NoArgument(d)) = 1
<1>1. IsSequence(<< >>) /\ Len(<< >>) = 0 /\ \A x : IsSequence(<<x>>) /\ Len(<<x>>) = 1 /\ <<x>> # << >>
  BY DEF IsSequence, Range
<1>2. NoArgument(d) = << >> \/ \E x : NoArgument(d) = <<x>>
  BY DEF NoArgument
<1> QED BY <1>1, <1>2

(* The constructors of a class, in order.                                  *)
LEMMA EmittedIs ==
  ASSUME NEW d, KotlinClass(d), IsSequence(plan.overloads)
  PROVE  Lists(Emitted(d), d, plan.overloads)
<1> DEFINE o == plan.overloads
           a == <<Primary(d)>>
           b == [k \in DOMAIN o |-> Overload(d, o[k])]
           c == NoArgument(d)
           s == [k \in DOMAIN d.secondaries |-> Secondary(d.secondaries[k])]
<1>1. IsSequence(a) /\ Len(a) = 1 /\ a[1] = Primary(d)
  BY DEF IsSequence, Range
<1>2. IsSequence(b) /\ Len(b) = Len(o) /\ \A k \in 1 .. Len(o) : b[k] = Overload(d, o[k])
  <2>1. Len(o) \in Nat /\ DOMAIN o = 1 .. Len(o)
    BY SequenceIs
  <2> HIDE DEF o
  <2>2. DOMAIN b = 1 .. Len(o) /\ b = [k \in 1 .. Len(o) |-> b[k]]
    BY <2>1
  <2>3. \A k \in 1 .. Len(o) : b[k] = Overload(d, o[k])
    BY <2>1
  <2> HIDE DEF b
  <2> QED BY <2>1, <2>2, <2>3, SequenceBy
<1>3. IsSequence(c) /\ Len(c) \in Nat
  BY NoArgumentIs
<1>4. /\ IsSequence(s) /\ Len(s) = Len(d.secondaries) /\ Len(s) \in Nat
      /\ \A k \in 1 .. Len(d.secondaries) : s[k] = Secondary(d.secondaries[k])
  <2>1. Len(d.secondaries) \in Nat /\ DOMAIN d.secondaries = 1 .. Len(d.secondaries)
    BY SequenceIs DEF KotlinClass
  <2>2. DOMAIN s = 1 .. Len(d.secondaries) /\ s = [k \in 1 .. Len(d.secondaries) |-> s[k]]
    BY <2>1
  <2>3. \A k \in 1 .. Len(d.secondaries) : s[k] = Secondary(d.secondaries[k])
    BY <2>1
  <2> HIDE DEF s
  <2> QED BY <2>1, <2>2, <2>3, SequenceBy
<1>5. Emitted(d) = ((a \o b) \o c) \o s
  BY DEF Emitted
<1>6. Len(o) \in Nat
  BY SequenceIs
<1>. HIDE DEF o, a, b, c, s
<1>7. /\ IsSequence(a \o b) /\ Len(a \o b) = 1 + Len(o) /\ (a \o b)[1] = Primary(d)
      /\ \A k \in 1 .. Len(o) : (a \o b)[1 + k] = Overload(d, o[k])
  <2>1. Joined(a \o b, a, b)
    BY <1>1, <1>2, Joins
  <2> QED BY <1>1, <1>2, <1>6, <2>1 DEF Joined
<1> DEFINE ab == a \o b
<1>. HIDE DEF ab
<1>8. /\ IsSequence(ab \o c) /\ Len(ab \o c) = 1 + Len(o) + Len(c)
      /\ \A k \in 1 .. 1 + Len(o) : (ab \o c)[k] = ab[k]
      /\ \A k \in 1 .. Len(c) : (ab \o c)[1 + Len(o) + k] = c[k]
  <2>1. Joined(ab \o c, ab, c)
    BY <1>3, <1>7, Joins DEF ab
  <2> QED BY <1>7, <2>1 DEF ab, Joined
<1> DEFINE abc == ab \o c
<1>. HIDE DEF abc
<1>9. /\ IsSequence(abc \o s) /\ Len(abc \o s) = 1 + Len(o) + Len(c) + Len(s)
      /\ \A k \in 1 .. 1 + Len(o) + Len(c) : (abc \o s)[k] = abc[k]
      /\ \A k \in 1 .. Len(s) : (abc \o s)[1 + Len(o) + Len(c) + k] = s[k]
  <2>1. Joined(abc \o s, abc, s)
    BY <1>4, <1>8, Joins DEF abc
  <2> QED BY <1>8, <2>1 DEF abc, Joined
<1> DEFINE e == abc \o s
<1>10. e = Emitted(d)
  BY <1>5 DEF ab, abc
<1>. HIDE DEF e
<1>11. DOMAIN e = 1 .. Len(e)
  BY <1>9, SequenceIs DEF e
<1>12. e[1] = Primary(d) /\ \A k \in 1 .. Len(o) : e[1 + k] = Overload(d, o[k])
  <2>1. \A k \in 0 .. Len(o) : e[1 + k] = ab[1 + k]
    BY <1>3, <1>6, <1>8, <1>9 DEF e, abc
  <2>2. \A k \in 1 .. Len(o) : ab[1 + k] = Overload(d, o[k])
    BY <1>7 DEF ab
  <2>3. ab[1] = Primary(d) /\ e[1 + 0] = ab[1 + 0] /\ 1 + 0 = 1
    BY <1>6, <1>7, <2>1 DEF ab
  <2>4. \A k \in 1 .. Len(o) : k \in 0 .. Len(o)
    BY <1>6
  <2> QED BY <2>1, <2>2, <2>3, <2>4
<1>13. \A k \in 1 .. Len(c) : e[1 + Len(o) + k] = c[k]
  BY <1>3, <1>6, <1>8, <1>9 DEF e, abc
<1>14. \A k \in 1 .. Len(s) : e[1 + Len(o) + Len(c) + k] = s[k]
  BY <1>9 DEF e
<1>15. Len(e) = 1 + Len(o) + Len(c) + Len(s)
  BY <1>9 DEF e
<1> QED BY <1>4, <1>10, <1>11, <1>12, <1>13, <1>14, <1>15 DEF Lists, o, c

(* Which constructor stands where.                                         *)
Kind(e, d, o, k) ==
  \/ k = 1 /\ e[k] = Primary(d)
  \/ \E m \in DOMAIN o : k = 1 + m /\ e[k] = Overload(d, o[m])
  \/ NoArgument(d) # << >> /\ k = 2 + Len(o) /\ e[k] = NoArgument(d)[1]
  \/ \E m \in DOMAIN d.secondaries :
        k = 1 + Len(o) + Len(NoArgument(d)) + m /\ e[k] = Secondary(d.secondaries[m])

(* Each is of one of four kinds.                                           *)
LEMMA Kinds ==
  ASSUME NEW e, NEW d, KotlinClass(d), NEW o, Len(o) \in Nat, DOMAIN o = 1 .. Len(o),
         Lists(e, d, o), NEW k \in DOMAIN e
  PROVE  Kind(e, d, o, k)
<1> DEFINE n == Len(o)
           x == Len(NoArgument(d))
           s == Len(d.secondaries)
<1>1. x \in 0 .. 1 /\ (x = 1 => NoArgument(d) # << >>)
  BY NoArgumentIs
<1>2. s \in Nat /\ DOMAIN d.secondaries = 1 .. s
  BY SequenceIs DEF KotlinClass
<1>3. DOMAIN e = 1 .. 1 + n + x + s
  BY DEF Lists
<1>. HIDE DEF n, x, s
<1>4. k = 1 \/ k - 1 \in 1 .. n \/ (k = 2 + n /\ x = 1) \/ k - (1 + n + x) \in 1 .. s
  BY <1>1, <1>2, <1>3 DEF n
<1>5. k \in Int /\ n \in Int
  BY <1>3 DEF n
<1>6. CASE k = 1
  BY <1>6 DEF Lists, Kind
<1>7. CASE k - 1 \in 1 .. n
  <2>1. e[1 + (k - 1)] = Overload(d, o[k - 1])
    BY <1>7 DEF Lists, n
  <2>2. 1 + (k - 1) = k
    BY <1>5
  <2> QED BY <1>7, <2>1, <2>2 DEF n, Kind
<1>8. CASE k = 2 + n /\ x = 1
  <2>1. e[1 + n + 1] = NoArgument(d)[1]
    <3>1. \A h \in 1 .. x : e[1 + n + h] = NoArgument(d)[h]
      BY DEF Lists, n, x
    <3>2. 1 \in 1 .. x
      BY <1>8
    <3> QED BY <1>5, <3>1, <3>2
  <2>2. 1 + n + 1 = k
    BY <1>5, <1>8
  <2> QED BY <1>1, <1>8, <2>1, <2>2 DEF n, Kind
<1>9. CASE k - (1 + n + x) \in 1 .. s
  <2> DEFINE m == k - (1 + n + x)
  <2>1. e[1 + n + x + m] = Secondary(d.secondaries[m])
    BY <1>9 DEF Lists, n, x, s
  <2>2. 1 + n + x + m = k
    BY <1>1, <1>5
  <2>3. m \in DOMAIN d.secondaries
    BY <1>2, <1>9
  <2> HIDE DEF m
  <2> QED BY <2>1, <2>2, <2>3 DEF n, x, Kind
<1> QED BY <1>4, <1>6, <1>7, <1>8, <1>9

(* The erased parameters of each kind.                                     *)
LEMMA TakesIs ==
  ASSUME NEW d, KotlinClass(d)
  PROVE  /\ ErasedTypes(Primary(d).takes) = ErasedTypes(Types(d, Positions(d)))
         /\ Len(ErasedTypes(Types(d, Positions(d)))) = Len(d.params)
         /\ \A p \in SUBSET Positions(d) :
              /\ ErasedTypes(Overload(d, p).takes) = Signature(d, p)
              /\ Len(Signature(d, p)) = Len(d.params) - Cardinality(p)
              /\ DOMAIN Signature(d, p) = 1 .. Len(d.params) - Cardinality(p)
         /\ NoArgument(d) # << >> => NoArgument(d)[1].takes = << >> /\ Len(d.params) > 0
                                     /\ << >> \notin Range(d.secondaries)
<1>1. Primary(d).takes = Types(d, Positions(d))
  BY DEF Primary
<1>2. \A p \in SUBSET Positions(d) : Overload(d, p).takes = Types(d, Kept(d, p))
      /\ Signature(d, p) = ErasedTypes(Types(d, Kept(d, p)))
  BY DEF Overload, Kept, Signature
<1>3. \A S \in SUBSET Positions(d) :
        /\ Len(ErasedTypes(Types(d, S))) = Cardinality(S)
        /\ DOMAIN ErasedTypes(Types(d, S)) = 1 .. Cardinality(S)
  BY TypesIs, ErasedIs
<1>4. Cardinality(Positions(d)) = Len(d.params) /\ Len(d.params) \in Nat
  BY ClassIs
<1>5. \A p \in SUBSET Positions(d) : Kept(d, p) \in SUBSET Positions(d)
         /\ Cardinality(Kept(d, p)) = Len(d.params) - Cardinality(p)
  BY KeptIs
<1>6. NoArgument(d) # << >> => NoArgument(d)[1].takes = << >> /\ d.params # << >> /\ << >> \notin Range(d.secondaries)
  BY DEF NoArgument
<1>7. d.params # << >> => Len(d.params) > 0
  <2>1. IsSequence(d.params)
    BY DEF KotlinClass
  <2> QED BY <2>1, <1>4 DEF IsSequence
<1> QED BY <1>1, <1>2, <1>3, <1>4, <1>5, <1>6, <1>7

(* A class of Kotlin's that moves, as it is planned and written.           *)
Moved(d) ==
  /\ KotlinClass(d) /\ ~Blocked(d)
  /\ Shape(d, plan.ladder, plan.overloads)
  /\ Lists(constructors, d, plan.overloads)

(* The patterns of a class that moves.                                     *)
LEMMA MovedIs ==
  ASSUME NEW d, Moved(d)
  PROVE  /\ \A m \in DOMAIN plan.overloads :
              /\ m \in Nat /\ plan.overloads[m] \subseteq Positions(d) /\ plan.overloads[m] # {}
              /\ Cardinality(plan.overloads[m]) \in 1 .. Len(d.params)
              /\ (m \in DOMAIN plan.ladder /\ plan.overloads[m] = plan.ladder[m]
                  /\ Cardinality(plan.ladder[m]) = m /\ plan.overloads[m] \in Range(Ladder(d))
                  /\ plan.overloads[m] \in Range(plan.ladder))
                 \/ (plan.overloads[m] \in Needed(d) /\ d.secondaries = << >>
                     /\ plan.overloads[m] \notin Range(plan.ladder))
         /\ Len(plan.overloads) \in Nat /\ DOMAIN plan.overloads = 1 .. Len(plan.overloads)
         /\ DOMAIN constructors = 1 .. Len(constructors) /\ Len(constructors) \in Nat
<1> DEFINE o == plan.overloads
           l == plan.ladder
<1>1. /\ Len(o) \in Nat /\ DOMAIN o = 1 .. Len(o) /\ Len(l) \in Nat /\ DOMAIN l = 1 .. Len(l)
      /\ Len(l) <= Len(o)
  BY DEF Moved, Shape, Steps
<1>2. SUFFICES ASSUME NEW m \in DOMAIN o
      PROVE  /\ m \in Nat /\ o[m] \subseteq Positions(d) /\ o[m] # {}
             /\ Cardinality(o[m]) \in 1 .. Len(d.params)
             /\ (m \in DOMAIN l /\ o[m] = l[m] /\ Cardinality(l[m]) = m
                 /\ o[m] \in Range(Ladder(d)) /\ o[m] \in Range(l))
                \/ (o[m] \in Needed(d) /\ d.secondaries = << >> /\ o[m] \notin Range(l))
  <2>1. Len(NoArgument(d)) \in Nat
    BY NoArgumentIs
  <2>2. Len(d.secondaries) \in Nat
    BY SequenceIs DEF Moved, KotlinClass
  <2>3. /\ DOMAIN constructors = 1 .. Len(constructors)
        /\ Len(constructors) = 1 + Len(o) + Len(NoArgument(d)) + Len(d.secondaries)
    BY DEF Moved, Lists
  <2>4. Len(constructors) \in Nat
    <3>1. \A a, b, c \in Nat : 1 + a + b + c \in Nat
      OBVIOUS
    <3> HIDE DEF o
    <3> QED BY <1>1, <2>1, <2>2, <2>3, <3>1, Zenon
  <2> HIDE DEF o, l
  <2> QED BY <1>1, <2>3, <2>4 DEF o, l
<1>3. o[m] \subseteq Positions(d) /\ o[m] # {}
  BY ClassIs DEF Moved, Shape
<1>4. Cardinality(o[m]) \in 1 .. Len(d.params)
  <2>1. o[m] \in SUBSET Positions(d) /\ Cardinality(Positions(d)) = Len(d.params) /\ Len(d.params) \in Nat
        /\ IsFiniteSet(Positions(d)) /\ KotlinClass(d)
    BY <1>3, ClassIs DEF Moved
  <2>2. Cardinality(o[m]) \in Nat /\ Cardinality(o[m]) > 0
    BY <1>3, <2>1, KeptIs
  <2>3. Cardinality(o[m]) <= Len(d.params)
    BY <2>1, FS_Subset
  <2> QED BY <2>1, <2>2, <2>3
<1>5. CASE m \in DOMAIN l
  <2>1. o[m] = l[m] /\ Cardinality(l[m]) = m /\ Range(l) = Range(Ladder(d))
    BY <1>5 DEF Moved, Shape, Steps
  <2>2. l[m] \in Range(l)
    BY <1>5 DEF Range
  <2> QED BY <1>1, <1>3, <1>4, <1>5, <2>1, <2>2
<1>6. CASE m \notin DOMAIN l
  <2>1. m > Len(l)
    BY <1>1, <1>6
  <2>2. o[m] \in Needed(d)
    BY <2>1 DEF Moved, Shape
  <2>3. d.secondaries = << >>
    BY <2>2 DEF Moved, Blocked
  <2>4. o[m] \notin Range(Ladder(d)) /\ Range(l) = Range(Ladder(d))
    BY <2>2 DEF Needed, Moved, Shape
  <2> QED BY <1>1, <1>3, <1>4, <2>2, <2>3, <2>4
<1> QED BY <1>5, <1>6

-----------------------------------------------------------------------------
(* Constructors apart. *)

(* The constructors of a class differ exactly if the planner's two blind   *)
(* spots do not matter to it.                                              *)
LEMMA ApartUnless ==
  ASSUME Moved(class), ~RungTaken, ~SecondNoArgument
  PROVE  ConstructorsDiffer
<1> DEFINE d == class
           o == plan.overloads
           n == Len(d.params)
           sig(k) == ErasedTypes(constructors[k].takes)
           P(k) == k = 1 /\ sig(k) = ErasedTypes(Types(d, Positions(d)))
           O(k, m) == m \in DOMAIN o /\ k = 1 + m /\ sig(k) = Signature(d, o[m])
           N(k) == NoArgument(d) # << >> /\ k = 2 + Len(o) /\ sig(k) = ErasedTypes(<< >>)
           S(k, m) == /\ m \in DOMAIN d.secondaries /\ k = 1 + Len(o) + Len(NoArgument(d)) + m
                      /\ sig(k) = ErasedTypes(d.secondaries[m])
<1>0. KotlinClass(d) /\ n \in Nat /\ Len(o) \in Nat /\ DOMAIN o = 1 .. Len(o)
  BY ClassIs, MovedIs DEF Moved
<1>1. \A k \in DOMAIN constructors :
        P(k) \/ (\E m \in DOMAIN o : O(k, m)) \/ N(k) \/ (\E m \in DOMAIN d.secondaries : S(k, m))
  <2> SUFFICES ASSUME NEW k \in DOMAIN constructors
               PROVE  P(k) \/ (\E m \in DOMAIN o : O(k, m)) \/ N(k) \/ (\E m \in DOMAIN d.secondaries : S(k, m))
    OBVIOUS
  <2>1. Kind(constructors, d, o, k)
    BY <1>0, Kinds DEF Moved
  <2>2. /\ ErasedTypes(Primary(d).takes) = ErasedTypes(Types(d, Positions(d)))
        /\ \A m \in DOMAIN o : ErasedTypes(Overload(d, o[m]).takes) = Signature(d, o[m])
        /\ NoArgument(d) # << >> => ErasedTypes(NoArgument(d)[1].takes) = ErasedTypes(<< >>)
    BY <1>0, MovedIs, TakesIs
  <2>3. \A m \in DOMAIN d.secondaries : Secondary(d.secondaries[m]).takes = d.secondaries[m]
    BY DEF Secondary
  <2> HIDE DEF d, o
  <2> QED BY <2>1, <2>2, <2>3 DEF Kind
<1>2. /\ Len(ErasedTypes(Types(d, Positions(d)))) = n
      /\ \A m \in DOMAIN o : /\ Len(Signature(d, o[m])) = n - Cardinality(o[m])
                             /\ Cardinality(o[m]) \in 1 .. n
                             /\ Len(Signature(d, o[m])) = 0 => o[m] = Positions(d)
  <2>1. \A m \in DOMAIN o : o[m] \in SUBSET Positions(d) /\ Cardinality(o[m]) \in 1 .. n
    BY MovedIs
  <2>2. \A m \in DOMAIN o : Cardinality(Kept(d, o[m])) = n - Cardinality(o[m])
                            /\ (Cardinality(Kept(d, o[m])) = 0 => o[m] = Positions(d))
    BY <1>0, <2>1, KeptIs
  <2> QED BY <1>0, <2>1, <2>2, TakesIs
<1>3. Len(ErasedTypes(<< >>)) = 0
  BY ErasedIs
<1>4. \A m \in DOMAIN d.secondaries :
        /\ Len(ErasedTypes(d.secondaries[m])) = Len(d.secondaries[m])
        /\ Len(d.secondaries[m]) = 0 => d.secondaries[m] = << >>
        /\ d.secondaries[m] \in Range(d.secondaries)
  <2> SUFFICES ASSUME NEW m \in DOMAIN d.secondaries
               PROVE  /\ Len(ErasedTypes(d.secondaries[m])) = Len(d.secondaries[m])
                      /\ Len(d.secondaries[m]) = 0 => d.secondaries[m] = << >>
                      /\ d.secondaries[m] \in Range(d.secondaries)
    OBVIOUS
  <2>1. d.secondaries[m] \in Range(d.secondaries)
    BY DEF Range
  <2>2. IsSequence(d.secondaries[m])
    BY <1>0, <2>1 DEF KotlinClass
  <2>3. Len(d.secondaries[m]) \in Nat /\ DOMAIN d.secondaries[m] = 1 .. Len(d.secondaries[m])
    BY <2>2, SequenceIs
  <2>4. Len(d.secondaries[m]) = 0 => d.secondaries[m] = << >>
    BY <2>2, <2>3 DEF IsSequence
  <2> QED BY <2>1, <2>3, <2>4, ErasedIs
<1>5. \A m, h \in DOMAIN o : m # h => Signature(d, o[m]) # Signature(d, o[h])
  <2> SUFFICES ASSUME NEW m \in DOMAIN o, NEW h \in DOMAIN o, m # h
               PROVE  Signature(d, o[m]) # Signature(d, o[h])
    OBVIOUS
  <2>1. CASE Needed(d) # {}
    <3>1. o[m] # o[h]
      BY DEF Moved, Shape
    <3>2. o[m] \in Needed(d) \cup Range(Ladder(d)) /\ o[h] \in Needed(d) \cup Range(Ladder(d))
      BY MovedIs
    <3> QED BY <2>1, <3>1, <3>2 DEF Moved, Blocked
  <2>2. CASE Needed(d) = {}
    <3>1. Cardinality(o[m]) = m /\ Cardinality(o[h]) = h
      BY <2>2, MovedIs
    <3>2. Len(Signature(d, o[m])) = n - m /\ Len(Signature(d, o[h])) = n - h /\ m \in Nat /\ h \in Nat
      BY <1>0, <1>2, <3>1
    <3>3. n - m # n - h
      BY <1>0, <3>2
    <3> QED BY <3>2, <3>3
  <2> QED BY <2>1, <2>2
<1>6. \A m \in DOMAIN o, h \in DOMAIN d.secondaries : Signature(d, o[m]) # ErasedTypes(d.secondaries[h])
  <2> SUFFICES ASSUME NEW m \in DOMAIN o, NEW h \in DOMAIN d.secondaries
               PROVE  Signature(d, o[m]) # ErasedTypes(d.secondaries[h])
    OBVIOUS
  <2>1. d.secondaries # << >>
    OBVIOUS
  <2>2. o[m] \in Range(plan.ladder)
    BY <2>1, MovedIs
  <2> QED BY <1>4, <2>2 DEF RungTaken
<1>7. NoArgument(d) # << >> =>
        n > 0 /\ << >> \notin Range(d.secondaries) /\ Positions(d) \notin Range(o)
  BY <1>0, TakesIs DEF SecondNoArgument
<1>8. \A h \in DOMAIN d.secondaries :
        /\ ErasedTypes(d.secondaries[h]) # ErasedTypes(Types(d, Positions(d)))
        /\ \A m \in DOMAIN d.secondaries : m # h => ErasedTypes(d.secondaries[h]) # ErasedTypes(d.secondaries[m])
  BY <1>0 DEF KotlinClass
<1>9. \A m \in DOMAIN o : o[m] \in Range(o)
  BY DEF Range
<1>. HIDE DEF d, o, n, sig
<1>10. \A j, k \in DOMAIN constructors : P(j) /\ (\E m \in DOMAIN o : O(k, m)) => sig(j) # sig(k)
  BY <1>0, <1>2
<1>11. \A j, k \in DOMAIN constructors : P(j) /\ N(k) => sig(j) # sig(k)
  BY <1>0, <1>2, <1>3, <1>7
<1>12. \A j, k \in DOMAIN constructors : P(j) /\ (\E m \in DOMAIN d.secondaries : S(k, m)) => sig(j) # sig(k)
  BY <1>8
<1>13. \A j, k \in DOMAIN constructors :
         j # k /\ (\E m \in DOMAIN o : O(j, m)) /\ (\E m \in DOMAIN o : O(k, m)) => sig(j) # sig(k)
  BY <1>5
<1>14. \A j, k \in DOMAIN constructors : (\E m \in DOMAIN o : O(j, m)) /\ N(k) => sig(j) # sig(k)
  BY <1>2, <1>3, <1>7, <1>9
<1>15. \A j, k \in DOMAIN constructors :
         (\E m \in DOMAIN o : O(j, m)) /\ (\E m \in DOMAIN d.secondaries : S(k, m)) => sig(j) # sig(k)
  BY <1>6
<1>16. \A j, k \in DOMAIN constructors :
         N(j) /\ (\E m \in DOMAIN d.secondaries : S(k, m)) => sig(j) # sig(k)
  BY <1>3, <1>4, <1>7
<1>17. \A j, k \in DOMAIN constructors :
         j # k /\ (\E m \in DOMAIN d.secondaries : S(j, m)) /\ (\E m \in DOMAIN d.secondaries : S(k, m)) => sig(j) # sig(k)
  BY <1>8
<1>18. \A j, k \in DOMAIN constructors : j # k /\ ((P(j) /\ P(k)) \/ (N(j) /\ N(k))) => sig(j) # sig(k)
  OBVIOUS
<1>. DEFINE OO(k) == \E m \in DOMAIN o : O(k, m)
            SS(k) == \E m \in DOMAIN d.secondaries : S(k, m)
<1>19. \A j, k \in DOMAIN constructors : j # k => sig(j) # sig(k)
  <2> SUFFICES ASSUME NEW j \in DOMAIN constructors, NEW k \in DOMAIN constructors, j # k, sig(j) = sig(k)
               PROVE  FALSE
    OBVIOUS
  <2>1. (P(j) \/ OO(j) \/ N(j) \/ SS(j)) /\ (P(k) \/ OO(k) \/ N(k) \/ SS(k))
    BY <1>1
  <2>2. ~(P(j) /\ OO(k)) /\ ~(P(k) /\ OO(j)) /\ ~(P(j) /\ N(k)) /\ ~(P(k) /\ N(j))
    BY <1>10, <1>11
  <2>3. ~(P(j) /\ SS(k)) /\ ~(P(k) /\ SS(j)) /\ ~(OO(j) /\ OO(k)) /\ ~(OO(j) /\ N(k)) /\ ~(OO(k) /\ N(j))
    BY <1>12, <1>13, <1>14
  <2>4. ~(OO(j) /\ SS(k)) /\ ~(OO(k) /\ SS(j)) /\ ~(N(j) /\ SS(k)) /\ ~(N(k) /\ SS(j)) /\ ~(SS(j) /\ SS(k))
    BY <1>15, <1>16, <1>17
  <2>5. ~(P(j) /\ P(k)) /\ ~(N(j) /\ N(k))
    BY <1>18
  <2> HIDE DEF P, N, OO, SS
  <2> QED BY <2>1, <2>2, <2>3, <2>4, <2>5
<1> QED BY <1>19 DEF ConstructorsDiffer, sig

(* Where the planner does not look, two constructors are alike.            *)
LEMMA NotApart ==
  ASSUME Moved(class), RungTaken \/ SecondNoArgument
  PROVE  ~ConstructorsDiffer
<1> DEFINE d == class
           o == plan.overloads
           n == Len(o)
           x == Len(NoArgument(d))
           s == Len(d.secondaries)
<1>1. KotlinClass(d) /\ Len(o) \in Nat /\ DOMAIN o = 1 .. Len(o) /\ Lists(constructors, d, o)
  BY MovedIs DEF Moved
<1>2. x \in Nat /\ s \in Nat /\ DOMAIN d.secondaries = 1 .. s /\ (NoArgument(d) # << >> => x = 1)
  BY <1>1, NoArgumentIs, SequenceIs DEF KotlinClass
<1>6. /\ n \in Nat /\ DOMAIN o = 1 .. n /\ DOMAIN constructors = 1 .. 1 + n + x + s
      /\ \A m \in 1 .. n : constructors[1 + m] = Overload(d, o[m])
      /\ \A k \in 1 .. x : constructors[1 + n + k] = NoArgument(d)[k]
      /\ \A h \in 1 .. s : constructors[1 + n + x + h] = Secondary(d.secondaries[h])
  BY <1>1 DEF Lists
<1>. HIDE DEF n, x, s
<1>3. \A m \in DOMAIN o :
        /\ 1 + m \in DOMAIN constructors
        /\ ErasedTypes(constructors[1 + m].takes) = Signature(d, o[m])
  <2> SUFFICES ASSUME NEW m \in DOMAIN o
               PROVE  /\ 1 + m \in DOMAIN constructors
                      /\ ErasedTypes(constructors[1 + m].takes) = Signature(d, o[m])
    OBVIOUS
  <2>1. constructors[1 + m] = Overload(d, o[m])
    BY <1>6
  <2>2. 1 + m \in 1 .. 1 + n + x + s
    <3> HIDE DEF o
    <3> QED BY <1>2, <1>6
  <2>3. o[m] \in SUBSET Positions(d)
    BY MovedIs
  <2> QED BY <1>1, <1>6, <2>1, <2>2, <2>3, TakesIs
<1>4. CASE RungTaken
  <2>1. PICK p \in Range(plan.ladder), t \in Range(d.secondaries) : Signature(d, p) = ErasedTypes(t)
    BY <1>4 DEF RungTaken
  <2>2. PICK m \in DOMAIN plan.ladder : p = plan.ladder[m]
    BY DEF Range
  <2>3. m \in DOMAIN o /\ o[m] = p
    <3>1. plan.ladder[m] = o[m] /\ Len(plan.ladder) <= Len(o) /\ Len(plan.ladder) \in Nat
          /\ DOMAIN plan.ladder = 1 .. Len(plan.ladder)
      BY DEF Moved, Shape, Steps
    <3> QED BY <1>1, <2>2, <3>1
  <2>4. PICK h \in DOMAIN d.secondaries : t = d.secondaries[h]
    BY DEF Range
  <2> DEFINE k == 1 + n + x + h
  <2>5. constructors[k] = Secondary(d.secondaries[h])
    BY <1>2, <1>6
  <2>6. constructors[k].takes = t
    BY <2>4, <2>5 DEF Secondary
  <2>7. k \in DOMAIN constructors /\ k # 1 + m
    <3>1. k \in 1 .. 1 + n + x + s /\ k # 1 + m
      <4> HIDE DEF o
      <4> QED BY <1>2, <1>6, <2>3
    <3> HIDE DEF k
    <3> QED BY <1>6, <3>1
  <2>8. ErasedTypes(constructors[1 + m].takes) = ErasedTypes(constructors[k].takes)
        /\ 1 + m \in DOMAIN constructors
    BY <1>3, <2>1, <2>3, <2>6
  <2> HIDE DEF k
  <2> QED BY <2>7, <2>8 DEF ConstructorsDiffer
<1>5. CASE SecondNoArgument
  <2>1. NoArgument(d) # << >> /\ \E m \in DOMAIN o : o[m] = Positions(d)
    BY <1>5 DEF SecondNoArgument, Range
  <2>2. PICK m \in DOMAIN o : o[m] = Positions(d)
    BY <2>1
  <2> DEFINE k == 1 + n + 1
  <2>3. constructors[k] = NoArgument(d)[1] /\ 1 \in 1 .. x
    BY <1>2, <1>6, <2>1
  <2>4. constructors[k].takes = << >>
    BY <1>1, <2>1, <2>3, TakesIs
  <2>5. k \in DOMAIN constructors /\ k # 1 + m
    <3>1. k \in 1 .. 1 + n + x + s /\ k # 1 + m
      <4> HIDE DEF o
      <4> QED BY <1>2, <1>6, <2>1
    <3> HIDE DEF k
    <3> QED BY <1>6, <3>1
  <2>6. Signature(d, o[m]) = ErasedTypes(<< >>)
    <3>1. DOMAIN Signature(d, o[m]) = 1 .. Len(d.params) - Cardinality(o[m])
      BY <1>1, <2>2, TakesIs
    <3>2. Cardinality(o[m]) = Len(d.params) /\ Len(d.params) \in Nat
      BY <1>1, <2>2, ClassIs
    <3>3. DOMAIN Signature(d, o[m]) = {}
      BY <3>1, <3>2
    <3>4. Signature(d, o[m]) = [i \in DOMAIN Signature(d, o[m]) |-> Signature(d, o[m])[i]]
      BY DEF Signature, ErasedTypes
    <3>5. ErasedTypes(<< >>) = [i \in {} |-> Signature(d, o[m])[i]]
      BY DEF ErasedTypes
    <3> QED BY <3>3, <3>4, <3>5
  <2>7. ErasedTypes(constructors[1 + m].takes) = ErasedTypes(constructors[k].takes)
        /\ 1 + m \in DOMAIN constructors
    BY <1>3, <2>4, <2>6
  <2> HIDE DEF k
  <2> QED BY <2>5, <2>7 DEF ConstructorsDiffer
<1> QED BY <1>4, <1>5

-----------------------------------------------------------------------------
(* Delegation. *)

(* Whom a constructor delegates to.                                        *)
LEMMA RungIs ==
  ASSUME NEW d, Moved(d)
  PROVE  /\ \A m \in DOMAIN plan.ladder : Rung(d, plan.ladder[m]) = m
         /\ \A p : p \notin Range(plan.ladder) => Rung(d, p) = 0
<1>1. \A m, h \in DOMAIN plan.ladder : plan.ladder[m] = plan.ladder[h] => m = h
  BY DEF Moved, Shape, Steps
<1>2. \A m \in DOMAIN plan.ladder : plan.ladder[m] \in Range(plan.ladder)
  BY DEF Range
<1>3. ASSUME NEW m \in DOMAIN plan.ladder PROVE Rung(d, plan.ladder[m]) = m
  <2>1. Rung(d, plan.ladder[m]) = CHOOSE k \in DOMAIN plan.ladder : plan.ladder[k] = plan.ladder[m]
    BY <1>2 DEF Rung
  <2> DEFINE c == CHOOSE k \in DOMAIN plan.ladder : plan.ladder[k] = plan.ladder[m]
  <2>2. c \in DOMAIN plan.ladder /\ plan.ladder[c] = plan.ladder[m]
    OBVIOUS
  <2> HIDE DEF c
  <2>3. c = m
    BY <1>1, <2>2
  <2> QED BY <2>1, <2>3 DEF c
<1> QED BY <1>3 DEF Rung

(* The defaults an overload fills in itself, and the overload it leaves    *)
(* the others to.                                                          *)
Fills(d, p) == p \ DelegateOmits(d, p)
OnLadder(d, m) ==
  /\ m \in DOMAIN plan.ladder /\ Rung(d, plan.overloads[m]) = m
  /\ IF m = 1 THEN DelegateOmits(d, plan.overloads[m]) = {}
     ELSE m - 1 \in DOMAIN plan.ladder /\ m - 1 \in DOMAIN plan.overloads
          /\ DelegateOmits(d, plan.overloads[m]) = plan.overloads[m - 1]
  /\ \E x \in plan.overloads[m] :
       Fills(d, plan.overloads[m]) = {x} /\ \A y \in plan.overloads[m] \ {x} : x < y
OffLadder(d, m) ==
  /\ plan.overloads[m] \in Needed(d) /\ d.secondaries = << >>
  /\ Rung(d, plan.overloads[m]) = 0
  /\ DelegateOmits(d, plan.overloads[m]) = {}

LEMMA DelegateIs ==
  ASSUME NEW d, Moved(d), NEW m \in DOMAIN plan.overloads
  PROVE  /\ DelegateOmits(d, plan.overloads[m]) \subseteq plan.overloads[m]
         /\ OnLadder(d, m) \/ OffLadder(d, m)
<1> DEFINE o == plan.overloads
           l == plan.ladder
           p == o[m]
<1>1. \/ m \in DOMAIN l /\ p = l[m]
      \/ p \in Needed(d) /\ d.secondaries = << >> /\ p \notin Range(l)
  BY MovedIs
<1>2. CASE m \in DOMAIN l /\ p = l[m]
  <2>1. Rung(d, p) = m
    BY <1>2, RungIs
  <2>2. /\ DOMAIN l = 1 .. Len(l) /\ Len(l) \in Nat /\ DOMAIN o = 1 .. Len(o) /\ Len(o) \in Nat
        /\ Len(l) <= Len(o) /\ l \in Seq(SUBSET Defaulted(d))
        /\ \A k \in DOMAIN l : o[k] = l[k]
    BY DEF Moved, Shape, Steps
  <2>3. PICK x \in l[m] : Step(l, m, x)
    BY <1>2 DEF Moved, Shape, Steps, Climbs
  <2>4. CASE m = 1
    <3>1. DelegateOmits(d, p) = {}
      BY <2>1, <2>4 DEF DelegateOmits
    <3>2. p = {x}
      BY <1>2, <2>3, <2>4 DEF Step
    <3> QED BY <1>2, <2>1, <2>3, <2>4, <3>1, <3>2 DEF OnLadder, Fills
  <2>5. CASE m # 1
    <3>1. m > 1 /\ m - 1 \in DOMAIN l /\ m - 1 \in DOMAIN o /\ l[m - 1] = o[m - 1]
      BY <1>2, <2>2, <2>5
    <3>2. DelegateOmits(d, p) = o[m - 1]
      BY <2>1, <3>1 DEF DelegateOmits
    <3>3. p = o[m - 1] \cup {x} /\ \A y \in o[m - 1] : x < y
      BY <1>2, <2>3, <2>5, <3>1 DEF Step
    <3>4. x \notin o[m - 1]
      <4>1. x \in Nat
        <5>1. p \subseteq Nat /\ x \in p
          BY <1>2, <2>3, MovedIs, ClassIs DEF Moved
        <5> QED BY <5>1
      <4> QED BY <3>3, <4>1
    <3>5. p \ o[m - 1] = {x} /\ \A y \in p \ {x} : x < y
      BY <3>3, <3>4
    <3> QED BY <1>2, <2>1, <2>3, <2>5, <3>1, <3>2, <3>3, <3>5 DEF OnLadder, Fills
  <2> QED BY <2>4, <2>5
<1>3. CASE p \in Needed(d) /\ d.secondaries = << >> /\ p \notin Range(l)
  <2>1. Rung(d, p) = 0
    BY <1>3, RungIs
  <2>2. DelegateOmits(d, p) = {}
    BY <2>1 DEF DelegateOmits
  <2> QED BY <1>3, <2>1, <2>2 DEF OffLadder
<1> QED BY <1>1, <1>2, <1>3

(* The defaults a constructor passes on are those of the positions its     *)
(* arguments have them from, in order.                                     *)
InOrder(n, args, order) ==
  /\ n \in Nat /\ DOMAIN args = 1 .. n /\ order \in [1 .. n -> Nat]
  /\ \A j, k \in 1 .. n : j < k => order[j] < order[k]
  /\ \A k \in 1 .. n : args[k].from[1] = "default" => args[k].from[2] = order[k]
FromDefaults(n, args, order) ==
  {order[k] : k \in {j \in 1 .. n : args[j].from[1] = "default"}}

LEMMA PassesInOrder ==
  ASSUME NEW n, NEW args, NEW order, InOrder(n, args, order), NEW c, c.passes = args
  PROVE  DefaultsPassed(c) = Ascending(FromDefaults(n, args, order))
<1>. USE DEF InOrder
<1> DEFINE K == {k \in 1 .. n : args[k].from[1] = "default"}
           at == Ascending(K)
           s == [k \in DOMAIN at |-> args[at[k]].from[2]]
<1>1. K \subseteq Nat /\ IsFiniteSet(K) /\ K \subseteq 1 .. n
  <2>1. IsFiniteSet(1 .. n) /\ K \in SUBSET (1 .. n)
    BY FS_Interval
  <2> HIDE DEF K
  <2>2. IsFiniteSet(K)
    BY <2>1, FS_Subset
  <2> QED BY <2>1, <2>2
<1>2. \A k \in K : args[k].from[2] = order[k] /\ k \in 1 .. n
  OBVIOUS
<1>3. {k \in DOMAIN args : args[k].from[1] = "default"} = K
  OBVIOUS
<1>. HIDE DEF K
<1>4. /\ Cardinality(K) \in Nat /\ at \in [1 .. Cardinality(K) -> K]
      /\ \A j, k \in 1 .. Cardinality(K) : j < k => at[j] < at[k]
      /\ \A i \in K : \E k \in 1 .. Cardinality(K) : at[k] = i
  BY <1>1, AscendingIs
<1>5. DefaultsPassed(c) = s
  <2>1. Select(args, K) = [k \in DOMAIN at |-> args[at[k]]]
    BY DEF Select
  <2>2. DefaultsPassed(c) = [k \in DOMAIN Select(args, K) |-> Select(args, K)[k].from[2]]
    BY <1>3 DEF DefaultsPassed
  <2> HIDE DEF at
  <2> QED BY <2>1, <2>2 DEF s
<1> DEFINE h == Cardinality(K)
<1>. HIDE DEF at, h
<1>6. s \in [1 .. h -> Nat] /\ \A k \in 1 .. h : s[k] = order[at[k]]
  BY <1>2, <1>4 DEF h
<1>7. \A j, k \in 1 .. h : j < k => s[j] < s[k]
  <2> SUFFICES ASSUME NEW j \in 1 .. h, NEW k \in 1 .. h, j < k PROVE s[j] < s[k]
    OBVIOUS
  <2>1. at[j] \in 1 .. n /\ at[k] \in 1 .. n /\ at[j] < at[k]
    BY <1>2, <1>4 DEF h
  <2>2. order[at[j]] < order[at[k]]
    BY <2>1
  <2> QED BY <1>6, <2>2
<1>. HIDE DEF s
<1>8. {s[k] : k \in 1 .. h} = {order[k] : k \in K}
  <2>1. \A k \in 1 .. h : s[k] = order[at[k]] /\ at[k] \in K
    BY <1>4, <1>6 DEF h
  <2>2. \A i \in K : \E k \in 1 .. h : s[k] = order[i]
    BY <1>4, <1>6 DEF h
  <2> QED BY <2>1, <2>2
<1>9. Ascending({s[k] : k \in 1 .. h}) = s
  BY <1>4, <1>6, <1>7, AscendingOnly DEF h
<1> QED BY <1>5, <1>8, <1>9 DEF K, FromDefaults

(* What an overload passes on, in the order of the parameters of the one   *)
(* it delegates to.                                                        *)
Rest(d, p) == Kept(d, DelegateOmits(d, p))
PassesOn(d, p) ==
  /\ Rest(d, p) \subseteq Positions(d) /\ IsFiniteSet(Rest(d, p)) /\ Cardinality(Rest(d, p)) \in Nat
  /\ DOMAIN Overload(d, p).passes = 1 .. Cardinality(Rest(d, p))
  /\ Len(Overload(d, p).passes) = Cardinality(Rest(d, p))
  /\ \A k \in 1 .. Cardinality(Rest(d, p)) :
       Overload(d, p).passes[k] =
         IF Ascending(Rest(d, p))[k] \in p
         THEN [from |-> <<"default", Ascending(Rest(d, p))[k]>>,
               type |-> PassedType(d, Ascending(Rest(d, p))[k], p)]
         ELSE [from |-> <<"parameter", Ascending(Rest(d, p))[k]>>,
               type |-> d.params[Ascending(Rest(d, p))[k]].type]
  /\ DefaultsPassed(Overload(d, p)) = Ascending(Fills(d, p))

LEMMA OverloadPasses ==
  ASSUME NEW d, Moved(d), NEW m \in DOMAIN plan.overloads
  PROVE  PassesOn(d, plan.overloads[m])
<1> DEFINE p == plan.overloads[m]
           rest == Kept(d, DelegateOmits(d, p))
           order == Ascending(rest)
           args == Overload(d, p).passes
           n == Cardinality(rest)
<1>1. rest \subseteq Positions(d) /\ IsFiniteSet(rest) /\ rest \subseteq Nat
  <2>1. rest \in SUBSET Positions(d)
    BY DEF Kept
  <2> HIDE DEF rest
  <2> QED BY <2>1, ClassIs DEF Moved
<1>2. /\ n \in Nat /\ order \in [1 .. n -> rest]
      /\ \A j, k \in 1 .. n : j < k => order[j] < order[k]
      /\ \A i \in rest : \E k \in 1 .. n : order[k] = i
  <2> HIDE DEF rest
  <2> QED BY <1>1, AscendingIs
<1>3. args = [k \in 1 .. n |->
                IF order[k] \in p THEN [from |-> <<"default", order[k]>>, type |-> PassedType(d, order[k], p)]
                ELSE [from |-> <<"parameter", order[k]>>, type |-> d.params[order[k]].type]]
  <2>1. args = Passed(d, p)
    BY DEF Overload
  <2> HIDE DEF n
  <2>2. DOMAIN order = 1 .. n
    BY <1>2
  <2>3. order = Ascending(Positions(d) \ DelegateOmits(d, p))
    BY DEF Kept
  <2> HIDE DEF order, args, p
  <2>4. Passed(d, p) = [k \in DOMAIN order |->
                IF order[k] \in p THEN [from |-> <<"default", order[k]>>, type |-> PassedType(d, order[k], p)]
                ELSE [from |-> <<"parameter", order[k]>>, type |-> d.params[order[k]].type]]
    BY <2>3 DEF Passed
  <2> QED BY <2>1, <2>2, <2>4
<1>. HIDE DEF n, order, args, rest
<1>4. /\ DOMAIN args = 1 .. n
      /\ \A k \in 1 .. n : args[k].from = IF order[k] \in p THEN <<"default", order[k]>> ELSE <<"parameter", order[k]>>
  BY <1>3
<1>5. \A k \in 1 .. n : /\ args[k].from[1] = "default" <=> order[k] \in p
                        /\ args[k].from[1] = "default" => args[k].from[2] = order[k]
  <2> SUFFICES ASSUME NEW k \in 1 .. n
               PROVE  /\ args[k].from[1] = "default" <=> order[k] \in p
                      /\ args[k].from[1] = "default" => args[k].from[2] = order[k]
    OBVIOUS
  <2> DEFINE i == order[k]
             f == args[k].from
  <2>1. f = IF i \in p THEN <<"default", i>> ELSE <<"parameter", i>>
    BY <1>4
  <2> HIDE DEF i, f, p
  <2>2. "parameter" # "default"
    OBVIOUS
  <2>3. f[1] = "default" <=> i \in p
    BY <2>1, <2>2
  <2>4. f[1] = "default" => f[2] = i
    BY <2>1, <2>3
  <2> QED BY <2>3, <2>4 DEF i, f
<1>6. order \in [1 .. n -> Nat]
  BY <1>1, <1>2
<1>7. DefaultsPassed(Overload(d, p)) = Ascending({order[k] : k \in {j \in 1 .. n : args[j].from[1] = "default"}})
  <2> DEFINE c == Overload(d, p)
  <2>1. c.passes = args
    BY DEF args
  <2> HIDE DEF c, p
  <2>2. InOrder(n, args, order)
    BY <1>1, <1>2, <1>4, <1>5, <1>6 DEF InOrder
  <2>3. DefaultsPassed(c) = Ascending(FromDefaults(n, args, order))
    BY <2>1, <2>2, PassesInOrder
  <2> QED BY <2>3 DEF c, FromDefaults
<1>8. {order[k] : k \in {j \in 1 .. n : args[j].from[1] = "default"}} = Fills(d, p)
  <2>1. p \subseteq Positions(d)
    BY MovedIs
  <2>2. p \cap rest = Fills(d, p)
    BY <2>1 DEF Fills, rest, Kept
  <2> HIDE DEF p
  <2>3. {order[k] : k \in {j \in 1 .. n : args[j].from[1] = "default"}} = p \cap rest
    BY <1>2, <1>5
  <2> QED BY <2>2, <2>3
<1>9. Len(args) = n
  BY <1>2, <1>3
<1>10. \A k \in 1 .. n : args[k] =
                IF order[k] \in p THEN [from |-> <<"default", order[k]>>, type |-> PassedType(d, order[k], p)]
                ELSE [from |-> <<"parameter", order[k]>>, type |-> d.params[order[k]].type]
  BY <1>3
<1>11. rest = Rest(d, p) /\ n = Cardinality(Rest(d, p)) /\ order = Ascending(Rest(d, p)) /\ args = Overload(d, p).passes
  BY DEF n, order, args, rest, Rest
<1>. HIDE DEF p
<1> QED BY <1>1, <1>2, <1>4, <1>7, <1>8, <1>9, <1>10, <1>11 DEF PassesOn, p

FillsAll(d, c) ==
  /\ AllDefaulted(d) /\ c.kind = "delegating"
  /\ DOMAIN c.passes = 1 .. Len(d.params) /\ Len(c.passes) = Len(d.params)
  /\ \A i \in 1 .. Len(d.params) : c.passes[i].from = <<"default", i>>
  /\ DefaultsPassed(c) = Ascending(Positions(d))
Clears(d, c) == ~AllDefaulted(d) /\ c.kind = "cleared" /\ c.passes = << >>
WithoutArguments(d, c) ==
  c.takes = << >> /\ c.of = << >> /\ (FillsAll(d, c) \/ Clears(d, c))

(* What the constructor without parameters passes on, if it delegates.     *)
LEMMA NoArgumentPasses ==
  ASSUME NEW d, KotlinClass(d), NoArgument(d) # << >>, NEW c, c = NoArgument(d)[1]
  PROVE  WithoutArguments(d, c)
<1>. USE DEF WithoutArguments, FillsAll, Clears
<1> DEFINE n == Len(d.params)
<1>1. n \in Nat /\ Positions(d) = 1 .. n
  BY ClassIs
<1>2. CASE AllDefaulted(d)
  <2>1. c = [kind |-> "delegating", takes |-> << >>, of |-> << >>,
             passes |-> [i \in Positions(d) |->
                           [from |-> <<"default", i>>, type |-> d.params[i].default.type]]]
    BY <1>2 DEF NoArgument
  <2> DEFINE args == [i \in Positions(d) |->
                           [from |-> <<"default", i>>, type |-> d.params[i].default.type]]
             order == [i \in 1 .. n |-> i]
  <2>2. c.passes = args /\ c.takes = << >> /\ c.of = << >> /\ c.kind = "delegating"
    BY <2>1
  <2> HIDE DEF n
  <2>3. DOMAIN args = 1 .. n /\ \A i \in 1 .. n : args[i].from = <<"default", i>>
    BY <1>1
  <2> HIDE DEF args
  <2>4. /\ order \in [1 .. n -> Nat] /\ \A j, k \in 1 .. n : j < k => order[j] < order[k]
        /\ \A k \in 1 .. n : args[k].from[1] = "default" => args[k].from[2] = order[k]
    BY <2>3
  <2>5. {order[k] : k \in {j \in 1 .. n : args[j].from[1] = "default"}} = Positions(d)
    BY <1>1, <2>3
  <2> HIDE DEF order
  <2>6. DefaultsPassed(c) = Ascending(Positions(d))
    <3>1. InOrder(n, args, order)
      BY <1>1, <2>3, <2>4 DEF InOrder, n
    <3>2. DefaultsPassed(c) = Ascending(FromDefaults(n, args, order))
      BY <2>2, <3>1, PassesInOrder
    <3> QED BY <2>5, <3>2 DEF FromDefaults
  <2>7. Len(args) = n
    BY <1>1, <2>3 DEF args
  <2> QED BY <1>2, <2>2, <2>3, <2>6, <2>7 DEF n
<1>3. CASE ~AllDefaulted(d)
  <2>1. c = [kind |-> "cleared", takes |-> << >>, of |-> << >>, passes |-> << >>]
    BY <1>3 DEF NoArgument
  <2> QED BY <1>3, <2>1
<1> QED BY <1>2, <1>3

(* A constructor that passes nothing on evaluates no default.              *)
LEMMA NonePassed ==
  ASSUME NEW c, c.passes = << >>
  PROVE  Range(DefaultsPassed(c)) = {}
<1>1. {k \in DOMAIN c.passes : c.passes[k].from[1] = "default"} = {}
  OBVIOUS
<1>2. Ascending({}) = [k \in 1 .. 0 |-> CHOOSE i \in {} : Cardinality({j \in {} : j < i}) = k - 1]
  BY FS_EmptySet DEF Ascending
<1>3. DOMAIN Ascending({}) = {}
  BY <1>2
<1>4. DOMAIN Select(c.passes, {}) = {}
  BY <1>3 DEF Select
<1> QED BY <1>1, <1>4 DEF DefaultsPassed, Range

(* Where a constructor evaluates a default, the parameters the default     *)
(* names are its own, but for the constructor the persistence rule writes. *)
LEMMA InOrderRange ==
  ASSUME NEW S, S \subseteq Nat, IsFiniteSet(S)
  PROVE  Range(Ascending(S)) = S
<1>1. /\ Ascending(S) \in [1 .. Cardinality(S) -> S]
      /\ \A i \in S : \E k \in 1 .. Cardinality(S) : Ascending(S)[k] = i
  BY AscendingIs
<1> QED BY <1>1 DEF Range

OwnNames(d, c) == {d.params[j].name : j \in Range(c.of)}
ScopeOf(d, c) == \A i \in Range(DefaultsPassed(c)) : d.params[i].default.uses \subseteq OwnNames(d, c)

(* An overload evaluates a default only where the parameters it names are  *)
(* its own: a rung adds the leftmost default so far, and the planner       *)
(* refuses any other pattern that leaves one out.                          *)
LEMMA OverloadScope ==
  ASSUME NEW d, Moved(d), NEW m \in DOMAIN plan.overloads
  PROVE  ScopeOf(d, Overload(d, plan.overloads[m]))
<1> DEFINE p == plan.overloads[m]
           c == Overload(d, p)
           names == {d.params[j].name : j \in Kept(d, p)}
<1>1. p \subseteq Positions(d) /\ KotlinClass(d)
  BY MovedIs DEF Moved
<1>2. /\ IsFiniteSet(Kept(d, p)) /\ Kept(d, p) \subseteq Nat
      /\ IsFiniteSet(p) /\ p \subseteq Nat
      /\ Fills(d, p) \subseteq p /\ Fills(d, p) \subseteq Nat /\ IsFiniteSet(Fills(d, p))
  <2>1. Kept(d, p) \in SUBSET Positions(d) /\ p \in SUBSET Positions(d)
        /\ Fills(d, p) \in SUBSET Positions(d) /\ Fills(d, p) \subseteq p
    BY <1>1 DEF Kept, Fills
  <2> HIDE DEF p
  <2> QED BY <1>1, <2>1, ClassIs
<1>3. OwnNames(d, c) = names
  <2>1. c.of = Ascending(Kept(d, p))
    BY DEF Overload, Kept
  <2> HIDE DEF c, p
  <2>2. Range(c.of) = Kept(d, p)
    BY <1>2, <2>1, InOrderRange
  <2> QED BY <2>2 DEF OwnNames
<1>4. Range(DefaultsPassed(c)) = Fills(d, p)
  <2>1. DefaultsPassed(c) = Ascending(Fills(d, p))
    BY OverloadPasses DEF PassesOn
  <2> HIDE DEF c, p
  <2> QED BY <1>2, <2>1, InOrderRange
<1>5. ASSUME NEW i \in Fills(d, p) PROVE d.params[i].default.uses \subseteq names
  <2>1. i \in p /\ i \in Positions(d) /\ i \in Nat /\ p \subseteq Nat
    BY <1>1, <1>2, <1>5
  <2>2. HasDefault(d, i)
    <3>1. p \subseteq Defaulted(d)
      BY DEF Moved, Shape
    <3> HIDE DEF p
    <3> QED BY <2>1, <3>1 DEF Defaulted
  <2>3. d.params[i].default.uses \subseteq EarlierNames(d, i)
    BY <2>1, <2>2, <1>1 DEF KotlinClass, Positions
  <2>4. CASE OnLadder(d, m)
    <3>1. \A y \in p \ {i} : i < y
      <4>1. \E x \in p : Fills(d, p) = {x} /\ \A y \in p \ {x} : x < y
        BY <2>4 DEF OnLadder
      <4> HIDE DEF p
      <4> QED BY <1>5, <4>1
    <3>2. 1 .. i - 1 \subseteq Kept(d, p)
      <4>1. Positions(d) = 1 .. Len(d.params) /\ Len(d.params) \in Nat
        BY <1>1, ClassIs
      <4> HIDE DEF p
      <4> SUFFICES ASSUME NEW j \in 1 .. i - 1 PROVE j \in Positions(d) /\ j \notin p
        BY DEF Kept
      <4>2. j \in Positions(d)
        BY <2>1, <4>1
      <4>3. j \notin p
        BY <2>1, <3>1
      <4> QED BY <4>2, <4>3
    <3> HIDE DEF p
    <3> QED BY <2>3, <3>2 DEF EarlierNames
  <2>5. CASE OffLadder(d, m)
    <3>1. ~UnsuppliedReference(d, i, p)
      <4>1. p \in Needed(d) /\ ~Blocked(d)
        BY <2>5 DEF OffLadder, Moved
      <4> HIDE DEF p
      <4> QED BY <2>1, <4>1 DEF Blocked
    <3>2. 1 .. i - 1 \subseteq Positions(d)
      <4>1. Positions(d) = 1 .. Len(d.params) /\ Len(d.params) \in Nat
        BY <1>1, ClassIs
      <4> QED BY <2>1, <4>1
    <3> HIDE DEF p
    <3> SUFFICES ASSUME NEW name \in d.params[i].default.uses PROVE name \in {d.params[j].name : j \in Kept(d, p)}
      OBVIOUS
    <3>3. PICK j \in 1 .. i - 1 : name = d.params[j].name
      BY <2>3 DEF EarlierNames
    <3>4. j \notin p
      BY <3>1, <3>3 DEF UnsuppliedReference
    <3> QED BY <3>2, <3>3, <3>4 DEF Kept
  <2> QED BY <2>4, <2>5, DelegateIs
<1> HIDE DEF c, names, p
<1> QED BY <1>3, <1>4, <1>5 DEF ScopeOf, c, p

(* So does every constructor but the one without parameters that the       *)
(* persistence rule writes.                                                *)
LEMMA ScopeUnless ==
  ASSUME NEW d, Moved(d), d = class
  PROVE  DefaultsInScope <=> ~DefaultsUnsupplied
<1>1. DefaultsInScope <=> \A k \in DOMAIN constructors : ScopeOf(d, constructors[k])
  BY DEF DefaultsInScope, ScopeOf, OwnNames
<1>2. KotlinClass(d)
  BY DEF Moved
<1>3. /\ Lists(constructors, d, plan.overloads)
      /\ Len(plan.overloads) \in Nat /\ DOMAIN plan.overloads = 1 .. Len(plan.overloads)
  BY MovedIs DEF Moved
<1>4. ASSUME NoArgument(d) # << >>
      PROVE  ScopeOf(d, NoArgument(d)[1]) <=> ~DefaultsUnsupplied
  <2>0. PICK c : c = NoArgument(d)[1]
    OBVIOUS
  <2>1. /\ c.of = << >>
        /\ \/ AllDefaulted(d) /\ DefaultsPassed(c) = Ascending(Positions(d))
           \/ ~AllDefaulted(d) /\ c.passes = << >>
    BY <1>2, <1>4, <2>0, NoArgumentPasses DEF WithoutArguments, FillsAll, Clears
  <2>2. OwnNames(d, c) = {}
    <3>1. DOMAIN c.of = {}
      BY <2>1
    <3> QED BY <3>1 DEF OwnNames, Range
  <2>3. CASE AllDefaulted(d)
    <3>1. Range(DefaultsPassed(c)) = Positions(d)
      BY <1>2, <2>1, <2>3, ClassIs, InOrderRange
    <3>2. ScopeOf(d, c) <=> \A i \in Positions(d) : d.params[i].default.uses \subseteq {}
      BY <2>2, <3>1 DEF ScopeOf
    <3>3. DefaultsUnsupplied <=> \E i \in Positions(d) : d.params[i].default.uses # {}
      BY <1>4, <2>3 DEF DefaultsUnsupplied
    <3>4. \A i \in Positions(d) : d.params[i].default.uses \subseteq {} <=> d.params[i].default.uses = {}
      OBVIOUS
    <3> QED BY <2>0, <3>2, <3>3, <3>4
  <2>4. CASE ~AllDefaulted(d)
    <3>1. ScopeOf(d, c)
      BY <2>1, <2>4, NonePassed DEF ScopeOf
    <3> QED BY <2>0, <2>4, <3>1 DEF DefaultsUnsupplied
  <2> QED BY <2>3, <2>4
<1>5. ASSUME NEW k \in DOMAIN constructors, constructors[k] # NoArgument(d)[1] \/ NoArgument(d) = << >>
      PROVE  ScopeOf(d, constructors[k])
  <2>1. Kind(constructors, d, plan.overloads, k)
    BY <1>2, <1>3, Kinds
  <2>2. CASE constructors[k] = Primary(d)
    BY <2>2, NonePassed DEF Primary, ScopeOf
  <2>3. CASE \E m \in DOMAIN plan.overloads : constructors[k] = Overload(d, plan.overloads[m])
    BY <2>3, OverloadScope
  <2>4. CASE \E m \in DOMAIN d.secondaries : constructors[k] = Secondary(d.secondaries[m])
    BY <2>4, NonePassed DEF Secondary, ScopeOf
  <2> QED BY <1>5, <2>1, <2>2, <2>3, <2>4 DEF Kind
<1>6. ASSUME NoArgument(d) # << >> PROVE \E k \in DOMAIN constructors : constructors[k] = NoArgument(d)[1]
  <2> DEFINE n == Len(plan.overloads)
             b == Len(d.secondaries)
             extra == Len(NoArgument(d))
  <2>1. extra = 1
    BY <1>6, NoArgumentIs
  <2>2. b \in Nat
    BY <1>2, SequenceIs DEF KotlinClass
  <2>3. /\ DOMAIN constructors = 1 .. 1 + n + 1 + b
        /\ constructors[1 + n + 1] = NoArgument(d)[1]
    <3>1. /\ Len(constructors) = 1 + n + extra + b /\ DOMAIN constructors = 1 .. Len(constructors)
          /\ \A k \in 1 .. extra : constructors[1 + n + k] = NoArgument(d)[k]
      BY <1>3 DEF Lists
    <3> HIDE DEF n, b, extra
    <3> QED BY <2>1, <3>1
  <2>4. n \in Nat
    BY <1>3
  <2> HIDE DEF n, b, extra
  <2>5. 1 + n + 1 \in 1 .. 1 + n + 1 + b
    BY <2>2, <2>4
  <2> QED BY <2>3, <2>5
<1>7. NoArgument(d) = << >> => ~DefaultsUnsupplied
  BY DEF DefaultsUnsupplied
<1>8. CASE NoArgument(d) = << >>
  BY <1>1, <1>5, <1>7, <1>8
<1>9. CASE NoArgument(d) # << >>
  <2>1. (\A k \in DOMAIN constructors : ScopeOf(d, constructors[k])) <=> ScopeOf(d, NoArgument(d)[1])
    BY <1>5, <1>6, <1>9
  <2> QED BY <1>1, <1>4, <1>9, <2>1
<1> QED BY <1>8, <1>9

(* What is below goes first.                                               *)
LEMMA OneAfterTheOther ==
  ASSUME NEW A, A \subseteq Nat, IsFiniteSet(A), NEW B, B \subseteq Nat, IsFiniteSet(B),
         \A a \in A, b \in B : a < b
  PROVE  Ascending(A) \o Ascending(B) = Ascending(A \cup B)
<1> DEFINE s == Ascending(A)
           t == Ascending(B)
           m == Cardinality(A)
           n == Cardinality(B)
<1>1. /\ m \in Nat /\ s \in [1 .. m -> A]
      /\ \A j, k \in 1 .. m : j < k => s[j] < s[k]
      /\ \A i \in A : \E k \in 1 .. m : s[k] = i
  BY AscendingIs
<1>2. /\ n \in Nat /\ t \in [1 .. n -> B]
      /\ \A j, k \in 1 .. n : j < k => t[j] < t[k]
      /\ \A i \in B : \E k \in 1 .. n : t[k] = i
  BY AscendingIs
<1>. HIDE DEF s, t, m, n
<1>3. s \in Seq(Nat) /\ t \in Seq(Nat) /\ Len(s) = m /\ Len(t) = n
  <2>1. s \in [1 .. m -> Nat] /\ t \in [1 .. n -> Nat]
    BY <1>1, <1>2
  <2> QED BY <1>1, <1>2, <2>1
<1> DEFINE u == s \o t
<1>4. u \in [1 .. m + n -> Nat]
  <2>1. u \in Seq(Nat) /\ Len(u) = m + n
    BY <1>3
  <2> HIDE DEF u
  <2> QED BY <2>1
<1>5. /\ \A k \in 1 .. m : u[k] = s[k]
      /\ \A k \in 1 .. n : u[m + k] = t[k]
  BY <1>1, <1>2, <1>3
<1>. HIDE DEF u
<1>6. \A j, k \in 1 .. m + n : j < k => u[j] < u[k]
  <2> SUFFICES ASSUME NEW j \in 1 .. m + n, NEW k \in 1 .. m + n, j < k PROVE u[j] < u[k]
    OBVIOUS
  <2>1. CASE k <= m
    BY <1>1, <1>5, <2>1
  <2>2. CASE j > m
    <3> DEFINE a == j - m
               b == k - m
    <3>1. a \in 1 .. n /\ b \in 1 .. n /\ a < b /\ j = m + a /\ k = m + b
      BY <1>1, <1>2, <2>2
    <3> HIDE DEF a, b
    <3> QED BY <1>2, <1>5, <3>1
  <2>3. CASE j <= m /\ k > m
    <3> DEFINE b == k - m
    <3>1. j \in 1 .. m /\ b \in 1 .. n /\ k = m + b
      BY <1>1, <1>2, <2>3
    <3> HIDE DEF b
    <3>2. u[j] \in A /\ u[k] \in B
      BY <1>1, <1>2, <1>5, <3>1
    <3> QED BY <3>2
  <2> QED BY <1>1, <2>1, <2>2, <2>3
<1>7. {u[k] : k \in 1 .. m + n} = A \cup B
  <2>1. \A k \in 1 .. m + n : u[k] \in A \cup B
    <3> SUFFICES ASSUME NEW k \in 1 .. m + n PROVE u[k] \in A \cup B
      OBVIOUS
    <3>1. CASE k <= m
      BY <1>1, <1>5, <3>1
    <3>2. CASE k > m
      <4> DEFINE b == k - m
      <4>1. b \in 1 .. n /\ k = m + b
        BY <1>1, <1>2, <3>2
      <4> HIDE DEF b
      <4> QED BY <1>2, <1>5, <4>1
    <3> QED BY <1>1, <3>1, <3>2
  <2>2. ASSUME NEW i \in A PROVE \E k \in 1 .. m + n : u[k] = i
    <3>1. PICK k \in 1 .. m : s[k] = i
      BY <1>1
    <3> QED BY <1>1, <1>2, <1>5, <3>1
  <2>3. ASSUME NEW i \in B PROVE \E k \in 1 .. m + n : u[k] = i
    <3>1. PICK k \in 1 .. n : t[k] = i
      BY <1>2
    <3>2. m + k \in 1 .. m + n
      BY <1>1, <1>2
    <3> QED BY <1>5, <3>1, <3>2
  <2> QED BY <2>1, <2>2, <2>3
<1>8. m + n \in Nat
  BY <1>1, <1>2
<1>9. Ascending({u[k] : k \in 1 .. m + n}) = u
  BY <1>4, <1>6, <1>8, AscendingOnly
<1> QED BY <1>7, <1>9 DEF u, s, t

(* The first n numbers in order.                                           *)
LEMMA InPlace ==
  ASSUME NEW n \in Nat
  PROVE  Ascending(1 .. n) = [k \in 1 .. n |-> k]
<1> DEFINE s == [k \in 1 .. n |-> k]
<1>1. s \in [1 .. n -> Nat] /\ \A j, k \in 1 .. n : j < k => s[j] < s[k]
  OBVIOUS
<1>2. {s[k] : k \in 1 .. n} = 1 .. n
  OBVIOUS
<1>. HIDE DEF s
<1>3. Ascending({s[k] : k \in 1 .. n}) = s
  BY <1>1, AscendingOnly
<1> QED BY <1>2, <1>3 DEF s

(* And no number.                                                          *)
LEMMA NoneInOrder == Ascending({}) = << >>
<1>1. Ascending(1 .. 0) = [k \in 1 .. 0 |-> k]
  BY InPlace
<1>2. 1 .. 0 = {} /\ [k \in {} |-> k] = << >>
  OBVIOUS
<1> QED BY <1>1, <1>2

(* Which constructor a delegation reaches.                                 *)
LEMMA ChosenIs ==
  ASSUME NEW args, NEW n \in Nat, DOMAIN args = 1 .. n, Compiles(args)
  PROVE  /\ Chosen(args) \in MostSpecific(TypesOf(args))
         /\ Chosen(args) \in DOMAIN constructors
         /\ Len(constructors[Chosen(args)].takes) = n
<1> DEFINE S == MostSpecific(TypesOf(args))
<1>1. Cardinality(S) = 1
  BY DEF Compiles
<1>2. \A k \in S : k \in DOMAIN constructors /\ Applicable(constructors[k].takes, TypesOf(args))
  BY DEF MostSpecific
<1>3. Len(TypesOf(args)) = n
  BY DEF TypesOf
<1>4. Chosen(args) = CHOOSE k \in S : TRUE
  BY DEF Chosen
<1>. HIDE DEF S
<1>5. S # {}
  BY <1>1, FS_EmptySet
<1>6. Chosen(args) \in S
  BY <1>4, <1>5
<1> QED BY <1>2, <1>3, <1>6 DEF Applicable, S

(* A call whose arguments have exactly the types of a constructor reaches  *)
(* that one, if it compiles.                                               *)
LEMMA ExactChosen ==
  ASSUME NEW args, Compiles(args), IsFiniteSet(DOMAIN constructors),
         NEW k \in DOMAIN constructors, constructors[k].takes = TypesOf(args)
  PROVE  Chosen(args) = k
<1> DEFINE types == TypesOf(args)
           S == MostSpecific(types)
<1>1. \A u : u = types => Applicable(u, types)
  BY DEF Applicable, Accepts
<1>2. k \in S
  BY <1>1 DEF MostSpecific
<1>3. IsFiniteSet(S)
  <2>1. S \in SUBSET DOMAIN constructors
    BY DEF MostSpecific
  <2> HIDE DEF S
  <2> QED BY <2>1, FS_Subset
<1>4. Cardinality(S) = 1
  BY DEF Compiles
<1>5. Chosen(args) = CHOOSE m \in S : TRUE
  BY DEF Chosen
<1>. HIDE DEF S
<1>6. PICK x : S = {x}
  BY <1>3, <1>4, FS_Singleton
<1>7. Chosen(args) \in S
  BY <1>2, <1>5
<1> QED BY <1>2, <1>6, <1>7

(* A constructor that delegates to no other knows its parameters by their  *)
(* places.                                                                 *)
Direct(c) ==
  /\ c.kind # "delegating" /\ Len(c.takes) \in Nat
  /\ DOMAIN c.of = 1 .. Len(c.takes) /\ \A k \in 1 .. Len(c.takes) : c.of[k] = k

(* The primary and the secondary constructors are direct; the one without  *)
(* parameters is, or it delegates.                                         *)
LEMMA DirectIs ==
  ASSUME NEW d, KotlinClass(d)
  PROVE  /\ Direct(Primary(d)) /\ Len(Primary(d).takes) = Len(d.params)
         /\ \A m \in DOMAIN d.secondaries : Direct(Secondary(d.secondaries[m]))
         /\ NoArgument(d) # << >> =>
              \/ Direct(NoArgument(d)[1])
              \/ NoArgument(d)[1].kind = "delegating"
<1> DEFINE n == Len(d.params)
<1>1. n \in Nat /\ Positions(d) = 1 .. n /\ Cardinality(Positions(d)) = n
  BY ClassIs
<1>2. Len(Primary(d).takes) = n
  BY <1>1, TypesIs DEF Primary
<1>3. Primary(d).of = [k \in 1 .. n |-> k]
  <2>1. Primary(d).of = Ascending(1 .. n)
    BY <1>1 DEF Primary
  <2> HIDE DEF n
  <2> QED BY <1>1, <2>1, InPlace
<1>4. Primary(d).kind # "delegating"
  BY DEF Primary
<1>5. Direct(Primary(d))
  <2> HIDE DEF n
  <2> QED BY <1>1, <1>2, <1>3, <1>4 DEF Direct
<1>6. ASSUME NEW m \in DOMAIN d.secondaries PROVE Direct(Secondary(d.secondaries[m]))
  <2> DEFINE types == d.secondaries[m]
  <2>1. IsSequence(types)
    BY DEF KotlinClass, Range
  <2> HIDE DEF types
  <2>2. Len(types) \in Nat /\ DOMAIN types = 1 .. Len(types)
    BY <2>1, SequenceIs
  <2>3. /\ Secondary(types).takes = types /\ Secondary(types).kind # "delegating"
        /\ Secondary(types).of = [k \in DOMAIN types |-> k]
    BY DEF Secondary
  <2> QED BY <2>2, <2>3 DEF Direct, types
<1>7. ASSUME NoArgument(d) # << >>
      PROVE  Direct(NoArgument(d)[1]) \/ NoArgument(d)[1].kind = "delegating"
  <2>1. PICK c : c = NoArgument(d)[1]
    OBVIOUS
  <2>2. WithoutArguments(d, c)
    BY <1>7, <2>1, NoArgumentPasses
  <2>3. c.takes = << >> /\ c.of = << >> /\ (c.kind = "delegating" \/ c.kind = "cleared")
    BY <2>2 DEF WithoutArguments, FillsAll, Clears
  <2> QED BY <2>1, <2>3 DEF Direct
<1> QED BY <1>2, <1>5, <1>6, <1>7

(* How many parameters it takes.                                           *)
Arity(k) == Len(constructors[k].takes)

(* The constructors of a class by what they are and how many parameters    *)
(* they take.                                                              *)
LEMMA ArityIs ==
  ASSUME NEW d, Moved(d), NEW k \in DOMAIN constructors
  PROVE  \/ constructors[k] = Primary(d) /\ Arity(k) = Len(d.params)
         \/ \E m \in DOMAIN plan.overloads :
              /\ constructors[k] = Overload(d, plan.overloads[m])
              /\ Arity(k) = Len(d.params) - Cardinality(plan.overloads[m])
         \/ NoArgument(d) # << >> /\ constructors[k] = NoArgument(d)[1] /\ Arity(k) = 0 /\ Len(d.params) > 0
         \/ \E m \in DOMAIN d.secondaries :
              constructors[k] = Secondary(d.secondaries[m]) /\ Arity(k) = Len(d.secondaries[m])
<1>1. KotlinClass(d)
  BY DEF Moved
<1>2. Kind(constructors, d, plan.overloads, k)
  BY <1>1, MovedIs, Kinds DEF Moved
<1>3. ASSUME NEW m \in DOMAIN plan.overloads
      PROVE  Len(Overload(d, plan.overloads[m]).takes) = Len(d.params) - Cardinality(plan.overloads[m])
  <2> DEFINE p == plan.overloads[m]
  <2>1. p \subseteq Positions(d)
    BY MovedIs
  <2> HIDE DEF p
  <2>2. Kept(d, p) \subseteq Positions(d) /\ Cardinality(Kept(d, p)) = Len(d.params) - Cardinality(p)
    BY <1>1, <2>1, KeptIs
  <2>3. Len(Types(d, Kept(d, p))) = Cardinality(Kept(d, p))
    BY <1>1, <2>2, TypesIs
  <2>4. Overload(d, p).takes = Types(d, Kept(d, p))
    BY DEF Overload, Kept
  <2> QED BY <2>2, <2>3, <2>4 DEF p
<1>4. NoArgument(d) # << >> => Len(NoArgument(d)[1].takes) = 0 /\ Len(d.params) > 0
  <2>1. NoArgument(d) # << >> => NoArgument(d)[1].takes = << >> /\ Len(d.params) > 0
    BY <1>1, TakesIs
  <2> QED BY <2>1
<1>5. \A m \in DOMAIN d.secondaries : Len(Secondary(d.secondaries[m]).takes) = Len(d.secondaries[m])
  BY DEF Secondary
<1>6. Len(Primary(d).takes) = Len(d.params)
  BY <1>1, DirectIs
<1> QED BY <1>2, <1>3, <1>4, <1>5, <1>6 DEF Kind, Arity

(* An overload reaches the rung before its own, or a constructor that      *)
(* takes every parameter; the one the persistence rule writes reaches the  *)
(* latter.                                                                 *)
Reaches(d, p, t) ==
  /\ t \in DOMAIN constructors
  /\ Arity(t) = Cardinality(Rest(d, p))
  /\ \/ DelegateOmits(d, p) = {} /\ Direct(constructors[t])
     \/ \E m \in DOMAIN plan.overloads :
          /\ m - 1 \in DOMAIN plan.overloads /\ p = plan.overloads[m] /\ OnLadder(d, m)
          /\ DelegateOmits(d, p) = plan.overloads[m - 1]
          /\ constructors[t] = Overload(d, plan.overloads[m - 1])

(* Only a direct constructor takes as many parameters as the class has.    *)
LEMMA FullArity ==
  ASSUME NEW d, Moved(d), NEW t \in DOMAIN constructors, Arity(t) = Len(d.params),
         Len(d.params) > 0
  PROVE  Direct(constructors[t])
<1>1. KotlinClass(d) /\ Len(d.params) \in Nat
  BY ClassIs DEF Moved
<1>2. \A m \in DOMAIN plan.overloads : Cardinality(plan.overloads[m]) \in 1 .. Len(d.params)
  BY MovedIs
<1> DEFINE n == Len(d.params)
<1>3. \A m \in DOMAIN plan.overloads : n - Cardinality(plan.overloads[m]) # n
  <2> HIDE DEF n
  <2> SUFFICES ASSUME NEW m \in DOMAIN plan.overloads PROVE n - Cardinality(plan.overloads[m]) # n
    OBVIOUS
  <2> DEFINE c == Cardinality(plan.overloads[m])
  <2>1. c \in 1 .. n /\ n \in Nat
    BY <1>1, <1>2 DEF n
  <2> HIDE DEF c
  <2>2. n - c # n
    BY <2>1
  <2> QED BY <2>2 DEF c
<1>4. constructors[t] = Primary(d) \/ \E m \in DOMAIN d.secondaries : constructors[t] = Secondary(d.secondaries[m])
  <2> HIDE DEF n
  <2>1. n # 0
    BY <1>1 DEF n
  <2> QED BY <1>3, <2>1, ArityIs DEF n
<1> QED BY <1>1, <1>4, DirectIs

(* A class has finitely many constructors.                                 *)
LEMMA FiniteConstructors ==
  ASSUME NEW d, Moved(d)
  PROVE  IsFiniteSet(DOMAIN constructors)
<1>1. DOMAIN constructors = 1 .. Len(constructors) /\ Len(constructors) \in Nat
  BY MovedIs
<1> DEFINE n == Len(constructors)
<1> HIDE DEF n
<1>2. n \in Nat => IsFiniteSet(1 .. n)
  BY FS_Interval
<1> QED BY <1>1, <1>2 DEF n

(* An overload that competes with others of its length passes exact types, *)
(* and one that does not has no other to reach.                            *)
LEMMA OverloadTarget ==
  ASSUME NEW d, Moved(d), NEW m \in DOMAIN plan.overloads, NEW c,
         c = Overload(d, plan.overloads[m]), Compiles(c.passes)
  PROVE  Reaches(d, plan.overloads[m], Chosen(c.passes))
<1> DEFINE p == plan.overloads[m]
           args == c.passes
           t == Chosen(args)
           rest == Rest(d, p)
           h == Cardinality(rest)
           n == Len(d.params)
<1>1. /\ h \in Nat /\ DOMAIN args = 1 .. h
      /\ \A k \in 1 .. h :
           args[k].type = IF Ascending(rest)[k] \in p THEN PassedType(d, Ascending(rest)[k], p)
                          ELSE d.params[Ascending(rest)[k]].type
  <2>1. PassesOn(d, p)
    BY OverloadPasses
  <2>2. args = Overload(d, p).passes
    OBVIOUS
  <2> HIDE DEF p, args
  <2>3. /\ h \in Nat /\ DOMAIN args = 1 .. h
        /\ \A k \in 1 .. h :
             args[k] = IF Ascending(rest)[k] \in p
                       THEN [from |-> <<"default", Ascending(rest)[k]>>, type |-> PassedType(d, Ascending(rest)[k], p)]
                       ELSE [from |-> <<"parameter", Ascending(rest)[k]>>, type |-> d.params[Ascending(rest)[k]].type]
    BY <2>1, <2>2 DEF PassesOn
  <2> HIDE DEF rest, h
  <2> QED BY <2>3
<1>2. KotlinClass(d) /\ p \subseteq Positions(d) /\ n \in Nat /\ n > 0
  <2>1. KotlinClass(d) /\ p \subseteq Positions(d) /\ p # {}
    BY MovedIs DEF Moved
  <2>2. Len(d.params) \in Nat /\ Positions(d) = 1 .. Len(d.params)
    BY <2>1, ClassIs
  <2> HIDE DEF p
  <2>3. n # 0
    BY <2>1, <2>2
  <2> QED BY <2>1, <2>2, <2>3
<1>3. t \in DOMAIN constructors /\ Arity(t) = h
  <2> HIDE DEF h, args
  <2> QED BY <1>1, ChosenIs DEF Arity, args
<1>4. DelegateOmits(d, p) \subseteq p /\ (OnLadder(d, m) \/ OffLadder(d, m))
  BY DelegateIs
<1>. HIDE DEF h, t, n, p, args, rest
<1>5. CASE DelegateOmits(d, p) = {}
  <2>1. rest = Positions(d)
    BY <1>5 DEF rest, Rest, Kept
  <2>2. h = n
    BY <1>2, <2>1, ClassIs DEF h, n
  <2>3. Direct(constructors[t])
    BY <1>2, <1>3, <2>2, FullArity DEF n
  <2> QED BY <1>3, <1>5, <2>3 DEF Reaches, h, p, t, args, rest
<1>6. CASE OnLadder(d, m) /\ m # 1
  <2> DEFINE q == plan.overloads[m - 1]
  <2>1. m - 1 \in DOMAIN plan.overloads /\ DelegateOmits(d, p) = q /\ Rung(d, p) = m /\ m \in DOMAIN plan.ladder
    BY <1>6 DEF OnLadder, p
  <2>2. m \in Nat /\ Cardinality(p) = m /\ m <= n /\ m > 0
    <3>1. DOMAIN plan.ladder = 1 .. Len(plan.ladder) /\ Len(plan.ladder) \in Nat
          /\ plan.overloads[m] = plan.ladder[m] /\ Cardinality(plan.ladder[m]) = m
      BY <2>1 DEF Moved, Shape, Steps
    <3>2. Cardinality(p) \in 1 .. n
      BY MovedIs DEF n, p
    <3> QED BY <1>2, <2>1, <3>1, <3>2 DEF p
  <2>3. q \subseteq Positions(d) /\ Cardinality(q) = m - 1 /\ m - 1 \in Nat /\ m - 1 > 0
    <3>1. m - 1 \in DOMAIN plan.ladder
      BY <1>6 DEF OnLadder
    <3>2. plan.overloads[m - 1] = plan.ladder[m - 1] /\ Cardinality(plan.ladder[m - 1]) = m - 1
      BY <3>1 DEF Moved, Shape, Steps
    <3> QED BY <1>6, <2>1, <2>2, <3>2, MovedIs
  <2> HIDE DEF q
  <2>4. rest = Kept(d, q) /\ h = n - (m - 1)
    <3>1. rest = Kept(d, q)
      BY <2>1 DEF rest, Rest
    <3>2. Cardinality(Kept(d, q)) = n - Cardinality(q)
      BY <1>2, <2>3, KeptIs DEF n
    <3> QED BY <2>3, <3>1, <3>2 DEF h
  <2>5. CASE Competing(d, q)
    <3>1. \A i : PassedType(d, i, p) = d.params[i].type
      BY <2>1, <2>2, <2>5 DEF PassedType
    <3>2. TypesOf(args) = [k \in 1 .. h |-> d.params[Ascending(rest)[k]].type]
      <4>1. \A k \in 1 .. h : args[k].type = d.params[Ascending(rest)[k]].type
        BY <1>1, <3>1
      <4>2. TypesOf(args) = [k \in 1 .. h |-> args[k].type]
        BY <1>1 DEF TypesOf
      <4> QED BY <4>1, <4>2
    <3>3. TypesOf(args) = Types(d, rest)
      BY <3>2 DEF Types, h
    <3>4. Overload(d, q).takes = Types(d, rest)
      BY <2>4 DEF Overload, Kept
    <3>5. m \in DOMAIN constructors /\ constructors[m] = Overload(d, q)
      <4>1. Lists(constructors, d, plan.overloads)
        BY DEF Moved
      <4>2. plan.overloads[m - 1] = q /\ m - 1 \in 1 .. Len(plan.overloads) /\ Len(plan.overloads) \in Nat
        BY <2>1, MovedIs DEF q
      <4>3. constructors[1 + (m - 1)] = Overload(d, q)
        BY <4>1, <4>2 DEF Lists
      <4>4. DOMAIN constructors = 1 .. Len(constructors)
            /\ Len(constructors) = 1 + Len(plan.overloads) + Len(NoArgument(d)) + Len(d.secondaries)
        BY <4>1 DEF Lists
      <4>5. Len(NoArgument(d)) \in Nat /\ Len(d.secondaries) \in Nat
        <5>1. Len(d.secondaries) \in Nat
          BY <1>2, SequenceIs DEF KotlinClass
        <5> QED BY <5>1, NoArgumentIs
      <4> DEFINE x == Len(plan.overloads)
                 y == Len(NoArgument(d))
                 z == Len(d.secondaries)
                 w == Len(constructors)
      <4>6. x \in Nat /\ y \in Nat /\ z \in Nat /\ w = 1 + x + y + z /\ m - 1 \in 1 .. x
        BY <4>2, <4>4, <4>5
      <4> HIDE DEF x, y, z, w
      <4>7. m \in 1 .. w /\ 1 + (m - 1) = m
        BY <2>2, <4>6
      <4> QED BY <4>3, <4>4, <4>7 DEF w
    <3>6. Compiles(args)
      BY DEF args
    <3>7. t = m
      <4>1. constructors[m].takes = TypesOf(args)
        BY <3>3, <3>4, <3>5
      <4> QED BY <3>5, <3>6, <4>1, ExactChosen, FiniteConstructors DEF t
    <3>8. constructors[t] = Overload(d, q)
      BY <3>5, <3>7
    <3> QED BY <1>3, <1>6, <2>1, <3>8 DEF Reaches, h, p, t, args, rest, q
  <2>6. CASE ~Competing(d, q)
    <3>1. ASSUME NEW k \in DOMAIN plan.overloads, Arity(t) = n - Cardinality(plan.overloads[k])
          PROVE  plan.overloads[k] = q
      <4> DEFINE x == Cardinality(plan.overloads[k])
      <4>1. x \in 1 .. n
        BY MovedIs DEF n
      <4>2. x = Cardinality(q)
        <5>1. n - x = n - (m - 1)
          BY <1>3, <2>4, <3>1
        <5> HIDE DEF x
        <5> QED BY <1>2, <2>2, <2>3, <4>1, <5>1
      <4>3. plan.overloads[k] \in Range(plan.overloads)
        BY DEF Range
      <4> QED BY <2>6, <4>2, <4>3 DEF Competing
    <3>2. ASSUME NEW k \in DOMAIN d.secondaries, Arity(t) = Len(d.secondaries[k])
          PROVE  FALSE
      <4>1. d.secondaries[k] \in Range(d.secondaries)
        BY DEF Range
      <4>2. Len(d.secondaries[k]) = n - Cardinality(q)
        BY <1>3, <2>3, <2>4, <3>2
      <4> QED BY <2>6, <4>1, <4>2 DEF Competing, n
    <3>3. Arity(t) # 0 /\ Arity(t) # n
      BY <1>2, <1>3, <2>2, <2>3, <2>4
    <3>4. constructors[t] = Overload(d, q)
      BY <1>3, <3>1, <3>2, <3>3, ArityIs DEF n
    <3> QED BY <1>3, <1>6, <2>1, <3>4 DEF Reaches, h, p, t, args, rest, q
  <2> QED BY <2>5, <2>6
<1>7. DelegateOmits(d, p) = {} \/ (OnLadder(d, m) /\ m # 1)
  BY <1>4 DEF OnLadder, OffLadder, p
<1> QED BY <1>5, <1>6, <1>7

(* The constructor without parameters reaches a direct one with all of     *)
(* them.                                                                   *)
LEMMA NoArgumentTarget ==
  ASSUME NEW d, Moved(d), NEW c, NoArgument(d) # << >>, c = NoArgument(d)[1],
         c.kind = "delegating", Compiles(c.passes)
  PROVE  LET t == Chosen(c.passes)
         IN t \in DOMAIN constructors /\ Arity(t) = Len(d.params) /\ Direct(constructors[t])
<1> DEFINE t == Chosen(c.passes)
<1>1. KotlinClass(d)
  BY DEF Moved
<1>2. DOMAIN c.passes = 1 .. Len(d.params) /\ Len(d.params) \in Nat
  <2>1. WithoutArguments(d, c)
    BY <1>1, NoArgumentPasses
  <2> QED BY <1>1, <2>1, ClassIs DEF WithoutArguments, FillsAll, Clears
<1>3. t \in DOMAIN constructors /\ Arity(t) = Len(d.params)
  <2> DEFINE n == Len(d.params)
  <2>1. n \in Nat /\ DOMAIN c.passes = 1 .. n
    BY <1>2
  <2> HIDE DEF n
  <2>2. t \in DOMAIN constructors /\ Arity(t) = n
    BY <2>1, ChosenIs DEF Arity
  <2> QED BY <2>2 DEF n
<1>4. Len(d.params) > 0
  BY <1>1, TakesIs
<1>. HIDE DEF t
<1>5. Direct(constructors[t])
  BY <1>3, <1>4, FullArity
<1> QED BY <1>3, <1>5 DEF t

-----------------------------------------------------------------------------
(* A running constructor. *)

(* A running constructor: the defaults evaluated so far are the ones its   *)
(* parameters got, in order, and come before every one it leaves out.      *)
Bound(c, gets) == {c.of[k] : k \in {j \in DOMAIN gets : gets[j][1] = "default"}}
RunsWith(d, k, gets, ev) ==
  /\ k \in DOMAIN constructors
  /\ DOMAIN gets = 1 .. Arity(k)
  /\ ev = Ascending(Bound(constructors[k], gets))
  /\ \A b \in Bound(constructors[k], gets), x \in Positions(d) \ Range(constructors[k].of) : b < x
Handed(c, gets, arg) ==
  IF arg.from[1] = "parameter" THEN gets[CHOOSE k \in DOMAIN c.of : c.of[k] = arg.from[2]]
  ELSE arg.from

(* Delegating from an overload keeps the defaults evaluated in order and   *)
(* ahead of those left out.                                                *)
LEMMA OverloadRuns ==
  ASSUME NEW d, Moved(d), NEW m \in DOMAIN plan.overloads, NEW k, NEW gets, NEW ev,
         RunsWith(d, k, gets, ev), NEW c, c = Overload(d, plan.overloads[m]), constructors[k] = c,
         Compiles(c.passes), NEW after,
         after = [j \in DOMAIN c.passes |-> Handed(c, gets, c.passes[j])]
  PROVE  RunsWith(d, Chosen(c.passes), after, ev \o DefaultsPassed(c))
<1> DEFINE p == plan.overloads[m]
           t == Chosen(c.passes)
           rest == Rest(d, p)
           order == Ascending(rest)
           h == Cardinality(rest)
           kept == Kept(d, p)
           w == Cardinality(kept)
           bound == Bound(c, gets)
           fills == Fills(d, p)
<1>1. KotlinClass(d) /\ p \subseteq Positions(d) /\ DelegateOmits(d, p) \subseteq p
  BY MovedIs, DelegateIs DEF Moved
<1>2. /\ rest = Positions(d) \ DelegateOmits(d, p) /\ kept = Positions(d) \ p /\ fills = p \ DelegateOmits(d, p)
  BY DEF Rest, Kept, Fills
<1>3. /\ IsFiniteSet(rest) /\ rest \subseteq Nat /\ IsFiniteSet(kept) /\ kept \subseteq Nat
      /\ IsFiniteSet(fills) /\ fills \subseteq Nat /\ Positions(d) \subseteq Nat
  <2> HIDE DEF rest, kept, fills, p
  <2>1. rest \in SUBSET Positions(d) /\ kept \in SUBSET Positions(d) /\ fills \in SUBSET Positions(d)
    BY <1>1, <1>2
  <2> QED BY <1>1, <2>1, ClassIs
<1>4. /\ h \in Nat /\ order \in [1 .. h -> rest]
      /\ \A i \in rest : \E j \in 1 .. h : order[j] = i
  <2> HIDE DEF rest
  <2> QED BY <1>3, AscendingIs
<1>5. /\ w \in Nat /\ c.of \in [1 .. w -> kept]
      /\ \A i \in kept : \E j \in 1 .. w : c.of[j] = i
      /\ \A i, j \in 1 .. w : i < j => c.of[i] < c.of[j]
  <2>1. c.of = Ascending(kept)
    BY DEF Overload, Kept
  <2> HIDE DEF kept
  <2> QED BY <1>3, <2>1, AscendingIs
<1>6. /\ DOMAIN c.passes = 1 .. h
      /\ \A j \in 1 .. h : c.passes[j].from = IF order[j] \in p THEN <<"default", order[j]>>
                                              ELSE <<"parameter", order[j]>>
      /\ DefaultsPassed(c) = Ascending(fills)
  <2>1. PassesOn(d, p)
    BY OverloadPasses
  <2>2. c = Overload(d, p)
    OBVIOUS
  <2> HIDE DEF p
  <2>3. /\ DOMAIN c.passes = 1 .. h /\ DefaultsPassed(c) = Ascending(fills)
        /\ \A j \in 1 .. h :
             c.passes[j] =
               IF order[j] \in p THEN [from |-> <<"default", order[j]>>, type |-> PassedType(d, order[j], p)]
               ELSE [from |-> <<"parameter", order[j]>>, type |-> d.params[order[j]].type]
    BY <2>1, <2>2 DEF PassesOn
  <2> HIDE DEF h, order, fills
  <2>4. ASSUME NEW j \in 1 .. h
        PROVE  c.passes[j].from = IF order[j] \in p THEN <<"default", order[j]>> ELSE <<"parameter", order[j]>>
    <3>1. CASE order[j] \in p
      <4>1. c.passes[j] = [from |-> <<"default", order[j]>>, type |-> PassedType(d, order[j], p)]
        BY <2>3, <3>1
      <4> QED BY <3>1, <4>1
    <3>2. CASE order[j] \notin p
      <4>1. c.passes[j] = [from |-> <<"parameter", order[j]>>, type |-> d.params[order[j]].type]
        BY <2>3, <3>2
      <4> QED BY <3>2, <4>1
    <3> QED BY <3>1, <3>2
  <2> QED BY <2>3, <2>4
<1>7. Reaches(d, p, t)
  BY OverloadTarget
<1>8. Arity(k) = w
  <2>1. c.takes = Types(d, kept)
    BY DEF Overload, Kept
  <2> HIDE DEF w, kept
  <2>2. Len(Types(d, kept)) = w
    BY <1>1, <1>2, TypesIs DEF w
  <2> QED BY <2>1, <2>2 DEF Arity
<1>9. /\ DOMAIN gets = 1 .. w /\ ev = Ascending(bound)
      /\ \A b \in bound, x \in Positions(d) \ Range(c.of) : b < x
  <2> HIDE DEF w, bound
  <2> QED BY <1>8 DEF RunsWith, bound
<1>10. t \in DOMAIN constructors /\ Arity(t) = h
  BY <1>7 DEF Reaches
<1>. HIDE DEF p, t, rest, order, h, kept, w, fills
<1>11. Range(c.of) = kept
  BY <1>5 DEF Range
<1>12. bound \subseteq kept /\ \A i : i \in bound <=> \E j \in 1 .. w : i = c.of[j] /\ gets[j][1] = "default"
  BY <1>5, <1>9 DEF Bound
<1>. HIDE DEF bound
<1>13. ASSUME NEW j \in 1 .. h
       PROVE  IF order[j] \in p THEN after[j][1] = "default"
              ELSE \E i \in 1 .. w : c.of[i] = order[j] /\ after[j] = gets[i]
  <2> DEFINE arg == c.passes[j]
             f == arg.from
  <2>1. f = IF order[j] \in p THEN <<"default", order[j]>> ELSE <<"parameter", order[j]>>
    BY <1>6
  <2>2. after[j] = Handed(c, gets, arg)
    BY <1>6
  <2>3. "default" # "parameter"
    OBVIOUS
  <2>4. after[j] = IF f[1] = "parameter" THEN gets[CHOOSE i \in DOMAIN c.of : c.of[i] = f[2]] ELSE f
    BY <2>2 DEF Handed
  <2> HIDE DEF f
  <2>5. CASE order[j] \in p
    BY <2>1, <2>3, <2>4, <2>5
  <2>6. CASE order[j] \notin p
    <3>1. f[1] = "parameter" /\ f[2] = order[j]
      BY <2>1, <2>6
    <3>2. after[j] = gets[CHOOSE i \in DOMAIN c.of : c.of[i] = order[j]]
      BY <2>4, <3>1
    <3>3. order[j] \in kept
      BY <1>1, <1>2, <1>4, <2>6
    <3>4. \E i \in DOMAIN c.of : c.of[i] = order[j]
      BY <1>5, <3>3
    <3> DEFINE i == CHOOSE i \in DOMAIN c.of : c.of[i] = order[j]
    <3>5. i \in DOMAIN c.of /\ c.of[i] = order[j]
      BY <3>4
    <3> HIDE DEF i
    <3>6. i \in 1 .. w
      BY <1>5, <3>5
    <3> QED BY <2>6, <3>2, <3>5, <3>6 DEF i
  <2> QED BY <2>5, <2>6
<1>14. {order[j] : j \in {i \in 1 .. h : after[i][1] = "default"}} = bound \cup fills
  <2>1. ASSUME NEW j \in 1 .. h, after[j][1] = "default" PROVE order[j] \in bound \cup fills
    <3>1. CASE order[j] \in p
      BY <1>2, <1>4, <3>1
    <3>2. CASE order[j] \notin p
      BY <1>12, <1>13, <2>1, <3>2
    <3> QED BY <3>1, <3>2
  <2>2. ASSUME NEW x \in fills PROVE \E j \in 1 .. h : order[j] = x /\ after[j][1] = "default"
    <3>1. x \in rest /\ x \in p
      BY <1>1, <1>2
    <3>2. PICK j \in 1 .. h : order[j] = x
      BY <1>4, <3>1
    <3> QED BY <1>13, <3>1, <3>2
  <2>3. ASSUME NEW x \in bound PROVE \E j \in 1 .. h : order[j] = x /\ after[j][1] = "default"
    <3>1. x \in rest /\ x \notin p /\ x \in kept
      BY <1>1, <1>2, <1>12
    <3>2. PICK j \in 1 .. h : order[j] = x
      BY <1>4, <3>1
    <3>3. PICK i \in 1 .. w : c.of[i] = x /\ after[j] = gets[i]
      BY <1>13, <3>1, <3>2
    <3>4. PICK g \in 1 .. w : c.of[g] = x /\ gets[g][1] = "default"
      BY <1>12
    <3>5. i = g
      <4>1. \A a, b \in 1 .. w : c.of[a] = c.of[b] => a = b
        <5> SUFFICES ASSUME NEW a \in 1 .. w, NEW b \in 1 .. w, a # b PROVE c.of[a] # c.of[b]
          OBVIOUS
        <5>1. c.of[a] \in Nat /\ c.of[b] \in Nat
          BY <1>3, <1>5
        <5>2. a < b \/ b < a
          BY <1>5
        <5>3. c.of[a] < c.of[b] \/ c.of[b] < c.of[a]
          BY <1>5, <5>2
        <5> QED BY <5>1, <5>3
      <4> QED BY <3>3, <3>4, <4>1
    <3> QED BY <3>2, <3>3, <3>4, <3>5
  <2> QED BY <2>1, <2>2, <2>3
<1>15. DOMAIN constructors[t].of = 1 .. h /\ \A j \in 1 .. h : constructors[t].of[j] = order[j]
  <2>1. CASE DelegateOmits(d, p) = {} /\ Direct(constructors[t])
    <3>1. rest = 1 .. Len(d.params) /\ Len(d.params) \in Nat
      BY <1>1, <1>2, <2>1, ClassIs
    <3>2. Cardinality(1 .. Len(d.params)) = Len(d.params)
      BY <1>1, ClassIs
    <3>3. h = Len(d.params)
      BY <3>1, <3>2 DEF h
    <3>4. order = Ascending(1 .. h) /\ h \in Nat
      BY <3>1, <3>3 DEF order
    <3>5. order = [j \in 1 .. h |-> j]
      BY <3>4, InPlace
    <3> QED BY <1>10, <2>1, <3>5 DEF Direct, Arity
  <2>2. CASE \E g \in DOMAIN plan.overloads :
               /\ DelegateOmits(d, p) = plan.overloads[g - 1]
               /\ constructors[t] = Overload(d, plan.overloads[g - 1])
    <3>1. PICK q : DelegateOmits(d, p) = q /\ constructors[t] = Overload(d, q)
      BY <2>2
    <3>2. constructors[t].of = Ascending(Positions(d) \ q)
      BY <3>1 DEF Overload
    <3>3. constructors[t].of = order
      BY <1>2, <3>1, <3>2 DEF order
    <3> QED BY <1>4, <3>3
  <2> QED BY <1>7, <2>1, <2>2 DEF Reaches
<1>16. DOMAIN after = 1 .. Arity(t)
  BY <1>6, <1>10
<1>17. Bound(constructors[t], after) = bound \cup fills
  <2>1. Bound(constructors[t], after) = {order[j] : j \in {i \in 1 .. h : after[i][1] = "default"}}
    BY <1>10, <1>15, <1>16 DEF Bound
  <2> QED BY <1>14, <2>1
<1>18. \A b \in bound, x \in p : b < x
  BY <1>1, <1>2, <1>9, <1>11
<1>19. ev \o DefaultsPassed(c) = Ascending(bound \cup fills)
  <2>1. bound \in SUBSET kept
    BY <1>12
  <2>2. IsFiniteSet(bound) /\ bound \subseteq Nat
    BY <1>3, <2>1, FS_Subset
  <2>3. \A b \in bound, x \in fills : b < x
    BY <1>2, <1>18
  <2>4. Ascending(bound) \o Ascending(fills) = Ascending(bound \cup fills)
    BY <1>3, <2>2, <2>3, OneAfterTheOther
  <2> QED BY <1>6, <1>9, <2>4
<1>20. ASSUME NEW b \in bound \cup fills, NEW x \in Positions(d) \ Range(constructors[t].of) PROVE b < x
  <2>1. Range(constructors[t].of) = rest
    BY <1>4, <1>15 DEF Range
  <2>2. x \in DelegateOmits(d, p) /\ x \in p
    BY <1>1, <1>2, <2>1
  <2>3. CASE b \in bound
    BY <1>18, <2>2, <2>3
  <2>4. CASE b \in fills
    <3>1. PICK g \in DOMAIN plan.overloads : p = plan.overloads[g] /\ OnLadder(d, g)
      BY <1>7, <2>2 DEF Reaches
    <3>2. PICK y \in p : fills = {y} /\ \A z \in p \ {y} : y < z
      BY <3>1 DEF OnLadder, fills
    <3> QED BY <1>2, <2>2, <2>4, <3>2
  <2> QED BY <2>3, <2>4
<1> QED BY <1>10, <1>16, <1>17, <1>19, <1>20 DEF RunsWith, t

(* The constructor without parameters evaluates them all.                  *)
LEMMA NoArgumentRuns ==
  ASSUME NEW d, Moved(d), NoArgument(d) # << >>, NEW k, NEW gets, NEW ev,
         RunsWith(d, k, gets, ev), NEW c, c = NoArgument(d)[1], constructors[k] = c,
         c.kind = "delegating", Compiles(c.passes), NEW after,
         after = [j \in DOMAIN c.passes |-> Handed(c, gets, c.passes[j])]
  PROVE  RunsWith(d, Chosen(c.passes), after, ev \o DefaultsPassed(c))
<1> DEFINE n == Len(d.params)
           t == Chosen(c.passes)
<1>1. KotlinClass(d) /\ n \in Nat /\ Positions(d) = 1 .. n
  BY ClassIs DEF Moved
<1>2. /\ c.takes = << >> /\ c.of = << >>
      /\ DOMAIN c.passes = 1 .. n /\ \A j \in 1 .. n : c.passes[j].from = <<"default", j>>
      /\ DefaultsPassed(c) = Ascending(1 .. n)
  <2>1. WithoutArguments(d, c)
    BY <1>1, NoArgumentPasses
  <2>2. "delegating" # "cleared"
    OBVIOUS
  <2> QED BY <1>1, <2>1, <2>2 DEF WithoutArguments, FillsAll, Clears
<1>3. t \in DOMAIN constructors /\ Arity(t) = n /\ Direct(constructors[t])
  BY NoArgumentTarget
<1>. HIDE DEF n, t
<1>4. ev = << >>
  <2>1. DOMAIN gets = 1 .. Len(c.takes)
    BY DEF RunsWith, Arity
  <2>2. DOMAIN gets = {}
    BY <1>2, <2>1
  <2>3. Bound(c, gets) = {}
    BY <2>2 DEF Bound
  <2> QED BY <2>3, NoneInOrder DEF RunsWith
<1>5. ev \o DefaultsPassed(c) = Ascending(1 .. n)
  <2>1. Ascending(1 .. n) = [j \in 1 .. n |-> j]
    BY <1>1, InPlace
  <2>2. Ascending(1 .. n) \in Seq(Nat)
    BY <1>1, <2>1
  <2> QED BY <1>2, <1>4, <2>2
<1>6. \A j \in 1 .. n : after[j][1] = "default"
  <2> SUFFICES ASSUME NEW j \in 1 .. n PROVE after[j][1] = "default"
    OBVIOUS
  <2> DEFINE f == c.passes[j].from
  <2>1. f = <<"default", j>> /\ "default" # "parameter"
    BY <1>2
  <2>2. after[j] = IF f[1] = "parameter" THEN gets[CHOOSE i \in DOMAIN c.of : c.of[i] = f[2]] ELSE f
    BY <1>2 DEF Handed
  <2> HIDE DEF f
  <2>3. f[1] = "default"
    BY <2>1
  <2>4. after[j] = f
    BY <2>1, <2>2, <2>3
  <2> QED BY <2>3, <2>4
<1>7. DOMAIN after = 1 .. n
  BY <1>2
<1>8. DOMAIN constructors[t].of = 1 .. n /\ \A j \in 1 .. n : constructors[t].of[j] = j
  BY <1>3 DEF Direct, Arity
<1>9. Bound(constructors[t], after) = 1 .. n
  <2>1. {j \in DOMAIN after : after[j][1] = "default"} = 1 .. n
    BY <1>6, <1>7
  <2>2. Bound(constructors[t], after) = {constructors[t].of[j] : j \in 1 .. n}
    BY <2>1 DEF Bound
  <2> DEFINE of == constructors[t].of
  <2>3. \A j \in 1 .. n : of[j] = j
    BY <1>8
  <2> HIDE DEF of
  <2>4. {of[j] : j \in 1 .. n} = 1 .. n
    BY <2>3
  <2> QED BY <2>2, <2>4 DEF of
<1>10. Range(constructors[t].of) = 1 .. n
  BY <1>8 DEF Range
<1>11. Positions(d) \ Range(constructors[t].of) = {}
  BY <1>1, <1>10
<1> QED BY <1>3, <1>5, <1>7, <1>9, <1>11 DEF RunsWith, t

(* Any delegation keeps them in order.                                     *)
LEMMA DelegateRuns ==
  ASSUME NEW d, Moved(d), NEW k, NEW gets, NEW ev, RunsWith(d, k, gets, ev),
         NEW c, constructors[k] = c, c.kind = "delegating", Compiles(c.passes), NEW after,
         after = [j \in DOMAIN c.passes |-> Handed(c, gets, c.passes[j])]
  PROVE  RunsWith(d, Chosen(c.passes), after, ev \o DefaultsPassed(c))
<1>1. k \in DOMAIN constructors
  BY DEF RunsWith
<1>2. c # Primary(d) /\ \A m \in DOMAIN d.secondaries : c # Secondary(d.secondaries[m])
  <2>1. KotlinClass(d)
    BY DEF Moved
  <2>2. Direct(Primary(d)) /\ \A m \in DOMAIN d.secondaries : Direct(Secondary(d.secondaries[m]))
    BY <2>1, DirectIs
  <2> QED BY <2>2 DEF Direct
<1>3. \/ \E m \in DOMAIN plan.overloads : c = Overload(d, plan.overloads[m])
      \/ NoArgument(d) # << >> /\ c = NoArgument(d)[1]
  BY <1>1, <1>2, ArityIs
<1>4. CASE \E m \in DOMAIN plan.overloads : c = Overload(d, plan.overloads[m])
  <2>1. PICK m \in DOMAIN plan.overloads : c = Overload(d, plan.overloads[m])
    BY <1>4
  <2> QED BY <2>1, OverloadRuns
<1>5. CASE NoArgument(d) # << >> /\ c = NoArgument(d)[1]
  BY <1>5, NoArgumentRuns
<1> QED BY <1>3, <1>4, <1>5

(* When a direct constructor runs, the defaults evaluated are the ones its *)
(* parameters got.                                                         *)
LEMMA BuildOrder ==
  ASSUME NEW d, Moved(d), NEW k, NEW gets, NEW ev, RunsWith(d, k, gets, ev),
         constructors[k].kind # "delegating"
  PROVE  ev = Ascending({i \in DOMAIN gets : gets[i][1] = "default"})
<1> DEFINE c == constructors[k]
           S == {i \in DOMAIN gets : gets[i][1] = "default"}
<1>1. k \in DOMAIN constructors /\ KotlinClass(d)
  BY DEF RunsWith, Moved
<1>2. Direct(c)
  <2>1. \A m \in DOMAIN plan.overloads : c # Overload(d, plan.overloads[m])
    BY DEF Overload
  <2>2. \/ c = Primary(d)
        \/ NoArgument(d) # << >> /\ c = NoArgument(d)[1]
        \/ \E m \in DOMAIN d.secondaries : c = Secondary(d.secondaries[m])
    <3> HIDE DEF c
    <3> QED BY <1>1, <2>1, ArityIs DEF c
  <2> HIDE DEF c
  <2>3. c.kind # "delegating"
    BY DEF c
  <2> QED BY <1>1, <2>2, <2>3, DirectIs
<1>3. DOMAIN gets = 1 .. Len(c.takes) /\ ev = Ascending(Bound(c, gets))
  BY DEF RunsWith, Arity
<1>. HIDE DEF c
<1>4. Bound(c, gets) = S
  BY <1>2, <1>3 DEF Bound, Direct
<1> QED BY <1>3, <1>4

(* What a call hands to the constructor it reaches.                        *)
Given(args) ==
  \E n \in Nat : DOMAIN args = 1 .. n /\ \A k \in 1 .. n : args[k].from[1] # "default"

(* A call evaluates none itself.                                           *)
LEMMA CallRuns ==
  ASSUME NEW d, Moved(d), NEW args, Given(args), Compiles(args), NEW gets,
         gets = [k \in DOMAIN args |-> args[k].from]
  PROVE  RunsWith(d, Chosen(args), gets, << >>)
<1>1. PICK n \in Nat : DOMAIN args = 1 .. n /\ \A k \in 1 .. n : args[k].from[1] # "default"
  BY DEF Given
<1>2. Chosen(args) \in DOMAIN constructors /\ Arity(Chosen(args)) = n
  BY <1>1, ChosenIs DEF Arity
<1>3. Bound(constructors[Chosen(args)], gets) = {}
  BY <1>1 DEF Bound
<1>4. DOMAIN gets = 1 .. n
  BY <1>1
<1> QED BY <1>2, <1>3, <1>4, NoneInOrder DEF RunsWith

-----------------------------------------------------------------------------
(* The callers' arguments. *)

(* The arguments of a rewritten call are the ones written and literals.    *)
SlotsOf(slots, n) ==
  /\ DOMAIN slots = 1 .. n
  /\ \A i \in 1 .. n : slots[i] = Unset \/ slots[i].from[1] # "default"

(* An argument as written is no default.                                   *)
LEMMA ArgumentIs ==
  ASSUME NEW call, NEW k
  PROVE  Argument(call, k).from[1] # "default"
<1>1. Argument(call, k).from = <<"argument", k>>
  BY DEF Argument
<1>2. <<"argument", k>>[1] = "argument" /\ "argument" # "default"
  OBVIOUS
<1> QED BY <1>1, <1>2

(* The slots of a call hold arguments as written or nothing.               *)
LEMMA SlotsIs ==
  ASSUME NEW n \in Nat, NEW d, Positions(d) = 1 .. n, NEW call
  PROVE  SlotsOf(Slots(d, call), n)
<1> DEFINE slots == Slots(d, call)
<1>1. DOMAIN slots = 1 .. n
  BY DEF Slots
<1>2. ASSUME NEW i \in 1 .. n PROVE slots[i] = Unset \/ \E k : slots[i] = Argument(call, k)
  BY DEF Slots
<1>. HIDE DEF slots
<1>3. ASSUME NEW i \in 1 .. n PROVE slots[i] = Unset \/ slots[i].from[1] # "default"
  BY <1>2, ArgumentIs
<1> QED BY <1>1, <1>3 DEF SlotsOf, slots

(* Filled slots in order are arguments of a call.                          *)
LEMMA SelectGiven ==
  ASSUME NEW n \in Nat, NEW slots, SlotsOf(slots, n), NEW S, S \subseteq 1 .. n,
         \A i \in S : slots[i] # Unset
  PROVE  Given(Select(slots, S))
<1> DEFINE at == Ascending(S)
           h == Cardinality(S)
           args == Select(slots, S)
<1>1. IsFiniteSet(S) /\ S \subseteq Nat
  <2>1. S \in SUBSET (1 .. n) /\ IsFiniteSet(1 .. n) /\ 1 .. n \subseteq Nat
    BY FS_Interval
  <2> QED BY <2>1, FS_Subset
<1>2. h \in Nat /\ at \in [1 .. h -> S]
  BY <1>1, AscendingIs
<1>3. args = [k \in DOMAIN at |-> slots[at[k]]]
  BY DEF Select
<1>. HIDE DEF at, h, args
<1>4. DOMAIN args = 1 .. h /\ \A k \in 1 .. h : args[k] = slots[at[k]] /\ at[k] \in S
  BY <1>2, <1>3
<1>5. \A k \in 1 .. h : args[k].from[1] # "default"
  BY <1>4 DEF SlotsOf
<1> QED BY <1>2, <1>4, <1>5 DEF Given, args

(* So are the arguments as written.                                        *)
LEMMA AsWrittenGiven ==
  ASSUME NEW call, IsSequence(call.args)
  PROVE  Given(AsWritten(call))
<1>1. Len(call.args) \in Nat /\ DOMAIN call.args = 1 .. Len(call.args)
  BY SequenceIs
<1> DEFINE n == Len(call.args)
           args == AsWritten(call)
<1>2. DOMAIN args = 1 .. n /\ \A k \in 1 .. n : args[k] = Argument(call, k)
  BY <1>1 DEF AsWritten
<1>. HIDE DEF n, args
<1>3. \A k \in 1 .. n : args[k].from[1] # "default"
  BY <1>2, ArgumentIs
<1> QED BY <1>1, <1>2, <1>3 DEF Given, n, args

(* And what a moved caller passes, with its literals.                      *)
LEMMA LowerCallArgsGiven ==
  ASSUME NEW d, IsSequence(d.params), NEW call
  PROVE  Given(LowerCallArgs(d, call))
<1> DEFINE n == Len(d.params)
           slots == Slots(d, call)
           missing == {i \in Positions(d) : slots[i] = Unset}
           args == LowerCallArgs(d, call)
           filled == [i \in Positions(d) |-> IF i \in missing THEN Literal(d, i) ELSE slots[i]]
<1>1. n \in Nat /\ Positions(d) = 1 .. n
  BY SequenceIs DEF Positions
<1>2. SlotsOf(slots, n)
  <2> HIDE DEF n
  <2> QED BY <1>1, SlotsIs
<1>3. args = IF \A i \in missing : Neutral(d, i) THEN filled ELSE Select(slots, Positions(d) \ missing)
  BY DEF LowerCallArgs
<1>. HIDE DEF n, slots, args
<1>4. Given(filled)
  <2>1. \A i \in 1 .. n : filled[i].from[1] # "default"
    <3> SUFFICES ASSUME NEW i \in 1 .. n PROVE filled[i].from[1] # "default"
      OBVIOUS
    <3>1. CASE i \in missing
      <4>1. filled[i].from = <<"literal", d.params[i].name>>
        BY <1>1, <3>1 DEF Literal
      <4>2. "literal" # "default"
        OBVIOUS
      <4> QED BY <4>1, <4>2
    <3>2. CASE i \notin missing
      BY <1>1, <1>2, <3>2 DEF SlotsOf
    <3> QED BY <3>1, <3>2
  <2>2. DOMAIN filled = 1 .. n
    BY <1>1
  <2> HIDE DEF filled
  <2> QED BY <1>1, <2>1, <2>2 DEF Given
<1>5. Given(Select(slots, Positions(d) \ missing))
  <2> DEFINE S == Positions(d) \ missing
  <2>1. S \subseteq 1 .. n /\ \A i \in S : slots[i] # Unset
    BY <1>1
  <2> HIDE DEF S, missing
  <2> QED BY <1>1, <1>2, <2>1, SelectGiven DEF S
<1>. HIDE DEF missing, filled
<1> QED BY <1>3, <1>4, <1>5 DEF args

(* A set of numbers up to n has a least one.                               *)
LEMMA LeastIs ==
  ASSUME NEW n \in Nat, NEW S, S \subseteq 1 .. n, S # {}
  PROVE  Min(S) \in S
<1> DEFINE s == Ascending(S)
           h == Cardinality(S)
<1>1. IsFiniteSet(S) /\ S \subseteq Nat
  <2>1. S \in SUBSET (1 .. n) /\ IsFiniteSet(1 .. n) /\ 1 .. n \subseteq Nat
    BY FS_Interval
  <2> QED BY <2>1, FS_Subset
<1>2. /\ h \in Nat /\ s \in [1 .. h -> S]
      /\ \A j, k \in 1 .. h : j < k => s[j] < s[k]
      /\ \A i \in S : \E k \in 1 .. h : s[k] = i
  BY <1>1, AscendingIs
<1>. HIDE DEF s, h
<1>3. h > 0
  <2>1. PICK i \in S : TRUE
    OBVIOUS
  <2>2. PICK k \in 1 .. h : s[k] = i
    BY <1>2
  <2> QED BY <1>2, <2>2
<1>4. s[1] \in S /\ \A i \in S : s[1] <= i
  <2>1. s[1] \in S
    BY <1>2, <1>3
  <2>2. ASSUME NEW i \in S PROVE s[1] <= i
    <3>1. PICK k \in 1 .. h : s[k] = i
      BY <1>2
    <3>2. k = 1 \/ (1 < k /\ 1 \in 1 .. h)
      BY <1>2, <1>3
    <3>3. 1 < k => s[1] < s[k]
      BY <1>2, <3>2
    <3>4. s[1] \in Nat /\ i \in Nat
      BY <1>1, <2>1
    <3> QED BY <3>1, <3>2, <3>3, <3>4
  <2> QED BY <2>1, <2>2
<1> QED BY <1>4 DEF Min

(* A moved call is read with one of the declarations of the name, or with  *)
(* none.                                                                   *)
LEMMA CandidateIs ==
  ASSUME IsSequence(scenario.candidates), NEW call
  PROVE  Candidate(call) = 0 \/ Candidate(call) \in DOMAIN scenario.candidates
<1> DEFINE s == scenario.candidates
           n == Len(s)
<1>1. n \in Nat /\ DOMAIN s = 1 .. n
  BY SequenceIs
<1> DEFINE I == {i \in 1 .. n : MatchesNames(s[i], call)}
           J == {i \in 1 .. n : StopsEarly(s[i], call)}
<1>2. Candidate(call) \in {IF I # {} THEN Min(I) ELSE 0, IF J # {} THEN Min(J) ELSE 0}
  BY DEF Candidate, FirstOf, SelectInSeq
<1>3. I \subseteq 1 .. n /\ J \subseteq 1 .. n
  OBVIOUS
<1>. HIDE DEF s, n, I, J
<1>4. (I # {} => Min(I) \in I) /\ (J # {} => Min(J) \in J)
  BY <1>1, <1>3, LeastIs
<1> QED BY <1>1, <1>2, <1>3, <1>4 DEF s

(* So a moved call hands on no default.                                    *)
LEMMA LoweredGiven ==
  ASSUME IsSequence(scenario.candidates), \A d \in Range(scenario.candidates) : IsSequence(d.params),
         NEW call, IsSequence(call.args)
  PROVE  Given(Lowered(call))
<1>1. CASE Candidate(call) = 0
  BY <1>1, AsWrittenGiven DEF Lowered
<1>2. CASE Candidate(call) # 0
  <2> DEFINE d == scenario.candidates[Candidate(call)]
  <2>1. IsSequence(d.params)
    BY <1>2, CandidateIs DEF Range
  <2>2. Lowered(call) = LowerCallArgs(d, call)
    BY <1>2 DEF Lowered
  <2> HIDE DEF d
  <2> QED BY <2>1, <2>2, LowerCallArgsGiven
<1> QED BY <1>1, <1>2

(* The index reads a list of names from the Java class.                    *)
Listed(s) == \E n \in Nat : DOMAIN s = 1 .. n

(* The longest of some lists is a list.                                    *)
LEMMA LongestListed ==
  ASSUME NEW lists, IsSequence(lists), \A k \in 1 .. Len(lists) : Listed(lists[k])
  PROVE  Listed(Longest(lists))
<1> DEFINE n == Len(lists)
           I == {i \in 1 .. n : \A t \in Range(lists) : Len(t) <= Len(lists[i])}
           k == IF I # {} THEN Min(I) ELSE 0
<1>1. n \in Nat /\ I \subseteq 1 .. n
  BY SequenceIs
<1>2. Longest(lists) = IF k = 0 THEN << >> ELSE lists[k]
  BY DEF Longest, SelectInSeq
<1>. HIDE DEF n, I
<1>3. k # 0 => k \in 1 .. n
  BY <1>1, LeastIs
<1>. HIDE DEF k
<1>4. Listed(<< >>)
  <2>1. DOMAIN << >> = 1 .. 0
    OBVIOUS
  <2> QED BY <2>1 DEF Listed
<1> QED BY <1>2, <1>3, <1>4 DEF n

(* Each constructor written for a class lists its parameters.              *)
LEMMA WrittenNamesListed ==
  ASSUME NEW d, Shape(d, plan.ladder, plan.overloads), KotlinClass(d)
  PROVE  IsSequence(WrittenNames(d)) /\ \A k \in 1 .. Len(WrittenNames(d)) : Listed(WrittenNames(d)[k])
<1> DEFINE n == Len(d.params)
           o == plan.overloads
           own == [i \in Positions(d) |-> d.params[i].name]
           a == IF d.implicitPrimary THEN << >> ELSE <<own>>
           b == [k \in DOMAIN o |->
                   [i \in 1 .. Len(d.params) - Cardinality(o[k]) |->
                      d.params[Ascending(Positions(d) \ o[k])[i]].name]]
           c == [k \in DOMAIN d.secondaries |-> [i \in DOMAIN d.secondaries[k] |-> "other"]]
           ab == a \o b
<1>1. WrittenNames(d) = ab \o c
  BY DEF WrittenNames
<1>2. /\ n \in Nat /\ Positions(d) = 1 .. n
      /\ Len(o) \in Nat /\ DOMAIN o = 1 .. Len(o)
      /\ Len(d.secondaries) \in Nat /\ DOMAIN d.secondaries = 1 .. Len(d.secondaries)
  BY ClassIs, SequenceIs DEF Shape, KotlinClass
<1>3. IsSequence(a) /\ \A k \in 1 .. Len(a) : Listed(a[k])
  <2>1. Listed(own)
    BY <1>2 DEF Listed
  <2> HIDE DEF own
  <2>2. CASE d.implicitPrimary
    <3>1. a = << >>
      BY <2>2
    <3> QED BY <3>1 DEF IsSequence, Range
  <2>3. CASE ~d.implicitPrimary
    <3>1. a = <<own>>
      BY <2>3
    <3>2. DOMAIN a = 1 .. 1 /\ a = [k \in 1 .. 1 |-> a[k]] /\ a[1] = own
      BY <3>1
    <3> HIDE DEF a
    <3>3. IsSequence(a) /\ Len(a) = 1
      BY <3>2, SequenceBy
    <3> QED BY <2>1, <3>2, <3>3
  <2> QED BY <2>2, <2>3
<1>4. IsSequence(b) /\ \A k \in 1 .. Len(b) : Listed(b[k])
  <2>1. DOMAIN b = 1 .. Len(o) /\ b = [k \in 1 .. Len(o) |-> b[k]]
    BY <1>2
  <2>2. \A k \in 1 .. Len(o) : DOMAIN b[k] = 1 .. Len(d.params) - Cardinality(o[k])
    BY <1>2
  <2> HIDE DEF b
  <2>3. IsSequence(b) /\ Len(b) = Len(o)
    BY <1>2, <2>1, SequenceBy
  <2>4. ASSUME NEW k \in 1 .. Len(o) PROVE Listed(b[k])
    <3>1. o[k] \subseteq Positions(d)
      BY <1>2, ClassIs DEF Shape
    <3>2. Len(d.params) - Cardinality(o[k]) \in Nat
      <4> DEFINE p == o[k]
      <4>1. p \subseteq Positions(d)
        BY <3>1
      <4> HIDE DEF p
      <4>2. Cardinality(Kept(d, p)) = Len(d.params) - Cardinality(p) /\ Kept(d, p) \in SUBSET Positions(d)
        BY <4>1, KeptIs
      <4>3. Cardinality(Kept(d, p)) \in Nat
        BY <4>2, ClassIs, FS_CardinalityType
      <4> QED BY <4>2, <4>3 DEF p
    <3> QED BY <2>2, <3>2 DEF Listed
  <2> QED BY <2>3, <2>4
<1>5. IsSequence(c) /\ \A k \in 1 .. Len(c) : Listed(c[k])
  <2> DEFINE h == Len(d.secondaries)
  <2>1. DOMAIN c = 1 .. h /\ c = [k \in 1 .. h |-> c[k]]
    BY <1>2
  <2>2. \A k \in 1 .. h : DOMAIN c[k] = DOMAIN d.secondaries[k]
    BY <1>2
  <2>3. h \in Nat
    BY <1>2
  <2>4. \A k \in 1 .. h : IsSequence(d.secondaries[k])
    BY <1>2 DEF KotlinClass, Range
  <2> HIDE DEF c, h
  <2>5. IsSequence(c) /\ Len(c) = h
    BY <2>1, <2>3, SequenceBy
  <2>6. \A k \in 1 .. h : Listed(c[k])
    BY <2>2, <2>4, SequenceIs DEF Listed
  <2> QED BY <2>5, <2>6
<1>. HIDE DEF a, b, c
<1>6. Joined(ab, a, b)
  BY <1>3, <1>4, Joins
<1>. HIDE DEF ab
<1>7. Joined(ab \o c, ab, c)
  <2>1. IsSequence(ab)
    BY <1>6 DEF Joined
  <2> QED BY <1>5, <2>1, Joins
<1> DEFINE u == ab \o c
<1>. HIDE DEF u
<1>8. ASSUME NEW s, NEW t, NEW w, Joined(w, s, t), IsSequence(s), IsSequence(t),
              \A k \in 1 .. Len(s) : Listed(s[k]), \A k \in 1 .. Len(t) : Listed(t[k])
      PROVE  \A k \in 1 .. Len(w) : Listed(w[k])
  <2>1. Len(s) \in Nat /\ Len(t) \in Nat /\ Len(w) = Len(s) + Len(t)
    BY <1>8, SequenceIs DEF Joined
  <2> SUFFICES ASSUME NEW k \in 1 .. Len(w) PROVE Listed(w[k])
    OBVIOUS
  <2> DEFINE x == Len(s)
             y == Len(t)
             i == k - x
  <2>2. x \in Nat /\ y \in Nat /\ k \in 1 .. x + y
    BY <2>1
  <2>3. CASE k <= x
    <3>1. k \in 1 .. Len(s)
      BY <2>2, <2>3
    <3> QED BY <1>8, <3>1 DEF Joined
  <2>4. CASE k > x
    <3> HIDE DEF x, y
    <3>1. i \in 1 .. y /\ k = x + i
      BY <2>2, <2>4
    <3> HIDE DEF i
    <3>2. w[x + i] = t[i]
      BY <1>8, <3>1 DEF Joined, x, y
    <3> QED BY <1>8, <3>1, <3>2 DEF y
  <2> QED BY <2>2, <2>3, <2>4
<1>9. IsSequence(ab) /\ \A k \in 1 .. Len(ab) : Listed(ab[k])
  BY <1>3, <1>4, <1>6, <1>8 DEF Joined
<1>10. IsSequence(u) /\ \A k \in 1 .. Len(u) : Listed(u[k])
  BY <1>5, <1>7, <1>8, <1>9 DEF Joined, u
<1> QED BY <1>1, <1>10 DEF u

(* So the index reads a list of names.                                     *)
LEMMA JavaNamesListed ==
  ASSUME NEW d, Shape(d, plan.ladder, plan.overloads), KotlinClass(d)
  PROVE  Listed(JavaNames(d))
<1> DEFINE lists == WrittenNames(d)
<1>1. IsSequence(lists) /\ \A k \in 1 .. Len(lists) : Listed(lists[k])
  BY WrittenNamesListed
<1>. HIDE DEF lists
<1>2. Listed(Longest(lists))
  BY <1>1, LongestListed
<1>3. Listed([i \in Positions(d) |-> d.params[i].name])
  BY ClassIs DEF Listed
<1> QED BY <1>2, <1>3 DEF JavaNames, lists

(* A retained call that is rewritten hands on no default either.           *)
LEMMA RewrittenGiven ==
  ASSUME Listed(javaNames), NEW call, IsSequence(call.args)
  PROVE  Given(Rewritten(call))
<1>1. PICK n \in Nat : DOMAIN javaNames = 1 .. n
  BY DEF Listed
<1>2. Positions(Target) = 1 .. n
  BY <1>1 DEF Positions, Target
<1> DEFINE slots == Slots(Target, call)
           S == {i \in DOMAIN javaNames : slots[i] # Unset}
<1>3. SlotsOf(slots, n)
  BY <1>2, SlotsIs
<1>4. Rewritten(call) \in {AsWritten(call), Select(slots, S)}
  BY DEF Rewritten
<1>. HIDE DEF slots
<1>5. S \subseteq 1 .. n /\ \A i \in S : slots[i] # Unset
  BY <1>1
<1>. HIDE DEF S
<1>6. Given(Select(slots, S))
  BY <1>3, <1>5, SelectGiven
<1> QED BY <1>4, <1>6, AsWrittenGiven

-----------------------------------------------------------------------------
(* The states of a translation of a class.                                 *)
Translated == phase \in {"planned", "emitted", "rewritten"}
Emits == phase \in {"emitted", "rewritten"}
Phased ==
  /\ scenario \in Scenarios
  /\ phase \in {"planning", "kept", "planned", "emitted", "rewritten"}
  /\ IF Translated THEN ~Retained(class) /\ plan = Planned(class)
     ELSE plan = [ladder |-> << >>, overloads |-> << >>]
  /\ IF Emits THEN constructors = Emitted(class) /\ Listed(javaNames)
     ELSE constructors = << >>
Ordered(result) ==
  result.evaluated = Ascending({i \in DOMAIN result.gets : result.gets[i][1] = "default"})
Called ==
  phase = "rewritten" =>
    /\ DOMAIN built = DOMAIN calls
    /\ \A c \in DOMAIN calls : Given(written[c])
    /\ \A c \in DOMAIN calls : built[c] \notin {NotYet, Broken} => Ordered(built[c])
Framed ==
  frame # NoFrame =>
    /\ phase = "rewritten"
    /\ RunsWith(class, frame.constructor, frame.gets, evaluated)
DefaultsInv == Phased /\ Called /\ Framed

(* The plan depends on the scenario only.                                  *)
LEMMA PlanSteady ==
  ASSUME scenario' = scenario
  PROVE  Planned(class)' = Planned(class) /\ Retained(class)' = Retained(class)
<1>1. Planned(class)' = Planned(class)
  BY DEF class, Planned, calls, Blocked, Needed, Patterns, HasDefault, Ladder, Signature,
     UnsuppliedReference, NotThePrimary, Positional, Named, Readable, Types, Positions, Omitted,
     NamesUsed, TrailingPatterns, JvmOverloadPatterns
<1>2. Retained(class)' = Retained(class)
  BY DEF Retained, class, calls, Blocked, Needed, Patterns, Unresolvable, NamedCallers,
     HasDefaults, HasDefault, Ladder, Signature, UnsuppliedReference, NotThePrimary, Positional,
     Named, Readable, Types, Positions, Omitted, NamesUsed, TrailingPatterns, JvmOverloadPatterns
<1> QED BY <1>1, <1>2

(* The constructors depend on the scenario and the plan.                   *)
LEMMA Steady ==
  ASSUME plan' = plan, scenario' = scenario
  PROVE  /\ Emitted(class)' = Emitted(class)
         /\ Planned(class)' = Planned(class)
         /\ Retained(class)' = Retained(class)
<1>1. Emitted(class)' = Emitted(class)
  BY DEF class, Emitted, Primary, Overload, Passed, PassedType, Competing, DelegateOmits, Rung,
     Types, Positions, NoArgument, AllDefaulted, ZeroArgumentOverload, HasDefault, Secondary
<1> QED BY <1>1, PlanSteady

(* What is assumed of a scenario.                                          *)
LEMMA ScenarioIs ==
  ASSUME scenario \in Scenarios
  PROVE  /\ KotlinClass(class)
         /\ IsSequence(scenario.candidates)
         /\ \A d \in Range(scenario.candidates) : IsSequence(d.params)
         /\ \A c \in DOMAIN calls : KotlinCall(class, calls[c]) /\ IsSequence(calls[c].args)
BY ScenariosAssumption DEF class, calls, KotlinCall

(* A class that is translated has a plan of the shape above.               *)
LEMMA ShapeOfPlan ==
  ASSUME Phased, Translated
  PROVE  KotlinClass(class) /\ ~Blocked(class) /\ Shape(class, plan.ladder, plan.overloads)
<1>1. KotlinClass(class) /\ ~Retained(class) /\ plan = Planned(class)
  BY ScenarioIs DEF Phased
<1>2. Shape(class, Planned(class).ladder, Planned(class).overloads)
  BY <1>1, PlanShape
<1> DEFINE p == Planned(class)
<1>3. Shape(class, p.ladder, p.overloads) /\ plan = p
  BY <1>1, <1>2
<1>. HIDE DEF p
<1>4. Shape(class, plan.ladder, plan.overloads)
  BY <1>3
<1> QED BY <1>1, <1>4, Unblocked

(* And its constructors are those of the plan.                             *)
LEMMA MovedClass ==
  ASSUME Phased, Emits
  PROVE  Moved(class)
<1>1. Translated
  BY DEF Translated, Emits
<1>2. KotlinClass(class) /\ ~Blocked(class) /\ Shape(class, plan.ladder, plan.overloads)
  BY <1>1, ShapeOfPlan
<1>3. Lists(Emitted(class), class, plan.overloads)
  BY <1>2, EmittedIs DEF Shape
<1>4. constructors = Emitted(class)
  BY DEF Phased
<1>5. Lists(constructors, class, plan.overloads)
  BY <1>3, <1>4
<1> QED BY <1>2, <1>5 DEF Moved

(* The invariant holds at first.                                           *)
LEMMA InitInv == DefaultsInit => DefaultsInv
<1> SUFFICES ASSUME DefaultsInit PROVE DefaultsInv
  OBVIOUS
<1>1. Phased
  BY DEF DefaultsInit, Phased, Translated, Emits
<1>2. Called /\ Framed
  BY DEF DefaultsInit, Called, Framed
<1> QED BY <1>1, <1>2 DEF DefaultsInv

(* The planning steps: nothing runs before the callers are rewritten.      *)
LEMMA PhasedSteady ==
  ASSUME Phased, UNCHANGED <<scenario, phase, plan, constructors, javaNames>>
  PROVE  Phased'
<1>1. /\ Emitted(class)' = Emitted(class) /\ Planned(class)' = Planned(class)
      /\ Retained(class)' = Retained(class)
  BY Steady
<1>2. (Translated' <=> Translated) /\ (Emits' <=> Emits)
  BY DEF Translated, Emits
<1>3. IF Translated' THEN ~Retained(class)' /\ plan' = Planned(class)'
      ELSE plan' = [ladder |-> << >>, overloads |-> << >>]
  BY <1>1, <1>2 DEF Phased
<1>4. IF Emits' THEN constructors' = Emitted(class)' /\ Listed(javaNames')
      ELSE constructors' = << >>
  BY <1>1, <1>2 DEF Phased
<1>5. scenario' \in Scenarios /\ phase' \in {"planning", "kept", "planned", "emitted", "rewritten"}
  BY DEF Phased
<1> QED BY <1>3, <1>4, <1>5 DEF Phased

(* A running constructor is still one when only other state changes.       *)
LEMMA FramedNext ==
  ASSUME UNCHANGED <<scenario, constructors>>,
         frame' # NoFrame => phase' = "rewritten" /\ RunsWith(class, frame'.constructor, frame'.gets, evaluated')
  PROVE  Framed'
<1>1. class' = class
  BY DEF class
<1> SUFFICES ASSUME frame' # NoFrame
             PROVE  phase' = "rewritten" /\ RunsWith(class, frame.constructor, frame.gets, evaluated)'
  BY DEF Framed
<1> DEFINE k == frame'.constructor
           gets == frame'.gets
           ev == evaluated'
           c == constructors[k]
<1>2. /\ k \in DOMAIN constructors /\ DOMAIN gets = 1 .. Len(c.takes)
      /\ ev = Ascending(Bound(c, gets))
      /\ \A b \in Bound(c, gets), x \in DOMAIN class.params \ Range(c.of) : b < x
  BY DEF RunsWith, Arity, Positions
<1> QED BY <1>1, <1>2 DEF RunsWith, Arity, Positions, Bound

(* Planning and emitting keep the invariant.                               *)
LEMMA PlanningInv ==
  ASSUME DefaultsInv, Keep \/ PlanConstructors \/ Emit
  PROVE  DefaultsInv'
<1>1. Phased /\ frame = NoFrame /\ phase' # "rewritten" /\ frame' = NoFrame
  BY DEF DefaultsInv, Framed, Keep, PlanConstructors, Emit
<1>2. Called' /\ Framed'
  BY <1>1 DEF Called, Framed
<1>3. CASE Keep
  <2>1. ~Translated' /\ ~Emits' /\ ~Translated /\ ~Emits
    BY <1>3 DEF Keep, Translated, Emits
  <2> QED BY <1>1, <1>2, <1>3, <2>1 DEF Keep, Phased, DefaultsInv
<1>4. CASE PlanConstructors
  <2>1. Translated' /\ ~Emits' /\ ~Emits
    BY <1>4 DEF PlanConstructors, Translated, Emits
  <2>2. class' = class /\ ~Retained(class) /\ plan' = Planned(class) /\ scenario' = scenario
    BY <1>4 DEF PlanConstructors, class
  <2>3. Planned(class)' = Planned(class) /\ Retained(class)' = Retained(class)
    BY <2>2, PlanSteady
  <2>4. constructors' = << >> /\ scenario' \in Scenarios /\ phase' = "planned"
    BY <1>1, <1>4, <2>1 DEF Phased, PlanConstructors
  <2>5. Phased'
    BY <2>1, <2>2, <2>3, <2>4 DEF Phased
  <2> QED BY <1>2, <2>5 DEF DefaultsInv
<1>5. CASE Emit
  <2>1. Translated' /\ Emits' /\ Translated
    BY <1>5 DEF Emit, Translated, Emits
  <2>2. /\ Emitted(class)' = Emitted(class) /\ Planned(class)' = Planned(class)
        /\ Retained(class)' = Retained(class)
    BY <1>5, Steady DEF Emit
  <2>3. plan' = Planned(class)' /\ ~Retained(class)' /\ scenario' \in Scenarios /\ phase' = "emitted"
    BY <1>1, <1>5, <2>1, <2>2 DEF Phased, Emit
  <2>4. constructors' = Emitted(class)'
    BY <1>5, <2>2 DEF Emit
  <2>5. Listed(javaNames')
    <3>1. KotlinClass(class) /\ Shape(class, plan.ladder, plan.overloads)
      BY <1>1, <2>1, ShapeOfPlan
    <3>2. Listed(JavaNames(class))
      BY <3>1, JavaNamesListed
    <3> QED BY <1>5, <3>2 DEF Emit
  <2>6. Phased'
    BY <2>1, <2>3, <2>4, <2>5 DEF Phased
  <2> QED BY <1>2, <2>6 DEF DefaultsInv
<1> QED BY <1>3, <1>4, <1>5

(* Rewriting the callers keeps it.                                         *)
LEMMA RewriteInv ==
  ASSUME DefaultsInv, RewriteCallers
  PROVE  DefaultsInv'
<1>1. Phased /\ frame = NoFrame /\ frame' = NoFrame
  BY DEF DefaultsInv, Framed, RewriteCallers
<1>2. Framed'
  BY <1>1 DEF Framed
<1>3. Phased'
  <2>1. /\ Emitted(class)' = Emitted(class) /\ Planned(class)' = Planned(class)
        /\ Retained(class)' = Retained(class)
    BY Steady DEF RewriteCallers
  <2>2. Translated' /\ Emits' /\ Translated /\ Emits
    BY DEF RewriteCallers, Translated, Emits
  <2>3. plan' = Planned(class)' /\ ~Retained(class)' /\ scenario' \in Scenarios /\ phase' = "rewritten"
        /\ constructors' = Emitted(class)' /\ Listed(javaNames')
    BY <1>1, <2>1, <2>2 DEF Phased, RewriteCallers
  <2> QED BY <2>2, <2>3 DEF Phased
<1>4. Called'
  <2>1. calls' = calls /\ DOMAIN built' = DOMAIN calls /\ \A c \in DOMAIN calls : built'[c] = NotYet
    BY DEF RewriteCallers, calls
  <2>2. Listed(javaNames) /\ scenario \in Scenarios
    BY <1>1 DEF RewriteCallers, Phased, Emits
  <2>3. ASSUME NEW c \in DOMAIN calls PROVE Given(written'[c])
    <3>1. IsSequence(calls[c].args)
      BY <2>2, ScenarioIs
    <3>2. Given(Lowered(calls[c])) /\ Given(Rewritten(calls[c])) /\ Given(AsWritten(calls[c]))
      <4> DEFINE call == calls[c]
      <4>1. IsSequence(call.args)
        BY <3>1
      <4> HIDE DEF call
      <4> QED BY <2>2, <4>1, ScenarioIs, LoweredGiven, RewrittenGiven, AsWrittenGiven DEF call
    <3>3. written'[c] \in {Lowered(calls[c]), Rewritten(calls[c]), AsWritten(calls[c])}
      BY DEF RewriteCallers
    <3> QED BY <3>2, <3>3
  <2>4. \A c \in DOMAIN calls : Given(written[c])'
    BY <2>3 DEF Given
  <2> QED BY <2>1, <2>4 DEF Called
<1> QED BY <1>2, <1>3, <1>4 DEF DefaultsInv

(* A call that fails or is built in order keeps what is known of the       *)
(* calls.                                                                  *)
LEMMA CalledNext ==
  ASSUME Called, phase = "rewritten", UNCHANGED <<scenario, phase, written>>,
         NEW x, built' = built \/ \E result : (result \in {NotYet, Broken} \/ Ordered(result))
                                              /\ built' = [built EXCEPT ![x] = result]
  PROVE  Called'
<1>1. calls' = calls
  BY DEF calls
<1>2. DOMAIN built' = DOMAIN calls /\ \A c \in DOMAIN calls : Given(written[c])
  BY DEF Called
<1>3. \A c \in DOMAIN calls : Given(written[c])'
  BY <1>2 DEF Given
<1>4. ASSUME NEW c \in DOMAIN calls, built'[c] \notin {NotYet, Broken} PROVE Ordered(built'[c])
  BY <1>4 DEF Called
<1>5. \A c \in DOMAIN calls : (built[c] \notin {NotYet, Broken} => Ordered(built[c]))'
  BY <1>4 DEF Ordered, NotYet, Broken
<1> QED BY <1>1, <1>2, <1>3, <1>5 DEF Called

(* A call keeps the invariant.                                             *)
LEMMA CallInv ==
  ASSUME DefaultsInv, NEW c \in DOMAIN calls, Call(c)
  PROVE  DefaultsInv'
<1>1. Phased /\ Called /\ phase = "rewritten"
  BY DEF DefaultsInv, Call
<1>2. Phased'
  BY <1>1, PhasedSteady DEF Call
<1>3. Called'
  <2>1. built' = built \/ built' = [built EXCEPT ![c] = Broken]
    BY DEF Call
  <2> QED BY <1>1, <2>1, CalledNext DEF Call
<1>4. Framed'
  <2>1. CASE frame' = frame
    <3>1. frame' = NoFrame
      BY <2>1 DEF Call
    <3> QED BY <3>1 DEF Framed
  <2>2. CASE Compiles(written[c]) /\ frame' = [call |-> c, constructor |-> Chosen(written[c]),
                                              gets |-> [k \in DOMAIN written[c] |-> written[c][k].from]]
    <3>1. Moved(class)
      BY <1>1, MovedClass DEF Emits
    <3>2. Given(written[c])
      BY <1>1 DEF Called
    <3>3. /\ frame'.constructor = Chosen(written[c])
          /\ frame'.gets = [k \in DOMAIN written[c] |-> written[c][k].from]
          /\ evaluated' = << >>
      BY <2>2 DEF Call
    <3> DEFINE args == written[c]
               gets == [k \in DOMAIN args |-> args[k].from]
    <3>4. Given(args) /\ Compiles(args)
      BY <2>2, <3>2
    <3> HIDE DEF args
    <3>5. RunsWith(class, Chosen(args), gets, << >>)
      BY <3>1, <3>4, CallRuns
    <3> HIDE DEF gets
    <3>6. RunsWith(class, frame'.constructor, frame'.gets, evaluated')
      BY <3>3, <3>5 DEF args, gets
    <3> QED BY <1>1, <3>6, FramedNext DEF Call
  <2> QED BY <2>1, <2>2 DEF Call
<1> QED BY <1>2, <1>3, <1>4 DEF DefaultsInv

(* A delegation keeps it.                                                  *)
LEMMA DelegateInv ==
  ASSUME DefaultsInv, Delegate
  PROVE  DefaultsInv'
<1>1. Phased /\ Called /\ phase = "rewritten" /\ RunsWith(class, frame.constructor, frame.gets, evaluated)
  BY DEF DefaultsInv, Delegate, Framed
<1>2. Phased'
  BY <1>1, PhasedSteady DEF Delegate
<1>3. Called'
  <2>1. built' = built \/ built' = [built EXCEPT ![frame.call] = Broken]
    BY DEF Delegate
  <2> QED BY <1>1, <2>1, CalledNext DEF Delegate
<1>4. Framed'
  <2>1. CASE frame' = NoFrame
    BY <2>1 DEF Framed
  <2>2. CASE Compiles(Running.passes)
             /\ frame' = [frame EXCEPT !.constructor = Chosen(Running.passes),
                                       !.gets = [k \in DOMAIN Running.passes |-> Value(Running.passes[k])]]
    <3>1. Moved(class)
      BY <1>1, MovedClass DEF Emits
    <3> DEFINE gets == [k \in DOMAIN Running.passes |-> Value(Running.passes[k])]
    <3>2. PICK c : c = Running
      OBVIOUS
    <3>3. constructors[frame.constructor] = c /\ c.kind = "delegating" /\ Compiles(c.passes)
      BY <2>2, <3>2 DEF Running, Delegate
    <3>4. gets = [k \in DOMAIN c.passes |-> Handed(c, frame.gets, c.passes[k])]
      BY <3>2 DEF Value, Handed
    <3> HIDE DEF gets
    <3>5. RunsWith(class, Chosen(c.passes), gets, evaluated \o DefaultsPassed(c))
      BY <1>1, <3>1, <3>3, <3>4, DelegateRuns
    <3>6. (frame' # NoFrame) => frame'.constructor = Chosen(c.passes) /\ frame'.gets = gets
      <4>1. frame.constructor \in DOMAIN constructors
        BY <1>1 DEF RunsWith
      <4> QED BY <2>2, <3>2 DEF gets
    <3>7. evaluated' = evaluated \o DefaultsPassed(c)
      BY <3>2 DEF Delegate
    <3>8. (frame' # NoFrame) => RunsWith(class, frame'.constructor, frame'.gets, evaluated')
      BY <3>5, <3>6, <3>7
    <3> QED BY <1>1, <3>8, FramedNext DEF Delegate
  <2> QED BY <2>1, <2>2 DEF Delegate
<1> QED BY <1>2, <1>3, <1>4 DEF DefaultsInv

(* Building keeps it.                                                      *)
LEMMA BuildInv ==
  ASSUME DefaultsInv, Build
  PROVE  DefaultsInv'
<1>1. Phased /\ Called /\ phase = "rewritten" /\ RunsWith(class, frame.constructor, frame.gets, evaluated)
  BY DEF DefaultsInv, Build, Framed
<1>2. Phased'
  BY <1>1, PhasedSteady DEF Build
<1>3. Framed'
  BY DEF Build, Framed
<1>4. Called'
  <2> DEFINE result == [kind |-> Running.kind, takes |-> Running.takes, gets |-> frame.gets,
                        evaluated |-> evaluated]
  <2>1. built' = [built EXCEPT ![frame.call] = result]
    BY DEF Build
  <2>2. result.evaluated = evaluated /\ result.gets = frame.gets
    OBVIOUS
  <2> HIDE DEF result
  <2>3. Moved(class)
    BY <1>1, MovedClass DEF Emits
  <2>4. constructors[frame.constructor].kind # "delegating"
    BY DEF Build, Running
  <2>5. evaluated = Ascending({i \in DOMAIN frame.gets : frame.gets[i][1] = "default"})
    BY <1>1, <2>3, <2>4, BuildOrder
  <2>6. Ordered(result)
    BY <2>2, <2>5 DEF Ordered
  <2> QED BY <1>1, <2>1, <2>6, CalledNext DEF Build
<1> QED BY <1>2, <1>3, <1>4 DEF DefaultsInv

(* Every step keeps the invariant.                                         *)
LEMMA NextInv == DefaultsInv /\ [DefaultsNext]_defaultsVars => DefaultsInv'
<1> SUFFICES ASSUME DefaultsInv, [DefaultsNext]_defaultsVars PROVE DefaultsInv'
  OBVIOUS
<1>1. CASE Keep \/ PlanConstructors \/ Emit
  BY <1>1, PlanningInv
<1>2. CASE RewriteCallers
  BY <1>2, RewriteInv
<1>3. CASE \E c \in DOMAIN calls : Call(c)
  BY <1>3, CallInv
<1>4. CASE Delegate
  BY <1>4, DelegateInv
<1>5. CASE Build
  BY <1>5, BuildInv
<1>6. CASE UNCHANGED defaultsVars
  <2>1. UNCHANGED <<scenario, phase, plan, constructors, javaNames, written, frame, evaluated, built>>
    BY <1>6 DEF defaultsVars
  <2>2. Phased'
    BY <2>1, PhasedSteady DEF DefaultsInv
  <2>3. Called'
    <3>1. CASE phase = "rewritten"
      BY <2>1, <3>1, CalledNext DEF DefaultsInv
    <3>2. CASE phase # "rewritten"
      BY <2>1, <3>2 DEF Called
    <3> QED BY <3>1, <3>2
  <2>4. Framed'
    <3>1. frame' # NoFrame => phase' = "rewritten" /\ RunsWith(class, frame'.constructor, frame'.gets, evaluated')
      BY <2>1 DEF DefaultsInv, Framed
    <3> QED BY <2>1, <3>1, FramedNext
  <2> QED BY <2>2, <2>3, <2>4 DEF DefaultsInv
<1> QED BY <1>1, <1>2, <1>3, <1>4, <1>5, <1>6 DEF DefaultsNext

-----------------------------------------------------------------------------

(* The invariant says what the run checks: the patterns of a plan.         *)
LEMMA PatternsAre == DefaultsInv => PatternsTyped
<1> SUFFICES ASSUME DefaultsInv PROVE PatternsTyped
  OBVIOUS
<1>1. phase \in {"planning", "kept", "planned", "emitted", "rewritten"}
  BY DEF DefaultsInv, Phased
<1>2. frame # NoFrame => frame.constructor \in DOMAIN constructors
  BY DEF DefaultsInv, Framed, RunsWith
<1>3. \A k \in DOMAIN plan.overloads :
        /\ plan.overloads[k] # {}
        /\ \A i \in plan.overloads[k] : HasDefault(class, i)
        /\ \A j \in DOMAIN plan.overloads \ {k} : plan.overloads[j] # plan.overloads[k]
  <2>1. CASE Translated
    <3>1. Shape(class, plan.ladder, plan.overloads)
      BY <2>1, ShapeOfPlan DEF DefaultsInv
    <3> QED BY <3>1 DEF Shape, Defaulted
  <2>2. CASE ~Translated
    BY <2>2 DEF DefaultsInv, Phased
  <2> QED BY <2>1, <2>2
<1> QED BY <1>1, <1>2, <1>3 DEF PatternsTyped

(* The order of the defaults.                                              *)
LEMMA OrderIs == DefaultsInv => DefaultsOnceInOrder
BY DEF DefaultsInv, Called, DefaultsOnceInOrder, Ordered

(* A class with constructors is translated.                                *)
LEMMA EmittedFirst ==
  ASSUME DefaultsInv, constructors # << >>
  PROVE  Moved(class)
<1>1. Emits
  BY DEF DefaultsInv, Phased
<1> QED BY <1>1, MovedClass DEF DefaultsInv

(* The scope of the defaults.                                              *)
LEMMA ScopeIs == DefaultsInv /\ ~DefaultsUnsupplied => DefaultsInScope
<1> SUFFICES ASSUME DefaultsInv, ~DefaultsUnsupplied PROVE DefaultsInScope
  OBVIOUS
<1>1. CASE constructors # << >>
  BY <1>1, EmittedFirst, ScopeUnless
<1>2. CASE constructors = << >>
  BY <1>2 DEF DefaultsInScope
<1> QED BY <1>1, <1>2

(* The invariant holds always.                                             *)
LEMMA InvAlways == DefaultsSpec => []DefaultsInv
<1> QED BY InitInv, NextInv, PTL DEF DefaultsSpec

(* The overloads written for a class leave to the constructor they         *)
(* delegate to what it can evaluate: every default a caller omits is       *)
(* evaluated once, in the order of the declaration, whichever constructors *)
(* the call runs through, and none where a parameter it names is missing   *)
(* (ctor_defaults.rs:160-195).  The exception is a persistent class, all   *)
(* of whose parameters have defaults that name one another, translated     *)
(* beside the Kotlin source: its constructor without parameters passes     *)
(* them on as they stand (transpiler/unit/class.rs:5198-5205).             *)
THEOREM DefaultsStayConsistent == DefaultsSpec => [](~DefaultsUnsupplied => DefaultsConsistent)
<1>1. DefaultsInv => (~DefaultsUnsupplied => DefaultsConsistent)
  BY PatternsAre, OrderIs, ScopeIs DEF DefaultsConsistent
<1> QED BY InvAlways, <1>1, PTL

(* In every translated class, the exception included, whatever chain of    *)
(* this(...) a call runs through evaluates the defaults it leaves out once *)
(* each and in order; and every pattern planned is planned once and omits  *)
(* something, and only what has a default (ctor_defaults.rs:278-302).      *)
THEOREM DefaultsStayOrdered == DefaultsSpec => [](PatternsTyped /\ DefaultsOnceInOrder)
<1>1. DefaultsInv => PatternsTyped /\ DefaultsOnceInOrder
  BY PatternsAre, OrderIs
<1> QED BY InvAlways, <1>1, PTL

(* Two constructors of a translated class have the same parameters after   *)
(* erasure exactly where the planner does not look: when a rung of the     *)
(* ladder has those of a secondary constructor of the class, or a caller   *)
(* who omits everything gets a constructor besides the one the persistence *)
(* rule writes (ctor_defaults.rs:160-188).                                 *)
THEOREM ConstructorsStayApart ==
  DefaultsSpec => [](constructors # << >> => (ConstructorsDiffer <=> ~RungTaken /\ ~SecondNoArgument))
<1>1. DefaultsInv => (constructors # << >> => (ConstructorsDiffer <=> ~RungTaken /\ ~SecondNoArgument))
  BY EmittedFirst, ApartUnless, NotApart
<1> QED BY InvAlways, <1>1, PTL

-----------------------------------------------------------------------------
(* What a call means. *)

(* What a constructor of the class runs with for a call of it: every       *)
(* parameter of its own has what is meant for it, and the call gives       *)
(* nothing for the others.                                                 *)
Meant(d, call, c, gets) ==
  /\ c.kind \in {"primary", "delegating"}
  /\ DOMAIN gets = DOMAIN c.of
  /\ \A j \in DOMAIN c.of : MeantFor(d, call, c.of[j], gets[j])
  /\ \A i \in Positions(d) \ Range(c.of) : Slots(d, call)[i] = Unset
Exact(call, c, gets) ==
  /\ c.kind = "secondary" /\ c.takes = call.takes
  /\ gets = [k \in DOMAIN call.args |-> <<"argument", k>>]
On(d, call, c, gets) ==
  \/ call.of = "class" /\ Meant(d, call, c, gets)
  \/ call.of = "secondary" /\ Exact(call, c, gets)

(* The arguments fit a constructor that means what the call means.         *)
Froms(args) == [k \in DOMAIN args |-> args[k].from]
Reaching(d, call, args) ==
  \E k \in DOMAIN constructors :
    Applicable(constructors[k].takes, TypesOf(args)) /\ On(d, call, constructors[k], Froms(args))

(* Arguments that fit no other constructor reach the one they fit.         *)
LEMMA OnlyFit ==
  ASSUME NEW args, ~FitsTwo(args), NEW k \in DOMAIN constructors,
         Applicable(constructors[k].takes, TypesOf(args))
  PROVE  Compiles(args) /\ Chosen(args) = k
<1> DEFINE types == TypesOf(args)
           fits == {m \in DOMAIN constructors : Applicable(constructors[m].takes, types)}
<1>1. fits = {k}
  BY DEF FitsTwo
<1>2. \A t : Applicable(t, t)
  BY DEF Applicable, Accepts
<1>3. MostSpecific(types) = {m \in fits : \A h \in fits : Applicable(constructors[h].takes, constructors[m].takes)}
  BY DEF MostSpecific
<1>. HIDE DEF fits
<1>4. MostSpecific(types) = {k}
  BY <1>1, <1>2, <1>3
<1>5. Cardinality({k}) = 1
  BY FS_Singleton
<1>6. (CHOOSE m \in {k} : TRUE) = k
  OBVIOUS
<1> QED BY <1>4, <1>5, <1>6 DEF Compiles, Chosen

(* Where the constructors of a class stand.                                *)
LEMMA Standing ==
  ASSUME NEW d, Moved(d)
  PROVE  /\ 1 \in DOMAIN constructors /\ constructors[1] = Primary(d)
         /\ \A m \in DOMAIN plan.overloads :
              1 + m \in DOMAIN constructors /\ constructors[1 + m] = Overload(d, plan.overloads[m])
         /\ \A t \in Range(d.secondaries) :
              \E k \in DOMAIN constructors : constructors[k] = Secondary(t)
<1> DEFINE x == Len(plan.overloads)
           y == Len(NoArgument(d))
           z == Len(d.secondaries)
<1>1. Lists(constructors, d, plan.overloads) /\ KotlinClass(d)
  BY DEF Moved
<1>2. x \in Nat /\ DOMAIN plan.overloads = 1 .. x
  BY MovedIs
<1>3. y \in Nat
  BY NoArgumentIs
<1>4. z \in Nat /\ DOMAIN d.secondaries = 1 .. z
  BY <1>1, SequenceIs DEF KotlinClass
<1>5. /\ DOMAIN constructors = 1 .. 1 + x + y + z
      /\ constructors[1] = Primary(d)
      /\ \A m \in 1 .. x : constructors[1 + m] = Overload(d, plan.overloads[m])
      /\ \A m \in 1 .. z : constructors[1 + x + y + m] = Secondary(d.secondaries[m])
  BY <1>1 DEF Lists
<1>. HIDE DEF x, y, z
<1>6. /\ 1 \in 1 .. 1 + x + y + z
      /\ \A m \in 1 .. x : 1 + m \in 1 .. 1 + x + y + z
      /\ \A m \in 1 .. z : 1 + x + y + m \in 1 .. 1 + x + y + z
  BY <1>2, <1>3, <1>4
<1>7. ASSUME NEW t \in Range(d.secondaries)
      PROVE  \E k \in DOMAIN constructors : constructors[k] = Secondary(t)
  <2>1. PICK m \in 1 .. z : t = d.secondaries[m]
    BY <1>4 DEF Range
  <2> QED BY <1>5, <1>6, <2>1
<1> QED BY <1>2, <1>5, <1>6, <1>7

(* The constructor that takes the parameters of a set, if there is one:    *)
(* the primary takes them all, an overload those it does not omit.         *)
TakesOnly(d, S, k) ==
  /\ k \in DOMAIN constructors
  /\ constructors[k].kind \in {"primary", "delegating"}
  /\ constructors[k].takes = Types(d, S) /\ constructors[k].of = Ascending(S)

LEMMA TakenBy ==
  ASSUME NEW d, Moved(d)
  PROVE  /\ TakesOnly(d, Positions(d), 1)
         /\ \A m \in DOMAIN plan.overloads : TakesOnly(d, Kept(d, plan.overloads[m]), 1 + m)
<1>1. TakesOnly(d, Positions(d), 1)
  <2> DEFINE c == Primary(d)
  <2>1. 1 \in DOMAIN constructors /\ constructors[1] = c
    BY Standing
  <2>2. c.kind = "primary" /\ c.takes = Types(d, Positions(d)) /\ c.of = Ascending(Positions(d))
    BY DEF Primary
  <2> HIDE DEF c
  <2> QED BY <2>1, <2>2 DEF TakesOnly
<1>2. ASSUME NEW m \in DOMAIN plan.overloads PROVE TakesOnly(d, Kept(d, plan.overloads[m]), 1 + m)
  <2> DEFINE c == Overload(d, plan.overloads[m])
  <2>1. 1 + m \in DOMAIN constructors /\ constructors[1 + m] = c
    BY Standing
  <2>2. /\ c.kind = "delegating" /\ c.takes = Types(d, Kept(d, plan.overloads[m]))
        /\ c.of = Ascending(Kept(d, plan.overloads[m]))
    BY DEF Overload, Kept
  <2> HIDE DEF c
  <2> QED BY <2>1, <2>2 DEF TakesOnly
<1> QED BY <1>1, <1>2

(* Arguments for the parameters of a set, in order, each of its type, fit  *)
(* the constructor that takes them; and it means what the call means if    *)
(* each is what the call means for its parameter and the call gives none   *)
(* for the others.                                                         *)
LEMMA FitsTaker ==
  ASSUME NEW d, KotlinClass(d), NEW S, S \subseteq Positions(d), NEW k, TakesOnly(d, S, k),
         NEW call, NEW args, DOMAIN args = 1 .. Cardinality(S),
         \A j \in 1 .. Cardinality(S) :
           /\ Accepts(d.params[Ascending(S)[j]].type, args[j].type)
           /\ MeantFor(d, call, Ascending(S)[j], args[j].from),
         \A i \in Positions(d) \ S : Slots(d, call)[i] = Unset
  PROVE  /\ Applicable(constructors[k].takes, TypesOf(args))
         /\ Meant(d, call, constructors[k], Froms(args))
<1> DEFINE n == Cardinality(S)
           order == Ascending(S)
           takes == Types(d, S)
<1>1. /\ n \in Nat /\ order \in [1 .. n -> S] /\ Len(takes) = n /\ DOMAIN takes = 1 .. n
      /\ \A j \in 1 .. n : takes[j] = d.params[order[j]].type
  BY TypesIs
<1>2. S \subseteq Nat /\ IsFiniteSet(S)
  BY ClassIs
<1>3. Range(order) = S
  BY <1>2, InOrderRange
<1>4. /\ DOMAIN args = 1 .. n
      /\ \A j \in 1 .. n : Accepts(d.params[order[j]].type, args[j].type)
      /\ \A j \in 1 .. n : MeantFor(d, call, order[j], args[j].from)
  OBVIOUS
<1>. HIDE DEF n, order, takes
<1>5. TypesOf(args) = [j \in 1 .. n |-> args[j].type] /\ Len(TypesOf(args)) = n
  <2>1. TypesOf(args) = [j \in 1 .. n |-> args[j].type]
    BY <1>4 DEF TypesOf
  <2> QED BY <1>1, <2>1
<1>6. Applicable(takes, TypesOf(args))
  BY <1>1, <1>4, <1>5 DEF Applicable
<1>7. Froms(args) = [j \in 1 .. n |-> args[j].from]
  BY <1>4 DEF Froms
<1>8. DOMAIN Froms(args) = 1 .. n /\ DOMAIN order = 1 .. n
      /\ \A j \in 1 .. n : MeantFor(d, call, order[j], Froms(args)[j])
  BY <1>1, <1>4, <1>7
<1>9. constructors[k].takes = takes /\ constructors[k].of = order
      /\ constructors[k].kind \in {"primary", "delegating"}
  BY DEF TakesOnly, takes, order
<1> QED BY <1>3, <1>6, <1>8, <1>9 DEF Meant

(* How many arguments of a call stand without a name.                      *)
LEMMA PositionalIs ==
  ASSUME NEW call, IsSequence(call.args)
  PROVE  /\ Len(call.args) \in Nat /\ DOMAIN call.args = 1 .. Len(call.args)
         /\ Cardinality(Positional(call)) \in Nat
         /\ Named(call) = {} => Cardinality(Positional(call)) = Len(call.args) /\ NamesUsed(call) = {}
<1> DEFINE n == Len(call.args)
<1>1. n \in Nat /\ DOMAIN call.args = 1 .. n
  BY SequenceIs
<1>. HIDE DEF n
<1>2. IsFiniteSet(1 .. n) /\ Cardinality(1 .. n) = n
  BY <1>1, FS_Interval
<1>3. Positional(call) \in SUBSET (1 .. n)
  BY <1>1 DEF Positional
<1>4. Cardinality(Positional(call)) \in Nat
  BY <1>2, <1>3, FS_Subset, FS_CardinalityType
<1>5. Named(call) = {} => Positional(call) = 1 .. n
  BY <1>1, <1>3 DEF Named
<1>6. Named(call) = {} => NamesUsed(call) = {}
  BY DEF NamesUsed
<1> QED BY <1>1, <1>2, <1>4, <1>5, <1>6 DEF n

(* A slot is empty exactly if the call omits its parameter.                *)
LEMMA UnsetIs ==
  ASSUME NEW call, IsSequence(call.args), NEW d, Positions(d) \subseteq Nat, NEW i \in Positions(d)
  PROVE  Slots(d, call)[i] = Unset <=> i \in Omitted(d, call)
<1> DEFINE c == Cardinality(Positional(call))
           used == d.params[i].name \in NamesUsed(call)
<1>1. c \in Nat /\ i \in Nat
  BY PositionalIs
<1>2. ASSUME NEW k PROVE Argument(call, k) # Unset
  <2>1. DOMAIN Argument(call, k) = {"from", "type"} /\ DOMAIN Unset = {"type"}
    BY DEF Argument, Unset
  <2>2. "from" # "type"
    OBVIOUS
  <2> QED BY <2>1, <2>2
<1>3. Slots(d, call)[i] =
        IF i <= c THEN Argument(call, i)
        ELSE IF used THEN Argument(call, CHOOSE k \in Named(call) : call.args[k].name = d.params[i].name)
        ELSE Unset
  BY DEF Slots
<1>4. i \in Omitted(d, call) <=> i > c /\ ~used
  BY DEF Omitted
<1>. HIDE DEF c, used
<1>5. i > c <=> ~(i <= c)
  BY <1>1
<1> QED BY <1>2, <1>3, <1>4, <1>5

(* Arguments without names fill the slots from the first.                  *)
LEMMA FilledInPlace ==
  ASSUME NEW call, IsSequence(call.args), Named(call) = {}, NEW d, NEW n \in Nat,
         Positions(d) = 1 .. n, Len(call.args) <= n
  PROVE  /\ {i \in Positions(d) : Slots(d, call)[i] # Unset} = 1 .. Len(call.args)
         /\ Select(Slots(d, call), 1 .. Len(call.args)) = AsWritten(call)
<1> DEFINE h == Len(call.args)
           slots == Slots(d, call)
<1>1. h \in Nat /\ DOMAIN call.args = 1 .. h /\ Cardinality(Positional(call)) = h /\ NamesUsed(call) = {}
  BY PositionalIs
<1>2. \A i \in Positions(d) : slots[i] = IF i <= h THEN Argument(call, i) ELSE Unset
  BY <1>1 DEF Slots
<1>3. \A i \in Positions(d) : slots[i] = Unset <=> i > h
  <2>1. \A i \in Positions(d) : slots[i] = Unset <=> i \in Omitted(d, call)
    BY UnsetIs
  <2>2. \A i \in Positions(d) : i \in Omitted(d, call) <=> i > h
    BY <1>1 DEF Omitted
  <2> QED BY <2>1, <2>2
<1>4. AsWritten(call) = [k \in 1 .. h |-> Argument(call, k)]
  BY <1>1 DEF AsWritten
<1>5. h <= n
  OBVIOUS
<1>. HIDE DEF h, slots
<1>6. {i \in Positions(d) : slots[i] # Unset} = 1 .. h
  <2>1. \A i : i \in 1 .. h <=> i \in 1 .. n /\ ~(i > h)
    BY <1>1, <1>5
  <2> QED BY <1>3, <2>1
<1>7. Ascending(1 .. h) = [k \in 1 .. h |-> k]
  BY <1>1, InPlace
<1>8. Select(slots, 1 .. h) = [k \in 1 .. h |-> slots[k]]
  <2> DEFINE order == Ascending(1 .. h)
  <2>1. Select(slots, 1 .. h) = [k \in DOMAIN order |-> slots[order[k]]]
    BY DEF Select
  <2>2. DOMAIN order = 1 .. h /\ \A k \in 1 .. h : order[k] = k
    BY <1>7
  <2> HIDE DEF order
  <2> QED BY <2>1, <2>2
<1>9. \A k \in 1 .. h : slots[k] = Argument(call, k)
  <2>1. \A k \in 1 .. h : k \in Positions(d) /\ k <= h
    BY <1>1, <1>5
  <2> QED BY <1>2, <2>1
<1>10. [k \in 1 .. h |-> slots[k]] = [k \in 1 .. h |-> Argument(call, k)]
  BY <1>9
<1> QED BY <1>4, <1>6, <1>8, <1>10 DEF h, slots

(* A call of the class as Kotlin lets it be written.                       *)
ClassCall(d, call) ==
  /\ KotlinCall(d, call) /\ call.of = "class" /\ ~call.unreadable
GivenTo(d, call) == Positions(d) \ Omitted(d, call)

LEMMA ClassCallIs ==
  ASSUME NEW d, KotlinClass(d), NEW call, ClassCall(d, call)
  PROVE  /\ IsSequence(call.args) /\ Readable(d, call) /\ ~NotThePrimary(d, call)
         /\ \A i \in Positions(d) :
              /\ i \in Omitted(d, call) <=> Slots(d, call)[i] = Unset
              /\ i \in Omitted(d, call) => HasDefault(d, i) /\ Accepts(d.params[i].type, d.params[i].default.type)
              /\ i \notin Omitted(d, call) => Accepts(d.params[i].type, Slots(d, call)[i].type)
<1>1. /\ IsSequence(call.args) /\ Readable(d, call) /\ ~NotThePrimary(d, call)
      /\ \A i \in Positions(d) :
           i \in Omitted(d, call) \/ Accepts(d.params[i].type, Slots(d, call)[i].type)
  BY DEF ClassCall, KotlinCall
<1>2. Positions(d) \subseteq Nat
  BY ClassIs
<1>3. \A i \in Positions(d) : i \in Omitted(d, call) <=> Slots(d, call)[i] = Unset
  BY <1>1, <1>2, UnsetIs
<1>4. \A i \in Omitted(d, call) : i \in Positions(d) /\ HasDefault(d, i)
  BY <1>1 DEF NotThePrimary, Omitted
<1>5. \A i \in Positions(d) : HasDefault(d, i) => Accepts(d.params[i].type, d.params[i].default.type)
  BY DEF KotlinClass, Positions
<1> QED BY <1>1, <1>3, <1>4, <1>5

(* What a call gives, in the order of the parameters, reaches the          *)
(* constructor that takes just that.                                       *)
LEMMA GivenReaches ==
  ASSUME NEW d, KotlinClass(d), NEW call, ClassCall(d, call), NEW k, TakesOnly(d, GivenTo(d, call), k)
  PROVE  Reaching(d, call, Select(Slots(d, call), GivenTo(d, call)))
<1> DEFINE S == GivenTo(d, call)
           order == Ascending(S)
           slots == Slots(d, call)
           args == Select(slots, S)
<1>1. S \subseteq Positions(d)
  BY DEF GivenTo
<1>2. Cardinality(S) \in Nat /\ order \in [1 .. Cardinality(S) -> S]
  <2> HIDE DEF S
  <2> QED BY <1>1, TypesIs
<1>3. args = [j \in DOMAIN order |-> slots[order[j]]]
  BY DEF Select
<1>4. \A i \in S : /\ i \in Positions(d) /\ slots[i] # Unset
                   /\ Accepts(d.params[i].type, slots[i].type)
                   /\ MeantFor(d, call, i, slots[i].from)
  BY ClassCallIs DEF GivenTo, MeantFor
<1>5. \A i \in Positions(d) \ S : slots[i] = Unset
  BY ClassCallIs DEF GivenTo
<1>. HIDE DEF S, order, slots, args
<1>6. DOMAIN args = 1 .. Cardinality(S) /\ \A j \in 1 .. Cardinality(S) : args[j] = slots[order[j]] /\ order[j] \in S
  BY <1>2, <1>3
<1>7. \A j \in 1 .. Cardinality(S) :
        /\ Accepts(d.params[order[j]].type, args[j].type)
        /\ MeantFor(d, call, order[j], args[j].from)
  BY <1>4, <1>6
<1>8. Applicable(constructors[k].takes, TypesOf(args)) /\ Meant(d, call, constructors[k], Froms(args))
  <2>1. TakesOnly(d, S, k)
    BY DEF S
  <2> QED BY <1>1, <1>5, <1>6, <1>7, <2>1, FitsTaker DEF order, slots
<1>9. k \in DOMAIN constructors /\ call.of = "class"
  BY DEF TakesOnly, ClassCall
<1> QED BY <1>8, <1>9 DEF Reaching, On, S, slots, args

(* With a literal for each parameter it omits, it reaches the primary      *)
(* constructor.                                                            *)
LEMMA LiteralsReach ==
  ASSUME NEW d, Moved(d), NEW call, ClassCall(d, call), NEW args,
         DOMAIN args = Positions(d),
         \A i \in Positions(d) :
           args[i] = IF i \in Omitted(d, call) THEN Literal(d, i) ELSE Slots(d, call)[i]
  PROVE  Reaching(d, call, args)
<1> DEFINE n == Len(d.params)
<1>1. KotlinClass(d) /\ TakesOnly(d, Positions(d), 1)
  BY TakenBy DEF Moved
<1>2. n \in Nat /\ Positions(d) = 1 .. n /\ Cardinality(Positions(d)) = n
  BY <1>1, ClassIs
<1>3. Ascending(Positions(d)) = [j \in 1 .. n |-> j]
  <2> HIDE DEF n
  <2> QED BY <1>2, InPlace
<1>. HIDE DEF n
<1>4. ASSUME NEW j \in 1 .. n
      PROVE  Accepts(d.params[j].type, args[j].type) /\ MeantFor(d, call, j, args[j].from)
  <2>1. /\ j \in Positions(d) /\ (j \in Omitted(d, call) <=> Slots(d, call)[j] = Unset)
        /\ args[j] = IF j \in Omitted(d, call) THEN Literal(d, j) ELSE Slots(d, call)[j]
    BY <1>1, <1>2, ClassCallIs
  <2>2. CASE j \in Omitted(d, call)
    <3>1. Accepts(d.params[j].type, d.params[j].default.type)
      BY <1>1, <2>1, <2>2, ClassCallIs
    <3>2. args[j].type = d.params[j].default.type /\ args[j].from = <<"literal", d.params[j].name>>
      BY <2>1, <2>2 DEF Literal
    <3> QED BY <2>1, <2>2, <3>1, <3>2 DEF MeantFor
  <2>3. CASE j \notin Omitted(d, call)
    <3>1. Accepts(d.params[j].type, Slots(d, call)[j].type)
      BY <1>1, <2>1, <2>3, ClassCallIs
    <3> QED BY <2>1, <2>3, <3>1 DEF MeantFor
  <2> QED BY <2>2, <2>3
<1>5. DOMAIN args = 1 .. n
  BY <1>2
<1>6. \A j \in 1 .. n : Ascending(Positions(d))[j] = j
  BY <1>3
<1>7. Applicable(constructors[1].takes, TypesOf(args)) /\ Meant(d, call, constructors[1], Froms(args))
  <2> DEFINE S == Positions(d)
             k == 1
  <2>1. S \subseteq Positions(d) /\ \A i \in Positions(d) \ S : Slots(d, call)[i] = Unset
    OBVIOUS
  <2>2. TakesOnly(d, S, k) /\ Cardinality(S) = n /\ \A j \in 1 .. n : Ascending(S)[j] = j
    BY <1>1, <1>2, <1>6
  <2> HIDE DEF S, k
  <2>3. /\ DOMAIN args = 1 .. Cardinality(S) /\ KotlinClass(d)
        /\ \A j \in 1 .. Cardinality(S) :
             /\ Accepts(d.params[Ascending(S)[j]].type, args[j].type)
             /\ MeantFor(d, call, Ascending(S)[j], args[j].from)
    BY <1>1, <1>4, <1>5, <2>2
  <2>4. Applicable(constructors[k].takes, TypesOf(args)) /\ Meant(d, call, constructors[k], Froms(args))
    BY <2>1, <2>2, <2>3, FitsTaker
  <2> QED BY <2>4 DEF k
<1>8. 1 \in DOMAIN constructors /\ call.of = "class"
  BY Standing DEF ClassCall
<1> QED BY <1>7, <1>8 DEF Reaching, On

(* What a call of the class omits has an overload, as it is written.       *)
LEMMA OmissionPlanned ==
  ASSUME Phased, Emits, NEW c \in DOMAIN calls, ClassCall(class, calls[c]), Omitted(class, calls[c]) # {}
  PROVE  \E m \in DOMAIN plan.overloads : plan.overloads[m] = Omitted(class, calls[c])
<1> DEFINE p == Omitted(class, calls[c])
           l == Ladder(class)
           t == SetToSeq(Needed(class))
           o == plan.overloads
<1>1. KotlinClass(class) /\ plan = Planned(class) /\ ~Blocked(class)
  BY ShapeOfPlan DEF Phased, Translated, Emits
<1>2. o = l \o t
  BY <1>1 DEF Planned
<1>3. Readable(class, calls[c]) /\ ~NotThePrimary(class, calls[c])
  BY <1>1, ClassCallIs
<1>4. p \in Patterns(class)
  BY <1>3 DEF Patterns, Range
<1>5. Len(l) \in Nat /\ DOMAIN l = 1 .. Len(l) /\ IsSequence(l)
  <2>1. Steps(l, Defaulted(class))
    BY <1>1, LadderIs
  <2>2. l \in Seq(SUBSET Defaulted(class)) /\ Len(l) \in Nat /\ DOMAIN l = 1 .. Len(l)
    BY <2>1 DEF Steps
  <2> HIDE DEF l
  <2> QED BY <2>2, SequenceBy
<1>6. /\ Cardinality(Needed(class)) \in Nat /\ IsSequence(t) /\ Len(t) = Cardinality(Needed(class))
      /\ DOMAIN t = 1 .. Len(t)
      /\ \A x \in Needed(class) : \E k \in 1 .. Len(t) : t[k] = x
  <2>1. /\ Cardinality(Needed(class)) \in Nat
        /\ t \in [1 .. Cardinality(Needed(class)) -> Needed(class)]
        /\ \A x \in Needed(class) : \E k \in 1 .. Cardinality(Needed(class)) : t[k] = x
    BY <1>1, NeededIs, SetToSeqIs
  <2> HIDE DEF t
  <2>2. DOMAIN t = 1 .. Cardinality(Needed(class)) /\ t = [k \in 1 .. Cardinality(Needed(class)) |-> t[k]]
    BY <2>1
  <2>3. IsSequence(t) /\ Len(t) = Cardinality(Needed(class))
    BY <2>1, <2>2, SequenceBy
  <2> QED BY <2>1, <2>2, <2>3
<1>7. Joined(l \o t, l, t)
  BY <1>5, <1>6, Joins
<1>8. p \in Range(l) \/ p \in Needed(class)
  BY <1>4 DEF Needed
<1>. HIDE DEF p, l, t, o
<1>9. /\ Len(o) = Len(l) + Len(t) /\ DOMAIN o = 1 .. Len(o)
      /\ \A k \in 1 .. Len(l) : o[k] = l[k]
      /\ \A k \in 1 .. Len(t) : o[Len(l) + k] = t[k]
  <2>1. IsSequence(o)
    BY <1>2, <1>7 DEF Joined
  <2>2. DOMAIN o = 1 .. Len(o)
    BY <2>1, SequenceIs
  <2> QED BY <1>2, <1>7, <2>2 DEF Joined
<1>10. CASE p \in Range(l)
  <2>1. PICK k \in 1 .. Len(l) : l[k] = p
    BY <1>5, <1>10 DEF Range
  <2>2. k \in DOMAIN o
    BY <1>5, <1>6, <1>9
  <2> QED BY <1>9, <2>1, <2>2 DEF o, p
<1>11. CASE p \in Needed(class)
  <2>1. PICK k \in 1 .. Len(t) : t[k] = p
    BY <1>6, <1>11
  <2>2. Len(l) + k \in DOMAIN o
    BY <1>5, <1>6, <1>9
  <2> QED BY <1>9, <2>1, <2>2 DEF o, p
<1> QED BY <1>8, <1>10, <1>11

(* So what it gives reaches its constructor.                               *)
LEMMA SelectedReaches ==
  ASSUME Phased, Emits, NEW c \in DOMAIN calls, NEW call, call = calls[c], ClassCall(class, call)
  PROVE  Reaching(class, call, Select(Slots(class, call), GivenTo(class, call)))
<1>1. Moved(class) /\ KotlinClass(class)
  BY MovedClass DEF Moved
<1>2. \E k : TakesOnly(class, GivenTo(class, call), k)
  <2>1. CASE Omitted(class, call) = {}
    <3>1. GivenTo(class, call) = Positions(class)
      BY <2>1 DEF GivenTo
    <3>2. TakesOnly(class, Positions(class), 1)
      BY <1>1, TakenBy
    <3> QED BY <3>1, <3>2
  <2>2. CASE Omitted(class, call) # {}
    <3>1. PICK m \in DOMAIN plan.overloads : plan.overloads[m] = Omitted(class, call)
      BY <2>2, OmissionPlanned
    <3>2. Kept(class, plan.overloads[m]) = GivenTo(class, call)
      BY <3>1 DEF Kept, GivenTo
    <3>3. TakesOnly(class, Kept(class, plan.overloads[m]), 1 + m)
      BY <1>1, TakenBy
    <3> QED BY <3>2, <3>3
  <2> QED BY <2>1, <2>2
<1> QED BY <1>1, <1>2, GivenReaches

(* A call that names nothing does as it is written.                        *)
LEMMA UnnamedReaches ==
  ASSUME Phased, Emits, NEW c \in DOMAIN calls, NEW call, call = calls[c], ClassCall(class, call),
         Named(call) = {}
  PROVE  Reaching(class, call, AsWritten(call))
<1> DEFINE n == Len(class.params)
           S == {i \in Positions(class) : Slots(class, call)[i] # Unset}
<1>1. KotlinClass(class)
  BY MovedClass DEF Moved
<1>2. n \in Nat /\ Positions(class) = 1 .. n
  BY <1>1, ClassIs
<1>3. IsSequence(call.args) /\ Cardinality(Positional(call)) <= n
  BY <1>1, ClassCallIs DEF Readable
<1>4. Len(call.args) <= n
  BY <1>3, PositionalIs
<1>5. S = GivenTo(class, call)
  BY <1>1, ClassCallIs DEF GivenTo
<1>. HIDE DEF n
<1>6. S = 1 .. Len(call.args) /\ Select(Slots(class, call), 1 .. Len(call.args)) = AsWritten(call)
  BY <1>2, <1>3, <1>4, FilledInPlace
<1>7. Reaching(class, call, Select(Slots(class, call), GivenTo(class, call)))
  BY SelectedReaches
<1>. HIDE DEF S
<1>8. AsWritten(call) = Select(Slots(class, call), GivenTo(class, call))
  BY <1>5, <1>6
<1> QED BY <1>7, <1>8

(* So does a call of a secondary constructor.                              *)
LEMMA SecondaryReaches ==
  ASSUME NEW d, Moved(d), NEW call, KotlinCall(d, call), call.of = "secondary"
  PROVE  Reaching(d, call, AsWritten(call))
<1>1. call.takes \in Range(d.secondaries) /\ Applicable(call.takes, TypesOf(call.args))
  BY DEF KotlinCall
<1>2. PICK k \in DOMAIN constructors : constructors[k] = Secondary(call.takes)
  BY <1>1, Standing
<1>3. constructors[k].takes = call.takes /\ constructors[k].kind = "secondary"
  BY <1>2 DEF Secondary
<1>4. \A j \in DOMAIN call.args : AsWritten(call)[j].type = call.args[j].type
                                  /\ AsWritten(call)[j].from = <<"argument", j>>
  BY DEF AsWritten, Argument
<1>5. DOMAIN AsWritten(call) = DOMAIN call.args
  BY DEF AsWritten
<1>6. TypesOf(AsWritten(call)) = TypesOf(call.args)
  BY <1>4, <1>5 DEF TypesOf
<1>7. Froms(AsWritten(call)) = [j \in DOMAIN call.args |-> <<"argument", j>>]
  BY <1>4, <1>5 DEF Froms
<1> QED BY <1>1, <1>3, <1>6, <1>7 DEF Reaching, On, Exact

(* A retained call that names nothing stays as it is.                      *)
LEMMA RewrittenUnnamed ==
  ASSUME Listed(javaNames), NEW call, IsSequence(call.args), Named(call) = {}
  PROVE  Rewritten(call) = AsWritten(call)
<1>1. PICK n \in Nat : DOMAIN javaNames = 1 .. n
  BY DEF Listed
<1> DEFINE target == Target
           slots == Slots(target, call)
           S == {i \in DOMAIN javaNames : slots[i] # Unset}
<1>2. Positions(target) = 1 .. n /\ Len(target.params) = n
  <2>1. target.params = [i \in 1 .. n |-> [name |-> javaNames[i]]]
    BY <1>1 DEF Target
  <2>2. Positions(target) = DOMAIN target.params
    BY DEF Positions
  <2> HIDE DEF target
  <2>3. DOMAIN target.params = 1 .. n
    BY <2>1
  <2>4. Len(target.params) = n
    BY <1>1, <2>1
  <2> QED BY <2>2, <2>3, <2>4
<1>3. Rewritten(call) = IF ~Readable(target, call) \/ (Named(call) = {} /\ S = DOMAIN javaNames)
                        THEN AsWritten(call) ELSE Select(slots, S)
  BY DEF Rewritten
<1>. HIDE DEF target
<1>4. CASE Readable(target, call)
  <2>1. Len(call.args) <= n
    BY <1>2, <1>4, PositionalIs DEF Readable
  <2>2. /\ {i \in Positions(target) : slots[i] # Unset} = 1 .. Len(call.args)
        /\ Select(slots, 1 .. Len(call.args)) = AsWritten(call)
    BY <1>2, <2>1, FilledInPlace
  <2>3. S = {i \in Positions(target) : slots[i] # Unset}
    BY <1>1, <1>2
  <2> HIDE DEF slots, S
  <2> QED BY <1>3, <2>2, <2>3
<1>5. CASE ~Readable(target, call)
  BY <1>3, <1>5
<1> QED BY <1>4, <1>5

(* One that names arguments as the Java class names its parameters is      *)
(* written in their order.                                                 *)
LEMMA RewrittenNamed ==
  ASSUME KotlinClass(class), ~OtherNames, NEW call, ClassCall(class, call), Named(call) # {}
  PROVE  /\ Readable(Target, call)
         /\ Rewritten(call) = Select(Slots(class, call), GivenTo(class, call))
<1> DEFINE target == Target
<1>1. javaNames = [i \in Positions(class) |-> class.params[i].name]
  BY DEF OtherNames
<1>2. target.params = [i \in Positions(class) |-> [name |-> class.params[i].name]]
  <2>1. target.params = [i \in DOMAIN javaNames |-> [name |-> javaNames[i]]]
    BY DEF Target
  <2> HIDE DEF target
  <2>2. DOMAIN javaNames = Positions(class) /\ \A i \in Positions(class) : javaNames[i] = class.params[i].name
    BY <1>1
  <2> QED BY <2>1, <2>2
<1>. HIDE DEF target
<1>3. Positions(target) = Positions(class) /\ \A i \in Positions(class) : target.params[i].name = class.params[i].name
  <2>1. Positions(target) = DOMAIN target.params
    BY DEF Positions
  <2>2. DOMAIN target.params = Positions(class)
    BY <1>2
  <2> QED BY <1>2, <2>1, <2>2
<1>4. Names(target) = Names(class)
  BY <1>3 DEF Names
<1>5. Len(target.params) = Len(class.params)
  <2>1. Positions(class) = 1 .. Len(class.params) /\ Len(class.params) \in Nat
    BY ClassIs
  <2> DEFINE n == Len(class.params)
  <2>2. target.params = [i \in 1 .. n |-> target.params[i]] /\ n \in Nat
    BY <1>2, <2>1
  <2>3. DOMAIN target.params = 1 .. n
    BY <2>2
  <2> HIDE DEF n
  <2>4. Len(target.params) = n
    BY <2>2, <2>3, SequenceBy
  <2> QED BY <2>4 DEF n
<1>6. Readable(class, call)
  BY ClassCallIs
<1>7. Readable(target, call)
  BY <1>4, <1>5, <1>6 DEF Readable
<1>8. Slots(target, call) = Slots(class, call)
  <2> DEFINE c == Cardinality(Positional(call))
             slot(name, i) ==
               IF i <= c THEN Argument(call, i)
               ELSE IF name \in NamesUsed(call)
               THEN Argument(call, CHOOSE k \in Named(call) : call.args[k].name = name) ELSE Unset
  <2>1. Slots(target, call) = [i \in Positions(target) |-> slot(target.params[i].name, i)]
    BY DEF Slots
  <2>2. Slots(class, call) = [i \in Positions(class) |-> slot(class.params[i].name, i)]
    BY DEF Slots
  <2> HIDE DEF slot
  <2> QED BY <1>3, <2>1, <2>2
<1>9. {i \in DOMAIN javaNames : Slots(class, call)[i] # Unset} = GivenTo(class, call)
  <2>1. DOMAIN javaNames = Positions(class)
    BY <1>1
  <2>2. \A i \in Positions(class) : i \in Omitted(class, call) <=> Slots(class, call)[i] = Unset
    BY ClassCallIs
  <2> QED BY <2>1, <2>2 DEF GivenTo
<1>10. Rewritten(call) =
         IF ~Readable(target, call) \/ (Named(call) = {} /\ {i \in DOMAIN javaNames : Slots(target, call)[i] # Unset} = DOMAIN javaNames)
         THEN AsWritten(call)
         ELSE Select(Slots(target, call), {i \in DOMAIN javaNames : Slots(target, call)[i] # Unset})
  BY DEF Rewritten, target
<1>11. Rewritten(call) = Select(Slots(target, call), {i \in DOMAIN javaNames : Slots(target, call)[i] # Unset})
  BY <1>7, <1>10
<1>12. Rewritten(call) = Select(Slots(class, call), GivenTo(class, call))
  BY <1>8, <1>9, <1>11
<1> QED BY <1>7, <1>12 DEF target

(* A moved call that names nothing and is read with a declaration is       *)
(* shorter than it.                                                        *)
LEMMA CandidateIsLonger ==
  ASSUME IsSequence(scenario.candidates), NEW call, Named(call) = {}, Candidate(call) # 0
  PROVE  Len(scenario.candidates[Candidate(call)].params) > Len(call.args)
<1> DEFINE s == scenario.candidates
           n == Len(s)
           J == {i \in 1 .. n : StopsEarly(s[i], call)}
<1>1. n \in Nat /\ DOMAIN s = 1 .. n
  BY SequenceIs
<1>2. Candidate(call) = IF J # {} THEN Min(J) ELSE 0
  BY DEF Candidate, FirstOf, SelectInSeq
<1>3. J \subseteq 1 .. n
  OBVIOUS
<1>. HIDE DEF n, J
<1>4. Candidate(call) \in J
  BY <1>1, <1>2, <1>3, LeastIs
<1>5. StopsEarly(s[Candidate(call)], call)
  BY <1>4 DEF J
<1> QED BY <1>5 DEF StopsEarly

(* A moved call of the class, read as one, fills in literals or leaves out *)
(* what it omits.                                                          *)
LEMMA LoweredClass ==
  ASSUME Phased, Emits, NEW c \in DOMAIN calls, NEW call, call = calls[c], ClassCall(class, call)
  PROVE  Reaching(class, call, LowerCallArgs(class, call))
<1> DEFINE slots == Slots(class, call)
           missing == {i \in Positions(class) : slots[i] = Unset}
           filled == [i \in Positions(class) |-> IF i \in missing THEN Literal(class, i) ELSE slots[i]]
<1>1. Moved(class) /\ KotlinClass(class)
  BY MovedClass DEF Moved
<1>2. missing = Omitted(class, call)
  <2>1. \A i \in Positions(class) : i \in Omitted(class, call) <=> slots[i] = Unset
    BY <1>1, ClassCallIs
  <2>2. Omitted(class, call) \subseteq Positions(class)
    BY DEF Omitted
  <2> HIDE DEF slots
  <2> QED BY <2>1, <2>2
<1>3. LowerCallArgs(class, call) = IF \A i \in missing : Neutral(class, i) THEN filled
                                   ELSE Select(slots, Positions(class) \ missing)
  BY DEF LowerCallArgs
<1>. HIDE DEF missing
<1>4. Reaching(class, call, filled)
  <2>1. DOMAIN filled = Positions(class)
    OBVIOUS
  <2>2. \A i \in Positions(class) :
          filled[i] = IF i \in Omitted(class, call) THEN Literal(class, i) ELSE Slots(class, call)[i]
    BY <1>2
  <2> HIDE DEF filled
  <2> QED BY <1>1, <2>1, <2>2, LiteralsReach
<1>5. Reaching(class, call, Select(slots, Positions(class) \ missing))
  BY <1>2, SelectedReaches DEF GivenTo
<1>. HIDE DEF slots, filled
<1> QED BY <1>3, <1>4, <1>5

(* One of a secondary constructor, not read as a short one, stays as it    *)
(* is.                                                                     *)
LEMMA LoweredOther ==
  ASSUME IsSequence(scenario.candidates), \A d \in Range(scenario.candidates) : IsSequence(d.params),
         NEW call, IsSequence(call.args), Named(call) = {},
         Candidate(call) = 0 \/ ~LooksShort(scenario.candidates[Candidate(call)], call)
  PROVE  Lowered(call) = AsWritten(call)
<1>1. CASE Candidate(call) = 0
  BY <1>1 DEF Lowered
<1>2. CASE Candidate(call) # 0
  <2> DEFINE d == scenario.candidates[Candidate(call)]
             n == Len(d.params)
             slots == Slots(d, call)
             S == {i \in Positions(d) : slots[i] # Unset}
  <2>1. IsSequence(d.params)
    BY <1>2, CandidateIs DEF Range
  <2>2. Lowered(call) = LowerCallArgs(d, call) /\ ~LooksShort(d, call)
    BY <1>2 DEF Lowered
  <2>3. n > Len(call.args)
    BY <1>2, CandidateIsLonger
  <2> HIDE DEF d
  <2>4. n \in Nat /\ Positions(d) = 1 .. n
    BY <2>1, SequenceIs DEF Positions
  <2>5. LowerCallArgs(d, call) = Select(slots, Positions(d) \ {i \in Positions(d) : slots[i] = Unset})
    BY <2>2 DEF LowerCallArgs, LooksShort
  <2>6. Positions(d) \ {i \in Positions(d) : slots[i] = Unset} = S
    OBVIOUS
  <2>7. Len(call.args) <= n /\ Len(call.args) \in Nat
    BY <2>3, <2>4, SequenceIs
  <2> HIDE DEF n, S
  <2>8. S = 1 .. Len(call.args) /\ Select(slots, 1 .. Len(call.args)) = AsWritten(call)
    BY <2>4, <2>7, FilledInPlace DEF S
  <2> HIDE DEF slots
  <2> QED BY <2>2, <2>5, <2>6, <2>8
<1> QED BY <1>1, <1>2

(* However a call is translated, if the rewriting does not misread it its  *)
(* arguments fit a constructor that means what the call means.             *)
LEMMA CallReaches ==
  ASSUME Phased, Emits, NEW c \in DOMAIN calls, NEW call, call = calls[c], ~Misread(call), NEW args,
         args = IF ~call.retained THEN Lowered(call)
                ELSE IF scenario.inPlace THEN Rewritten(call) ELSE AsWritten(call)
  PROVE  Reaching(class, call, args) /\ ~StillNamed(c)
<1>1. /\ KotlinClass(class) /\ KotlinCall(class, call) /\ IsSequence(call.args)
      /\ IsSequence(scenario.candidates) /\ \A d \in Range(scenario.candidates) : IsSequence(d.params)
  BY ScenarioIs DEF Phased
<1>2. Moved(class) /\ Listed(javaNames)
  BY MovedClass DEF Phased
<1>3. ~call.unreadable /\ call.of \in {"class", "secondary"}
  BY <1>1 DEF Misread, KotlinCall
<1>4. Named(call) = {} => ~StillNamed(c) /\ Rewritten(call) = AsWritten(call)
  BY <1>1, <1>2, RewrittenUnnamed DEF StillNamed
<1>5. CASE call.of = "class"
  <2>1. ClassCall(class, call)
    BY <1>1, <1>3, <1>5 DEF ClassCall
  <2>2. Named(call) = {} => Reaching(class, call, AsWritten(call))
    BY <2>1, UnnamedReaches
  <2>3. CASE ~call.retained
    <3>1. ~StillNamed(c) /\ args = Lowered(call)
      BY <2>3 DEF StillNamed
    <3>2. CASE Candidate(call) = 0
      <4>1. Named(call) = {} /\ args = AsWritten(call)
        BY <2>3, <3>1, <3>2 DEF Misread, Lowered
      <4> QED BY <2>2, <3>1, <4>1
    <3>3. CASE Candidate(call) # 0
      <4>1. scenario.candidates[Candidate(call)] = class
        BY <1>5, <2>3, <3>3 DEF Misread
      <4>2. args = LowerCallArgs(class, call)
        BY <3>1, <3>3, <4>1 DEF Lowered
      <4>3. Reaching(class, call, LowerCallArgs(class, call))
        BY <2>1, LoweredClass
      <4> QED BY <3>1, <4>2, <4>3
    <3> QED BY <3>2, <3>3
  <2>4. CASE call.retained /\ Named(call) = {}
    BY <1>4, <2>2, <2>4
  <2>5. CASE call.retained /\ Named(call) # {}
    <3>1. scenario.inPlace /\ ~OtherNames
      BY <2>5 DEF Misread
    <3>2. Readable(Target, call) /\ Rewritten(call) = Select(Slots(class, call), GivenTo(class, call))
      BY <1>1, <2>1, <2>5, <3>1, RewrittenNamed
    <3>3. Reaching(class, call, Select(Slots(class, call), GivenTo(class, call)))
      BY <2>1, SelectedReaches
    <3>4. ~StillNamed(c)
      BY <3>1, <3>2 DEF StillNamed
    <3>5. args = Rewritten(call)
      BY <2>5, <3>1
    <3>6. args = Select(Slots(class, call), GivenTo(class, call))
      BY <3>2, <3>5
    <3> QED BY <3>3, <3>4, <3>6
  <2> QED BY <2>3, <2>4, <2>5
<1>6. CASE call.of = "secondary"
  <2>1. Named(call) = {}
    BY <1>6 DEF Misread
  <2>2. Reaching(class, call, AsWritten(call))
    BY <1>1, <1>2, <1>6, SecondaryReaches
  <2>3. CASE call.retained
    BY <1>4, <2>1, <2>2, <2>3
  <2>4. CASE ~call.retained
    <3>1. Candidate(call) = 0 \/ ~LooksShort(scenario.candidates[Candidate(call)], call)
      <4>1. call.of # "class"
        BY <1>6
      <4> QED BY <2>4, <4>1 DEF Misread
    <3>2. Lowered(call) = AsWritten(call)
      BY <1>1, <2>1, <3>1, LoweredOther
    <3> QED BY <1>4, <2>1, <2>2, <2>4, <3>2
  <2> QED BY <2>3, <2>4
<1> QED BY <1>3, <1>5, <1>6

FunctionOn(f, S) == f = [x \in S |-> f[x]]

(* What an overload hands on is meant for the parameters of the one it     *)
(* delegates to.                                                           *)
LEMMA OverloadMeans ==
  ASSUME NEW d, Moved(d), NEW m \in DOMAIN plan.overloads, NEW c, c = Overload(d, plan.overloads[m]),
         NEW call, NEW gets, Meant(d, call, c, gets), NEW after, FunctionOn(after, DOMAIN c.passes),
         \A j \in DOMAIN c.passes : after[j] = Handed(c, gets, c.passes[j])
  PROVE  \E t \in DOMAIN constructors :
           Applicable(constructors[t].takes, TypesOf(c.passes)) /\ Meant(d, call, constructors[t], after)
<1> DEFINE p == plan.overloads[m]
           rest == Rest(d, p)
           order == Ascending(rest)
           h == Cardinality(rest)
           kept == Kept(d, p)
           args == [j \in 1 .. h |-> [from |-> after[j], type |-> c.passes[j].type]]
<1>1. KotlinClass(d) /\ p \subseteq Positions(d) /\ DelegateOmits(d, p) \subseteq p
  BY MovedIs, DelegateIs DEF Moved
<1>2. rest = Positions(d) \ DelegateOmits(d, p) /\ kept = Positions(d) \ p
  BY DEF Rest, Kept
<1>3. rest \subseteq Positions(d) /\ kept \subseteq Positions(d) /\ kept \subseteq rest
  BY <1>1, <1>2
<1>4. \E t : TakesOnly(d, rest, t)
  <2>1. CASE DelegateOmits(d, p) = {}
    <3>1. rest = Positions(d)
      BY <1>2, <2>1
    <3>2. TakesOnly(d, Positions(d), 1)
      BY TakenBy
    <3> QED BY <3>1, <3>2
  <2>2. CASE DelegateOmits(d, p) # {}
    <3>1. m - 1 \in DOMAIN plan.overloads /\ DelegateOmits(d, p) = plan.overloads[m - 1]
      BY <2>2, DelegateIs DEF OnLadder, OffLadder
    <3>2. TakesOnly(d, Kept(d, plan.overloads[m - 1]), 1 + (m - 1))
      BY <3>1, TakenBy
    <3>3. rest = Kept(d, plan.overloads[m - 1])
      BY <3>1 DEF Rest
    <3> QED BY <3>2, <3>3
  <2> QED BY <2>1, <2>2
<1>5. /\ h \in Nat /\ order \in [1 .. h -> rest]
  <2> HIDE DEF rest
  <2> QED BY <1>1, <1>3, TypesIs
<1>6. /\ DOMAIN c.passes = 1 .. h
      /\ \A j \in 1 .. h :
           c.passes[j] =
             IF order[j] \in p THEN [from |-> <<"default", order[j]>>, type |-> PassedType(d, order[j], p)]
             ELSE [from |-> <<"parameter", order[j]>>, type |-> d.params[order[j]].type]
  <2>1. PassesOn(d, p)
    BY OverloadPasses
  <2>2. c = Overload(d, p)
    OBVIOUS
  <2> HIDE DEF p, h, order, rest
  <2> QED BY <2>1, <2>2 DEF PassesOn, h, order, rest
<1>7. c.of = Ascending(kept)
  BY DEF Overload, Kept
<1>8. \A i \in p : HasDefault(d, i)
  BY DEF Moved, Shape, Defaulted
<1>9. PICK t : TakesOnly(d, rest, t)
  BY <1>4
<1>. HIDE DEF p, rest, order, h, kept
<1>10. Range(c.of) = kept /\ \A i \in kept : \E g \in DOMAIN c.of : c.of[g] = i
  <2>1. kept \in SUBSET Positions(d)
    BY <1>3
  <2>2. IsFiniteSet(kept) /\ kept \subseteq Nat
    BY <1>1, <2>1, ClassIs
  <2>3. Range(c.of) = kept
    BY <1>7, <2>2, InOrderRange
  <2> QED BY <2>3 DEF Range
<1>11. /\ DOMAIN gets = DOMAIN c.of
       /\ \A g \in DOMAIN c.of : MeantFor(d, call, c.of[g], gets[g])
       /\ \A i \in Positions(d) \ kept : Slots(d, call)[i] = Unset
  BY <1>10 DEF Meant
<1>12. ASSUME NEW j \in 1 .. h
       PROVE  /\ Accepts(d.params[order[j]].type, c.passes[j].type)
              /\ MeantFor(d, call, order[j], after[j])
  <2> DEFINE i == order[j]
             arg == c.passes[j]
  <2>1. i \in rest /\ i \in Positions(d)
    BY <1>3, <1>5
  <2>2. after[j] = IF arg.from[1] = "parameter" THEN gets[CHOOSE g \in DOMAIN c.of : c.of[g] = arg.from[2]]
                   ELSE arg.from
    BY <1>6 DEF Handed
  <2>3. arg = IF i \in p THEN [from |-> <<"default", i>>, type |-> PassedType(d, i, p)]
              ELSE [from |-> <<"parameter", i>>, type |-> d.params[i].type]
    BY <1>6
  <2> HIDE DEF i, arg
  <2>4. CASE i \in p
    <3>1. arg.from = <<"default", i>> /\ arg.type = PassedType(d, i, p)
      BY <2>3, <2>4
    <3> DEFINE f == <<"default", i>>
    <3>2. f[1] # "parameter" /\ arg.from = f
      BY <3>1
    <3> HIDE DEF f
    <3>3. after[j] = f
      BY <2>2, <3>2
    <3>4. Slots(d, call)[i] = Unset
      BY <1>2, <1>11, <2>1, <2>4
    <3>5. MeantFor(d, call, i, after[j])
      BY <3>3, <3>4 DEF MeantFor, f
    <3>6. PassedType(d, i, p) = d.params[i].type \/ PassedType(d, i, p) = d.params[i].default.type
      BY DEF PassedType
    <3>7. Accepts(d.params[i].type, d.params[i].default.type) /\ Accepts(d.params[i].type, d.params[i].type)
      BY <1>1, <1>8, <2>1, <2>4 DEF KotlinClass, Positions, Accepts
    <3> QED BY <3>1, <3>5, <3>6, <3>7 DEF i, arg
  <2>5. CASE i \notin p
    <3>1. arg.from = <<"parameter", i>> /\ arg.type = d.params[i].type
      BY <2>3, <2>5
    <3>2. arg.from[1] = "parameter" /\ arg.from[2] = i
      BY <3>1
    <3>3. after[j] = gets[CHOOSE g \in DOMAIN c.of : c.of[g] = i]
      BY <2>2, <3>2
    <3>4. \E g \in DOMAIN c.of : c.of[g] = i
      BY <1>2, <1>10, <2>1, <2>5
    <3> DEFINE g == CHOOSE g \in DOMAIN c.of : c.of[g] = i
    <3>5. g \in DOMAIN c.of /\ c.of[g] = i
      BY <3>4
    <3>6. after[j] = gets[g]
      BY <3>3
    <3> HIDE DEF g
    <3>7. MeantFor(d, call, i, after[j])
      BY <1>11, <3>5, <3>6
    <3>8. Accepts(d.params[i].type, arg.type)
      BY <3>1 DEF Accepts
    <3> QED BY <3>7, <3>8 DEF i, arg
  <2> QED BY <2>4, <2>5
<1>13. DOMAIN args = 1 .. h /\ \A j \in 1 .. h : args[j].type = c.passes[j].type /\ args[j].from = after[j]
  OBVIOUS
<1>14. TypesOf(args) = TypesOf(c.passes)
  BY <1>6, <1>13 DEF TypesOf
<1>15. Froms(args) = after
  <2>1. after = [j \in DOMAIN c.passes |-> after[j]]
    BY DEF FunctionOn
  <2> QED BY <1>6, <1>13, <2>1 DEF Froms
<1>. HIDE DEF args
<1>16. Applicable(constructors[t].takes, TypesOf(args)) /\ Meant(d, call, constructors[t], Froms(args))
  <2>1. \A i \in Positions(d) \ rest : Slots(d, call)[i] = Unset
    BY <1>3, <1>11
  <2>2. /\ DOMAIN args = 1 .. Cardinality(rest)
        /\ \A j \in 1 .. Cardinality(rest) :
             /\ Accepts(d.params[Ascending(rest)[j]].type, args[j].type)
             /\ MeantFor(d, call, Ascending(rest)[j], args[j].from)
    BY <1>12, <1>13 DEF h, order
  <2> QED BY <1>1, <1>3, <1>9, <2>1, <2>2, FitsTaker
<1>17. t \in DOMAIN constructors
  BY <1>9 DEF TakesOnly
<1> QED BY <1>14, <1>15, <1>16, <1>17

(* The constructor without parameters hands every parameter its default.   *)
LEMMA NoArgumentMeans ==
  ASSUME NEW d, Moved(d), NoArgument(d) # << >>, NEW c, c = NoArgument(d)[1], c.kind = "delegating",
         NEW call, NEW gets, Meant(d, call, c, gets), NEW after,
         FunctionOn(after, DOMAIN c.passes),
         \A j \in DOMAIN c.passes : after[j] = Handed(c, gets, c.passes[j])
  PROVE  \E t \in DOMAIN constructors :
           Applicable(constructors[t].takes, TypesOf(c.passes)) /\ Meant(d, call, constructors[t], after)
<1> DEFINE n == Len(d.params)
           S == Positions(d)
           k == 1
           args == [j \in 1 .. n |-> [from |-> after[j], type |-> c.passes[j].type]]
<1>1. KotlinClass(d) /\ TakesOnly(d, S, k)
  BY TakenBy DEF Moved
<1>2. n \in Nat /\ S = 1 .. n /\ Cardinality(S) = n
  BY <1>1, ClassIs
<1>3. AllDefaulted(d) /\ c.of = << >>
  <2>1. WithoutArguments(d, c)
    BY <1>1, NoArgumentPasses
  <2>2. "delegating" # "cleared"
    OBVIOUS
  <2> QED BY <2>1, <2>2 DEF WithoutArguments, FillsAll, Clears
<1>4. c.passes = [i \in S |-> [from |-> <<"default", i>>, type |-> d.params[i].default.type]]
  <2>1. c = [kind |-> "delegating", takes |-> << >>, of |-> << >>,
             passes |-> [i \in Positions(d) |->
                           [from |-> <<"default", i>>, type |-> d.params[i].default.type]]]
    BY <1>3 DEF NoArgument
  <2> QED BY <2>1
<1>5. \A i \in S : HasDefault(d, i) /\ Accepts(d.params[i].type, d.params[i].default.type)
  BY <1>1, <1>3 DEF AllDefaulted, KotlinClass, Positions
<1>6. \A i \in S : Slots(d, call)[i] = Unset
  <2>1. Range(c.of) = {}
    BY <1>3 DEF Range
  <2> QED BY <2>1 DEF Meant
<1>. HIDE DEF n, k
<1>7. Ascending(S) = [j \in 1 .. n |-> j]
  BY <1>2, InPlace
<1>. HIDE DEF S
<1>8. DOMAIN c.passes = 1 .. n
  BY <1>2, <1>4
<1>9. ASSUME NEW j \in 1 .. n
      PROVE  Accepts(d.params[j].type, c.passes[j].type) /\ MeantFor(d, call, j, after[j])
  <2> DEFINE f == <<"default", j>>
  <2>1. c.passes[j].from = f /\ c.passes[j].type = d.params[j].default.type
    BY <1>2, <1>4
  <2>2. f[1] # "parameter"
    OBVIOUS
  <2>3. after[j] = Handed(c, gets, c.passes[j])
    BY <1>8
  <2> HIDE DEF f
  <2>4. after[j] = f
    BY <2>1, <2>2, <2>3 DEF Handed
  <2>5. MeantFor(d, call, j, after[j])
    BY <1>2, <1>6, <2>4 DEF MeantFor, f
  <2> QED BY <1>2, <1>5, <2>1, <2>5
<1>10. DOMAIN args = 1 .. n /\ \A j \in 1 .. n : args[j].type = c.passes[j].type /\ args[j].from = after[j]
  OBVIOUS
<1>11. TypesOf(args) = TypesOf(c.passes)
  BY <1>8, <1>10 DEF TypesOf
<1>12. Froms(args) = after
  <2>1. after = [j \in DOMAIN c.passes |-> after[j]]
    BY DEF FunctionOn
  <2> QED BY <1>8, <1>10, <2>1 DEF Froms
<1>. HIDE DEF args
<1>13. Applicable(constructors[k].takes, TypesOf(args)) /\ Meant(d, call, constructors[k], Froms(args))
  <2>1. S \subseteq Positions(d) /\ \A i \in Positions(d) \ S : Slots(d, call)[i] = Unset
    BY DEF S
  <2>2. \A j \in 1 .. n : Ascending(S)[j] = j
    BY <1>7
  <2>3. /\ DOMAIN args = 1 .. Cardinality(S)
        /\ \A j \in 1 .. Cardinality(S) :
             /\ Accepts(d.params[Ascending(S)[j]].type, args[j].type)
             /\ MeantFor(d, call, Ascending(S)[j], args[j].from)
    BY <1>2, <1>9, <1>10, <2>2
  <2> QED BY <1>1, <2>1, <2>3, FitsTaker
<1>14. k \in DOMAIN constructors
  BY <1>1 DEF TakesOnly
<1> QED BY <1>11, <1>12, <1>13, <1>14

(* Any delegation that no other constructor fits keeps to what the call    *)
(* means.                                                                  *)
LEMMA DelegateMeans ==
  ASSUME NEW d, Moved(d), NEW k \in DOMAIN constructors, NEW c, constructors[k] = c, c.kind = "delegating",
         ~FitsTwo(c.passes), NEW call, NEW gets, On(d, call, c, gets), NEW after,
         FunctionOn(after, DOMAIN c.passes),
         \A j \in DOMAIN c.passes : after[j] = Handed(c, gets, c.passes[j])
  PROVE  Compiles(c.passes) /\ On(d, call, constructors[Chosen(c.passes)], after)
<1>1. Meant(d, call, c, gets) /\ call.of = "class"
  BY DEF On, Exact
<1>2. \/ \E m \in DOMAIN plan.overloads : c = Overload(d, plan.overloads[m])
      \/ NoArgument(d) # << >> /\ c = NoArgument(d)[1]
  <2>1. Primary(d).kind = "primary" /\ \A t : Secondary(t).kind = "secondary"
    BY DEF Primary, Secondary
  <2>2. "primary" # "delegating" /\ "secondary" # "delegating"
    OBVIOUS
  <2>3. constructors[k] # Primary(d) /\ \A m \in DOMAIN d.secondaries : constructors[k] # Secondary(d.secondaries[m])
    BY <2>1, <2>2
  <2>4. \/ \E m \in DOMAIN plan.overloads : constructors[k] = Overload(d, plan.overloads[m])
        \/ NoArgument(d) # << >> /\ constructors[k] = NoArgument(d)[1]
    BY <2>3, ArityIs
  <2> QED BY <2>4
<1>3. \E t \in DOMAIN constructors :
        Applicable(constructors[t].takes, TypesOf(c.passes)) /\ Meant(d, call, constructors[t], after)
  <2>1. CASE \E m \in DOMAIN plan.overloads : c = Overload(d, plan.overloads[m])
    <3>1. PICK m \in DOMAIN plan.overloads : c = Overload(d, plan.overloads[m])
      BY <2>1
    <3> QED BY <1>1, <3>1, OverloadMeans
  <2>2. CASE NoArgument(d) # << >> /\ c = NoArgument(d)[1]
    BY <1>1, <2>2, NoArgumentMeans
  <2> QED BY <1>2, <2>1, <2>2
<1>4. PICK t \in DOMAIN constructors :
        Applicable(constructors[t].takes, TypesOf(c.passes)) /\ Meant(d, call, constructors[t], after)
  BY <1>3
<1>5. Compiles(c.passes) /\ Chosen(c.passes) = t
  BY <1>4, OnlyFit
<1> QED BY <1>1, <1>4, <1>5 DEF On

(* A constructor that delegates to no other and means what the call means  *)
(* builds what the call means.                                             *)
LEMMA BuildMeans ==
  ASSUME Moved(class), NEW k \in DOMAIN constructors, NEW c, c = constructors[k], c.kind # "delegating",
         NEW call, NEW gets, On(class, call, c, gets), NEW result,
         result.kind = c.kind, result.takes = c.takes, result.gets = gets
  PROVE  MeansTheSame(call, result)
<1>1. CASE call.of = "class" /\ Meant(class, call, c, gets)
  <2>1. c.kind = "primary"
    BY <1>1 DEF Meant
  <2>2. c = Primary(class)
    <3>1. \A m \in DOMAIN plan.overloads : c # Overload(class, plan.overloads[m])
      BY DEF Overload
    <3>2. \A m \in DOMAIN class.secondaries : c # Secondary(class.secondaries[m])
      BY <2>1 DEF Secondary
    <3>3. NoArgument(class) # << >> => NoArgument(class)[1].kind \in {"delegating", "cleared"}
      <4>1. KotlinClass(class)
        BY DEF Moved
      <4> DEFINE e == NoArgument(class)[1]
      <4>2. NoArgument(class) # << >> => WithoutArguments(class, e)
        BY <4>1, NoArgumentPasses
      <4> HIDE DEF e
      <4>3. NoArgument(class) # << >> => e.kind \in {"delegating", "cleared"}
        BY <4>2 DEF WithoutArguments, FillsAll, Clears
      <4> QED BY <4>3 DEF e
    <3>4. "primary" # "delegating" /\ "primary" # "cleared"
      OBVIOUS
    <3> QED BY <2>1, <3>1, <3>2, <3>3, <3>4, ArityIs
  <2>3. /\ DOMAIN c.of = 1 .. Len(class.params) /\ \A i \in 1 .. Len(class.params) : c.of[i] = i
        /\ Positions(class) = 1 .. Len(class.params)
    <3>1. KotlinClass(class)
      BY DEF Moved
    <3> QED BY <2>2, <3>1, ClassIs, DirectIs DEF Direct
  <2>4. \A i \in Positions(class) : MeantFor(class, call, i, gets[i])
    BY <1>1, <2>3 DEF Meant
  <2>5. call.of # "secondary"
    BY <1>1
  <2> QED BY <2>1, <2>4, <2>5 DEF MeansTheSame
<1>2. CASE call.of = "secondary" /\ Exact(call, c, gets)
  BY <1>2 DEF Exact, MeansTheSame
<1> QED BY <1>1, <1>2 DEF On

(* The calls that the rewriting does not misread keep their meaning: as    *)
(* rewritten, while a constructor runs, and as built.                      *)
WellRead(c) == \A call : call = calls[c] => ~Misread(call)
WellWritten(c) == \A call, args : call = calls[c] /\ args = written[c] => Reaching(class, call, args)
Reached ==
  phase = "rewritten" =>
    /\ DOMAIN written = DOMAIN calls
    /\ \A c \in DOMAIN calls : WellRead(c) => ~StillNamed(c) /\ WellWritten(c)
Underway ==
  frame # NoFrame =>
    /\ DOMAIN frame = {"call", "constructor", "gets"} /\ frame.call \in DOMAIN calls
    /\ ~Mistakable /\ WellRead(frame.call) =>
         On(class, calls[frame.call], constructors[frame.constructor], frame.gets)
Answered ==
  phase = "rewritten" /\ ~Mistakable =>
    \A c \in DOMAIN calls :
      WellRead(c) /\ built[c] # NotYet => built[c] # Broken /\ MeansTheSame(calls[c], built[c])
MeaningInv == DefaultsInv /\ Reached /\ Underway /\ Answered

(* How a call is read, and what it may be mistaken for, depends on the     *)
(* scenario and on the Java class.                                         *)
LEMMA ReadingSteady ==
  ASSUME UNCHANGED <<scenario, javaNames>>
  PROVE  /\ class' = class /\ calls' = calls
         /\ \A call : Misread(call)' <=> Misread(call)
         /\ \A c : StillNamed(c)' <=> StillNamed(c)
<1>1. class' = class /\ calls' = calls
  BY DEF class, calls
<1>2. \A call : Candidate(call)' = Candidate(call)
  BY DEF Candidate, FirstOf, SelectInSeq, MatchesNames, StopsEarly, Named, NamesUsed, Names,
     Positional, Positions, HasDefaults, HasDefault
<1>3. OtherNames' <=> OtherNames
  BY <1>1 DEF OtherNames, Positions
<1>4. ASSUME NEW call PROVE Misread(call)' <=> Misread(call)
  <2> DEFINE k == Candidate(call)
             d == scenario.candidates[k]
  <2>1. k' = k /\ d' = d
    BY <1>2
  <2>2. LooksShort(d, call)' <=> LooksShort(d, call)
    BY <2>1 DEF LooksShort, Slots, Positions, Neutral, HasDefault
  <2>3. (d # class)' <=> d # class
    BY <1>1, <2>1
  <2>4. Misread(call) <=>
          \/ call.unreadable
          \/ /\ Named(call) # {}
             /\ \/ call.of = "secondary"
                \/ call.retained /\ (~scenario.inPlace \/ OtherNames)
                \/ ~call.retained /\ k = 0
          \/ ~call.retained /\ k # 0 /\ IF call.of = "class" THEN d # class ELSE LooksShort(d, call)
    BY DEF Misread
  <2>5. Misread(call)' <=>
          \/ call.unreadable
          \/ /\ Named(call) # {}
             /\ \/ call.of = "secondary"
                \/ call.retained /\ (~scenario'.inPlace \/ OtherNames')
                \/ ~call.retained /\ k' = 0
          \/ ~call.retained /\ k' # 0 /\ IF call.of = "class" THEN (d # class)' ELSE LooksShort(d, call)'
    BY DEF Misread
  <2> HIDE DEF k, d
  <2> QED BY <1>3, <2>1, <2>2, <2>3, <2>4, <2>5
<1>5. \A c : StillNamed(c)' <=> StillNamed(c)
  BY <1>1 DEF StillNamed, Readable, Target, Named, Positional, NamesUsed, Names, Positions
<1> QED BY <1>1, <1>4, <1>5

LEMMA ReachingSteady ==
  ASSUME UNCHANGED <<scenario, constructors>>
  PROVE  \A call, args : Reaching(class, call, args)' <=> Reaching(class, call, args)
<1>1. class' = class
  BY DEF class
<1> QED BY <1>1 DEF Reaching

LEMMA MistakableSteady ==
  ASSUME UNCHANGED <<constructors, written>>
  PROVE  Mistakable' <=> Mistakable
BY DEF Mistakable, FitsTwo

(* Before the callers are rewritten there is nothing to keep.              *)
LEMMA MeaningFirst ==
  ASSUME phase # "rewritten", frame = NoFrame
  PROVE  Reached /\ Underway /\ Answered
BY DEF Reached, Underway, Answered

(* Rewriting the callers: each that is not misread has a constructor.      *)
LEMMA RewriteMeans ==
  ASSUME DefaultsInv, RewriteCallers
  PROVE  Reached' /\ Underway' /\ Answered'
<1>1. Phased /\ Emits /\ frame' = NoFrame /\ UNCHANGED <<scenario, javaNames, constructors>>
  BY DEF DefaultsInv, Framed, RewriteCallers, Emits
<1>2. /\ class' = class /\ calls' = calls
      /\ \A call : Misread(call)' <=> Misread(call)
      /\ \A c : StillNamed(c)' <=> StillNamed(c)
      /\ \A call, args : Reaching(class, call, args)' <=> Reaching(class, call, args)
  BY <1>1, ReadingSteady, ReachingSteady
<1>3. DOMAIN written' = DOMAIN calls
  BY DEF RewriteCallers
<1>4. ASSUME NEW c \in DOMAIN calls, ~Misread(calls[c])
      PROVE  ~StillNamed(c) /\ Reaching(class, calls[c], written'[c])
  <2> DEFINE call == calls[c]
             args == written'[c]
  <2>1. args = IF ~call.retained THEN Lowered(call)
               ELSE IF scenario.inPlace THEN Rewritten(call) ELSE AsWritten(call)
    BY DEF RewriteCallers
  <2>2. call = calls[c] /\ ~Misread(call)
    BY <1>4
  <2> HIDE DEF call, args
  <2>3. Reaching(class, call, args) /\ ~StillNamed(c)
    BY <1>1, <2>1, <2>2, CallReaches
  <2> QED BY <2>3 DEF call, args
<1>5. ASSUME NEW c \in DOMAIN calls, WellRead(c)'
      PROVE  ~StillNamed(c)' /\ WellWritten(c)'
  <2>1. \A call : call = calls[c] => ~Misread(call)
    BY <1>2, <1>5 DEF WellRead
  <2>2. ~StillNamed(c) /\ Reaching(class, calls[c], written'[c])
    BY <1>4, <2>1
  <2> QED BY <1>2, <2>2 DEF WellWritten
<1>6. Reached'
  BY <1>2, <1>3, <1>5 DEF Reached
<1>7. Underway'
  BY <1>1 DEF Underway, NoFrame
<1>8. Answered'
  <2>1. \A c \in DOMAIN calls : built'[c] = NotYet
    BY DEF RewriteCallers
  <2> QED BY <1>2, <2>1 DEF Answered, NotYet
<1> QED BY <1>6, <1>7, <1>8

(* Afterwards the texts stay.                                              *)
Settles == UNCHANGED <<scenario, phase, plan, constructors, javaNames, written>>

LEMMA TextsSettled ==
  ASSUME Settles
  PROVE  /\ class' = class /\ calls' = calls /\ (Mistakable' <=> Mistakable)
         /\ \A c : (WellRead(c)' <=> WellRead(c)) /\ (StillNamed(c)' <=> StillNamed(c))
                    /\ (WellWritten(c)' <=> WellWritten(c))
<1>1. UNCHANGED <<scenario, javaNames, constructors, written>>
  BY DEF Settles
<1>2. /\ class' = class /\ calls' = calls /\ written' = written
      /\ \A call : Misread(call)' <=> Misread(call)
      /\ \A c : StillNamed(c)' <=> StillNamed(c)
      /\ \A call, args : Reaching(class, call, args)' <=> Reaching(class, call, args)
      /\ (Mistakable' <=> Mistakable)
  BY <1>1, ReadingSteady, ReachingSteady, MistakableSteady
<1>3. \A c : WellRead(c)' <=> WellRead(c)
  BY <1>2 DEF WellRead
<1>4. \A c : WellWritten(c)' <=> WellWritten(c)
  BY <1>2 DEF WellWritten
<1> QED BY <1>2, <1>3, <1>4

LEMMA ReachedNext ==
  ASSUME Reached, Settles
  PROVE  Reached'
<1>1. phase' = phase /\ written' = written
  BY DEF Settles
<1> QED BY <1>1, TextsSettled DEF Reached

(* A constructor that runs next with what the call means.                  *)
LEMMA UnderwayNext ==
  ASSUME Settles,
         frame' # NoFrame =>
           /\ DOMAIN frame' = {"call", "constructor", "gets"} /\ frame'.call \in DOMAIN calls
           /\ ~Mistakable /\ WellRead(frame'.call) =>
                On(class, calls[frame'.call], constructors[frame'.constructor], frame'.gets)
  PROVE  Underway'
<1>1. constructors' = constructors
  BY DEF Settles
<1>2. class' = class /\ calls' = calls /\ (Mistakable' <=> Mistakable)
  BY TextsSettled
<1>3. ASSUME WellRead(frame.call)' PROVE WellRead(frame'.call)
  <2>1. UNCHANGED <<scenario, javaNames>>
    BY DEF Settles
  <2>2. \A call : Misread(call)' <=> Misread(call)
    BY <2>1, ReadingSteady
  <2> QED BY <1>2, <1>3, <2>2 DEF WellRead
<1> QED BY <1>1, <1>2, <1>3 DEF Underway, NoFrame

(* A call that has no result yet, or one that means what it means.         *)
LEMMA AnsweredNext ==
  ASSUME Answered, Settles, DOMAIN built = DOMAIN calls, phase = "rewritten",
         \/ built' = built
         \/ \E x \in DOMAIN calls : \E result :
              /\ built' = [built EXCEPT ![x] = result]
              /\ ~Mistakable /\ WellRead(x) =>
                   result = NotYet \/ (result # Broken /\ MeansTheSame(calls[x], result))
  PROVE  Answered'
<1>1. class' = class /\ calls' = calls /\ (Mistakable' <=> Mistakable)
      /\ \A c : WellRead(c)' <=> WellRead(c)
  BY TextsSettled
<1>2. \A call, result : MeansTheSame(call, result)' <=> MeansTheSame(call, result)
  BY <1>1 DEF MeansTheSame
<1>3. ASSUME ~Mistakable, NEW c \in DOMAIN calls, WellRead(c), built'[c] # NotYet
      PROVE  built'[c] # Broken /\ MeansTheSame(calls[c], built'[c])
  BY <1>3 DEF Answered
<1>4. ASSUME ~Mistakable, NEW c \in DOMAIN calls, WellRead(c), built'[c] # NotYet
      PROVE  MeansTheSame(calls[c], built[c])'
  <2>1. MeansTheSame(calls[c], built'[c])
    BY <1>3, <1>4
  <2> QED BY <1>1, <2>1 DEF MeansTheSame
<1> QED BY <1>1, <1>3, <1>4 DEF Answered, NotYet, Broken

(* A call runs the constructor its arguments reach.                        *)
LEMMA CallMeans ==
  ASSUME MeaningInv, NEW c \in DOMAIN calls, Call(c)
  PROVE  Reached' /\ Underway' /\ Answered'
<1>1. /\ DefaultsInv /\ Reached /\ Answered /\ phase = "rewritten" /\ frame = NoFrame
      /\ Settles /\ DOMAIN built = DOMAIN calls
  BY DEF MeaningInv, Call, Settles, DefaultsInv, Called
<1>2. ASSUME ~Mistakable, WellRead(c)
      PROVE  /\ ~StillNamed(c) /\ Compiles(written[c])
             /\ On(class, calls[c], constructors[Chosen(written[c])], Froms(written[c]))
  <2>1. ~StillNamed(c) /\ Reaching(class, calls[c], written[c])
    BY <1>1, <1>2 DEF Reached, WellWritten
  <2>2. ~FitsTwo(written[c])
    BY <1>1, <1>2 DEF Mistakable, Reached
  <2>3. PICK k \in DOMAIN constructors :
          /\ Applicable(constructors[k].takes, TypesOf(written[c]))
          /\ On(class, calls[c], constructors[k], Froms(written[c]))
    BY <2>1 DEF Reaching
  <2>4. Compiles(written[c]) /\ Chosen(written[c]) = k
    BY <2>2, <2>3, OnlyFit
  <2> QED BY <2>1, <2>3, <2>4
<1>3. ASSUME frame' # NoFrame
      PROVE  /\ DOMAIN frame' = {"call", "constructor", "gets"} /\ frame'.call = c
             /\ frame'.constructor = Chosen(written[c]) /\ frame'.gets = Froms(written[c])
  BY <1>1, <1>3 DEF Call, Froms
<1>4. Underway'
  BY <1>1, <1>2, <1>3, UnderwayNext
<1>5. built' = built \/ (built' = [built EXCEPT ![c] = Broken] /\ (StillNamed(c) \/ ~Compiles(written[c])))
  BY DEF Call
<1>6. Answered'
  BY <1>1, <1>2, <1>5, AnsweredNext
<1> QED BY <1>1, <1>4, <1>6, ReachedNext

(* A constructor delegates to one that means the same.                     *)
LEMMA DelegateMeansStep ==
  ASSUME MeaningInv, Delegate
  PROVE  Reached' /\ Underway' /\ Answered'
<1>1. /\ Phased /\ Reached /\ Answered /\ phase = "rewritten" /\ frame # NoFrame
      /\ Settles /\ DOMAIN built = DOMAIN calls
      /\ RunsWith(class, frame.constructor, frame.gets, evaluated)
  BY DEF MeaningInv, Delegate, Settles, DefaultsInv, Called, Framed
<1>2. /\ DOMAIN frame = {"call", "constructor", "gets"} /\ frame.call \in DOMAIN calls
      /\ ~Mistakable /\ WellRead(frame.call) =>
           On(class, calls[frame.call], constructors[frame.constructor], frame.gets)
  BY <1>1 DEF MeaningInv, Underway
<1>3. Moved(class)
  BY <1>1, MovedClass DEF Emits
<1>4. PICK k, x, gets, c : k = frame.constructor /\ x = frame.call /\ gets = frame.gets /\ c = Running
  OBVIOUS
<1>5. k \in DOMAIN constructors /\ constructors[k] = c /\ c.kind = "delegating"
  BY <1>1, <1>4 DEF RunsWith, Running, Delegate
<1>6. PICK after : after = [j \in DOMAIN c.passes |-> Handed(c, gets, c.passes[j])]
  OBVIOUS
<1>7. FunctionOn(after, DOMAIN c.passes) /\ \A j \in DOMAIN c.passes : after[j] = Handed(c, gets, c.passes[j])
  BY <1>6 DEF FunctionOn
<1>8. [j \in DOMAIN Running.passes |-> Value(Running.passes[j])] = after
  BY <1>4, <1>6 DEF Value, Handed
<1>9. ASSUME ~Mistakable, WellRead(x)
      PROVE  Compiles(c.passes) /\ On(class, calls[x], constructors[Chosen(c.passes)], after)
  <2>1. ~FitsTwo(c.passes)
    BY <1>5, <1>9 DEF Mistakable
  <2>2. On(class, calls[x], c, gets)
    BY <1>2, <1>4, <1>5, <1>9
  <2> QED BY <1>3, <1>5, <1>7, <2>1, <2>2, DelegateMeans
<1>10. \/ /\ frame' = [frame EXCEPT !.constructor = Chosen(c.passes), !.gets = after]
          /\ built' = built
       \/ /\ frame' = NoFrame
          /\ built' = [built EXCEPT ![x] = Broken] /\ ~Compiles(c.passes)
  BY <1>4, <1>8 DEF Delegate
<1>11. ASSUME frame' # NoFrame
       PROVE  /\ DOMAIN frame' = {"call", "constructor", "gets"} /\ frame'.call = x
              /\ frame'.constructor = Chosen(c.passes) /\ frame'.gets = after
  <2>1. frame' = [frame EXCEPT !.constructor = Chosen(c.passes), !.gets = after]
    BY <1>10, <1>11
  <2> QED BY <1>2, <1>4, <2>1
<1>12. Underway'
  BY <1>1, <1>2, <1>4, <1>9, <1>11, UnderwayNext
<1>13. Answered'
  BY <1>1, <1>2, <1>4, <1>9, <1>10, AnsweredNext
<1> QED BY <1>1, <1>12, <1>13, ReachedNext

(* A constructor that delegates no more builds what the call means.        *)
LEMMA BuildMeansStep ==
  ASSUME MeaningInv, Build
  PROVE  Reached' /\ Underway' /\ Answered'
<1>1. /\ Phased /\ Reached /\ Answered /\ phase = "rewritten" /\ frame # NoFrame /\ frame' = NoFrame
      /\ Settles /\ DOMAIN built = DOMAIN calls
      /\ RunsWith(class, frame.constructor, frame.gets, evaluated)
  BY DEF MeaningInv, Build, Settles, DefaultsInv, Called, Framed
<1>2. /\ frame.call \in DOMAIN calls
      /\ ~Mistakable /\ WellRead(frame.call) =>
           On(class, calls[frame.call], constructors[frame.constructor], frame.gets)
  BY <1>1 DEF MeaningInv, Underway
<1>3. Moved(class)
  BY <1>1, MovedClass DEF Emits
<1>4. PICK k, x, gets, c : k = frame.constructor /\ x = frame.call /\ gets = frame.gets /\ c = Running
  OBVIOUS
<1>5. k \in DOMAIN constructors /\ c = constructors[k] /\ c.kind # "delegating"
  BY <1>1, <1>4 DEF RunsWith, Running, Build
<1>6. PICK result : result = [kind |-> c.kind, takes |-> c.takes, gets |-> gets, evaluated |-> evaluated]
  OBVIOUS
<1>7. built' = [built EXCEPT ![x] = result]
  BY <1>4, <1>6 DEF Build
<1>8. result # Broken
  <2>1. DOMAIN result = {"kind", "takes", "gets", "evaluated"} /\ DOMAIN Broken = {"kind"}
    BY <1>6 DEF Broken
  <2> QED BY <2>1
<1>9. ASSUME ~Mistakable, WellRead(x)
      PROVE  MeansTheSame(calls[x], result)
  <2>1. On(class, calls[x], c, gets)
    BY <1>2, <1>4, <1>5, <1>9
  <2>2. result.kind = c.kind /\ result.takes = c.takes /\ result.gets = gets
    BY <1>6
  <2> QED BY <1>3, <1>5, <2>1, <2>2, BuildMeans
<1>10. Answered'
  BY <1>1, <1>2, <1>4, <1>7, <1>8, <1>9, AnsweredNext
<1> QED BY <1>1, <1>10, UnderwayNext, ReachedNext

(* Every step keeps what the calls mean.                                   *)
LEMMA MeaningNext ==
  MeaningInv /\ [DefaultsNext]_defaultsVars => MeaningInv'
<1> SUFFICES ASSUME MeaningInv, [DefaultsNext]_defaultsVars PROVE MeaningInv'
  OBVIOUS
<1>1. DefaultsInv /\ DefaultsInv'
  BY NextInv DEF MeaningInv
<1>2. CASE Keep \/ PlanConstructors \/ Emit
  <2>1. phase' # "rewritten" /\ frame' = NoFrame
    BY <1>1, <1>2 DEF DefaultsInv, Framed, Keep, PlanConstructors, Emit
  <2>2. Reached' /\ Underway' /\ Answered'
    BY <2>1 DEF Reached, Underway, Answered, NoFrame
  <2> QED BY <1>1, <2>2 DEF MeaningInv
<1>3. CASE RewriteCallers
  BY <1>1, <1>3, RewriteMeans DEF MeaningInv
<1>4. CASE \E c \in DOMAIN calls : Call(c)
  BY <1>1, <1>4, CallMeans DEF MeaningInv
<1>5. CASE Delegate
  BY <1>1, <1>5, DelegateMeansStep DEF MeaningInv
<1>6. CASE Build
  BY <1>1, <1>6, BuildMeansStep DEF MeaningInv
<1>7. CASE UNCHANGED defaultsVars
  <2>1. Settles /\ frame' = frame /\ built' = built
    BY <1>7 DEF defaultsVars, Settles
  <2>2. Reached' /\ (phase = "rewritten" => DOMAIN built = DOMAIN calls)
    BY <1>1, <2>1, ReachedNext DEF MeaningInv, DefaultsInv, Called
  <2>3. Underway'
    BY <2>1, UnderwayNext DEF MeaningInv, Underway
  <2>4. Answered'
    <3>1. CASE phase = "rewritten"
      BY <2>1, <2>2, <3>1, AnsweredNext DEF MeaningInv
    <3>2. CASE phase # "rewritten"
      BY <2>1, <3>2 DEF Answered, Settles
    <3> QED BY <3>1, <3>2
  <2> QED BY <1>1, <2>2, <2>3, <2>4 DEF MeaningInv
<1> QED BY <1>2, <1>3, <1>4, <1>5, <1>6, <1>7 DEF DefaultsNext

LEMMA MeaningAlways == DefaultsSpec => []MeaningInv
<1>1. DefaultsInit => MeaningInv
  <2> SUFFICES ASSUME DefaultsInit PROVE MeaningInv
    OBVIOUS
  <2>1. phase # "rewritten" /\ frame = NoFrame
    BY DEF DefaultsInit
  <2> QED BY <2>1, InitInv, MeaningFirst DEF MeaningInv
<1> QED BY <1>1, MeaningNext, PTL DEF DefaultsSpec

(* Where nothing that is passed fits two constructors, every caller of a   *)
(* translated class that the rewriting does not misread still compiles,    *)
(* reaches the constructor it named in Kotlin, and gives every parameter   *)
(* the argument it was given or its own default: retained Kotlin and       *)
(* lowered Java both land on the overload written for what they omit       *)
(* (ctor_defaults.rs:9-20).                                                *)
THEOREM CallsStayFaithful ==
  DefaultsSpec => []((~Mistakable /\ \A c \in DOMAIN calls : ~Misread(calls[c])) => CallsKeepTheirMeaning)
<1>1. MeaningInv /\ ~Mistakable /\ (\A c \in DOMAIN calls : ~Misread(calls[c])) => CallsKeepTheirMeaning
  BY DEF MeaningInv, Answered, WellRead, CallsKeepTheirMeaning
<1> QED BY <1>1, MeaningAlways, PTL
-----------------------------------------------------------------------------
(* Chains of delegations end. *)

(* A delegation passes more arguments than its constructor takes, at most  *)
(* one for every parameter of the class.                                   *)
LEMMA PassesMore ==
  ASSUME NEW d, Moved(d), NEW k \in DOMAIN constructors, NEW c, constructors[k] = c, c.kind = "delegating"
  PROVE  \E n \in Nat : DOMAIN c.passes = 1 .. n /\ Arity(k) < n /\ n <= Len(d.params)
<1>1. KotlinClass(d)
  BY DEF Moved
<1>2. Len(d.params) \in Nat
  BY <1>1, ClassIs
<1>3. c # Primary(d) /\ \A m \in DOMAIN d.secondaries : c # Secondary(d.secondaries[m])
  <2>1. Direct(Primary(d)) /\ \A m \in DOMAIN d.secondaries : Direct(Secondary(d.secondaries[m]))
    BY <1>1, DirectIs
  <2> QED BY <2>1 DEF Direct
<1>4. CASE \E m \in DOMAIN plan.overloads :
             /\ c = Overload(d, plan.overloads[m])
             /\ Arity(k) = Len(d.params) - Cardinality(plan.overloads[m])
  <2>1. PICK m \in DOMAIN plan.overloads :
               /\ c = Overload(d, plan.overloads[m])
               /\ Arity(k) = Len(d.params) - Cardinality(plan.overloads[m])
    BY <1>4
  <2> DEFINE p == plan.overloads[m]
             q == DelegateOmits(d, p)
             n == Cardinality(Rest(d, p))
  <2>2. /\ p \subseteq Positions(d) /\ p # {} /\ q \subseteq p
        /\ OnLadder(d, m) \/ OffLadder(d, m)
    BY MovedIs, DelegateIs
  <2>3. Cardinality(q) < Cardinality(p)
    <3>1. CASE q = {}
      <4>1. Cardinality(p) > 0 /\ Cardinality(p) \in Nat
        BY <1>1, <2>2, KeptIs
      <4>2. Cardinality({}) = 0
        BY FS_EmptySet
      <4> QED BY <3>1, <4>1, <4>2
    <3>2. CASE q # {}
      <4>1. /\ m - 1 \in DOMAIN plan.overloads /\ q = plan.overloads[m - 1]
            /\ m \in DOMAIN plan.ladder /\ m - 1 \in DOMAIN plan.ladder
        BY <2>2, <3>2 DEF OnLadder, OffLadder
      <4>2. /\ plan.overloads[m] = plan.ladder[m] /\ Cardinality(plan.ladder[m]) = m
            /\ plan.overloads[m - 1] = plan.ladder[m - 1] /\ Cardinality(plan.ladder[m - 1]) = m - 1
        BY <4>1 DEF Moved, Shape, Steps
      <4>3. m \in Nat
        BY MovedIs
      <4> QED BY <4>1, <4>2, <4>3
    <3> QED BY <3>1, <3>2
  <2>4. n = Len(d.params) - Cardinality(q) /\ Cardinality(q) \in Nat /\ Cardinality(p) \in Nat
    BY <1>1, <2>2, KeptIs DEF Rest
  <2>5. DOMAIN c.passes = 1 .. n /\ n \in Nat
    BY <2>1, OverloadPasses DEF PassesOn
  <2> HIDE DEF p, q, n
  <2>6. Arity(k) = Len(d.params) - Cardinality(p)
    BY <2>1 DEF p
  <2>7. Arity(k) < n /\ n <= Len(d.params)
    BY <1>2, <2>3, <2>4, <2>6
  <2> QED BY <2>5, <2>7
<1>5. CASE NoArgument(d) # << >> /\ c = NoArgument(d)[1] /\ Arity(k) = 0 /\ Len(d.params) > 0
  <2>1. WithoutArguments(d, c)
    BY <1>1, <1>5, NoArgumentPasses
  <2>2. DOMAIN c.passes = 1 .. Len(d.params)
    <3>1. "delegating" # "cleared"
      OBVIOUS
    <3> QED BY <2>1, <3>1 DEF WithoutArguments, FillsAll, Clears
  <2> QED BY <1>2, <1>5, <2>2
<1> QED BY <1>3, <1>4, <1>5, ArityIs

(* Whatever is passed and wherever Java's overload resolution leads, each  *)
(* delegation of a chain reaches a constructor with more parameters than   *)
(* the one before, and with no more than the class has: no chain is longer *)
(* than the class's parameter list: a rung delegates to one that omits     *)
(* less, any other overload to the primary constructor                     *)
(* (emit_jvm_overloads_primary_constructors in transpiler/unit/class.rs).  *)
DelegatesForward ==
  Delegate => \/ frame' = NoFrame
              \/ /\ Len(Running.takes) < Len(constructors[frame'.constructor].takes)
                 /\ Len(constructors[frame'.constructor].takes) <= Len(class.params)

THEOREM ChainsGoForward == DefaultsSpec => [][DelegatesForward]_defaultsVars
<1>1. ASSUME MeaningInv, Delegate
      PROVE  DelegatesForward
  <2>1. /\ Phased /\ phase = "rewritten" /\ frame # NoFrame
        /\ RunsWith(class, frame.constructor, frame.gets, evaluated)
    BY <1>1 DEF MeaningInv, Delegate, DefaultsInv, Framed, Called
  <2>2. DOMAIN frame = {"call", "constructor", "gets"}
    BY <1>1, <2>1 DEF MeaningInv, Underway
  <2>3. Moved(class)
    BY <2>1, MovedClass DEF Emits
  <2>4. PICK k, c : k = frame.constructor /\ c = Running
    OBVIOUS
  <2>5. k \in DOMAIN constructors /\ constructors[k] = c /\ c.kind = "delegating"
    BY <1>1, <2>1, <2>4 DEF RunsWith, Running, Delegate
  <2>6. PICK n \in Nat : DOMAIN c.passes = 1 .. n /\ Arity(k) < n /\ n <= Len(class.params)
    BY <2>3, <2>5, PassesMore
  <2>7. CASE frame' # NoFrame
    <3>1. PICK after : after = [j \in DOMAIN Running.passes |-> Value(Running.passes[j])]
      OBVIOUS
    <3>2. Compiles(c.passes) /\ frame' = [frame EXCEPT !.constructor = Chosen(c.passes), !.gets = after]
      BY <1>1, <2>4, <2>7, <3>1 DEF Delegate
    <3>3. frame'.constructor = Chosen(c.passes)
      BY <2>2, <3>2
    <3>4. Len(constructors[Chosen(c.passes)].takes) = n
      BY <2>6, <3>2, ChosenIs
    <3>5. Len(Running.takes) = Arity(k)
      BY <2>4, <2>5 DEF Arity
    <3> QED BY <2>6, <3>3, <3>4, <3>5 DEF DelegatesForward
  <2> QED BY <2>7 DEF DelegatesForward
<1>2. MeaningInv /\ [DefaultsNext]_defaultsVars => [DelegatesForward]_defaultsVars
  BY <1>1 DEF DelegatesForward
<1> QED BY <1>2, MeaningAlways, PTL DEF DefaultsSpec
=============================================================================
