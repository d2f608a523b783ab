----------------------------- MODULE MigrationApply -----------------------------
(***************************************************************************)
(* How accepted plans reach the disk: the apply half of `run` in main.rs   *)
(* for an in-place migration, with verify_original_snapshots before it.    *)
(* Several invocations may work on one tree, after each other or at once,  *)
(* next to a user who edits files; an invocation can meet an I/O error at  *)
(* any write, and can be killed at any point.  A plan moves whole          *)
(* declarations, and every declaration has a Java file of its own.         *)
(***************************************************************************)
EXTENDS Naturals, Sequences

CONSTANTS
  Runs,          \* invocations of the program, each made at most once
  Sources,       \* Kotlin files of the tree
  Declarations,  \* their top-level declarations; also names the Java files
  FileOf,        \* declaration -> the source it is declared in
  Types,         \* the declarations that are classes, interfaces, objects...
  None,
  MaxFaults,     \* bound on I/O errors and kills
  MaxEdits       \* bound on edits of the user

ASSUME ApplyAssumption ==
  /\ FileOf \in [Declarations -> Sources]
  /\ Types \subseteq Declarations
  /\ Sources \cap Declarations = {}
  /\ None \notin Sources \cup Declarations
  /\ MaxFaults \in Nat /\ MaxEdits \in Nat

VARIABLES
  kotlin,      \* source -> [state, decls, edit]
  java,        \* declaration -> [state, edit] of its Java file
  pc,          \* run -> what it is doing, or how it ended
  keep,        \* run -> the declarations its plan leaves in Kotlin
  snapshot,    \* run -> the tree its plan was made from
  todo,        \* run -> the files its current phase has still to handle
  open,        \* run -> the file it has truncated and not written yet
  wrote,       \* run -> it has changed the tree
  faults, edits,
  stale,       \* runs whose inputs were edited before they verified them
  overlapped,  \* two runs were under way at the same time
  clobbered,   \* a run wrote over content its plan was not made from
  late         \* the user edited while a run was writing

disk == <<kotlin, java>>
plans == <<keep, snapshot>>
history == <<stale, overlapped, clobbered, late>>
vars == <<kotlin, java, pc, keep, snapshot, todo, open, wrote, faults, edits,
          stale, overlapped, clobbered, late>>

Ended == {"success", "failure", "failed", "killed"}
WritePhases == {"java", "stale", "sources"}
Active(r) == pc[r] \notin Ended \cup {"idle"}

NoSource == [state |-> "absent", decls |-> {}, edit |-> 0]
NoJava == [state |-> "absent", edit |-> 0]
Generated == [state |-> "generated", edit |-> 0]

DeclaredOnDisk(s) == { d \in Declarations : FileOf[d] = s }

(* A tree before any run: the Kotlin that was never migrated, and Java of  *)
(* earlier migrations for the rest.  Some of it is still declared in       *)
(* Kotlin, as an interrupted run leaves it.                                *)
Init ==
  /\ \E left, leftover \in SUBSET Declarations :
       /\ leftover \subseteq left
       /\ kotlin = [ s \in Sources |->
            IF left \cap DeclaredOnDisk(s) = {} THEN NoSource
            ELSE [state |-> "text", decls |-> left \cap DeclaredOnDisk(s), edit |-> 0] ]
       /\ java = [ d \in Declarations |->
            IF d \in left \ leftover THEN NoJava ELSE Generated ]
  /\ pc = [r \in Runs |-> "idle"]
  /\ keep = [r \in Runs |-> {}]
  /\ snapshot = [r \in Runs |-> None]
  /\ todo = [r \in Runs |-> {}]
  /\ open = [r \in Runs |-> None]
  /\ wrote = [r \in Runs |-> FALSE]
  /\ faults = 0
  /\ edits = 0
  /\ stale = {}
  /\ overlapped = FALSE
  /\ clobbered = FALSE
  /\ late = FALSE

-------------------------------------------------------------------------------
(* What a plan does, from the tree it was made from.                       *)

Planned(r) == UNION { snapshot[r].kotlin[s].decls : s \in Sources }

Moved(r) == Planned(r) \ keep[r]

MutantVerifyOutputsOnly(r) ==
  { s \in Sources : snapshot[r].kotlin[s].state # "absent" } \cup Moved(r)

(* original_snapshots: every source, every Java file of the tree and every *)
(* output path.                                                            *)
VerifyItems(r) ==
  { s \in Sources : snapshot[r].kotlin[s].state # "absent" }
    \cup Moved(r) \cup { d \in Declarations : snapshot[r].java[d].state # "absent" }

MutantEveryOther(r) == Declarations \ Moved(r)

MutantNoStale(r) == {}

(* remove_stale_generated_outputs: Java that an earlier run generated from *)
(* one of the sources, for a type the plan retains and does not emit.      *)
StaleItems(r) == (keep[r] \cap Planned(r) \cap Types) \ Moved(r)

SourceItems(r) == { s \in Sources : snapshot[r].kotlin[s].decls # {} }

MutantPhases == <<"sources", "java", "stale", "finish">>

Phases == <<"java", "stale", "sources", "finish">>

FirstPhase == Phases[1]

NextPhase(phase) == LET n == CHOOSE n \in 1..3 : Phases[n] = phase IN Phases[n + 1]

Items(r, phase) ==
  CASE phase = "java" -> Moved(r)
    [] phase = "stale" -> StaleItems(r)
    [] phase = "sources" -> SourceItems(r)
    [] phase = "finish" -> {}

OnDisk(f) == IF f \in Sources THEN kotlin[f] ELSE java[f]

Planning(r, f) ==
  IF f \in Sources THEN snapshot[r].kotlin[f] ELSE snapshot[r].java[f]

-------------------------------------------------------------------------------
(* Planning reads the tree; what the plan retains is up to the rules.      *)
Plan(r) ==
  /\ pc[r] = "idle"
  /\ \E retained \in SUBSET UNION { kotlin[s].decls : s \in Sources } :
       keep' = [keep EXCEPT ![r] = retained]
  /\ snapshot' = [snapshot EXCEPT ![r] = [kotlin |-> kotlin, java |-> java]]
  /\ pc' = [pc EXCEPT ![r] = "planned"]
  /\ overlapped' = (overlapped \/ \E q \in Runs : Active(q))
  /\ UNCHANGED <<disk, todo, open, wrote, faults, edits, stale, clobbered, late>>

(* An output over a headerless file, coverage, dependency planning and     *)
(* --validation-config can each end the run before any write.              *)
Reject(r) ==
  /\ pc[r] = "planned"
  /\ pc' = [pc EXCEPT ![r] = "failed"]
  /\ UNCHANGED <<disk, plans, todo, open, wrote, faults, edits, history>>

(* verify_original_snapshots reads every file back.                        *)
Verify(r) ==
  /\ pc[r] = "planned"
  /\ IF \A f \in VerifyItems(r) : OnDisk(f) = Planning(r, f)
     THEN /\ pc' = [pc EXCEPT ![r] = FirstPhase]
          /\ todo' = [todo EXCEPT ![r] = Items(r, FirstPhase)]
     ELSE /\ pc' = [pc EXCEPT ![r] = "failed"]
          /\ UNCHANGED todo
  /\ UNCHANGED <<disk, plans, open, wrote, faults, edits, history>>

Proceed(r) ==
  /\ pc[r] \in WritePhases
  /\ todo[r] = {}
  /\ open[r] = None
  /\ pc' = [pc EXCEPT ![r] = NextPhase(pc[r])]
  /\ todo' = [todo EXCEPT ![r] = Items(r, NextPhase(pc[r]))]
  /\ UNCHANGED <<disk, plans, open, wrote, faults, edits, history>>

Clobbers(r, f) == clobbered' = (clobbered \/ OnDisk(f) # Planning(r, f))

(* File::create, or fs::write: the old content goes first.                 *)
Truncate(r) ==
  /\ open[r] = None
  /\ \E f \in todo[r] :
       /\ \/ /\ pc[r] = "java"
             /\ java' = [java EXCEPT ![f] = [@ EXCEPT !.state = "partial"]]
             /\ UNCHANGED kotlin
          \/ /\ pc[r] = "sources"
             /\ keep[r] \cap snapshot[r].kotlin[f].decls # {}
             /\ kotlin' = [kotlin EXCEPT ![f] = [@ EXCEPT !.state = "torn", !.decls = {}]]
             /\ UNCHANGED java
       /\ open' = [open EXCEPT ![r] = f]
       /\ Clobbers(r, f)
  /\ wrote' = [wrote EXCEPT ![r] = TRUE]
  /\ UNCHANGED <<pc, plans, todo, faults, edits, stale, overlapped, late>>

(* The content of the plan, whatever happened to the file meanwhile.       *)
Fill(r) ==
  /\ open[r] # None
  /\ IF pc[r] = "java"
     THEN /\ java' = [java EXCEPT ![open[r]] = Generated]
          /\ UNCHANGED kotlin
     ELSE /\ kotlin' = [kotlin EXCEPT ![open[r]] =
               [state |-> "text", decls |-> keep[r] \cap snapshot[r].kotlin[open[r]].decls,
                edit |-> 0]]
          /\ UNCHANGED java
  /\ todo' = [todo EXCEPT ![r] = @ \ {open[r]}]
  /\ open' = [open EXCEPT ![r] = None]
  /\ UNCHANGED <<pc, plans, wrote, faults, edits, history>>

(* A source of which nothing moved is untouched when the blockers it lists *)
(* are in it already; otherwise it is rewritten with them.                 *)
LeaveSource(r) ==
  /\ pc[r] = "sources"
  /\ open[r] = None
  /\ \E s \in todo[r] :
       /\ snapshot[r].kotlin[s].decls \subseteq keep[r]
       /\ todo' = [todo EXCEPT ![r] = @ \ {s}]
  /\ UNCHANGED <<disk, pc, plans, open, wrote, faults, edits, history>>

(* A fully translated source is removed; it is an error if it is gone.     *)
DeleteSource(r) ==
  /\ pc[r] = "sources"
  /\ open[r] = None
  /\ \E s \in todo[r] :
       /\ keep[r] \cap snapshot[r].kotlin[s].decls = {}
       /\ IF kotlin[s].state = "absent"
          THEN /\ pc' = [pc EXCEPT ![r] = "failed"]
               /\ UNCHANGED <<kotlin, todo, wrote, clobbered>>
          ELSE /\ kotlin' = [kotlin EXCEPT ![s] = NoSource]
               /\ todo' = [todo EXCEPT ![r] = @ \ {s}]
               /\ wrote' = [wrote EXCEPT ![r] = TRUE]
               /\ Clobbers(r, s)
               /\ UNCHANGED pc
  /\ UNCHANGED <<java, plans, open, faults, edits, stale, overlapped, late>>

(* Only a file that carries the generated header is removed.               *)
RemoveStale(r) ==
  /\ pc[r] = "stale"
  /\ \E d \in todo[r] :
       /\ todo' = [todo EXCEPT ![r] = @ \ {d}]
       /\ IF java[d].state = "generated"
          THEN /\ java' = [java EXCEPT ![d] = NoJava]
               /\ wrote' = [wrote EXCEPT ![r] = TRUE]
               /\ Clobbers(r, d)
          ELSE UNCHANGED <<java, wrote, clobbered>>
  /\ UNCHANGED <<kotlin, pc, plans, open, faults, edits, stale, overlapped, late>>

(* finish_run: once everything is written, errors, strict-mode warnings or *)
(* --deny-warnings decide the exit status.                                 *)
Finish(r) ==
  /\ pc[r] = "finish"
  /\ pc' \in { [pc EXCEPT ![r] = "success"], [pc EXCEPT ![r] = "failure"] }
  /\ UNCHANGED <<disk, plans, todo, open, wrote, faults, edits, history>>

-------------------------------------------------------------------------------
(* A write or removal fails, and the ? on it returns at once.              *)
WriteError(r) ==
  /\ pc[r] \in WritePhases
  /\ todo[r] # {}
  /\ faults < MaxFaults
  /\ faults' = faults + 1
  /\ pc' = [pc EXCEPT ![r] = "failed"]
  /\ open' = [open EXCEPT ![r] = None]
  /\ UNCHANGED <<disk, plans, todo, wrote, edits, history>>

Kill(r) ==
  /\ Active(r)
  /\ faults < MaxFaults
  /\ faults' = faults + 1
  /\ pc' = [pc EXCEPT ![r] = "killed"]
  /\ open' = [open EXCEPT ![r] = None]
  /\ UNCHANGED <<disk, plans, todo, wrote, edits, history>>

(* The user saves a file that is there, without moving declarations.       *)
UserEdit ==
  /\ edits < MaxEdits
  /\ edits' = edits + 1
  /\ \/ \E s \in Sources :
          /\ kotlin[s].state = "text"
          /\ kotlin' = [kotlin EXCEPT ![s].edit = edits + 1]
          /\ UNCHANGED java
     \/ \E d \in Declarations :
          /\ java[d].state = "generated"
          /\ java' = [java EXCEPT ![d].edit = edits + 1]
          /\ UNCHANGED kotlin
  /\ stale' = stale \cup { r \in Runs : pc[r] = "planned" }
  /\ late' = (late \/ \E r \in Runs : pc[r] \in WritePhases)
  /\ UNCHANGED <<pc, plans, todo, open, wrote, faults, overlapped, clobbered>>

Step(r) ==
  \/ Plan(r) \/ Reject(r) \/ Verify(r) \/ Proceed(r)
  \/ Truncate(r) \/ Fill(r) \/ LeaveSource(r) \/ DeleteSource(r) \/ RemoveStale(r) \/ Finish(r)

Next ==
  \/ \E r \in Runs : Step(r) \/ WriteError(r) \/ Kill(r)
  \/ UserEdit

Spec == Init /\ [][Next]_vars

-------------------------------------------------------------------------------
(* The variables have their types, and a file is open only while its phase *)
(* still has to write it.                                                  *)
TypeOK ==
  /\ kotlin \in [Sources -> [state : {"absent", "text", "torn"},
                             decls : SUBSET Declarations, edit : 0..MaxEdits]]
  /\ java \in [Declarations -> [state : {"absent", "partial", "generated"},
                                edit : 0..MaxEdits]]
  /\ pc \in [Runs -> Ended \cup WritePhases \cup {"idle", "planned", "finish"}]
  /\ keep \in [Runs -> SUBSET Declarations]
  /\ todo \in [Runs -> SUBSET (Sources \cup Declarations)]
  /\ open \in [Runs -> Sources \cup Declarations \cup {None}]
  /\ wrote \in [Runs -> BOOLEAN]
  /\ faults \in 0..MaxFaults /\ edits \in 0..MaxEdits
  /\ stale \subseteq Runs /\ overlapped \in BOOLEAN /\ clobbered \in BOOLEAN
  /\ late \in BOOLEAN
  /\ \A r \in Runs : open[r] # None => pc[r] \in {"java", "sources"} /\ open[r] \in todo[r]

InKotlin(d) == d \in kotlin[FileOf[d]].decls

(* Whatever fails or is killed, wherever it is interrupted and however     *)
(* often it is run again, every declaration of the tree is still there, in *)
(* Kotlin or in finished Java.  Only a declaration a run keeps can be      *)
(* lost, while fs::write has truncated the source it is in.                *)
NothingLost ==
  ~overlapped =>
    \A d \in Declarations :
      \/ InKotlin(d)
      \/ java[d].state = "generated"
      \/ kotlin[FileOf[d]].state = "torn" /\ \E r \in Runs : d \in keep[r]

(* No two runs disagree: what one keeps in Kotlin the other does not move. *)
Agree == \A r, q \in Runs : r # q /\ pc[r] # "idle" => keep[q] \cap Moved(r) = {}

(* The overlapping runs the comment in `run` expects: when they agree and  *)
(* none meets a fault, nothing is lost once no file is open, wherever each *)
(* started, even though one of them may fail at a source that is gone.     *)
AgreeingRunsLoseNothing ==
  Agree /\ faults = 0 /\ (\A r \in Runs : open[r] = None) =>
    \A d \in Declarations : InKotlin(d) \/ java[d].state = "generated"

(* When a run has carried out its plan and nobody ran beside it, the tree  *)
(* is what the plan says, whatever earlier runs left behind: each moved    *)
(* declaration in Java alone, each kept one in Kotlin and, if it is a      *)
(* type, without the Java an interrupted run generated for it.             *)
AppliedPlanIsOnDisk ==
  \A r \in Runs : pc[r] = "finish" /\ ~overlapped =>
    /\ \A d \in Moved(r) : ~InKotlin(d) /\ java[d].state = "generated"
    /\ \A d \in keep[r] : InKotlin(d) /\ (d \in Types => java[d].state # "generated")

(* An edit made after planning and before verification started, to any     *)
(* source, generated Java or output path, keeps the run from writing.      *)
StalePlanWritesNothing ==
  ~overlapped => \A r \in stale : ~wrote[r]

(* What a run writes over, removes or deletes is what its plan was made    *)
(* from, unless another run or an edit came in between the verification    *)
(* and the write: no edit before that is lost.                             *)
OnlyLateEditsAreLost == clobbered => late \/ overlapped

(* Plan and tree agree: a plan that is outdated when it is verified writes *)
(* nothing, and one that is carried out leaves the tree it describes.      *)
TreeConsistent == TypeOK /\ AppliedPlanIsOnDisk /\ StalePlanWritesNothing
=================================================================================
