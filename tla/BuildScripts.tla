---------------------------- MODULE BuildScripts ----------------------------
(***************************************************************************)
(* The Gradle scripts an in-place run configures for the annotations its   *)
(* Java uses: build_dependencies.rs of src/src and the place `run` of      *)
(* main.rs gives it, planned with the migration and applied once its       *)
(* snapshots are verified, before the first Java file is written.          *)
(*                                                                         *)
(* Runs follow each other or overlap, next to a user who edits scripts (and *)
(* leaves the blocks in them alone); a run can be killed or meet an I/O    *)
(* error in any write.                                                     *)
(***************************************************************************)
EXTENDS Naturals

CONSTANTS
  Runs,          \* invocations of the program
  Directories,   \* directories of the workspace
  Root,          \* the workspace root
  Parent,        \* directory -> the directory above it
  ScriptIn,      \* directory -> the build script it holds, or None
  None,          \* no script
  Truncated,     \* the text of an emptied script
  MaxFaults,     \* bound on I/O errors and kills
  MaxEdits       \* bound on edits of the user

(* Everything lies under the root.                                         *)
ASSUME BuildAssumption ==
  /\ Root \in Directories
  /\ Parent \in [Directories -> Directories]
  /\ \A D \in SUBSET Directories :
       (Root \in D /\ \A d \in Directories : Parent[d] \in D => d \in D) => D = Directories
  /\ MaxFaults \in Nat /\ MaxEdits \in Nat

Scripts == { ScriptIn[d] : d \in Directories } \ {None}

VARIABLES
  scripts,   \* script -> [text: its latest edit, blocks: NOTLIN blocks in it]
  using,     \* directories with Java on disk that uses the annotations
  pc,        \* run -> "idle", "planned", "scripts", "java", or how it ended
  before,    \* run -> the snapshots of the scripts it planned to edit
  produces,  \* run -> directories it has still to write Java to
  sees,      \* run -> directories whose Java it planned for
  todo,      \* run -> the scripts it has still to write
  open,      \* run -> the script it has truncated and not written yet, or None
  faults, edits,
  stale,     \* history: runs whose snapshots were outdated when verified
  wrote,     \* history: runs that changed a script or wrote Java
  damaged,   \* history: scripts an interrupted write left incomplete
  generated  \* history: directories runs wrote Java to

vars == << scripts, using, pc, before, produces, sees, todo, open, faults, edits, stale, wrote, damaged,
           generated >>

Unedited == [text |-> 0, blocks |-> 0]

NoSnapshots == [s \in {} |-> Unedited]

Init ==
  /\ scripts = [s \in Scripts |-> Unedited]
  /\ using \in SUBSET Directories
  /\ pc = [r \in Runs |-> "idle"]
  /\ before = [r \in Runs |-> NoSnapshots]
  /\ produces = [r \in Runs |-> {}]
  /\ sees = [r \in Runs |-> {}]
  /\ todo = [r \in Runs |-> {}]
  /\ open = [r \in Runs |-> None]
  /\ faults = 0 /\ edits = 0
  /\ stale = {} /\ wrote = {} /\ damaged = {} /\ generated = {}

(* The directories nearest_gradle_script looks into: upwards from the      *)
(* first, until one has a script or is the root.                           *)
Visited(d) ==
  { e \in Directories :
      \A D \in SUBSET Directories :
        (d \in D /\ \A x \in D : x # Root /\ ScriptIn[x] = None => Parent[x] \in D)
          => e \in D }

Nearest(d) ==
  LET found == { ScriptIn[e] : e \in Visited(d) } \ {None}
  IN  IF found = {} THEN None ELSE CHOOSE s \in found : TRUE

(* The scripts of every Java file, generated or indexed, that uses them.   *)
Required(target) == { Nearest(d) : d \in target \cup using } \ {None}

MutantMarkerIgnored(target) == Required(target)

(* A script with the marker line is taken to be configured.                *)
Unconfigured(target) == { s \in Required(target) : scripts[s].blocks = 0 }

(* plan_jspecify_dependencies reads and writes nothing but its plan.       *)
Plan(r) ==
  /\ pc[r] = "idle"
  /\ \E target \in SUBSET Directories :
       /\ before' = [before EXCEPT ![r] = [s \in Unconfigured(target) |-> scripts[s]]]
       /\ produces' = [produces EXCEPT ![r] = target]
       /\ sees' = [sees EXCEPT ![r] = target \cup using]
  /\ pc' = [pc EXCEPT ![r] = "planned"]
  /\ UNCHANGED << scripts, using, todo, open, faults, edits, stale, wrote,
                  damaged, generated >>

MutantBlocksCurrent(r) ==
  \A s \in DOMAIN before[r] : scripts[s].blocks = before[r][s].blocks

(* BuildDependencyPlan::apply, first loop: every script is compared with   *)
(* its snapshot before any is written.                                     *)
BatchCurrent(r) == \A s \in DOMAIN before[r] : scripts[s] = before[r][s]

Verify(r) ==
  /\ pc[r] = "planned"
  /\ IF BatchCurrent(r)
     THEN /\ pc' = [pc EXCEPT ![r] = "scripts"]
          /\ todo' = [todo EXCEPT ![r] = DOMAIN before[r]]
     ELSE /\ pc' = [pc EXCEPT ![r] = "failed"]
          /\ UNCHANGED todo
  /\ stale' = stale \cup { q \in {r} : \E s \in DOMAIN before[q] : scripts[s] # before[q][s] }
  /\ UNCHANGED << scripts, using, before, produces, sees, open, faults, edits,
                  wrote, damaged, generated >>

(* Second loop: fs::write truncates the file, then writes it.              *)
Truncate(r, s) ==
  /\ pc[r] = "scripts" /\ open[r] = None /\ s \in todo[r]
  /\ open' = [open EXCEPT ![r] = s]
  /\ scripts' = [scripts EXCEPT ![s] = [text |-> Truncated, blocks |-> 0]]
  /\ wrote' = wrote \cup {r}
  /\ UNCHANGED << using, pc, before, produces, sees, todo, faults, edits,
                  stale, damaged, generated >>

(* `after` is the snapshot with the block appended.                        *)
After(r, s) == [before[r][s] EXCEPT !.blocks = @ + 1]

Fill(r) ==
  /\ open[r] # None
  /\ scripts' = [scripts EXCEPT ![open[r]] = After(r, open[r])]
  /\ todo' = [todo EXCEPT ![r] = @ \ {open[r]}]
  /\ open' = [open EXCEPT ![r] = None]
  /\ UNCHANGED << using, pc, before, produces, sees, faults, edits, stale,
                  wrote, damaged, generated >>

MutantFirstScriptDone(r) == pc[r] = "scripts" /\ open[r] = None

ScriptsDone(r) == pc[r] = "scripts" /\ todo[r] = {} /\ open[r] = None

(* write_java_files: one file after the other.                             *)
WriteJava(r, d) ==
  /\ ScriptsDone(r)
  /\ d \in produces[r]
  /\ using' = using \cup {d}
  /\ wrote' = wrote \cup {r}
  /\ produces' = [produces EXCEPT ![r] = @ \ {d}]
  /\ generated' = generated \cup {d}
  /\ UNCHANGED << scripts, pc, before, sees, todo, open, faults, edits, stale,
                  damaged >>

Finish(r) ==
  /\ ScriptsDone(r) /\ produces[r] = {}
  /\ pc' = [pc EXCEPT ![r] = "success"]
  /\ UNCHANGED << scripts, using, before, produces, sees, todo, open, faults,
                  edits, stale, wrote, damaged, generated >>

(* A run that stops between two writes, killed or on an error.             *)
Stop(r) ==
  /\ pc[r] \in { "planned", "scripts" } /\ open[r] = None
  /\ faults < MaxFaults /\ faults' = faults + 1
  /\ pc' = [pc EXCEPT ![r] = "failed"]
  /\ UNCHANGED << scripts, using, before, produces, sees, todo, open, edits,
                  stale, wrote, damaged, generated >>

(* One that stops in a write: the script stays empty, or holds a block cut *)
(* off after its marker line.                                              *)
StopInWrite(r) ==
  /\ open[r] # None
  /\ faults < MaxFaults /\ faults' = faults + 1
  /\ scripts' \in { scripts, [scripts EXCEPT ![open[r]] = After(r, open[r])] }
  /\ damaged' = damaged \cup {open[r]}
  /\ open' = [open EXCEPT ![r] = None]
  /\ pc' = [pc EXCEPT ![r] = "failed"]
  /\ UNCHANGED << using, before, produces, sees, todo, edits, stale, wrote,
                  generated >>

Edit(s) ==
  /\ edits < MaxEdits /\ edits' = edits + 1
  /\ scripts' = [scripts EXCEPT ![s].text = edits + 1]
  /\ UNCHANGED << using, pc, before, produces, sees, todo, open, faults, stale,
                  wrote, damaged, generated >>

Next ==
  \/ \E r \in Runs :
       \/ Plan(r) \/ Verify(r) \/ Fill(r) \/ Finish(r) \/ Stop(r) \/ StopInWrite(r)
       \/ \E s \in Scripts : Truncate(r, s)
       \/ \E d \in Directories : WriteJava(r, d)
  \/ \E s \in Scripts : Edit(s)

Spec == Init /\ [][Next]_vars

-------------------------------------------------------------------------------
Contents == [text : (0 .. MaxEdits) \cup {Truncated}, blocks : Nat]

(* Shape of the state: only a run in its second loop has a script open, and *)
(* it still has that one to write.                                         *)
TypeOK ==
  /\ scripts \in [Scripts -> Contents]
  /\ using \subseteq Directories
  /\ pc \in [Runs -> { "idle", "planned", "scripts", "success", "failed" }]
  /\ before = [r \in Runs |-> before[r]]
  /\ produces \in [Runs -> SUBSET Directories]
  /\ sees \in [Runs -> SUBSET Directories]
  /\ todo \in [Runs -> SUBSET Scripts]
  /\ open \in [Runs -> Scripts \cup {None}]
  /\ \A r \in Runs :
       /\ before[r] \in [DOMAIN before[r] -> Contents]
       /\ DOMAIN before[r] \subseteq Scripts
       /\ todo[r] \subseteq DOMAIN before[r]
       /\ pc[r] \in { "idle", "planned" } => todo[r] = {}
       /\ open[r] # None => pc[r] = "scripts" /\ open[r] \in todo[r]
  /\ stale \cup wrote \subseteq Runs
  /\ damaged \subseteq Scripts
  /\ generated \subseteq Directories
  /\ faults \in 0 .. MaxFaults /\ edits \in 0 .. MaxEdits

(* However many runs plan, overlap, stop and are repeated, no script gets  *)
(* the block twice ("repeated runs must be idempotent").                   *)
BlockOnce == \A s \in Scripts : scripts[s].blocks <= 1

(* A run that finds a script of its batch changed since it planned has     *)
(* written neither another script of it nor any Java                       *)
(* (changed_build_snapshots_are_rejected_before_any_metadata_write).       *)
StaleScriptWritesNothing == stale \cap wrote = {}

Configured(d) ==
  LET s == Nearest(d)
  IN  s = None \/ scripts[s].blocks > 0 \/ s \in damaged \/ \E r \in Runs : open[r] = s

(* Wherever a run stops, no Java it wrote stands without the dependency it *)
(* needs, unless a write of the script itself was interrupted; nor does a  *)
(* run that overlaps it take the dependency away again.                    *)
JavaHasItsDependency == \A d \in generated : Configured(d)

(* A run that succeeds leaves the dependency with all Java it knew of, the *)
(* files of earlier runs that stopped too early included.                  *)
SuccessConfigures ==
  \A r \in Runs : pc[r] = "success" => \A d \in sees[r] : Configured(d)

(* The scripts between any two writes: whole, and with one block at most.  *)
ScriptsConsistent == TypeOK /\ BlockOnce

(* Java and its dependency go together, after success and after a stop.    *)
JavaConfigured == JavaHasItsDependency /\ SuccessConfigures
=============================================================================
