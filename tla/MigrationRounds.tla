---------------------------- MODULE MigrationRounds ----------------------------
(***************************************************************************)
(* The speculative rounds of plan_workspace_migration_inner.  Every round  *)
(* plans the current virtual Kotlin sources, takes over the Java of the    *)
(* files it accepts, strips what moved from their text, repairs the calls  *)
(* of the Kotlin left behind and starts again, until a round changes       *)
(* neither a text nor an output.  Only then is there a plan to apply.      *)
(*                                                                         *)
(* A text is the set of top-level declarations it still holds, together    *)
(* with the calls in it rewritten to a Java facade; the accepted Java is   *)
(* the set of declarations moved, together with the calls in it that go to *)
(* a Kotlin facade.                                                        *)
(***************************************************************************)
EXTENDS Naturals, FiniteSets

CONSTANTS
  Files,              \* the Kotlin sources of the invocation
  Declarations,       \* their top-level declarations
  Workspaces,         \* the workspaces a run may start from
  FileOf(_, _),       \* FileOf(w, d): the source that declares d
  Strict(_),          \* --untranslatable=error
  Warned(_),          \* declarations whose Java draws a warning
  Answered(_),        \* declarations the JVM helper signs receipts for
  Calls(_),           \* pairs <<caller, top-level function>>
  Unrepairable(_),    \* the calls of Calls(w) no repair can rewrite
  OutputPath(_, _),   \* OutputPath(w, d): the Java file d is emitted to
  Occupied(_),        \* output paths that hold Java notlin did not generate
  Kept(_, _, _, _),   \* Kept(w, texts, calls, carried): Kotlin-owned declarations
  MaxRounds(_)        \* --max-pass

ASSUME FilesAssumption ==
  \A w \in Workspaces :
    /\ \A d \in Declarations : FileOf(w, d) \in Files
    /\ Calls(w) \subseteq Declarations \X Declarations

ASSUME RoundsAssumption == \A w \in Workspaces : MaxRounds(w) \in Nat

VARIABLES
  workspace,
  virtualSources,     \* file -> declarations left in its text; {} once deleted
  repaired,           \* calls in those texts rewritten to a Java facade
  cumulative,         \* declarations with an accepted Java output
  viaKotlin,          \* calls in the accepted Java to a Kotlin facade
  javaOwned,          \* declarations the merged plans decided to be Java
  strictVetoed,       \* strict_vetoed_paths: files vetoed in some round
  obliged,            \* required_obligations
  unproven,           \* moved on the legacy path although the helper signed them
  round,
  outcome

vars == <<workspace, virtualSources, repaired, cumulative, viaKotlin, javaOwned,
          strictVetoed, obliged, unproven, round, outcome>>

DeclaredIn(w, f) == { d \in Declarations : FileOf(w, d) = f }

InFiles(w, S) == { d \in Declarations : FileOf(w, d) \in S }

Remaining(texts) == UNION { texts[f] : f \in Files }

(* What carries an obligation is not lowered on a text that cannot meet    *)
(* it.  C003: a function stays in Kotlin while accepted Java calls its     *)
(* facade.  C002 to C007: it stays while a Kotlin text of the round holds  *)
(* a call to it that no repair can rewrite.                                *)
ASSUME KeptAssumption ==
  \A w \in Workspaces, present \in SUBSET Declarations :
    \A called \in SUBSET Calls(w), carried \in SUBSET present :
      LET kept == Kept(w, [f \in Files |-> DeclaredIn(w, f) \cap present], called, carried)
      IN  /\ carried \subseteq kept
          /\ \A call \in called : call[2] \in present => call[2] \in kept
          /\ \A call \in Unrepairable(w) : {call[1], call[2]} \subseteq present => call[2] \in kept

Init ==
  /\ workspace \in Workspaces
  /\ virtualSources = [f \in Files |-> DeclaredIn(workspace, f)]
  /\ repaired = {}
  /\ cumulative = {}
  /\ viaKotlin = {}
  /\ javaOwned = {}
  /\ strictVetoed = {}
  /\ obliged = {}
  /\ unproven = {}
  /\ round = 0
  /\ outcome = "running"

-------------------------------------------------------------------------------
(* What the plans of one round say of the current texts.                   *)

(* The text is the one on disk, so the helper can answer for it.           *)
Pristine(f) ==
  /\ virtualSources[f] = DeclaredIn(workspace, f)
  /\ \A call \in repaired : FileOf(workspace, call[1]) # f

Signed ==
  { d \in Remaining(virtualSources) \cap Answered(workspace) : Pristine(FileOf(workspace, d)) }

MutantNothingCarried == {}

(* carried_required: on a rewritten text an obligation cannot be met again.*)
Carried ==
  { d \in Remaining(virtualSources) \cap obliged : ~ Pristine(FileOf(workspace, d)) }

(* Every source planned as if it were the only one.                        *)
MutantOneSourceAtATime ==
  UNION { virtualSources[f]
            \cap Kept(workspace, [g \in Files |-> IF g = f THEN virtualSources[g] ELSE {}],
                      viaKotlin, Carried) : f \in Files }

KotlinOwned ==
  Remaining(virtualSources) \cap Kept(workspace, virtualSources, viaKotlin, Carried)

Emitted == Remaining(virtualSources) \ KotlinOwned

(* Strict mode: any diagnostic vetoes the file.  A retained declaration    *)
(* always has one, an approximation has its warning.                       *)
VetoedNow ==
  { f \in Files :
      /\ Strict(workspace)
      /\ \E d \in virtualSources[f] : d \in KotlinOwned \cup Warned(workspace) }

Accepted == Emitted \ InFiles(workspace, VetoedNow)

MutantRoundOutputsOnly == Accepted

(* The outputs of a vetoed file are withdrawn with it.                     *)
NextCumulative == (cumulative \ InFiles(workspace, VetoedNow)) \cup Accepted

NextViaKotlin ==
  { call \in viaKotlin : call[1] \in NextCumulative }
    \cup { call \in Calls(workspace) : call[1] \in Accepted /\ call[2] \in KotlinOwned }

(* A vetoed file gets its original text back.                              *)
NextSources ==
  [ f \in Files |-> IF f \in VetoedNow THEN DeclaredIn(workspace, f)
                    ELSE virtualSources[f] \cap KotlinOwned ]

MutantRedirectedAcrossFiles ==
  { call \in Calls(workspace) :
      /\ FileOf(workspace, call[1]) # FileOf(workspace, call[2])
      /\ call[2] \in Emitted
      /\ call[1] \in KotlinOwned \ InFiles(workspace, VetoedNow) }

(* The calls left in the texts that the moves of this round redirect.      *)
Redirected ==
  { call \in Calls(workspace) :
      call[2] \in Emitted /\ call[1] \in KotlinOwned \ InFiles(workspace, VetoedNow) }

NextRepaired ==
  { call \in repaired \cup Redirected :
      call[1] \in Remaining(NextSources) \ InFiles(workspace, VetoedNow) }

(* merge_translation_plan, then veto_translation_plan for vetoed files.    *)
NextJavaOwned ==
  ((javaOwned \ Remaining(virtualSources)) \cup Emitted) \ InFiles(workspace, VetoedNow)

-------------------------------------------------------------------------------
(* An output may not land on a file notlin did not generate, nor on one    *)
(* that another source contributed, in this round or an earlier one.       *)
PathConflict ==
  \E d \in Accepted :
    \/ OutputPath(workspace, d) \in Occupied(workspace)
    \/ \E e \in NextCumulative :
         /\ FileOf(workspace, e) # FileOf(workspace, d)
         /\ OutputPath(workspace, e) = OutputPath(workspace, d)

(* The repair meets a call it cannot rewrite ("needs a safer plan").       *)
CannotRepair == Redirected \cap Unrepairable(workspace) # {}

MutantSameFiles ==
  { f \in Files : NextSources[f] # {} } = { f \in Files : virtualSources[f] # {} }

(* next == virtual_sources && !cumulative_changed                          *)
Unchanged ==
  /\ NextSources = virtualSources
  /\ NextRepaired = repaired
  /\ NextCumulative = cumulative
  /\ NextViaKotlin = viaKotlin

Starts == outcome = "running" /\ round < MaxRounds(workspace)

(* A round that can be completed.  One that changed nothing ends the loop. *)
Round ==
  /\ Starts
  /\ ~ PathConflict
  /\ ~ CannotRepair
  /\ virtualSources' = NextSources
  /\ repaired' = NextRepaired
  /\ cumulative' = NextCumulative
  /\ viaKotlin' = NextViaKotlin
  /\ javaOwned' = NextJavaOwned
  /\ strictVetoed' = strictVetoed \cup VetoedNow
  /\ obliged' = obliged \cup Signed \cup Carried
  /\ unproven' = unproven \cup ((Accepted \cap Answered(workspace)) \ Signed)
  /\ round' = round + 1
  /\ outcome' = IF Unchanged THEN "accepted" ELSE outcome
  /\ UNCHANGED workspace

Refuse ==
  /\ Starts
  /\ PathConflict \/ CannotRepair
  /\ outcome' = IF PathConflict THEN "conflict" ELSE "unrepairable"
  /\ UNCHANGED <<workspace, virtualSources, repaired, cumulative, viaKotlin, javaOwned,
                 strictVetoed, obliged, unproven, round>>

MutantRoundLimit ==
  /\ outcome = "running"
  /\ round >= MaxRounds(workspace) - 1
  /\ outcome' = "limit"
  /\ UNCHANGED <<workspace, virtualSources, repaired, cumulative, viaKotlin, javaOwned,
                 strictVetoed, obliged, unproven, round>>

(* "did not converge within N planning passes (no migration applied)"      *)
RoundLimit ==
  /\ outcome = "running"
  /\ round = MaxRounds(workspace)
  /\ outcome' = "limit"
  /\ UNCHANGED <<workspace, virtualSources, repaired, cumulative, viaKotlin, javaOwned,
                 strictVetoed, obliged, unproven, round>>

Next == Round \/ Refuse \/ RoundLimit

Spec == Init /\ [][Next]_vars

-------------------------------------------------------------------------------
(* migration_proposals: what the accepted plan does to a source.  A source *)
(* vetoed in any round is left as it is.                                   *)
FinalSource(f) ==
  IF f \in strictVetoed THEN DeclaredIn(workspace, f) ELSE virtualSources[f]

Outcomes == {"running", "accepted", "conflict", "unrepairable", "limit"}

(* Shape of the state.  What is left to move and what has moved are        *)
(* declarations of this workspace, and a repaired call is a real call that *)
(* still stands in Kotlin.                                                 *)
TypeOK ==
  /\ \A f \in Files : virtualSources[f] \subseteq DeclaredIn(workspace, f)
  /\ DOMAIN virtualSources = Files
  /\ repaired \subseteq Calls(workspace)
  /\ \A call \in repaired : call[1] \in Remaining(virtualSources)
  /\ cumulative \subseteq Declarations
  /\ viaKotlin \subseteq Calls(workspace)
  /\ \A call \in viaKotlin : call[1] \in cumulative
  /\ javaOwned \subseteq Declarations
  /\ strictVetoed \subseteq Files
  /\ obliged \subseteq Answered(workspace)
  /\ unproven \subseteq Answered(workspace)
  /\ round \in 0..MaxRounds(workspace)
  /\ outcome \in Outcomes

(* Between two rounds every declaration is in exactly one of the Kotlin    *)
(* texts and the accepted Java: stripping, restoring a vetoed original and *)
(* withdrawing its outputs neither lose nor duplicate one.                 *)
OwnedExactlyOnce ==
  /\ Remaining(virtualSources) \cap cumulative = {}
  /\ Remaining(virtualSources) \cup cumulative = Declarations

(* What an accepted plan leaves of the program: nothing is lost, and only  *)
(* a source that strict mode vetoed in some round can end up defined both  *)
(* in its Kotlin and in accepted Java.                                     *)
AcceptedPlanComplete ==
  outcome = "accepted" =>
    \A f \in Files :
      /\ DeclaredIn(workspace, f) \subseteq FinalSource(f) \cup cumulative
      /\ f \notin strictVetoed => FinalSource(f) \cap cumulative = {}

(* The decisions coverage reports are the outputs: a declaration is Java   *)
(* owned exactly when its Java was accepted, vetoes and later rounds       *)
(* included (CoverageReport::collect fails the run otherwise).             *)
DecisionsMatchOutputs == javaOwned = cumulative

(* Without strict vetoes every call reaches its function: generated Java   *)
(* calls the facade of the side the function ended on although it was      *)
(* emitted rounds earlier, and the Kotlin calls left behind are rewritten  *)
(* exactly when their function moved.                                      *)
CallsReachTheirOwner ==
  ~ Strict(workspace) =>
    \A call \in Calls(workspace) :
      IF call[1] \in cumulative THEN call \in viaKotlin <=> call[2] \notin cumulative
      ELSE call \in repaired <=> call[2] \in cumulative

(* The retention rules see every call the repair could not rewrite, so the *)
(* "needs a safer migration plan" failure never ends a run.                *)
RepairNeverRefuses == outcome # "unrepairable"

(* No two sources contribute to one Java file and no foreign Java file is  *)
(* overwritten, whichever rounds the outputs were accepted in.             *)
OutputsHaveOneOrigin ==
  \A d \in cumulative :
    /\ OutputPath(workspace, d) \notin Occupied(workspace)
    /\ \A e \in cumulative :
         OutputPath(workspace, d) = OutputPath(workspace, e) =>
           FileOf(workspace, d) = FileOf(workspace, e)

(* A declaration the helper once signed receipts for is never translated   *)
(* on a text the helper cannot answer for.                                 *)
NoUnprovenMove == unproven = {}

(* A plan is final: every declaration an accepted plan leaves in Kotlin is *)
(* one that planning those sources beside that Java still keeps there.     *)
AcceptedPlanIsFinal ==
  outcome = "accepted" =>
    \A f \in Files \ strictVetoed : virtualSources[f] \subseteq KotlinOwned

(* Every round but the last moves a declaration, so one planning of a      *)
(* workspace needs at most a round more than it has declarations, and the  *)
(* automatic --max-pass (twice as many, at least 16) leaves it enough.     *)
LimitOnlyIfTooLow ==
  outcome = "limit" => MaxRounds(workspace) <= Cardinality(cumulative)

(* Outside strict mode texts only shrink and accepted Java only grows: no  *)
(* round takes a move back.                                                *)
MovesArePermanent ==
  [][ ~ Strict(workspace) =>
        /\ cumulative \subseteq cumulative'
        /\ \A f \in Files : virtualSources'[f] \subseteq virtualSources[f] ]_vars

(* The veto message and its test: a source strict mode vetoed contributes  *)
(* no output to the accepted plan.                                         *)
VetoSuppressesOutputs ==
  outcome = "accepted" => cumulative \cap InFiles(workspace, strictVetoed) = {}

(* Texts, accepted Java and recorded decisions agree in and after every    *)
(* round: nothing is lost, doubled, reported wrongly or overwritten.       *)
OwnershipConsistent ==
  /\ TypeOK
  /\ OwnedExactlyOnce
  /\ AcceptedPlanComplete
  /\ DecisionsMatchOutputs
  /\ OutputsHaveOneOrigin
===============================================================================
