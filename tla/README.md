# A TLA+ model of notlin's migration engine

notlin migrates part of a Kotlin workspace to Java. It decides which declarations can move, emits Java for
them, removes them from their Kotlin files, keeps the rest Kotlin and rewrites the calls between the two
sides. Every decision depends on others: a class may move only if its parent does, a function only if every
caller can be repaired, a declaration must stay because Java generated two rounds ago calls its Kotlin
facade. What the lowerers print is sequential and well covered by the repository's tests. What decides
whether the result is a program at all is the control around them: a parallel fixpoint with a cache,
speculative rounds over virtual texts, caches carried from one snapshot to the next, a phase that writes to
disk with no transaction, a helper process that may hang; and, among the text repairs, those in which one
rule plans and another writes, so that both must see the same thing. This directory models that.

Paths below are relative to the repository root; `src/…` is the Rust crate.

## 1. Inventory

### Components, their state and operations

| component | source | state | operations | modelled in |
| --- | --- | --- | --- | --- |
| ownership fixpoint | `src/transpiler/fixpoint.rs` | retained set, pins (`forced`), history of retained sets, a cache slot per file with its plan and its recorded reads, the indices to prepare | prepare files in parallel, finish a pass: converge, advance, break a cycle, run into the pass limit | `RetentionFixpoint`, `FullReplanning` |
| retention queries and probes | `src/transpiler/retention_queries.rs` | thread-local probe: symbols and names asked about | `contains`, `contains_name`, `affected_by` | `OwnershipPlanning` |
| interface property retention | `src/property_abi.rs` | none | ancestor walk, forwarding proof, bridge proof | `InterfaceRetention` |
| speculative migration rounds | `src/migration_pipeline.rs` | virtual texts, accepted Java (`cumulative`), output identities, merged plans, strict vetoes, required obligations, repaired contracts | a round, refusal of a path conflict or an unrepairable call, acceptance, the round limit | `MigrationRounds` |
| JVM collection-contract retries | `src/migration_pipeline.rs` 50–240, `src/getter_normalization/workspace.rs` | prepared getter families, groups of collection-contract annotations, rounds used | plan from the originals, drop what served nothing, again | `PreparationRetries` |
| translation plan | `src/translation_plan.rs`, `src/planning.rs` | decisions, receipts, edits of one file | analyze, reconcile, veto | `OwnershipPlanning`, `MigrationRounds` (effects) |
| getter bridge cache | `src/workspace/default_getters.rs` | answers with the record of what they read, types remembered per snapshot | query, infer, carry over an overlay | `GetterResolution`, `GetterBridgeCache` |
| smart-cast repair | `src/smart_cast.rs`, `smart_cast_rewrites_cover` of `src/workspace.rs` | sites still to repair, local names taken | decide whether an owner may move, bind a local per site, write | `SmartCastRepair` |
| constructor defaults | `src/ctor_defaults.rs`, its callers in `src/transpiler/**`, `src/workspace.rs`, `src/manual_marks.rs` | what callers omit, the planned constructors | plan, emit, rewrite retained and moving callers | `CtorDefaults` |
| function call-site repair | `src/function_callsite.rs` | none | redirect calls to moved functions, name those that cannot be | `MigrationRounds`, `MigrationRules` |
| source stripping | `src/migrate.rs` | the source with the comments earlier runs left | strip, comment, tidy; keep, rewrite or delete | `SourceStripping` |
| build dependencies | `src/build_dependencies.rs` | snapshots of build scripts | plan, verify as a batch, write | `BuildScripts` |
| apply phase | `src/main.rs`, `src/migrate.rs` | the tree on disk, the plan and its snapshot | verify, write Java, remove stale Java, rewrite or delete sources, exit status | `MigrationApply` |
| JVM facts client | `src/facts/{client,runtime,classpath}.rs` | helper process, reader queue, `dead`, client lock, two memo tables | ask about a file or a class, exchange, time out, retire | `FactsHelper` |
| JVM facts helper | `jvm-facts/` | a Kotlin analysis session | open the session, answer one request | `FactsHelper` (as its environment) |
| workspace index | `src/workspace.rs`, `src/semantics/source_cache.rs` | parsed files, overlays, caches | build, overlay, look up names | `GetterResolution` (lookup) |
| lowerers, eager collections | `src/transpiler/**` | none across files | syntax tree to Java text with decisions and diagnostics | — (section 7) |
| semantic providers, Lombok contracts, Java syntax | `src/semantics.rs`, `src/lombok_*.rs`, `src/java_ir.rs`, … | none | analysis of one snapshot | — |
| property call-site repairs, getter repair | `src/property_callsite.rs`, `src/default_getter_repair.rs`, `src/getter_*.rs`, … | incremental repair state | text edits of retained Kotlin | — |
| staged validation | `src/jvm_validation.rs` | a staged copy | kotlinc and javac over it | its verdict in `MigrationApply` |
| coverage and diagnostics, command line and progress | `src/coverage.rs`, `src/cli.rs`, … | none the engine reads | reports, arguments, output | — |

### How they interact

`main.rs` reads the sources and calls the rounds. Every round calls the ownership fixpoint once, and the
fixpoint calls the lowerers for many files at once on a rayon pool; a lowerer asks the retained set through
the thread-local probe and the JVM facts client, which all workers share behind a mutex. The round then edits
its virtual texts, repairs calls and smart casts, and starts again on an overlay of the index that takes the
getter answers of the last one along. The plan of the last round and the snapshot of everything it was made
from go to the apply phase, which configures the build scripts, writes the Java and strips the sources. What
it leaves in the tree (comments, leftovers of an interrupted run, configured scripts) is input of the next
invocation. There are no callbacks into the engine; what is shared is the retained set (immutable during a
pass), the facts client (locked) and the disk (not locked at all).

### What is hard

* **Concurrency**: files of one pass are prepared in any order; a cached plan survives passes; planning
  workers race for one helper; two invocations may work on one tree (the code says so where it reads).
* **Ordering**: an output is accepted, withdrawn by a strict veto and accepted again rounds apart; Java of
  an early round refers to what a later round wants to move; who infers a getter's type first decides who
  records what it was read from; a Java constructor delegates to another that fills further defaults.
* **Staleness**: cached plans, cached getter answers, receipts signed for the text on disk but used on a
  virtual text, snapshots verified once and used later, hashes taken before the helper reads.
* **Failure**: kills and I/O errors between writes, a failed exit status after the writes, a helper that is
  silent, repeats itself or dies.
* **Running again**: the tool reads its own comments, generated files and build-script blocks back.
* **Two rules that must agree**: the planner lets an owner move because the writer will repair its smart
  casts; a caller is shortened because a constructor of that shape is planned.
* **Termination**: release rules oscillate; rounds must stop, and stop neither early nor late; retries share a
  budget of rounds that an outer retry gives back.

### What makes each component correct

* fixpoint: the incremental result is the result of full replanning; pinning ends every oscillation; without
  release rules the retained set is the least one and the limit is never the reason to fail.
* rounds: every declaration is in exactly one place between rounds and after acceptance; every call goes
  where its function is; decisions and outputs agree; an accepted plan is a fixpoint of planning.
* retries: a returned plan was made with exactly the preparation that is left, all of it of use; nothing useful is
  dropped where preparation only helps; the two loops end within their budget.
* getter cache: a cached answer is the answer a new query would compute, whatever was edited and reverted since.
* smart casts: a bound local has the value every replaced read had and is in scope there; whatever the
  planner promised is repaired.
* constructor defaults: the finished Java reaches the constructor Kotlin reached, every parameter gets its
  argument or its default, and defaults are evaluated once and in order.
* stripping: no line of the user's is lost, comments give the current reason, a second run changes nothing (the
  last two with exceptions the code has, section 4).
* apply: interrupted anywhere and repeated, nothing is lost; a completed run leaves the tree as planned; a
  stale plan writes nothing and no edit made before that is overwritten.
* build scripts: a block at most once; Java and its dependency go together.
* facts: an answer is about the question; a broken helper costs one request; what is handed out describes
  the planned text; nobody waits for ever.

## 2. Modules

| module | models | state and actions ↔ code |
| --- | --- | --- |
| `OwnershipPlanning` | the interface between planner and fixpoint | constants `Declared`, `Prepared`, `SymbolReads`, `NameReads` are a file's plan under a hint; `KotlinOwned` is `reconcile`'s effect, `AffectedBy` the filter, `CycleVarying` the symbols to pin |
| `FullReplanning` | the abstract specification: every pass plans every file (`incremental == false`) | `Pass`, `PassLimit`; one step per pass |
| `RetentionFixpoint` | `plan_workspace_cold_mode` as it runs | `Prepare(f)` is one job of `translate_indices`; `Converge`, `Cycle`, `Advance` end a pass; `PassLimit` is the error after the loop |
| `RetentionRules` | the shape of retention rules | a declaration asks a sequence of questions and stops at the first that blocks; a coupled facade keeps or moves as a whole |
| `InterfaceRetention` | the interface property rules with the reads they really record | `Retains`, `InterfaceReads`; instantiates `RetentionFixpoint` in `MCInterfaceRetention` |
| `MigrationRounds` | the loop of `plan_workspace_migration_inner` | `Round` is a whole round (accept, veto, strip, repair, merge decisions, carry obligations, decide whether anything changed), `Refuse` its two early returns, `RoundLimit` the error after the loop |
| `MigrationRules` | rules whose answer changes with the texts | calls without repair, classes named elsewhere, calls from generated Java |
| `PreparationRetries` | the loops of `plan_workspace_migration` (getter families) and `plan_workspace_migration_prepared` (collection contracts) | `Attempt` is one call of the rounds and the `retain` after it, `OutOfRounds` and `PlanningFails` its errors; `Refuse`, `Discard`, `Return` are the outer loop's review |
| `GetterResolution` | `find_qualified`, `resolve_type` and the walk over inherited getters, on a snapshot (path → content) | each tier of the lookup, the types of delegating getters, `Bridges`, and beside every lookup the files and names it records |
| `GetterBridgeCache` | the cache across `with_overlays_using_cache_from` | `Query` computes and records, `Infer` remembers a type, `Overlay` makes a snapshot and carries what is `Compatible` |
| `SmartCastRepair` | `smart_cast.rs` on files as trees whose paths are the byte offsets | `Plan` is `smart_cast_rewrites_cover`; `todo` holds the sites still to visit, `Skip` and `Bind` are one turn of the writer's loop over them in the order of the text, `ApplyEdits` the batch at its end |
| `CtorDefaults` | a defaulted primary constructor and its callers | `Keep`/`PlanConstructors` is the planner, `Emit` the Java class, `RewriteCallers` both ways of rewriting; `Call`, `Delegate`, `Build` run the result through Java's overload resolution |
| `SourceStripping` | `migrate.rs` on one file, a sequence of lines and comments with their indentation | `Run` is a whole run over the file, the helpers are its passes in their order; `strays` are the stale diagnostics at a comment that `inside_generated_notlin_kdoc` does not drop |
| `BuildScripts` | `build_dependencies.rs` and where `run` calls it | `Plan`, `Verify`, `Truncate`, `Fill`, `WriteJava`, `Finish`; `Stop`, `StopInWrite` and the user's `Edit` may come anywhere |
| `MigrationApply` | `run` after planning, in place | `Plan` … `Finish` per invocation in program order; a write is `Truncate` then `Fill`; `WriteError`, `Kill` and `UserEdit` may come anywhere |
| `FactsHelper` | `FactsRuntime`, `FactsClient`, the memo tables, and the helper as their environment | `AskFile`/`AskOwner`, `LockMembers`, `Load`, `TooLate`, `Send`, `Receive`/`Timeout`, `Store`, `Check` per worker; `OpenSession`, `Serve`, `Exit`, `Read` for the other process |
| `…Proofs` (eight) | theorems | section 5 |
| `MC…` | instances for TLC | section 3 |

`RetentionFixpoint` implements `FullReplanning` (`Full == INSTANCE FullReplanning`, the shared variables map to
themselves, `Prepare` to a stutter), on workspaces all of whose files record their queries (`AllReadsRecorded`).
`MigrationRounds` takes the fixpoint's result as an operator `Kept`: the fixpoint's theorems say that this is well
defined, and all that the properties of the rounds need of what it decides is `KeptAssumption` (rules C002 to C007).
`PreparationRetries` takes a whole run of the rounds as `Accepts`, `Rounds` and `Breaks` of the prepared sources:
planning is a function of its sources. `MigrationApply` takes a plan as any split of the tree's declarations; that the
split is a partition is what `AcceptedPlanComplete` gives. It shares the order of the apply phase with `BuildScripts`,
which looks at the scripts and the Java they are for, and takes one strip per file as a step; `SourceStripping` opens
that step.

Abstractions, by component:

* A *declaration* is a model value; a *text* is the set of declarations it still holds and a *plan* the set
  it keeps. Byte ranges, formatting and diagnostics' wording are left out. Where positions matter
  (`SmartCastRepair`, `SourceStripping`) a file is a tree with paths or a sequence of lines.
* A lowerer's decision under a hint is a constant operator, of which nothing is assumed but that it decides
  declarations of its own file. What the cache relies on is a condition on a file, `ReadsRecorded`: a
  preparation none of whose recorded queries changed its answer would decide and ask the same. Properties
  and theorems that need it say so; `InterfaceRetention` shows a rule of the code for which it is false.
* On disk a file has a state and an edit number; the number stands for the hash of its content.
* The helper's answer is the revision of the file its session was built from.
* A value passed to a constructor is known by where it comes from (which argument, literal or default) and its
  type; that is what tells a call that kept its meaning from one that did not.
* `SmartCastRepair` follows one property of one owner; `GetterResolution` one getter name.

## 3. Runs

| run | instance | distinct states | what it shows |
| --- | --- | --- | --- |
| `retention` | every workspace of three declarations, each in its own file with any rule of at most two questions, plus the workspaces where two share a coupled facade; two share a simple name; every rule records what it asks; 4 or 32 passes | 60,865 | the cache never holds a plan the current pass would not make, the result is exact and least, pins break every cycle, only release rules exhaust the limit, and the incremental iteration refines full replanning |
| `interface_reads` | every acyclic hierarchy of three interfaces in three files | *violation* | finding 1 |
| `rounds` | three declarations over one, two or three files (four layouts); every mix of naming, calls, unrepairable calls, blocked and coupled declarations, warnings, receipts, and colliding or occupied outputs; strict and lenient; 6 rounds, or 3 | 18,856 | nothing lost or doubled, calls linked, decisions match outputs, one origin per output, accepted plans final; the limit only ends runs that moved something in every round |
| `strict_veto` | the same as `rounds` | *violation* | finding 2 |
| `retries` | three declarations, two getter families; every mix of contracts, of declarations that need each other's contracts or a family's layout, of layouts that spoil one, of users, strict vetoes and failures; budget 8, longest planning 4 rounds | 93,774 | nothing leaks, nothing useful is dropped, the budget suffices, the loops end |
| `getter_cache` | four files with three to seven contents each (252 snapshots), two of them on disk; overlays of up to two files, queries and inferences in any order | 583 | no cached answer outlives what it was computed from, edits that have nothing to do with it keep it |
| `smart_casts` | a function with one site of eight shapes, as a statement or the value of a declaration, two statements in its branches and one after it, out of shadowings, redeclarations, nested sites, clashing names and closures | 13,054 | the local sees and holds what the read would have read, no narrowed read is left, names stay apart |
| `ctor_defaults` | some forty classes of two and three parameters, every caller that omits or names arguments, alone and in pairs of a retained and a moving one, in place and not | 88,996 | each caller reaches its constructor with every argument and default in its place |
| `source_stripping` | seven files (every kind of line a user writes; comments of earlier versions; comments inside a declaration; a residue of comments only; declarations in a row with comments of both kinds; two with an indented declaration), every verdict and parse, a stale diagnostic at any comment, three runs | 18,881 | nothing of the user's is lost, reasons are replaced, a second run changes nothing, speculation strips to the same text, with the exceptions of section 4 |
| `build_scripts` | two runs, a root project and a subproject with scripts and a directory below, one interruption, one edit | 3,795,013 | scripts stay whole, Java has its dependency, outdated scripts stop a run before its first write |
| `apply` | two invocations, one source with a class and a function, every initial mixture of Kotlin, Java and leftovers of an interrupted run, two faults, one edit | 1,692,506 | nothing is lost, a completed run leaves what it planned, only late edits are overwritten |
| `facts` | two workers, one file, two classes, four questions, one fault, one edit | 296,732 | answers go to their question, a broken helper costs one request, evidence stays, everyone returns |

### Bounds and why they are enough

* **Three declarations** are the fewest that give every structure the rules distinguish: a chain, a cycle, two
  symbols with one name and a third that asks about it, an oscillation of two and a third that reacts to it.
* **32 passes** are a pass for every retained set between two pins and a pin for every declaration, which is
  what `AlwaysConverges` says is enough; **4** is one more than the declarations, which is all that rules
  without release need (`LimitOnlyByRelease`). The limit is a field of the snapshot, so one run covers both.
* **6 rounds**: no run of three declarations takes more than four, so the limit never interferes; **3** makes
  it bite. The automatic `--max-pass` is at least 16.
* **Limit = 8** is two of the longest plannings: exactly enough for one group of contracts and one short for
  two, so `LimitOnlyIfTooLow` is met at its boundary. **Two families** let one be dropped after the other,
  each with its own inner loop; three declarations let three groups fail in three attempts.
* **Two overlaid files** (`MaxEdits` of the getter cache) are the fewest that can edit what an answer read
  and what shadows it at once. Overlays are always made from the snapshot on disk, as in the code, so a
  longer chain only repeats them.
* **Two branch statements and one after** (`Menu`, `After`): enough for a redeclaration before or after a
  use, a nested site in either place and a name taken on either side. `LocalLimit` is 64 in the code and 6
  here, more than the sites of a file; the theorem has any limit.
* **Three parameters** let an omitted one stand before, between or after given ones; **two callers** let one
  demand a constructor the other could be taken for.
* **Three runs** over a source: one strips, one meets the first one's comments, one meets a replaced comment.
* **Two invocations** of the apply phase cover a repeat after a crash as well as an overlap: a run's plan is
  made from whatever the earlier one left. **Two faults** allow one in each. **One edit** is enough to make a
  snapshot stale. Larger instances (two sources, two or three declarations, without edits) were explored once
  and hold too; they take too long to be run every time. The same holds for `BuildScripts`.
* **Four questions** let both workers ask about the file and about both classes in any order; one class asked
  twice exercises the memo. **One fault** suffices: the helper is retired after it. **One edit** before, during
  or after the session is built gives every order of hash, read and check.

Where two runs of a tree are interchangeable (`apply`, `build_scripts`) the configuration declares the
symmetry; those runs check invariants only.

Two instances are restricted to what the repair is meant for, and what lies outside is listed under known
divergences: `MCSmartCastRepair` places sites on lines of their own (`OwnLine`) and chooses `Menu` and `After`
without assignments inside a region that goes on; `MCCtorDefaults` takes classes whose parameter types accept
no values of each other's (`NullOnly`) and some classes only in place (`InPlaceOnly`).

### Deadlock

Every module's system but the getter cache's stops: a fixpoint, a migration, a repair and an invocation end,
and a worker has no question left. `CHECK_DEADLOCK FALSE` says so in their configurations; that they do not stop
too early is the subject of `AlwaysConverges`, `AcceptedPlanIsFinal`, `LimitOnlyIfTooLow`, `RetriesEnd`,
`CallsFinish`, `RepairComplete` and `EveryQuestionReturns`.

### Fairness

* `RetentionFixpoint`: weak fairness of the next-state relation. The pass is a plain loop around a parallel
  map; nothing blocks it, so an enabled step is eventually taken, in any order.
* `PreparationRetries`, `CtorDefaults`: weak fairness of the next-state relation, sequential code. For the
  calls of `CtorDefaults` it is the Java program that runs: `CallsFinish` says constructors do not delegate
  in a circle.
* `FactsHelper`: weak fairness of each worker's `Work`. A worker is an OS thread, a mutex is released by a
  thread that itself only waits for a deadline, and `recv_timeout` returns when it expires. Nothing is
  assumed of the helper, its reader thread or the user: `EveryQuestionReturns` holds with all of them stopped.
  One step of `Work` while the lock is free is the mutex handed to somebody; that it is not handed to others
  for ever follows from the bound on questions.
* The other modules state no liveness and no fairness.

## 4. Properties

Each module with a state of its own states one type invariant: `TypeOK`, in `SmartCastRepair` `BindingsTyped` and
in `CtorDefaults` `PatternsTyped`. A run checks some properties as one conjunction of named parts:

| checked as | parts besides the type invariant |
| --- | --- |
| `PlansConsistent` | `CacheCoherent`, `ConvergedPlansExact`, `NeverRepeated` |
| `OwnershipConsistent` | `OwnedExactlyOnce`, `AcceptedPlanComplete`, `DecisionsMatchOutputs`, `OutputsHaveOneOrigin` |
| `PreparationConsistent` | `NothingLeaks` |
| `CacheConsistent` | `CachedAnswersFresh`, `RememberedTypesFresh` |
| `BindingsConsistent` | `RewritesKeepTheValue` |
| `DefaultsConsistent` | `DefaultsOnceInOrder`, `DefaultsInScope` |
| `MarkersConsistent` | `ReasonIsCurrent` |
| `ScriptsConsistent`; `JavaConfigured` | `BlockOnce`; `JavaHasItsDependency`, `SuccessConfigures` (no `TypeOK`) |
| `TreeConsistent` | `AppliedPlanIsOnDisk`, `StalePlanWritesNothing` |
| `ExchangeConsistent` | `AnswersMatchQuestions`, `OneRequestInVain` |

| property | says |
| --- | --- |
| `CacheCoherent`, `ConvergedPlansExact`, `ImplementsFullReplanning` | `affected_by` and the re-planning of pinned owners never leave a stale plan behind, of files whose queries of the retained set are recorded |
| `NeverRepeated`, `AlwaysConverges` | every oscillation is broken by pins |
| `LeastRetention`, `LimitOnlyByRelease` | without release rules the result is least and needs at most one pass per declaration and one more |
| `OwnedExactlyOnce`, `AcceptedPlanComplete` | a declaration is in exactly one of Kotlin and Java, through strips, vetoes and withdrawals, and in the plan |
| `DecisionsMatchOutputs` | the merged plans name exactly the declarations with accepted Java (`CoverageReport::collect` fails otherwise) |
| `CallsReachTheirOwner`, `RepairNeverRefuses` | without strict vetoes calls follow their function whichever round it or they moved in; retention sees every call the repair cannot rewrite |
| `OutputsHaveOneOrigin`, `NoUnprovenMove` | no two sources write one Java file; what needed a receipt is never moved without one |
| `AcceptedPlanIsFinal`, `LimitOnlyIfTooLow` | the loop stops neither early nor late |
| `NothingLeaks`, `LargestSupported`, `LimitOnlyIfTooLow`, `RetriesEnd` | retries drop what was in vain and only that, within a budget that counts groups, and the two loops end together |
| `CachedAnswersFresh`, `RememberedTypesFresh`, `RecordIndependentOfOrder` | no answer or inferred type outlives what it was read from; a remembered type replays its reads into whoever uses it |
| `UnrelatedEditsKeepAnswers` | the cache is not useless: an edit that touches no type or name of an answer keeps it |
| `RewritesKeepTheValue`, `RepairComplete`, `LocalsApart` | a local has the value of the reads it replaces and is in scope there; planner and writer agree; no two locals share a name |
| `CallsKeepTheirMeaning`, `ConstructorsDiffer`, `DefaultsOnceInOrder`, `DefaultsInScope`, `CallsFinish` | the Java program constructs what the Kotlin program did |
| `UserLinesSurvive`, `ReasonIsCurrent`, `RunningAgainChangesNothing`, `SpeculationSeesTheResidue` | stripping, over repeated runs: no line of the user's goes with a neighbour's; the nearest comment above a line the run blamed gives this run's reason, also where one of an earlier run was left further up; running again writes the same file, but for three cases |
| `BlockOnce`, `JavaHasItsDependency`, `SuccessConfigures`, `StaleScriptWritesNothing` | build scripts under overlap, interruption and edits |
| `NothingLost`, `AgreeingRunsLoseNothing`, `AppliedPlanIsOnDisk`, `StalePlanWritesNothing`, `OnlyLateEditsAreLost` | the apply phase under faults, overlap and edits |
| `AnswersMatchQuestions`, `OneRequestInVain`, `EvidenceStays`, `ReferencesDescribePlannedText`, `EveryQuestionReturns` | the facts client against any helper |

Several carry the exceptions the code has:

* `CacheCoherent` and `ConvergedPlansExact` are about files that satisfy `ReadsRecorded`, whatever the other files
  do, and `ImplementsFullReplanning` about workspaces all of whose files do. The ancestor rule of finding 1 records
  nothing, so a file with an interface it applies to may be outside. `MCRetentionFixpoint` checks that every file
  of its instance satisfies the condition (`RulesRecordTheirQueries`). What is said of pins, least sets and limits
  needs no such condition.
* `RunningAgainChangesNothing` excepts a stale diagnostic that is not dropped (`strays`), a comment that already
  stands between annotations and keyword when the parse changes (`MarkerInside`), and a comment above annotations
  that is indented or whose declaration is (`Pushed`). `ReasonIsCurrent` excepts a stale diagnostic that is not dropped
  at a comment between annotations and keyword: it takes the place of the reason above the annotations.
* `NothingLost` and the other properties of the apply phase are about runs that do not overlap;
  `AgreeingRunsLoseNothing` is about those that do and plan alike. `fs::write` truncates a source before it
  writes it, so a kill between the two loses what the plan keeps in that source. For the same reason
  `JavaConfigured` excepts scripts in `damaged`.
* `AppliedPlanIsOnDisk` claims the absence of leftover Java for types only, because
  `remove_stale_generated_outputs` looks for types only.
* `LargestSupported` is claimed for workspaces where preparation never hurts (`Monotone`); elsewhere a group
  may be dropped because of one that is dropped with it.
* `CallsReachTheirOwner` is a claim about lenient mode: a strict veto gives a file its original text back and
  by that takes moves back on purpose.
* `LocalsApart` holds below `LocalLimit` bindings; beyond it `local_name` gives up.
* `DefaultsConsistent`, `ConstructorsDiffer` and `CallsKeepTheirMeaning` hold on the classes of the instance. For
  every class the theorems state them with their exceptions, which are definitions of `CtorDefaults`:
  `DefaultsUnsupplied` for the scope of defaults, `RungTaken` and `SecondNoArgument` for constructors that clash, and
  for what calls mean `Mistakable` (what a caller or a constructor passes fits two constructors) and `Misread`, the
  calls whose rewriting does not see what they call: named arguments for a secondary constructor, for a class whose
  retained callers are not rewritten or whose Java parameter names the index reads otherwise (`OtherNames`) or for no
  declaration found; a namesake found first; a call of a secondary constructor that looks like a short call of the
  primary (`LooksShort`); and calls whose arguments the scan cannot read. No call of the instance is one of these.
* `BindingsConsistent` and `RepairComplete` hold on the files of the instance. For every file the theorems state them
  with what the analysis does not see, as definitions of `SmartCastRepair`. A replaced site is `Misjudged` if its
  local is declared elsewhere than before the site's statement (`BeginsElsewhere`) or on a line that itself first
  sets the receiver (`SetOnItsLine`), if the receiver is assigned, or declared where the walk does not look for it
  (`SetMeanwhile`), or if the file does not declare it (`Undeclared`). A narrowed site is `Overlooked` if its shape is not
  supported, if it exits early out of a body that is no block, or if something counts as a redeclaration that is none
  (`Mistaken`). All are known divergences.

### Findings

1. `interface_reads` (`src/property_abi.rs:927`): the ancestor walk tests the retained set directly, so the
   query is not recorded, and an interface planned before its grandparent is known to be retained is never
   planned again. The incremental planner then returns another set than full replanning.
2. `strict_veto` (`src/migration_pipeline.rs:1027`): the set of vetoed files is never cleared. A file vetoed
   in round 1 because of a declaration that moves later is left untouched at the end although the Java of
   round 2 is written: the declarations exist twice.

### Known divergences

Met while modelling, and not the subject of a run. The models follow the code; the instances or the properties
leave these cases out where section 3 and the exceptions above say so.

* Apply phase: the exit status is decided after the writes (`src/main.rs:1239`), while the README promises that
  a failed run leaves every input untouched (`README.md:49`). Snapshots are compared once, before the first
  write (`src/main.rs:711`), while the README says a stale snapshot cannot authorize a write at application
  time (`README.md:93`); `OnlyLateEditsAreLost` states what is true.
* Facts: call sites are handed out on a hash taken before the helper was asked, though the helper may have read
  other bytes (`src/facts/runtime.rs:184`); property references are checked again, call sites are not.
* Smart casts: sites the analysis refuses do not stop the owner (`src/workspace.rs:4407`); a declaration that
  only mentions the receiver in its initializer counts as redeclaring it (`src/smart_cast.rs:924`); what
  follows a site inside a lambda body is not looked at (`:859`); for `else if` and expression bodies the local
  is bound outside its scope (`:393`), and where the site's own line declares the receiver first, before it is set;
  later siblings are walked independently, so a redeclared receiver is taken for the old one there (`:878`); a
  declaration that is not a statement of a block, such as a loop variable or one in a lambda body, does not end the
  region for what follows it, and a local function one of whose parameters has the receiver's name does (`:900`,
  `:933`); an assignment to the receiver does not end a region (`:898`). `Misjudged` and `Overlooked` name them all.
* Constructor defaults: a persistent class gets a second zero-argument constructor outside in-place runs
  (`src/transpiler/unit/class.rs:5063`, `SecondNoArgument`); where all its parameters have defaults that one is
  made to pass them all, those that name other parameters included, which it does not have (`class.rs:5204`,
  `DefaultsUnsupplied`); named callers of a class without defaults are not rewritten there
  (`class.rs:1392`); the `@JvmOverloads` ladder can repeat a secondary constructor
  (`src/ctor_defaults.rs:298`, `RungTaken`); overloads are compared by erased types only, without applicability (`:348`,
  `Mistakable`);
  a short call may be taken for the primary although it is meant for a secondary
  (`src/transpiler/expr/call.rs:2029`); with an overload, the longest constructor of a record or Lombok class
  is taken for its primary (`src/workspace.rs:6027`); a namesake in another package is reordered too
  (`src/manual_marks.rs:200`). The last four of these, and the callers that are not rewritten, are `Misread`.
* Stripping: a comment stays behind when its declaration is translated later (`src/migrate.rs:163`), and the next
  run, with the same verdicts, may remove it; a comment between annotation and keyword gets a second copy above
  (`:268`); the block comment of older versions stays when a generated KDoc precedes it (`:291`). A stale diagnostic
  anchored at the start of a generated comment is kept if any KDoc precedes it, since the search for an opening before
  the anchor comes first and finds that closed one (`:175`), although the comment above the call says that such are
  ignored, "otherwise the migrator annotates its own annotation and grows the file every run" (`:152`). The file then
  grows, and if the comment lies between annotations and keyword the stale text replaces the reason above the
  annotations (`:255`). A comment above annotations is compared from its `/**` on with a block that begins with
  its indentation (`:258`, `:334`), so an indented one never equals what is wanted; what replaces it is written behind
  the old indentation and stands further to the right after every run.
* Getter types: a parent whose getter has no scalar type is not climbed past (`src/property_abi.rs:3801`), while
  `TypedLevels` goes on there, and `GetterResolution` records the whole walk where the code stops early at an
  ambiguous ancestor. The model thus reads and records all that the code does and more, and freshness is shown for
  that larger answer.
* Facts, in the model only: an edit never brings back an earlier text, so one that is undone between the helper's
  read and the check of the hash is outside `ReferencesDescribePlannedText`; the code cannot see it either.
* Build scripts: a write cut off after the line that marks the block leaves an incomplete block that the next
  run takes for a configured one (`src/build_dependencies.rs:89`).

## 5. Proofs

TLC checks small instances; the theorems below hold for every value of the constants that satisfies the named
assumptions of the modules. TLC evaluates each assumption on every run whose module extends the one that makes it.

### The ownership fixpoint (`RetentionFixpointProofs`)

Assumed: pass limits are numbers (`PassesAssumption`) and a plan decides declarations of its own file only
(`DeclaredAssumption`, `PreparedAssumption`). That reads are recorded is not assumed: it is what the probe is for,
but finding 1 shows a rule that records nothing. Where a conclusion needs it, `ReadsRecorded` is part of the
statement, per file where possible: a rule that reads in secret spoils the plans of its own file, and what it decides
there is a hypothesis like any other for the rest.

The inductive invariant is `IInv == TypeOK /\ Provenance /\ PinsInHistory /\ PinsPlanned /\ CacheCoherent`.
`CacheCoherent` alone is not inductive: that a cached plan survives a pin needs the pins to be in both
hypotheses (`TypeOK` has `forced \subseteq retained`), and that a cycle's states all hold the pins needs
`PinsInHistory`. That a pin never leaves the retained set after a pass needs the plan of its file to own it
(`PinsPlanned`, with `Provenance`: owned declarations belong to a file). This part does not follow from
`CacheCoherent`, which is silent on files with unrecorded reads; it holds because owners of pins are always planned again.

| theorem | property | argument |
| --- | --- | --- |
| `TypeCorrect` | `TypeOK` | part of `IInv` |
| `CacheStaysCoherent` | `CacheCoherent`, of files with recorded queries | part of `IInv`: a plan none of whose recorded queries changed is the plan to be made (`KeptPlanExact`) |
| `ConvergedExactly` | `ConvergedPlansExact`, of files and workspaces with recorded queries | when a pass ends the cache is coherent with nothing left to prepare (`ExactIsFullPass`), so its union is a full pass |
| `RepeatedUnreachable` | `NeverRepeated` | a closed cycle has two different states, so a varying symbol; every state holds every pin, so it is not pinned (`CycleAlwaysPins`) |
| `PinsArePermanent` | `PinsPermanent` | from `IInv` before and after the step |
| `LeastRetained` | `LeastRetention` | `Climbing`: without release rules the hypotheses ascend, below every closed set |
| `LimitImpliesRelease` | `LimitOnlyByRelease` | `PassesPaid`: on a strictly ascending history every pass but the last adds a symbol (finite set theorems) |
| `PlansStayConsistent` | `PlansConsistent`, with the conditions of its parts | the first four together |
| `EnoughPassesSuffice` | safety half of `AlwaysConverges` | a call allowed `AllPasses` passes never ends at the limit: between two pins no hypothesis repeats (`HistoryDistinct`), every cycle pins a new symbol, so the passes are at most the sets times the pins (`PassesCounted`). Needs finitely many symbols |
| `Refinement` | `ImplementsFullReplanning`, where all files record their queries | `Prepare` stutters; the end of a pass is a pass of `FullReplanning` because the cache is coherent |

`RepeatedUnreachable`, `PinsArePermanent`, `LeastRetained`, `LimitImpliesRelease` and `EnoughPassesSuffice` hold whether or
not queries are recorded.

### The speculative rounds (`MigrationRoundsProofs`)

Assumed: every declaration has a file, calls are between declarations (`FilesAssumption`), and three things of the
retention rules (`KeptAssumption`): what carries an obligation is kept (`semantics/lowering_contract.rs`), a
function that accepted Java calls through its Kotlin facade is kept (C003 of
`functions_requiring_kotlin_retention`), and so is one that a Kotlin text of the round calls in a way the repair
cannot rewrite (C002 to C007). These are the rules of the code and not consequences of them: `MigrationRules`,
which is translated from it, satisfies them and TLC evaluates them there for every set of texts. Nothing else is
assumed of the rules, of strict mode or of the number of rounds.

The inductive invariant is `IInv == Texts /\ OwnedExactlyOnce /\ DecisionsMatchOutputs`. `Texts` (a text holds
declarations of its own file) is what makes the partition inductive: vetoes restore and withdraw by file.

| theorem | property | argument |
| --- | --- | --- |
| `NothingLostOrDoubled` | `OwnedExactlyOnce` | a declaration's fate in a round depends on its own file's veto and its owner (`RoundTexts`) |
| `CoverageNeverDisagrees` | `DecisionsMatchOutputs` | merge and withdrawal treat decisions and outputs alike |
| `AcceptedPlansAreComplete` | `AcceptedPlanComplete` | from the partition, the last round changing nothing |
| `NoMoveIsTakenBack` | `MovesArePermanent` | without vetoes a round only strips (`NoVeto`) |
| `TypeCorrect` | `TypeOK` | from the invariant of the texts |
| `CallsStayLinked` | `CallsReachTheirOwner` | per call, on which side each end was and goes (`RoundCalls`); the case of accepted Java calling a function that would move is excluded by `RulesKeep` |
| `EveryCallCanBeRepaired` | `RepairNeverRefuses` | a call the repair has to rewrite had both ends in the texts the rules decided on (`RepairSucceeds`), so the rules kept its function: nothing moves between the decision and the repair |
| `AcceptedPlansAreFinal` | `AcceptedPlanIsFinal` | a round that changes nothing adds obligations only to texts as they are on disk, and those carry none (`UnchangedPlansAgain`) |
| `OneOriginPerOutput` | `OutputsHaveOneOrigin` | a round compares what it accepts with all that was accepted before |
| `NothingMovesUnproven` | `NoUnprovenMove` | round 1 sees every text as on disk, so what can be signed is obliged from then on (`ObligedFromTheStart`) |
| `OwnershipStaysConsistent` | `OwnershipConsistent` | five of the above together |
| `LimitImpliesMoves` | `LimitOnlyIfTooLow` | strict mode keeps or moves a source as a whole (`Whole`), so no veto withdraws anything; hence a round that accepts nothing changes nothing (`RoundMoves`), and each other one is paid by a declaration (`RoundsPaid`). Needs finitely many declarations |

### The preparation retries (`PreparationRetriesProofs`)

Assumed: `RetriesAssumption`, the types of the constants. The inductive invariant is
`IInv == TypeOK /\ Reviewed /\ ReturnedReviewed`: a plan under review was made with exactly the requirements
that are left and accepts them all, which holds because the inner loop ends only when nothing was dropped.

| theorem | property | argument |
| --- | --- | --- |
| `TypeCorrect` | `TypeOK` | requirements are looked up again whenever families change |
| `SpeculationNeverLeaks` | `NothingLeaks` | `Reviewed` and the guard of `Return` |
| `PreparationStaysConsistent` | `PreparationConsistent` | the two above together |
| `LargestIsKept` | `LargestSupported` | `AboveSupported`: what supports itself is accepted on top of anything larger (`SupportedAccepted`), so neither loop drops it |
| `BudgetCountsGroups` | `LimitOnlyIfTooLow` | `Paid`: every attempt but the last drops a group, which pays for its rounds. Needs finitely many declarations |

### The getter cache (`GetterBridgeCacheProofs`)

Assumed: paths and contents are well formed (`PathsAssumption`, `ContentsAssumption`: a file declares finitely many
types, names have the parts they have), the types of the other constants, and nothing of the hierarchy, which may
be cyclic or lead nowhere.

The proof has three layers. *What a query records decides it*: a name whose recorded files and declarations are
the same resolves alike, tier by tier of the lookup (`NamedUnchanged` … `ResolveAgree`); so a step up the
supertypes leads to the same parents (`EdgeAgree`), the levels above a class agree one by one (`ClimbAgree`), and
with them the nearest typed getters, inferred types and ambiguities. *The cache adds nothing to that*: the inductive
invariant `CacheInv` says that every entry is the answer and the record a query made *now* would give. The record
is part of it, or an entry carried twice could be judged by reads that are no longer its own. *The record is
not too large*: it names only files and names near the types the answer is about (`NearRecord`).

| theorem | property | argument |
| --- | --- | --- |
| `RecordDecides` | — | the first layer, for every workspace and every two snapshots |
| `UnrelatedEditsAreIgnored` | `UnrelatedEditsKeepAnswers` | the third layer: an edit further off changes nothing the entry recorded |
| `CarriedAnswersFresh` | `CacheConsistent` | an overlay carries an entry only if it is compatible, and then `RecordDecides` makes it exact for the new snapshot; a delegating getter's remembered type is dropped with its snapshot |
| `RecordsComplete` | `RecordIndependentOfOrder` | a remembered type replays the reads it was inferred from, so a query records the same whoever inferred first |

### Source stripping and names of locals (`RetainedKotlinProofs`)

Assumed of `SourceStripping`: a file is one a parser reads, that is, a declaration is its annotations, its keyword and its
body in this order (`FilesAssumption`), and `ReasonsAssumption`, the types. `copy_kept`, `strip` and `tidy` are
recursive functions over positions; what they leave is described by a map from each written item to the line it
was copied from (`Traced`), which is increasing and misses no line that must stay. Each loop extends such a map
by what it writes, so the three passes compose, and that the result is again a file a parser reads is the inductive
invariant. For comments the map also says what stands above each line (`Placed`, `Laid`); no two lines a run
blames lie in one run of annotations (`Apart`), or the comment of one would be replaced for the other.

That a second run changes nothing asks more: the nearest comment must also be where `copy_kept` looks for it, which
is before annotations or directly above the line, with nothing over it that would be absorbed with it (`Stands`,
`Settled`; `Solid` says in terms of the items where absorbing ends). What stands above annotations may have been put
behind another indentation, so there the proofs compare what comments say (`Says`) and not their columns; that a
run leaves it alone needs both at column 0 (`Flush`), which is what `Pushed` denies. The invariant is `Quiet`: after a run
that cut nothing and had no stale diagnostic it kept, the file is tidy and every comment the run wanted stands so. On such
a file `copy_kept` and `tidy` are the
identity (`CopyAgain`, `TidyAgain`). A run that did cut a declaration is never followed by one with the same
verdicts, since only declarations it kept are left (`Left`), so `RunningAgainChangesNothing` says nothing of it.

Assumed of `SmartCastRepair`: `LocalLimit` is a positive number, and a file is a tree a parser returns
(`ProgramsAssumption`, `KotlinFile`): finite, every node below its parent, a test with the read it tests. `NamesInv`
says that a binding's name is in use, or all names were when it was made (which takes as many bindings as there are
names), that no name below the limit is bound twice, and that the property's own name is taken from the start where
the file uses it.

What locals hold is a matter of positions. A node's path is its position: of two nodes one is above the other or ends
before it (`PrecedesIs`), and both relations carry over to what lies below (`EndsBeforeAll`, `EndsJoin`). In these terms the
regions a site rewrites are its branches or what follows it (`RegionIs`), and the value of a name at a node is given
by the last of its declarations that reach there (`OriginIs`). If a site is not misjudged, none of those lies between
the line its local is put on and a read it replaces, so both have the same value. Conversely the walk reaches every read
Kotlin narrows unless something it takes for a redeclaration stops it. `RepairInv` adds to this what the loop does: a
binding is of a site that had to be repaired and replaces exactly its reads, and every site that was passed is
bound or had nothing left to replace (`Bindings`, `Progress`); the latter is what the planner's acceptance needs, since
it is decided before.

| theorem | property | argument |
| --- | --- | --- |
| `LinesSurvive` | `UserLinesSurvive` | the lines a run copies are those of the user's whose declaration is not Java's, by the map |
| `SpeculationAgrees` | `SpeculationSeesTheResidue` | with and without comments the same lines are copied: only generated items differ |
| `MarkersStayConsistent` | `MarkersConsistent`, which names its exception | what was laid above a line stays the nearest comment through `tidy`, which removes nothing but blank lines |
| `RerunsChangeNothing` | `RunningAgainChangesNothing`, which names its three exceptions | `Quiet`: a comment that stands where the run looks for it is left there, and a declaration now seen to start at its keyword finds the one above its annotations |
| `LocalNamesApart` | `LocalsApart` | `NamesInv` |
| `RepairKeepsValues` | `BindingsConsistent`, where no replaced site is `Misjudged` | the local is in scope on the line before the site's statement, and no declaration of the receiver lies between |
| `AcceptedIsRepaired` | `RepairComplete`, where no site is `Overlooked` | an accepted file has only sites the writer can bind; when it is through, what they narrow is replaced by their own local or by an enclosing site's |

### Build scripts (`GeneratedJavaProofs`)

Assumed: `BuildAssumption` (everything lies under the root, bounds are numbers). The core of `IInv` is that a
script once *settled* (it has the block, is being written or was left incomplete by an interruption) stays so,
and that a script a run needs is settled or still on the run's list. Hence Java, which is written once the list
is empty, has its dependency, and a success leaves all Java the run knew of configured. No bound on runs, edits
or interruptions is used.

| theorem | property | argument |
| --- | --- | --- |
| `ScriptsStayConsistent` | `ScriptsConsistent` | what is written is the snapshot, which had no block, and one block: overlapping writes replace each other and never add up |
| `JavaStaysConfigured` | `JavaConfigured` | settled scripts stay settled |
| `OutdatedWritesNothing` | `StaleScriptWritesNothing` | a run that has written is past verification |

### Constructor defaults (`GeneratedJavaProofs`)

Assumed: `ScenariosAssumption`, which is what Kotlin itself guarantees of a class (`KotlinClass`: a default is a value of
its parameter and names parameters before its own, no two constructors have the same parameters after erasure) and
of a call (`KotlinCall`: it gives every parameter of the constructor it calls a value of its type or leaves out one
with a default). Nothing is assumed of the types' order, of namesakes or of how many callers there are.

The inductive invariant is `DefaultsInv == Phased /\ Called /\ Framed`; `Framed` describes a call in the middle of a chain of
`this(...)`: the defaults evaluated so far are those the running constructor's parameters got, in order, and all of them
come *before* every position it still leaves out (`RunsWith`). That is kept because a rung of the ladder omits one
parameter more than the rung before it, further to the left, so a delegation that adds one default adds the leftmost;
other overloads add all that is left. Where the delegation ends up is decided by Java's overload resolution: by the
number of arguments, or, among overloads of one length, by casts that give every argument the parameter's exact
type, which is then the most specific candidate (`ExactChosen`).

What calls mean is a second layer, `MeaningInv == DefaultsInv /\ Reached /\ Underway /\ Answered`. A constructor runs
with what the call *means* if each of its parameters has what is meant for it and it leaves out only what the call
gives nothing for (`Meant`). `Reached`: however a caller is rewritten (as it is, with literals, reordered, or
shortened), its arguments fit a constructor that would run so, because a constructor was planned for
every set of parameters a caller leaves out, the ladder and the primary included (`CallReaches`). `Underway`: a
delegation hands every parameter on or gives it its default, so the delegate means the same (`OverloadMeans`,
`NoArgumentMeans`). Where nothing that is passed fits two constructors the one it fits is the one Java chooses
(`OnlyFit`), and the constructor that delegates no more is the primary, which has every parameter (`BuildMeans`).

| theorem | property | argument |
| --- | --- | --- |
| `DefaultsStayConsistent` | `DefaultsConsistent`, outside `DefaultsUnsupplied` | order from `Framed`; scope: a rung evaluates one default, which names only parameters before it, all of them the rung's own; any other overload is planned only if no default it evaluates names what it omits (`ctor_defaults.rs:189-195`) |
| `DefaultsStayOrdered` | its parts `PatternsTyped` and `DefaultsOnceInOrder` | without the exception |
| `ConstructorsStayApart` | `ConstructorsDiffer` if and only if neither `RungTaken` nor `SecondNoArgument` | the planner refuses patterns with the same erased types, and where there are secondary constructors all but the ladder's; what it does not compare are the ladder with those and a pattern without parameters with the persistence rule's constructor, which are the two cases |
| `CallsStayFaithful` | `CallsKeepTheirMeaning`, where nothing is `Mistakable` and no call `Misread` | `MeaningInv` |
| `ChainsGoForward` | safety half of `CallsFinish` | a delegation passes more arguments than its constructor takes and never more than the class has parameters (`PassesMore`), whichever overload resolution picks |

### The facts client (`FactsHelperProofs`)

Assumed: `FactsAssumption` (files and classes differ, bounds are numbers); nothing of the helper. `IInv == Types /\
Flag /\ Control /\ Numbers /\ Tables /\ Descriptions`. `Numbers` carries the exchange: while a worker holds the
client only the latest request is open, and of all that is in the pipes and the queue only its answer bears its
number. `Tables`: a question is loaded by one worker, and only while its memo is unset. `Descriptions`: a revision
that was edited away never comes back.

| theorem | property | argument |
| --- | --- | --- |
| `ExchangeStaysConsistent` | `ExchangeConsistent` | by the numbers an accepted answer is the open request's; a request in vain retires the client |
| `EvidenceIsKept` | `EvidenceStays` | a load ends in the memo it found unset |
| `ReferencesStayPlanned` | `ReferencesDescribePlannedText` | what is checked against the planned text after the answer was bound in it |

### The apply phase (`MigrationApplyProofs`)

Assumed: `ApplyAssumption` (every declaration has a source, bounds are numbers). The inductive invariant is
`IInv == Typed /\ Flags /\ Agenda /\ Layout /\ Recent /\ Alone /\ AllPresent /\ StaleHalts /\ Untouched /\ Cooperating`.
All properties but one speak of runs that do not overlap, and `Alone` is where that is used: the one run under way sees the
tree of its snapshot, changed only by itself and by edits that move no declaration, so at each point of each phase
the tree is known (`KotlinProgress`, `JavaProgress`) and accounts for every declaration (`PresentInProgress`).
None of the properties could be inductive without this description of the half-written tree. Overlapping runs have no tree
of their own; `Cooperating` says of them, per declaration, that what one run moves is in Java from the moment that
run is done with it, and that nobody else's plan removes it because nobody keeps it (`Secured`, `JavaFirst`).

| theorem | property | argument |
| --- | --- | --- |
| `DeclarationsSurvive` | `NothingLost` | Java is complete before anything is removed from Kotlin; a run that stops leaves a tree that accounts for everything, which is all the next plan needs |
| `TreeStaysConsistent` | `TreeConsistent` | the last phase's progress is the plan itself; a stale run finds a newer edit mark while it verifies (`StaleHalts`), because marks only grow (`Recent`) |
| `EarlierEditsSurvive` | `OnlyLateEditsAreLost` | while the user rests, files the run has not reached equal its snapshot (`Intact`) |
| `AgreeingRunsAreSafe` | `AgreeingRunsLoseNothing` | any number of overlapping runs that agree and meet no fault: `Secured`, once every file is closed (`Closing`) |

### Only model-checked

* Liveness: `AlwaysConverges` (its safety half is `EnoughPassesSuffice`), `RetriesEnd`, `CallsFinish` (its safety
  half is `ChainsGoForward`) and `EveryQuestionReturns`. The prover does not handle fairness.
* `InterfaceRetention` and `strict_veto`: their properties are false of the code.
* That the conditions of `RepairKeepsValues`, `AcceptedIsRepaired` and `CallsStayFaithful` are met on the runs'
  instances: there the runs check the properties without them. The conditions are sufficient; unlike
  that of `ConstructorsStayApart` they are not claimed to be necessary (a call that fits two constructors may still
  choose the right one).

## 6. Plan

What is left, in order of what it would add:

1. Preparation edits in the rounds: a prepared text is not the one on disk, so none of its receipts holds
   (`src/migration_pipeline.rs:290`, the hazard no property covers yet); several sources merged into one facade
   class; vanished inputs.
2. The exact conditions of `RepairKeepsValues`, `AcceptedIsRepaired` and `CallsStayFaithful`: which misread or
   mistakable calls and misjudged sites really go wrong.
3. Property call-site repair: the incremental state kept while a retained accessor moves between rounds.
4. Manual marks, supporting Java and output to a separate directory in the apply phase.
5. What strict mode should do with Java already generated for calls of a vetoed file
   (`src/migration_pipeline.rs:530`): no doc or test says.

## 7. Not modelled

The models cover the control of the engine and a small share of its lines. Nine tenths of the crate are
functions of one snapshot without state across steps, sized by the languages they read and print; each of their
rules is a case of its own, so a model would be the code once more and its properties the examples the repository
tests. What of them can go wrong between steps enters the models as constants with assumptions.

* The lowerers, semantic analysis, Lombok recognition, eager collections, Java rendering and parsing: as above.
  Their decisions are the constants of `OwnershipPlanning`, `MigrationRules` and `PreparationRetries`; of the
  lowerers themselves the constructors of classes with defaults are in `CtorDefaults`.
* The workspace index: discovery and parsing. `SourceAnalysisCache` is keyed by the hash of the text it holds
  the analysis of, so it has no staleness to model.
* `Preparation::finish`: it moves a returned plan's edits back to the originals and fails on inconsistent ones.
* Property and getter repair: like function calls, which `MigrationRounds` has, and like smart casts; their texts
  are not modelled. Of `default_getters.rs` the derivation of a bridge's text from the contracts, generic bindings
  and forwarding bodies are left out.
* Staged validation: two compilers over a copy; `MigrationApply` has its verdict.
* Command line, progress and reports: no state the engine reads. The report's consistency check is
  `DecisionsMatchOutputs`.
* The thread-local stack of probes (a preparation runs on one thread and has one probe), the helper's analysis,
  the wire format, the client's own per-query cache, and starting the process.
