-------------------------- MODULE SmartCastRepair --------------------------
(***************************************************************************)
(* The repair of retained Kotlin that smart-casts a property whose owner   *)
(* moves to Java (src/smart_cast.rs), with the decision of the planner     *)
(* that relies on it (SourceIndex::smart_cast_rewrites_cover in            *)
(* src/workspace.rs).                                                      *)
(*                                                                         *)
(* A Kotlin file is an ordered tree: a function from paths (sequences of   *)
(* child numbers, the root is << >>) to nodes.  Paths in preorder are byte *)
(* offsets: a prefix is an enclosing node.  One property p of one owner    *)
(* class is followed, so a read "x.p" is a node of kind "read" named by    *)
(* its receiver x.  A node with line = TRUE is the first thing on its      *)
(* line; a block with line = TRUE has its closing brace first on a line.   *)
(*                                                                         *)
(*   file, fun(name = parameter, type), block, lambda(name = parameter),   *)
(*   decl(name, type; child: initializer), assign(name), read(name), exit, *)
(*   other(children)                                                       *)
(*   if(condition, then, else?) with a condition is(read), notIs(read) or  *)
(*     and(operands)                                                       *)
(*   when(read, entries) with entries isEntry(body), elseEntry(body)       *)
(*   cases(entries) with entries case(condition, body), elseEntry(body)    *)
(***************************************************************************)
EXTENDS Integers, FiniteSets, SequencesExt

CONSTANTS Programs,    \* the files that are repaired
          Owner,       \* the class whose property p moves to Java
          Property,    \* the name p itself, which a local may already have
          LocalLimit   \* how many names local_name tries

ASSUME LocalLimitAssumption == LocalLimit \in Nat \ {0}

\* A file a parser returns: every node but the root has its parent, conditions
\* are there, a type test and a "when" have the read they test, only functions
\* and declarations have an explicit type, and what comes first in a file begins
\* its line and is no block.
KotlinFile(t) ==
  /\ IsFiniteSet(DOMAIN t) /\ << >> \in DOMAIN t
  /\ \A n \in DOMAIN t :
       /\ n \in Seq(Nat \ {0})
       /\ n # << >> => Front(n) \in DOMAIN t /\ <<1>> \in DOMAIN t
       /\ t[n].kind \in {"if", "case", "is", "notIs", "when"} => n \o <<1>> \in DOMAIN t
       /\ t[n].kind \in {"is", "notIs", "when"} => t[n \o <<1>>].kind = "read"
       /\ t[n].type # "" => t[n].kind \in {"fun", "decl"}
  /\ t[<< >>].kind = "file" /\ ~t[<< >>].line
  /\ <<1>> \in DOMAIN t => t[<<1>>].line /\ t[<<1>>].kind # "block"
ASSUME ProgramsAssumption == Owner # "" /\ \A t \in Programs : KotlinFile(t)

VARIABLES program,     \* the file
          phase,       \* "planning", "repairing" or "done"
          accepted,    \* the planner lets the owner move
          todo,        \* the sites the repair has not looked at
          taken,       \* local names in use (0 is p itself)
          bound        \* the bindings made, in order

repairVars == <<program, phase, accepted, todo, taken, bound>>

-----------------------------------------------------------------------------
(* Trees. *)

Kind(n) == program[n].kind
Has(n) == n \in DOMAIN program
Child(n, i) == n \o <<i>>
Parent(n) == Front(n)
Children(n) == {m \in DOMAIN program : m # << >> /\ Parent(m) = n}
Under(n) == {m \in DOMAIN program : IsPrefix(n, m)}
Precedes(m, n) ==
  \/ IsStrictPrefix(m, n)
  \/ \E i \in (DOMAIN m) \cap (DOMAIN n) :
        m[i] < n[i] /\ \A j \in 1 .. i - 1 : m[j] = n[j]
Latest(nodes) == CHOOSE n \in nodes : \A m \in nodes \ {n} : Precedes(m, n)
LaterSiblings(n) == {m \in Children(Parent(n)) : Precedes(n, m)}
EarlierSiblings(n) == {m \in Children(Parent(n)) : Precedes(m, n)}

-----------------------------------------------------------------------------
(* Sites. *)

Sites == {n \in DOMAIN program : Kind(n) \in {"if", "when", "cases"}}

\* A branch that leaves the enclosing function or loop.
AlwaysExits(n) ==
  \/ Kind(n) = "exit"
  \/ /\ Kind(n) = "block" /\ Children(n) # {}
     /\ Kind(Latest(Children(n))) = "exit"

Condition(s) == Child(s, 1)
Then(s) == Child(s, 2)
Else(s) == Child(s, 3)
Operands(s) == Children(Condition(s))
Tests(nodes) == {n \in nodes : Kind(n) = "is"}
CaseTests(s) ==
  Tests({Condition(e) : e \in {c \in Children(s) : Kind(c) = "case"}})
Earliest(nodes) == CHOOSE n \in nodes : \A m \in nodes \ {n} : Precedes(n, m)

\* The type tests of a node that is looked at; a node without is no site.
SiteTests(s) ==
  CASE Kind(s) = "when" ->
         {n \in Children(s) : Kind(n) = "isEntry"}
    [] Kind(s) = "cases" -> CaseTests(s)
    [] Kind(s) = "if" /\ Kind(Condition(s)) = "and" -> Tests(Operands(s))
    [] OTHER -> {Condition(s)} \cap {n \in DOMAIN program : Kind(n) \in {"is", "notIs"}}

IsSite(s) == SiteTests(s) # {}

\* The read that is tested.
Tested(s) == IF Kind(s) = "when" THEN Child(s, 1)
             ELSE Child(Earliest(SiteTests(s)), 1)
Receiver(s) == program[Tested(s)].name

EarlyExit(s) ==
  /\ Kind(s) = "if" /\ Kind(Condition(s)) = "notIs"
  /\ ~Has(Else(s)) /\ AlwaysExits(Then(s))

\* The shapes the analysis accepts.
Supported(s) ==
  CASE Kind(s) = "when" -> TRUE
    [] Kind(s) = "cases" -> /\ Condition(Child(s, 1)) \in CaseTests(s)
                            /\ program[s].line
    [] Kind(s) = "if" /\ Kind(Condition(s)) = "and" ->
         Child(Condition(s), 1) \in SiteTests(s)
    [] Kind(s) = "if" /\ Kind(Condition(s)) = "notIs" -> Has(Else(s)) \/ EarlyExit(s)
    [] OTHER -> TRUE

\* A mutant: parameters do not shadow.
MutantNoParameters(n, x) ==
  Kind(n) = "decl" /\ \E m \in Under(n) : program[m].name = x

\* The analysis takes a declaration for a rebinding of x when x occurs
\* anywhere in it, and a closure when its parameter is x.
Declares(n, x) ==
  \/ Kind(n) = "decl" /\ \E m \in Under(n) : program[m].name = x
  \/ Kind(n) \in {"fun", "lambda"} /\ program[n].name = x

\* The reads of x.p below a region's root.  A rebinding ends the region for
\* itself and for what follows it in its block.
Occurrences(root, x) ==
  {n \in Under(root) :
     /\ Kind(n) = "read" /\ program[n].name = x
     /\ \A a \in DOMAIN program : IsPrefix(root, a) /\ IsPrefix(a, n) =>
          /\ ~Declares(a, x)
          /\ a # root /\ Kind(Parent(a)) = "block" =>
               \A b \in EarlierSiblings(a) : ~Declares(b, x)}

\* The roots of the regions whose reads are replaced.
Following(s) == IF Kind(Parent(s)) = "block" THEN LaterSiblings(s) ELSE {}
Regions(s) ==
  CASE Kind(s) = "when" -> {Child(e, 1) : e \in SiteTests(s)}
    [] Kind(s) = "cases" -> {Child(Child(s, 1), 2)}
    [] Kind(Condition(s)) = "and" -> Operands(s) \cup {Then(s)}
    [] Kind(Condition(s)) = "notIs" ->
         {Then(s)} \cup (IF Has(Else(s)) THEN {Else(s)} ELSE Following(s))
    [] OTHER -> {Then(s)}

Ranges(s) == {Tested(s)} \cup UNION {Occurrences(r, Receiver(s)) : r \in Regions(s)}

\* unrepairable() records one use and no receiver; a conjunction whose test
\* is not first keeps its receiver and has no range.
Refused(s) == ~Supported(s) /\ ~(Kind(s) = "if" /\ Kind(Condition(s)) = "and")
Uses(s) == CASE Supported(s) -> Cardinality(Ranges(s)) - 1
             [] Refused(s) -> 1
             [] OTHER -> 0
Repairable(s) == Supported(s) /\ Uses(s) > 0
NeedsRepair(s) == Uses(s) > 0

-----------------------------------------------------------------------------
(* The receiver's class, from the explicit types of the whole file. *)

ExplicitTypes(x) ==
  {program[n].type : n \in {d \in DOMAIN program :
      Kind(d) \in {"fun", "decl"} /\ program[d].name = x}} \ {""}
Resolves(x) == Cardinality(ExplicitTypes(x)) = 1
OwnerOf(x) == CHOOSE type \in ExplicitTypes(x) : TRUE
IsOwner(x) == Resolves(x) /\ OwnerOf(x) = Owner

\* The planner lets the owner move when every site that needs it is repairable.
RewritesCover ==
  \A s \in Sites : IsSite(s) /\ NeedsRepair(s) =>
    \/ Refused(s)
    \/ Resolves(Receiver(s)) /\ (IsOwner(Receiver(s)) => Repairable(s))

-----------------------------------------------------------------------------
(* The repair. *)

\* Where the line of s begins: at a node, or at the brace that closes a block.
ClosedBefore(n, s) == Kind(n) = "block" /\ Precedes(n, s) /\ ~IsPrefix(n, s)
LineStart(s) ==
  Latest({n \in DOMAIN program :
     /\ program[n].line /\ (n = s \/ Precedes(n, s))
     /\ Kind(n) = "block" => ClosedBefore(n, s)
     /\ \A c \in DOMAIN program :
          program[c].line /\ ClosedBefore(c, s) => ~IsStrictPrefix(c, n)})

\* A mutant: the local is always named like the property.
MutantPropertyName == 0

Free == (0 .. LocalLimit - 1) \ taken
FreshLocal == IF Free = {} THEN LocalLimit
              ELSE CHOOSE n \in Free : \A m \in Free : n <= m

\* A mutant: a site between the reads of an enclosing one counts as repaired.
MutantCoveredByEnvelope(s) ==
  \E b \in ToSet(bound) : \A r \in Ranges(s) :
     \E first, last \in b.reads : ~Precedes(r, first) /\ ~Precedes(last, r)

Covered(s) == Ranges(s) \subseteq UNION {b.reads : b \in ToSet(bound)}

Plan ==
  /\ phase = "planning"
  /\ accepted' = RewritesCover
  /\ phase' = IF accepted' THEN "repairing" ELSE "done"
  /\ todo' = {s \in Sites : IsSite(s)}
  /\ UNCHANGED <<program, taken, bound>>

\* Sites are visited in the order of the text.
NextSite == Earliest(todo)
Bindable(s) == Repairable(s) /\ IsOwner(Receiver(s)) /\ ~Covered(s)

Skip ==
  /\ phase = "repairing" /\ todo # {} /\ ~Bindable(NextSite)
  /\ todo' = todo \ {NextSite}
  /\ UNCHANGED <<program, phase, accepted, taken, bound>>

Bind ==
  /\ phase = "repairing" /\ todo # {} /\ Bindable(NextSite)
  /\ bound' = Append(bound, [site |-> NextSite, local |-> FreshLocal,
                             reads |-> Ranges(NextSite), at |-> LineStart(NextSite)])
  /\ taken' = taken \cup (IF FreshLocal = LocalLimit THEN {} ELSE {FreshLocal})
  /\ todo' = todo \ {NextSite}
  /\ UNCHANGED <<program, phase, accepted>>

ApplyEdits ==
  /\ phase = "repairing" /\ todo = {}
  /\ phase' = "done"
  /\ UNCHANGED <<program, accepted, todo, taken, bound>>

\* identifiers_in: does the file use p as a name of its own?
PropertyUsed == \E n \in DOMAIN program : program[n].name = Property

RepairInit ==
  /\ program \in Programs
  /\ phase = "planning" /\ accepted = FALSE
  /\ todo = {} /\ bound = << >>
  /\ taken = IF PropertyUsed THEN {0} ELSE {}

RepairNext == Plan \/ Skip \/ Bind \/ ApplyEdits

RepairSpec == RepairInit /\ [][RepairNext]_repairVars

-----------------------------------------------------------------------------
(* What Kotlin means, independently of the analysis. *)

\* The declaration or assignment that gives x its value at a position.
VisibleAt(d, n) ==
  IF Kind(d) \in {"fun", "lambda"} THEN IsStrictPrefix(d, n)
  ELSE IsStrictPrefix(Parent(d), n) /\ Precedes(d, n) /\ ~IsPrefix(d, n)
Origins(n, x) ==
  {d \in DOMAIN program :
     /\ Kind(d) \in {"fun", "lambda", "decl", "assign"}
     /\ program[d].name = x /\ VisibleAt(d, n)}
SameValue(n, m, x) == Origins(n, x) # {} /\ Origins(m, x) # {}
                      /\ Latest(Origins(n, x)) = Latest(Origins(m, x))

\* The regions in which Kotlin smart-casts the tested read.
NarrowedRegions(s) ==
  CASE Kind(s) = "when" -> {Child(e, 1) : e \in SiteTests(s)}
    [] Kind(s) = "cases" -> {Child(Parent(Parent(Tested(s))), 2)}
    [] Kind(Condition(s)) = "and" ->
         {Then(s)} \cup {o \in Operands(s) : Precedes(Parent(Tested(s)), o)}
    [] Kind(Condition(s)) = "notIs" ->
         IF Has(Else(s)) THEN {Else(s)} ELSE IF EarlyExit(s) THEN LaterSiblings(s) ELSE {}
    [] OTHER -> {Then(s)}

NarrowedReads(s) ==
  {n \in UNION {Under(r) : r \in NarrowedRegions(s)} :
     /\ Kind(n) = "read" /\ program[n].name = Receiver(s)
     /\ SameValue(n, Tested(s), Receiver(s))}

\* Two edits of one range: the first one wins.
BindingOf(n) ==
  LET mine == {i \in DOMAIN bound : n \in bound[i].reads}
  IN  bound[CHOOSE i \in mine : \A j \in mine : i <= j]
Replaced == UNION {b.reads : b \in ToSet(bound)}

\* A local declared at the start of a line is visible in the scope that line
\* begins in, from there on.
ScopeKinds == {"file", "fun", "block", "lambda"}
ScopeOf(n) == Latest({m \in DOMAIN program : IsStrictPrefix(m, n) /\ Kind(m) \in ScopeKinds})
InScope(at, n) ==
  /\ IsPrefix(at, n) \/ Precedes(at, n)
  /\ Kind(at) # "block"
  /\ IsStrictPrefix(ScopeOf(at), n)

-----------------------------------------------------------------------------
(* Properties. *)

\* Every read that is to be replaced is a read, every binding is of a site.
BindingsTyped ==
  /\ phase \in {"planning", "repairing", "done"} /\ accepted \in BOOLEAN
  /\ todo \subseteq Sites
  /\ taken \subseteq 0 .. LocalLimit - 1
  /\ \A b \in ToSet(bound) :
       /\ b.site \in Sites /\ b.local \in 0 .. LocalLimit
       /\ b.at \in DOMAIN program
       /\ \A n \in b.reads : Kind(n) = "read"

\* A read that becomes the local sees the local, and the local holds what the
\* read would have read: nothing between the binding and the read gave the
\* receiver's name another value (apply_edits, collect_occurrences,
\* collect_after and line_start together).
RewritesKeepTheValue ==
  phase = "done" =>
    \A n \in Replaced :
      /\ InScope(BindingOf(n).at, n)
      /\ SameValue(BindingOf(n).at, n, program[n].name)

\* Once the owner moves, no read that Kotlin smart-casts is left a getter
\* call: what the planner accepts (smart_cast_rewrites_cover), the writer
\* repairs (rewrite_with_bindings), on every receiver declared as the owner.
RepairComplete ==
  phase = "done" /\ accepted =>
    \A s \in Sites :
      LET x == Receiver(s)
          origins == Origins(Tested(s), x)
      IN  IsSite(s) /\ origins # {} /\ program[Latest(origins)].type = Owner
            => NarrowedReads(s) \subseteq Replaced

\* What the analysis does not see (README, known divergences).  Of a site whose
\* reads are replaced: the local is declared elsewhere than before the site's
\* statement, or on a line that first sets the receiver; the receiver is
\* assigned, or declared where the walk does not look for it, before a read;
\* or it is not declared in the file.
Undeclared(s) == Origins(s, Receiver(s)) = {}
BeginsElsewhere(s) == ~IsPrefix(LineStart(s), s)
SetOnItsLine(s) == \E d \in Origins(s, Receiver(s)) : ~Precedes(d, LineStart(s))
SetMeanwhile(s) ==
  \E n \in Ranges(s) : \E d \in Origins(n, Receiver(s)) :
    /\ Precedes(s, d)
    /\ \/ Kind(d) = "assign"
       \/ Kind(d) = "decl" /\ (d \in Following(s) \/ Kind(Parent(d)) # "block")
Misjudged(s) == Undeclared(s) \/ BeginsElsewhere(s) \/ SetOnItsLine(s) \/ SetMeanwhile(s)

\* Of a site whose reads are left: its shape is not supported; it exits early
\* out of a body that is no block; or something the analysis takes for a
\* redeclaration of the receiver does not give the read its value.
Mistaken(s) ==
  \E n \in NarrowedReads(s), d \in DOMAIN program :
    /\ Precedes(Tested(s), d) /\ Precedes(d, n)
    /\ IsPrefix(d, n) \/ (Kind(Parent(d)) = "block" /\ IsPrefix(Parent(d), n))
    /\ Declares(d, Receiver(s)) /\ d \notin Origins(n, Receiver(s))
Overlooked(s) ==
  /\ IsSite(s) /\ NarrowedReads(s) # {}
  /\ ~Supported(s) \/ (EarlyExit(s) /\ Following(s) # LaterSiblings(s)) \/ Mistaken(s)

\* Two bindings never share a name, and none takes a name the file uses, as
\* long as there are fewer sites than names local_name tries.
LocalsApart ==
  Len(bound) < LocalLimit =>
    /\ \A i, j \in DOMAIN bound : i # j => bound[i].local # bound[j].local
    /\ PropertyUsed => \A i \in DOMAIN bound : bound[i].local # 0


\* The repair binds tested reads of real sites, and changes no value read.
BindingsConsistent == BindingsTyped /\ RewritesKeepTheValue
=============================================================================
