---------------------------- MODULE CtorDefaults ----------------------------
(***************************************************************************)
(* The default arguments of a primary constructor that moves to Java       *)
(* (src/ctor_defaults.rs): what its callers omit, which delegating         *)
(* constructors are written for them, and how each caller is rewritten.    *)
(*                                                                         *)
(* A scenario is a class, its callers, and the declarations that share its *)
(* name.  An argument is known by its position in the written call and by  *)
(* its type, so what a call means in Kotlin and what the generated Java    *)
(* does with it can be compared: which constructor is reached, and which   *)
(* argument or default every parameter gets.                               *)
(***************************************************************************)
EXTENDS Naturals, FiniteSets, SequencesExt

CONSTANTS Scenarios,  \* the classes with their callers
          Narrower,   \* pairs <<t, u>>: a value of t is accepted for u
          Erased      \* [type -> type after erasure]

VARIABLES scenario,      \* [class, candidates, calls, inPlace]
          phase,         \* "planning", "kept", "planned", "emitted" or "rewritten"
          plan,          \* [ladder, overloads]: the patterns that get a constructor
          constructors,  \* the constructors of the Java class, in order
          javaNames,     \* the parameter names the index reads from the Java class
          written,       \* written[c]: the arguments of call c as rewritten
          frame,         \* the constructor running for a call
          evaluated,     \* defaults evaluated for that call, in order
          built          \* built[c]: what call c has constructed

defaultsVars == <<scenario, phase, plan, constructors, javaNames, written, frame, evaluated, built>>

NoDefault == [type |-> "no default"]
Unset == [type |-> "no argument"]
NotYet == [kind |-> "not called"]
Broken == [kind |-> "does not compile"]
NoFrame == [call |-> 0]

class == scenario.class
calls == scenario.calls
Positions(d) == DOMAIN d.params
HasDefault(d, i) == d.params[i].default # NoDefault
Names(d) == {d.params[i].name : i \in Positions(d)}
PositionOf(d, name) == CHOOSE i \in Positions(d) : d.params[i].name = name
\* The members of S in order: the k-th has k - 1 before it.
Ascending(S) ==
  [k \in 1 .. Cardinality(S) |-> CHOOSE i \in S : Cardinality({j \in S : j < i}) = k - 1]
Select(s, S) == LET order == Ascending(S) IN [k \in DOMAIN order |-> s[order[k]]]
Types(d, S) == [k \in 1 .. Cardinality(S) |-> d.params[Ascending(S)[k]].type]

-----------------------------------------------------------------------------
(* What the callers omit. *)

Positional(call) == {k \in DOMAIN call.args : call.args[k].name = ""}
Named(call) == DOMAIN call.args \ Positional(call)
NamesUsed(call) == {call.args[k].name : k \in Named(call)}

Readable(d, call) ==
  /\ ~call.unreadable
  /\ Cardinality(Positional(call)) <= Len(d.params)
  /\ NamesUsed(call) \subseteq Names(d)
Omitted(d, call) ==
  {i \in Positions(d) : i > Cardinality(Positional(call)) /\ d.params[i].name \notin NamesUsed(call)}
\* A shape only a secondary constructor of that many parameters explains.
NotThePrimary(d, call) == \E i \in Omitted(d, call) : ~HasDefault(d, i)
Unresolvable(d, call) ==
  \/ ~Readable(d, call)
  \/ /\ NotThePrimary(d, call)
     /\ \A types \in Range(d.secondaries) : Len(types) # Len(call.args)

Patterns(d) ==
  {Omitted(d, c) : c \in {c \in Range(calls) : Readable(d, c) /\ ~NotThePrimary(d, c)}} \ {{}}
NamedCallers(d) == \E c \in Range(calls) : ~c.unreadable /\ Named(c) # {}

-----------------------------------------------------------------------------
(* The delegating constructors. *)

Cumulative(order) == [k \in DOMAIN order |-> {order[j] : j \in 1 .. k}]
MutantAscending(S) == Ascending(S)
Descending(S) ==
  [k \in 1 .. Cardinality(S) |-> CHOOSE i \in S : Cardinality({j \in S : j > i}) = k - 1]
TrailingPatterns(d) ==
  Cumulative(Descending({i \in Positions(d) : \A j \in i .. Len(d.params) : HasDefault(d, j)}))
JvmOverloadPatterns(d) == Cumulative(Descending({i \in Positions(d) : HasDefault(d, i)}))
Ladder(d) == IF d.jvmOverloads THEN JvmOverloadPatterns(d)
             ELSE IF scenario.inPlace THEN TrailingPatterns(d) ELSE << >>

Needed(d) == Patterns(d) \ Range(Ladder(d))

UnsuppliedReference(d, i, pattern) ==
  \E j \in pattern : d.params[j].name \in d.params[i].default.uses
ErasedTypes(types) == [k \in DOMAIN types |-> Erased[types[k]]]
MutantNoErasure(d, pattern) == Types(d, Positions(d) \ pattern)
Signature(d, pattern) == ErasedTypes(Types(d, Positions(d) \ pattern))

Blocked(d) ==
  /\ Needed(d) # {}
  /\ \/ d.secondaries # << >>
     \/ \E pattern \in Needed(d) : \E i \in pattern :
           ~HasDefault(d, i) \/ UnsuppliedReference(d, i, pattern)
     \/ \E p, q \in Needed(d) \cup Range(Ladder(d)) :
           p # q /\ Signature(d, p) = Signature(d, q)
Planned(d) ==
  [ladder |-> Ladder(d),
   overloads |-> Ladder(d) \o (IF Blocked(d) THEN << >> ELSE SetToSeq(Needed(d)))]

HasDefaults(d) == \E i \in Positions(d) : HasDefault(d, i)
Retained(d) ==
  /\ HasDefaults(d)
  /\ \/ Blocked(d)
     \/ \E c \in Range(calls) : Unresolvable(d, c)
     \/ ~scenario.inPlace /\ NamedCallers(d)

\* A ladder rung delegates to the rung before it, any other overload to the
\* primary constructor.
Rung(d, pattern) ==
  IF pattern \in Range(plan.ladder) THEN CHOOSE k \in DOMAIN plan.ladder : plan.ladder[k] = pattern ELSE 0
MutantToItself(d, pattern) ==
  IF Rung(d, pattern) > 1 THEN plan.ladder[Rung(d, pattern)] ELSE {}
DelegateOmits(d, pattern) ==
  IF Rung(d, pattern) > 1 THEN plan.ladder[Rung(d, pattern) - 1] ELSE {}
Competing(d, omits) ==
  \/ \E p \in Range(plan.overloads) : Cardinality(p) = Cardinality(omits) /\ p # omits
  \/ \E types \in Range(d.secondaries) : Len(types) = Len(d.params) - Cardinality(omits)

\* The type a default is passed with: its own, or the parameter's by a cast.
PassedType(d, i, pattern) ==
  IF Rung(d, pattern) > 0 /\ Competing(d, DelegateOmits(d, pattern)) THEN d.params[i].type
  ELSE d.params[i].default.type
Passed(d, pattern) ==
  LET order == Ascending(Positions(d) \ DelegateOmits(d, pattern))
  IN [k \in DOMAIN order |->
        LET i == order[k]
        IN IF i \in pattern THEN [from |-> <<"default", i>>, type |-> PassedType(d, i, pattern)]
           ELSE [from |-> <<"parameter", i>>, type |-> d.params[i].type]]
Overload(d, pattern) ==
  [kind |-> "delegating", takes |-> Types(d, Positions(d) \ pattern),
   of |-> Ascending(Positions(d) \ pattern), passes |-> Passed(d, pattern)]
Primary(d) ==
  [kind |-> "primary", takes |-> Types(d, Positions(d)), of |-> Ascending(Positions(d)), passes |-> << >>]
Secondary(types) ==
  [kind |-> "secondary", takes |-> types, of |-> [k \in DOMAIN types |-> k], passes |-> << >>]

\* The constructor without parameters a persistent class gets.
AllDefaulted(d) == \A i \in Positions(d) : HasDefault(d, i)
ZeroArgumentOverload(d) == AllDefaulted(d) /\ (scenario.inPlace \/ d.jvmOverloads)
NoArgument(d) ==
  IF ~d.persistent \/ d.params = << >> \/ << >> \in Range(d.secondaries) \/ ZeroArgumentOverload(d)
  THEN << >>
  ELSE <<IF AllDefaulted(d)
         THEN [kind |-> "delegating", takes |-> << >>, of |-> << >>,
               passes |-> [i \in Positions(d) |->
                             [from |-> <<"default", i>>, type |-> d.params[i].default.type]]]
         ELSE [kind |-> "cleared", takes |-> << >>, of |-> << >>, passes |-> << >>]>>

Emitted(d) ==
  <<Primary(d)>> \o [k \in DOMAIN plan.overloads |-> Overload(d, plan.overloads[k])]
    \o NoArgument(d) \o [k \in DOMAIN d.secondaries |-> Secondary(d.secondaries[k])]

-----------------------------------------------------------------------------
(* The callers.  A slot is the argument a parameter gets, or Unset.        *)

Argument(call, k) == [from |-> <<"argument", k>>, type |-> call.args[k].type]
AsWritten(call) == [k \in DOMAIN call.args |-> Argument(call, k)]
Slots(d, call) ==
  [i \in Positions(d) |->
     IF i <= Cardinality(Positional(call)) THEN Argument(call, i)
     ELSE IF d.params[i].name \in NamesUsed(call)
     THEN Argument(call, CHOOSE k \in Named(call) : call.args[k].name = d.params[i].name)
     ELSE Unset]

Neutral(d, i) == HasDefault(d, i) /\ d.params[i].default.neutral
Literal(d, i) == [from |-> <<"literal", d.params[i].name>>, type |-> d.params[i].default.type]
\* Fills the literals it can and leaves the rest to an overload.
MutantFillsSome(d, call) ==
  LET slots == Slots(d, call)
      filled == [i \in Positions(d) |->
                   IF slots[i] = Unset /\ Neutral(d, i) THEN Literal(d, i) ELSE slots[i]]
  IN Select(filled, {i \in Positions(d) : filled[i] # Unset})
LowerCallArgs(d, call) ==
  LET slots == Slots(d, call)
      missing == {i \in Positions(d) : slots[i] = Unset}
  IN IF \A i \in missing : Neutral(d, i)
     THEN [i \in Positions(d) |-> IF i \in missing THEN Literal(d, i) ELSE slots[i]]
     ELSE Select(slots, Positions(d) \ missing)
\* The first declaration of the name that a translated call can be read with.
FirstOf(test(_)) == SelectInSeq(scenario.candidates, test)
MatchesNames(d, call) == d.params # << >> /\ NamesUsed(call) \subseteq Names(d)
StopsEarly(d, call) == HasDefaults(d) /\ Len(d.params) > Len(call.args)
Candidate(call) ==
  IF Named(call) # {} THEN FirstOf(LAMBDA d : MatchesNames(d, call))
  ELSE FirstOf(LAMBDA d : StopsEarly(d, call))
Lowered(call) ==
  IF Candidate(call) = 0 THEN AsWritten(call)
  ELSE LowerCallArgs(scenario.candidates[Candidate(call)], call)

\* The parameter names of the Java class: its longest written constructor, or
\* its fields when it writes none.
WrittenNames(d) ==
  (IF d.implicitPrimary THEN << >> ELSE <<[i \in Positions(d) |-> d.params[i].name]>>)
    \o [k \in DOMAIN plan.overloads |->
          [i \in 1 .. Len(d.params) - Cardinality(plan.overloads[k]) |->
             d.params[Ascending(Positions(d) \ plan.overloads[k])[i]].name]]
    \o [k \in DOMAIN d.secondaries |-> [i \in DOMAIN d.secondaries[k] |-> "other"]]
Longest(lists) ==
  LET k == SelectInSeq(lists, LAMBDA s : \A t \in Range(lists) : Len(t) <= Len(s))
  IN IF k = 0 THEN << >> ELSE lists[k]
JavaNames(d) ==
  LET longest == Longest(WrittenNames(d))
  IN IF longest = << >> THEN [i \in Positions(d) |-> d.params[i].name] ELSE longest
Target == [params |-> [i \in DOMAIN javaNames |-> [name |-> javaNames[i]]]]

Rewritten(call) ==
  LET slots == Slots(Target, call)
      given == {i \in DOMAIN javaNames : slots[i] # Unset}
  IN IF ~Readable(Target, call) \/ (Named(call) = {} /\ given = DOMAIN javaNames)
     THEN AsWritten(call)
     ELSE Select(slots, given)

-----------------------------------------------------------------------------
(* Java: the most specific applicable constructor, if there is one. *)

Accepts(u, t) == t = u \/ <<t, u>> \in Narrower
Applicable(takes, types) ==
  Len(takes) = Len(types) /\ \A i \in DOMAIN types : Accepts(takes[i], types[i])
MostSpecific(types) ==
  LET fits == {k \in DOMAIN constructors : Applicable(constructors[k].takes, types)}
  IN {k \in fits : \A m \in fits : Applicable(constructors[m].takes, constructors[k].takes)}
TypesOf(args) == [k \in DOMAIN args |-> args[k].type]
Compiles(args) == Cardinality(MostSpecific(TypesOf(args))) = 1
Chosen(args) == CHOOSE k \in MostSpecific(TypesOf(args)) : TRUE

-----------------------------------------------------------------------------

\* What Kotlin sees to: a default is a value of its parameter and names parameters
\* before its own, no two constructors of a class have the same parameters after
\* erasure, and a call gives every parameter a value of its type or leaves it out.
IsSequence(s) == s \in Seq(Range(s))
EarlierNames(d, i) == {d.params[j].name : j \in 1 .. i - 1}
KotlinClass(d) ==
  /\ IsSequence(d.params) /\ IsSequence(d.secondaries)
  /\ \A types \in Range(d.secondaries) : IsSequence(types)
  /\ \A i \in DOMAIN d.params :
       HasDefault(d, i) => /\ d.params[i].default.uses \subseteq EarlierNames(d, i)
                           /\ Accepts(d.params[i].type, d.params[i].default.type)
  /\ \A k \in DOMAIN d.secondaries :
       /\ ErasedTypes(d.secondaries[k]) # ErasedTypes(Types(d, Positions(d)))
       /\ \A m \in DOMAIN d.secondaries \ {k} :
            ErasedTypes(d.secondaries[k]) # ErasedTypes(d.secondaries[m])

KotlinCall(d, call) ==
  /\ IsSequence(call.args) /\ call.of \in {"class", "secondary"}
  /\ call.of = "class" /\ ~call.unreadable =>
       /\ Readable(d, call) /\ ~NotThePrimary(d, call)
       /\ \A i \in Positions(d) :
            i \in Omitted(d, call) \/ Accepts(d.params[i].type, Slots(d, call)[i].type)
  /\ call.of = "secondary" =>
       /\ call.takes \in Range(d.secondaries)
       /\ Applicable(call.takes, TypesOf(call.args))

ASSUME ScenariosAssumption ==
  \A s \in Scenarios :
    /\ KotlinClass(s.class)
    /\ IsSequence(s.candidates) /\ \A d \in Range(s.candidates) : IsSequence(d.params)
    /\ \A c \in DOMAIN s.calls : KotlinCall(s.class, s.calls[c])

DefaultsInit ==
  /\ scenario \in Scenarios
  /\ phase = "planning"
  /\ plan = [ladder |-> << >>, overloads |-> << >>]
  /\ constructors = << >>
  /\ javaNames = << >>
  /\ written = << >>
  /\ frame = NoFrame
  /\ evaluated = << >>
  /\ built = << >>

Keep ==
  /\ phase = "planning"
  /\ Retained(class)
  /\ phase' = "kept"
  /\ UNCHANGED <<scenario, plan, constructors, javaNames, written, frame, evaluated, built>>

PlanConstructors ==
  /\ phase = "planning"
  /\ ~Retained(class)
  /\ phase' = "planned"
  /\ plan' = Planned(class)
  /\ UNCHANGED <<scenario, constructors, javaNames, written, frame, evaluated, built>>

Emit ==
  /\ phase = "planned"
  /\ phase' = "emitted"
  /\ constructors' = Emitted(class)
  /\ javaNames' = JavaNames(class)
  /\ UNCHANGED <<scenario, plan, written, frame, evaluated, built>>

RewriteCallers ==
  /\ phase = "emitted"
  /\ phase' = "rewritten"
  /\ written' = [c \in DOMAIN calls |->
                   IF ~calls[c].retained THEN Lowered(calls[c])
                   ELSE IF scenario.inPlace THEN Rewritten(calls[c])
                   ELSE AsWritten(calls[c])]
  /\ built' = [c \in DOMAIN calls |-> NotYet]
  /\ UNCHANGED <<scenario, plan, constructors, javaNames, frame, evaluated>>

\* A call of the class in the finished project.  Kotlin cannot name the
\* arguments of a Java constructor.
StillNamed(c) ==
  /\ calls[c].retained
  /\ Named(calls[c]) # {}
  /\ ~scenario.inPlace \/ ~Readable(Target, calls[c])
Call(c) ==
  /\ phase = "rewritten"
  /\ frame = NoFrame
  /\ built[c] = NotYet
  /\ IF StillNamed(c) \/ ~Compiles(written[c])
     THEN built' = [built EXCEPT ![c] = Broken] /\ UNCHANGED frame
     ELSE /\ frame' = [call |-> c, constructor |-> Chosen(written[c]),
                       gets |-> [k \in DOMAIN written[c] |-> written[c][k].from]]
          /\ UNCHANGED built
  /\ evaluated' = << >>
  /\ UNCHANGED <<scenario, phase, plan, constructors, javaNames, written>>

\* this(...): the omitted defaults are evaluated where the delegate gets them.
Running == constructors[frame.constructor]
DefaultsPassed(constructor) ==
  LET args == constructor.passes
      passed == Select(args, {k \in DOMAIN args : args[k].from[1] = "default"})
  IN [k \in DOMAIN passed |-> passed[k].from[2]]
Value(arg) ==
  IF arg.from[1] = "parameter"
  THEN frame.gets[CHOOSE k \in DOMAIN Running.of : Running.of[k] = arg.from[2]]
  ELSE arg.from
Delegate ==
  /\ frame # NoFrame
  /\ Running.kind = "delegating"
  /\ IF Compiles(Running.passes)
     THEN /\ frame' = [frame EXCEPT !.constructor = Chosen(Running.passes),
                                    !.gets = [k \in DOMAIN Running.passes |-> Value(Running.passes[k])]]
          /\ UNCHANGED built
     ELSE /\ built' = [built EXCEPT ![frame.call] = Broken]
          /\ frame' = NoFrame
  /\ evaluated' = evaluated \o DefaultsPassed(Running)
  /\ UNCHANGED <<scenario, phase, plan, constructors, javaNames, written>>

Build ==
  /\ frame # NoFrame
  /\ Running.kind # "delegating"
  /\ built' = [built EXCEPT ![frame.call] =
                 [kind |-> Running.kind, takes |-> Running.takes, gets |-> frame.gets,
                  evaluated |-> evaluated]]
  /\ frame' = NoFrame
  /\ evaluated' = << >>
  /\ UNCHANGED <<scenario, phase, plan, constructors, javaNames, written>>

DefaultsNext ==
  \/ Keep \/ PlanConstructors \/ Emit \/ RewriteCallers
  \/ \E c \in DOMAIN calls : Call(c)
  \/ Delegate \/ Build

DefaultsSpec == DefaultsInit /\ [][DefaultsNext]_defaultsVars /\ WF_defaultsVars(DefaultsNext)

-----------------------------------------------------------------------------
(* Properties. *)

\* Which constructor a call means in Kotlin, and which argument or default
\* every parameter gets.
MeantFor(d, call, i, value) ==
  IF Slots(d, call)[i] # Unset THEN value = Slots(d, call)[i].from
  ELSE value \in {<<"default", i>>, <<"literal", d.params[i].name>>}
MeansTheSame(call, result) ==
  IF call.of = "secondary"
  THEN /\ result.kind = "secondary"
       /\ result.takes = call.takes
       /\ result.gets = [k \in DOMAIN call.args |-> <<"argument", k>>]
  ELSE /\ result.kind = "primary"
       /\ \A i \in Positions(class) : MeantFor(class, call, i, result.gets[i])

\* The phases; every planned pattern omits something, and only what has a
\* default, and is planned once.
PatternsTyped ==
  /\ phase \in {"planning", "kept", "planned", "emitted", "rewritten"}
  /\ frame # NoFrame => frame.constructor \in DOMAIN constructors
  /\ \A k \in DOMAIN plan.overloads :
       /\ plan.overloads[k] # {}
       /\ \A i \in plan.overloads[k] : HasDefault(class, i)
       /\ \A j \in DOMAIN plan.overloads \ {k} : plan.overloads[j] # plan.overloads[k]

\* Every caller of a translated class, rewritten or not, still compiles,
\* reaches the constructor it named in Kotlin, and every parameter gets the
\* argument it was given or its own default (ctor_defaults.rs:9-20: both kinds
\* of caller land on the overload written for what they omit).
CallsKeepTheirMeaning ==
  phase = "rewritten" =>
    \A c \in DOMAIN calls :
      built[c] # NotYet =>
        built[c] # Broken /\ MeansTheSame(calls[c], built[c])

\* What the planner does not look at (README, known divergences): that a rung
\* has the parameters of a constructor of the class, that a caller who omits
\* everything gets a constructor the persistence rule writes as well, and that
\* the latter's defaults may name parameters it does not have.
RungTaken ==
  \E pattern \in Range(plan.ladder), types \in Range(class.secondaries) :
    Signature(class, pattern) = ErasedTypes(types)
SecondNoArgument ==
  NoArgument(class) # << >> /\ Positions(class) \in Range(plan.overloads)
DefaultsUnsupplied ==
  /\ NoArgument(class) # << >> /\ AllDefaulted(class)
  /\ \E i \in Positions(class) : class.params[i].default.uses # {}

\* Nor that what a caller or a constructor passes may fit two constructors.
FitsTwo(args) ==
  \E j, k \in DOMAIN constructors :
    /\ j # k
    /\ Applicable(constructors[j].takes, TypesOf(args))
    /\ Applicable(constructors[k].takes, TypesOf(args))
Mistakable ==
  \/ \E c \in DOMAIN written : FitsTwo(written[c])
  \/ \E k \in DOMAIN constructors :
       constructors[k].kind = "delegating" /\ FitsTwo(constructors[k].passes)

\* What the callers' rewriting does not look at: names that only Kotlin knows,
\* names the index reads otherwise, a declaration that happens to share the
\* class's name, and a secondary constructor that looks like a short call.
OtherNames == javaNames # [i \in Positions(class) |-> class.params[i].name]
LooksShort(d, call) ==
  \A i \in Positions(d) : Slots(d, call)[i] = Unset => Neutral(d, i)
Misread(call) ==
  \/ call.unreadable
  \/ /\ Named(call) # {}
     /\ \/ call.of = "secondary"
        \/ call.retained /\ (~scenario.inPlace \/ OtherNames)
        \/ ~call.retained /\ Candidate(call) = 0
  \/ /\ ~call.retained /\ Candidate(call) # 0
     /\ LET d == scenario.candidates[Candidate(call)]
        IN IF call.of = "class" THEN d # class ELSE LooksShort(d, call)

\* No two constructors of the Java class have the same erased parameters
\* (ctor_defaults.rs:160-162).
ConstructorsDiffer ==
  \A j, k \in DOMAIN constructors :
    j # k => ErasedTypes(constructors[j].takes) # ErasedTypes(constructors[k].takes)

\* Through whatever chain of this(...) a call goes, the defaults it leaves out
\* are evaluated once each, in the order of their declaration, and no others.
DefaultsOnceInOrder ==
  phase = "rewritten" =>
    \A c \in DOMAIN calls :
      built[c] \notin {NotYet, Broken} =>
        built[c].evaluated =
          Ascending({i \in DOMAIN built[c].gets : built[c].gets[i][1] = "default"})

\* A constructor evaluates a default only where the parameters the default
\* names are its own (ctor_defaults.rs:189-195).
DefaultsInScope ==
  \A k \in DOMAIN constructors :
    \A i \in Range(DefaultsPassed(constructors[k])) :
      class.params[i].default.uses
        \subseteq {class.params[j].name : j \in Range(constructors[k].of)}

\* The chain of delegating constructors ends for every call.
CallsFinish ==
  <>(phase = "kept" \/ (phase = "rewritten" /\
       \A c \in DOMAIN calls : built[c] # NotYet))

\* The overloads leave to the callee what it can evaluate, once and in order.
DefaultsConsistent == PatternsTyped /\ DefaultsOnceInOrder /\ DefaultsInScope
=============================================================================
