--------------------------- MODULE MCCtorDefaults ---------------------------
(* Classes of up to three parameters with one or two callers. *)
EXTENDS CtorDefaults

Lit(t) == [neutral |-> TRUE, type |-> t, uses |-> {}]
Null == Lit("Null")
Computed(t) == [neutral |-> FALSE, type |-> t, uses |-> {}]
From(t, name) == [neutral |-> FALSE, type |-> t, uses |-> {name}]
Param(name, type, default) == [name |-> name, type |-> type, default |-> default]

Class(params) ==
  [params |-> params, jvmOverloads |-> FALSE, persistent |-> FALSE,
   implicitPrimary |-> FALSE, secondaries |-> << >>]
Annotated(c) == [c EXCEPT !.jvmOverloads = TRUE]
Persistent(c) == [c EXCEPT !.persistent = TRUE]
Implicit(c) == [c EXCEPT !.implicitPrimary = TRUE]
With(c, secondaries) == [c EXCEPT !.secondaries = secondaries]

Three(types, x, y, z) ==
  Class(<<Param("a", types[1], x), Param("b", types[2], y), Param("c", types[3], z)>>)
Two(types, x, y) == Class(<<Param("a", types[1], x), Param("b", types[2], y)>>)

-----------------------------------------------------------------------------
(* Callers: some positional arguments, then names in one order or the other,
   with a default for whatever is left out. *)

Args(d, k, names, order) ==
  [i \in 1 .. k |-> [name |-> "", type |-> d.params[i].type]]
    \o LET named == IF order = "declared" THEN Ascending(names) ELSE Descending(names)
       IN [i \in DOMAIN named |-> [name |-> d.params[named[i]].name, type |-> d.params[named[i]].type]]
Written(d, of) ==
  {[of |-> of, args |-> Args(d, k, names, order), takes |-> << >>,
    unreadable |-> FALSE, retained |-> r] :
     k \in 0 .. Len(d.params), names \in SUBSET Positions(d),
     order \in {"declared", "reversed"}, r \in BOOLEAN}
\* Kotlin prefers a constructor that takes exactly what is written.
CallsOf(d, of) ==
  {call \in Written(d, of) :
     /\ \A name \in NamesUsed(call) : PositionOf(d, name) > Cardinality(Positional(call))
     /\ \A i \in Omitted(d, call) : HasDefault(d, i)
     /\ Named(call) = {} =>
          \A types \in Range(d.secondaries) : ~Applicable(types, [k \in DOMAIN call.args |-> call.args[k].type])}
Unreadable(d) ==
  [of |-> "class", args |-> Args(d, 0, {}, "declared"), takes |-> << >>,
   unreadable |-> TRUE, retained |-> TRUE]
\* A call of a secondary constructor that could be a short call of the primary.
CouldBeShort(d, types) ==
  /\ Len(types) < Len(d.params)
  /\ \A i \in Len(types) + 1 .. Len(d.params) : Neutral(d, i)
SecondaryCalls(d) ==
  {[of |-> "secondary", args |-> [k \in DOMAIN types |-> [name |-> "", type |-> types[k]]],
    takes |-> types, unreadable |-> FALSE, retained |-> r] :
     types \in Range(d.secondaries), r \in BOOLEAN}
AllCalls(d) ==
  CallsOf(d, "class")
  \cup {call \in SecondaryCalls(d) : call.retained \/ ~CouldBeShort(d, call.takes)}
  \cup (IF HasDefaults(d) THEN {Unreadable(d)} ELSE {})

\* One caller, or a retained one that names its arguments and a moving one.
Lists(callers) ==
  {<<x>> : x \in callers} \cup
  {<<x, y>> : x \in {x \in callers : x.retained /\ Positional(x) = {} /\ Named(x) # {}},
              y \in {y \in callers : ~y.retained /\ Len(y.args) < 3}}
Scenario(d, list, inPlace) ==
  [class |-> d, candidates |-> <<d>>, calls |-> list, inPlace |-> inPlace]
ScenariosOf(classes, runs) ==
  UNION {{Scenario(d, list, p) : list \in Lists(AllCalls(d)), p \in runs} : d \in classes}

NullOnly == {"Null"} \X {"Str", "Text"}
Subtypes == NullOnly \cup {<<"Str", "Any">>, <<"Int", "Any">>}
Erasures ==
  [t \in {"Int", "Str", "Text", "Bool", "Any", "Null", "ListA", "ListB"} |->
     IF t \in {"ListA", "ListB"} THEN "List" ELSE t]

-----------------------------------------------------------------------------
(* Ordinary classes: no two constructors a value could be meant for. *)

Unrelated == <<"Int", "Str", "Bool">>
Alike == <<"ListA", "ListB", "Int">>
Threes ==
  {Three(types, x, y, z) :
     types \in {Unrelated, Alike},
     x \in {NoDefault, Computed("Int")}, y \in {NoDefault, Lit("Str"), From("Str", "a")},
     z \in {NoDefault, Lit("Bool"), From("Bool", "b")}}
Typed(d) ==
  [d EXCEPT !.params = [i \in DOMAIN d.params |->
     IF d.params[i].default = NoDefault THEN d.params[i]
     ELSE [d.params[i] EXCEPT !.default.type = d.params[i].type]]]
Ordinary ==
  {Typed(d) : d \in Threes} \cup {Annotated(Typed(d)) : d \in Threes}
  \cup {Persistent(Two(Unrelated, NoDefault, Lit("Str")))}
  \cup {Annotated(Three(<<"Int", "Str", "Text">>, Lit("Int"), Null, Null))}
  \cup {With(Two(Unrelated, NoDefault, Null), <<types>>) :
          types \in {<<"Bool">>, <<"Int", "Bool">>, << >>}}
\* Only in place: elsewhere these go wrong (README, known divergences).
InPlaceOnly == {Implicit(Two(Unrelated, NoDefault, NoDefault)),
                Persistent(Two(Unrelated, Lit("Int"), Lit("Str")))}

OrdinaryScenarios ==
  ScenariosOf(Ordinary, {TRUE}) \cup ScenariosOf(InPlaceOnly, {TRUE})
    \cup ScenariosOf({d \in Ordinary : HasDefaults(d)}, {FALSE})
=============================================================================
