------------------------ MODULE MCGetterBridgeCache ------------------------
(***************************************************************************)
(* Four files: a class that inherits a getter twice, an interface that     *)
(* narrows it by a type of its own or by delegation, the types all this    *)
(* spells, and a file that captures their names, makes one ambiguous,      *)
(* aliases one, holds a second class, or has nothing to do with them.      *)
(***************************************************************************)
EXTENDS GetterBridgeCache

MCPaths == <<"Child.kt", "Model.kt", "Other.kt", "Types.kt">>
MCScalars == {<<"String">>, <<"Boolean">>}
MCRoots == {<<"Any">>}

File(package, types) ==
    [package |-> package, stars |-> IF package = "p" THEN {"q"} ELSE {},
     imports |-> {}, aliases |-> {}, types |-> types]

Silent(up) == [supertypes |-> up, getter |-> "none", type |-> <<>>, bound |-> <<>>]
Gives(up, type) == [supertypes |-> up, getter |-> "typed", type |-> type, bound |-> <<>>]
Delegates(up, bound) ==
    [supertypes |-> up, getter |-> "delegating", type |-> <<>>, bound |-> bound]

Child(up) == File("p", [n \in {"Child"} |-> Silent(up)])

Model(narrow) == File("p", [n \in {"Narrow"} |-> narrow])

Types(package, wide, bound) ==
    File(package, [n \in {"Wide", "Bound", "Code"} |->
                     CASE n = "Wide" -> Gives({<<"Any">>}, <<wide>>)
                       [] n = "Bound" -> Gives({}, <<bound>>)
                       [] n = "Code" -> Silent({})])

One(package, name, decl) == File(package, [n \in {name} |-> decl])

MCContents == [p \in PathSet |->
    CASE p = "Child.kt" ->
            {Child({<<"Narrow">>}), Child({<<"Narrow">>, <<"Wide">>}), NoFile}
      [] p = "Model.kt" ->
            {Model(Gives({<<"Wide">>}, <<"Code">>)),
             Model(Delegates({<<"Wide">>}, <<"Bound">>)),
             [Model(Delegates({<<"q", "Wide">>}, <<"Bound">>)) EXCEPT
                !.imports = {<<"q", "Bound">>}]}
      [] p = "Other.kt" ->
            {NoFile,
             One("p", "Wide", Gives({}, <<"Boolean">>)),
             One("q", "Wide", Silent({})),
             One("p", "Bound", Gives({}, <<"Boolean">>)),
             [One("p", "Else", Silent({})) EXCEPT !.aliases = {<<"Code">>}],
             One("q", "Leaf", Silent({<<"Narrow">>})),
             One("r", "Else", Gives({}, <<"String">>))}
      [] p = "Types.kt" ->
            {Types("q", "String", "String"), Types("q", "String", "Boolean"),
             Types("q", "Code", "String"), Types("r", "Boolean", "Boolean")}]

Disk(other) ==
    [p \in PathSet |->
       CASE p = "Child.kt" -> Child({<<"Narrow">>, <<"Wide">>})
         [] p = "Model.kt" -> Model(Delegates({<<"Wide">>}, <<"Bound">>))
         [] p = "Other.kt" -> other
         [] p = "Types.kt" -> Types("q", "String", "String")]

MCBases == {Disk(NoFile), Disk(One("q", "Leaf", Silent({<<"Narrow">>})))}

MCOwners == {<<"Child.kt", "Child">>, <<"Other.kt", "Leaf">>}
=============================================================================
