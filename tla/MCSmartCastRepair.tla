------------------------- MODULE MCSmartCastRepair -------------------------
(* Files of one function whose body holds one site, built from a menu of   *)
(* statements for the branches and for what follows.                       *)
EXTENDS SmartCastRepair

CONSTANTS Placements, Menu, After

Leaf(kind, name) ==
  << >> :> [kind |-> kind, name |-> name, type |-> "", line |-> FALSE]

\* A node with the given subtrees.
Tree(kind, name, children) ==
  Leaf(kind, name) @@
    [path \in UNION {{<<i>> \o q : q \in DOMAIN children[i]} : i \in DOMAIN children}
       |-> children[path[1]][Tail(path)]]

OnItsLine(t) == [t EXCEPT ![<< >>].line = TRUE]
Typed(t, type) == [t EXCEPT ![<< >>].type = type]

Read(x) == Leaf("read", x)
Use(x) == Tree("other", "", <<Read(x)>>)
Block(statements) == Tree("block", "", statements)
Is(x) == Tree("is", "", <<Read(x)>>)
NotIs(x) == Tree("notIs", "", <<Read(x)>>)
If(condition, then) == Tree("if", "", <<condition, then>>)
IfElse(condition, then, else) == Tree("if", "", <<condition, then, else>>)
Case(condition, body) == Tree("case", "", <<condition, body>>)

Statement(s) == OnItsLine(
  CASE s = "useX" -> Use("x")
    [] s = "useY" -> Use("y")
    [] s = "shadow" -> Tree("other", "", <<Tree("lambda", "x", <<Use("x")>>)>>)
    [] s = "closure" -> Tree("other", "", <<Tree("lambda", "", <<Use("x")>>)>>)
    [] s = "redeclare" -> Leaf("decl", "x")
    [] s = "otherX" -> Typed(Leaf("decl", "x"), "Other")
    [] s = "property" -> Leaf("decl", "p")
    [] s = "nested" -> If(Is("x"), Block(<<OnItsLine(Use("x"))>>))
    [] s = "nestedY" -> If(Is("y"), Block(<<OnItsLine(Use("y"))>>))
    [] s = "exit" -> Leaf("exit", "")
    [] s = "initializer" -> Tree("decl", "z", <<Read("x")>>)
    [] s = "assign" -> Leaf("assign", "x")
    [] OTHER -> Leaf("other", ""))

Line(s) == Block(<<Statement(s)>>)
Lines(s, t) == Block(<<Statement(s), Statement(t)>>)

Shape(shape, a, b) ==
  CASE shape = "is" -> If(Is("x"), Lines(a, b))
    [] shape = "isElse" -> IfElse(Is("x"), Line(a), Line(b))
    [] shape = "notIsExit" -> If(NotIs("x"), Lines(a, "exit"))
    [] shape = "notIsElse" -> IfElse(NotIs("x"), Line(a), Line(b))
    [] shape = "notIsFalls" -> If(NotIs("x"), Lines(a, b))
    [] shape = "when" -> Tree("when", "", <<Read("x"), Tree("isEntry", "", <<Line(a)>>),
                                            Tree("elseEntry", "", <<Line(b)>>)>>)
    [] shape = "cases" -> Tree("cases", "", <<Case(Is("x"), Line(a)), Case(Is("y"), Line(b))>>)
    [] shape = "and" -> If(Tree("and", "", <<Is("x"), Use("x")>>), Lines(a, b))

\* fun f(x: Holder) { val y: Holder; site; after; use(x.p) }
File(body) ==
  Tree("file", "", <<OnItsLine(Typed(Tree("fun", "x", <<body>>), "Holder"))>>)
Body(site, after) ==
  Block(<<OnItsLine(Typed(Leaf("decl", "y"), "Holder")), site,
          Statement(after), Statement("useX")>>)

\* The site is a statement or the value of a declaration.
Placed(place, site, after) ==
  CASE place = "statement" -> File(Body(OnItsLine(site), after))
    [] place = "value" -> File(Body(OnItsLine(Tree("decl", "v", <<site>>)), after))

Supportable == {"is", "isElse", "notIsExit", "notIsElse", "notIsFalls", "when", "and"}

\* Placements the repair is meant for.
OwnLine == ({"statement", "value"} \X Supportable) \cup {<<"statement", "cases">>}

\* Once the branch is over, the receiver may be read by a declaration or assigned.
AfterBranch(shape) == IF shape = "notIsExit" THEN After ELSE After \cup {"assign", "initializer"}

Files == UNION {{Placed(p[1], Shape(p[2], a, b), after) :
                   a \in Menu, b \in Menu, after \in AfterBranch(p[2])} : p \in Placements}

=============================================================================
