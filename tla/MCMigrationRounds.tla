--------------------------- MODULE MCMigrationRounds ---------------------------
(***************************************************************************)
(* Instances of MigrationRounds for TLC: three declarations over one, two  *)
(* or three sources, with every combination of the rules below.            *)
(***************************************************************************)
EXTENDS MigrationRounds, MigrationRules, TLC

CONSTANTS a, b, c, fa, fb, fc

ThreeDeclarations == {a, b, c}
ThreeFiles == {fa, fb, fc}

(* All apart, two together, all together.                                  *)
Layouts ==
  { (a :> fa) @@ (b :> fb) @@ (c :> fc),
    (a :> fa) @@ (b :> fa) @@ (c :> fb),
    (a :> fa) @@ (b :> fb) @@ (c :> fb),
    (a :> fa) @@ (b :> fa) @@ (c :> fa) }

OwnPath == [d \in ThreeDeclarations |-> d]
Alone == [d \in ThreeDeclarations |-> {}]

(* Classes a and b, and a function c they may call.                        *)
Base(layout, strict, names, calls) ==
  [ file |-> layout, strict |-> strict, path |-> OwnPath, occupied |-> {},
    blocked |-> {}, needs |-> Alone, fragile |-> {a, b}, names |-> names, calls |-> calls,
    unrepairable |-> {}, warned |-> {}, answered |-> {},
    limit |-> 6 ]

NameGraphs == SUBSET { <<b, a>>, <<c, a>>, <<c, b>> }
CallGraphs == SUBSET { <<a, c>>, <<b, c>> }

(* Every mix of retention rules.                                           *)
RuleMixes ==
  UNION { { [Base(layout, strict, names, calls) EXCEPT !.blocked = blocked,
                                                       !.unrepairable = hard,
                                                       !.needs[b] = needs] :
            layout \in Layouts, strict \in BOOLEAN, names \in NameGraphs,
            blocked \in SUBSET {b, c}, hard \in SUBSET calls, needs \in { {}, {a} } } :
          calls \in CallGraphs }

(* Warnings and receipts.                                                  *)
DiagnosedMixes ==
  { [Base(layout, strict, names, {<<b, c>>}) EXCEPT !.blocked = blocked,
                                                    !.warned = warned, !.answered = answered] :
    layout \in Layouts, strict \in BOOLEAN, names \in NameGraphs,
    blocked \in { {}, {b} }, warned \in SUBSET {a, c}, answered \in { {a}, {b, c} } }

(* Two sources whose outputs meet, early or rounds apart, and an output    *)
(* path that is taken.                                                     *)
Collisions ==
  { [Base(layout, FALSE, names, {}) EXCEPT !.path[a] = shared, !.path[c] = shared,
                                           !.occupied = occupied] :
    layout \in Layouts, names \in NameGraphs, shared \in {a, c}, occupied \in SUBSET {b} }

(* Three rounds, which a chain of moves exceeds.                           *)
ShortRuns ==
  { [w EXCEPT !.limit = 3] : w \in { mixed \in RuleMixes : mixed.blocked = {} } \cup Collisions }

MCWorkspaces == RuleMixes \cup DiagnosedMixes \cup Collisions \cup ShortRuns
================================================================================
