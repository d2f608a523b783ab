-------------------------- MODULE MCRetentionFixpoint --------------------------
(***************************************************************************)
(* Instances of RetentionFixpoint for TLC: every assignment of short rules *)
(* to the declarations of a small workspace.                               *)
(***************************************************************************)
EXTENDS RetentionFixpoint, RetentionRules, TLC

CONSTANTS a, b, c, fa, fb, fc

ThreeSymbols == {a, b, c}
ThreeFiles == {fa, fb, fc}

(* a and b share a simple name, as overloads and same-name classes of two  *)
(* packages do.                                                            *)
TwinNames == (a :> "twin") @@ (b :> "twin") @@ (c :> "single")

ShortRules(s) ==
  LET others == ThreeSymbols \ {s} IN
  { << >>, << Always >>, << Named("twin") >> }
    \cup { << Kotlin(x) >> : x \in others }
    \cup { << Java(x) >> : x \in others }
    \cup { << Kotlin(x), Kotlin(y) >> : <<x, y>> \in { p \in others \X others : p[1] # p[2] } }
    \cup { << Java(x), Kotlin(y) >> : <<x, y>> \in { p \in others \X others : p[1] # p[2] } }

(* One declaration per file, any rules, and passes enough for them; or no  *)
(* more passes than rules without release need.                            *)
SeparateFiles ==
  { [ owner |-> (a :> fa) @@ (b :> fb) @@ (c :> fc), name |-> TwinNames,
      coupled |-> {}, limit |-> limit,
      asks |-> (a :> ra) @@ (b :> rb) @@ (c :> rc) ] :
    ra \in ShortRules(a), rb \in ShortRules(b), rc \in ShortRules(c), limit \in {4, 32} }

(* a and b share a file whose facade couples them.                         *)
CoupledFiles ==
  { [ owner |-> (a :> fa) @@ (b :> fa) @@ (c :> fb), name |-> TwinNames,
      coupled |-> {fa}, limit |-> limit,
      asks |-> (a :> ra) @@ (b :> rb) @@ (c :> rc) ] :
    ra \in ShortRules(a), rb \in ShortRules(b), limit \in {4, 32},
    rc \in { << >>, << Always >>, << Java(a) >>, << Java(b), Kotlin(a) >>, << Named("twin") >> } }

MCSnapshots == SeparateFiles \cup CoupledFiles

(* Every rule of these workspaces records what it asks, so the properties  *)
(* of this instance are about every file.                                  *)
ASSUME RulesRecordTheirQueries ==
  \A w \in MCSnapshots : AllReadsRecorded(w)
=============================================================================
