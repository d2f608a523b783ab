-------------------------- MODULE MCPreparationRetries --------------------------
(***************************************************************************)
(* Three declarations and two getter families: every dependence of their   *)
(* acceptance on contracts and families that takes several retries.        *)
(***************************************************************************)
EXTENDS PreparationRetries, TLC

Chain(a, b, c) == ("A" :> a) @@ ("B" :> b) @@ ("C" :> c)

(* contract : implementers of a contract    blocked : never accepted       *)
(* together : declarations whose contracts it needs besides its own        *)
(* layout   : families it needs to be accepted                             *)
(* spoiled  : families it is not accepted with                             *)
(* found    : families its contract is found with                          *)
MCWorkspaces ==
  [ contract : { {}, {"A", "B"}, Owners }, blocked : { {}, {"B"}, {"C"} },
    together : { Chain(a, b, c) : a \in SUBSET {"B"}, b \in SUBSET {"C"}, c \in SUBSET {"A"} },
    layout : { Chain(a, b, {}) : a \in SUBSET {"f"}, b \in SUBSET {"g"} },
    spoiled : { Chain({}, {}, c) : c \in SUBSET {"f"} },
    found : { Chain(a, {}, {}) : a \in SUBSET {"f"} },
    users : [Families -> { {}, {"A"}, {"B", "C"} }],
    vetoed : SUBSET {"g"} ]

MCPrepared(w) == Families

MCDescendants(w, f) == w.users[f]

MCRequired(w, F) == { o \in w.contract : w.found[o] \subseteq F }

MCAccepts(w, F, R) ==
  { o \in Owners \ w.blocked :
      /\ o \in w.contract => o \in R
      /\ w.together[o] \cap w.contract \subseteq R
      /\ w.layout[o] \subseteq F
      /\ w.spoiled[o] \cap F = {} }

(* A round for each declaration that moves; with C blocked, the longest.   *)
MCRounds(w, F, R) == IF "C" \in w.blocked THEN Longest ELSE Cardinality(MCAccepts(w, F, R)) + 1

(* Its layout makes A collide with g's.                                    *)
MCBreaks(w, F, R) == w.spoiled["C"] # {} /\ "A" \in R /\ "g" \in F /\ w.blocked = {"B"}

(* A strict veto hits the source of g when B stays in Kotlin.              *)
MCIntersects(w, F, R) == w.vetoed \cap F # {} /\ "B" \notin MCAccepts(w, F, R)
=================================================================================
