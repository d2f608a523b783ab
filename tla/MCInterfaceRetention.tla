-------------------------- MODULE MCInterfaceRetention --------------------------
(***************************************************************************)
(* The incremental planner over interface hierarchies: one interface per   *)
(* file, every acyclic hierarchy of three.                                 *)
(***************************************************************************)
EXTENDS InterfaceRetention, Sequences, TLC

CONSTANTS a, b, c, Limit

VARIABLES snapshot, retained, forced, history, passes, outcome, cache, indices

ThreeInterfaces == {a, b, c}

Itself == [i \in ThreeInterfaces |-> i]

(* a may extend b and c, b may extend c.                                   *)
Hierarchies ==
  { (a :> sa) @@ (b :> sb) @@ (c :> {}) : sa \in SUBSET {b, c}, sb \in SUBSET {c} }

InterfaceWorkspaces ==
  { [ owner |-> Itself, name |-> [i \in ThreeInterfaces |-> "same"],
      supers |-> supers, properties |-> properties, blocked |-> blocked ] :
    supers \in Hierarchies, properties \in [ThreeInterfaces -> {{}, {"p"}}],
    blocked \in SUBSET ThreeInterfaces }

NoNames(w, f, R) == {}
PassesOf(w) == Limit

RF == INSTANCE RetentionFixpoint WITH
        Files <- ThreeInterfaces, Symbols <- ThreeInterfaces,
        Snapshots <- InterfaceWorkspaces, Declared <- InterfacesIn,
        NameOf <- InterfaceName, Prepared <- InterfacePrepared,
        SymbolReads <- InterfaceReads, NameReads <- NoNames,
        MaxPasses <- PassesOf

Spec == RF!Spec

(* The incremental planner returns the decisions of the full replanning    *)
(* (the assertions of incremental_ownership_matches_full_replanning_...):  *)
(* each file's plan is what planning it against the returned retained set  *)
(* gives.                                                                  *)
IncrementalMatchesFull ==
  outcome = "converged" =>
    \A f \in ThreeInterfaces :
      cache[f].owned = RF!KotlinOwned(snapshot, f, retained, forced)
=============================================================================
