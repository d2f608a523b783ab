-------------------------- MODULE OwnershipPlanning --------------------------
(***************************************************************************)
(* What the workspace ownership fixpoint of transpiler/fixpoint.rs needs   *)
(* to know of the rest of the program.  Planning one Kotlin file against a *)
(* retained set is a pure function of the analysed snapshot (sources plus  *)
(* index), of the retained hint and of the pinned declarations; its        *)
(* details are in the lowerers and only three answers matter here: which   *)
(* declarations of the file stay in Kotlin, and which symbols and which    *)
(* names it asked the retained set about.                                  *)
(***************************************************************************)
EXTENDS Naturals, Sequences

CONSTANTS
  Files,                 \* positions in the `files` slice
  Symbols,               \* SymbolIds of the ownership boundaries
  Snapshots,             \* the analysed workspaces a run may start from
  Declared(_, _),        \* Declared(w, f): the decisions file f's plan lists
  NameOf(_, _),          \* NameOf(w, s): the simple name of symbol s
  Prepared(_, _, _),     \* Prepared(w, f, R): Kotlin-owned under hint R
  SymbolReads(_, _, _),  \* exact identities queried while preparing f
  NameReads(_, _, _),    \* simple names queried while preparing f
  MaxPasses(_)           \* --max-retention-passes of the run

ASSUME PassesAssumption == \A w \in Snapshots : MaxPasses(w) \in Nat

(* A plan only decides the declarations of its own file.                   *)
ASSUME DeclaredAssumption ==
  \A w \in Snapshots, f \in Files : Declared(w, f) \subseteq Symbols

ASSUME PreparedAssumption ==
  \A w \in Snapshots, f \in Files, R \in SUBSET Symbols :
    Prepared(w, f, R) \subseteq Declared(w, f)

Delta(R1, R2) == (R1 \ R2) \cup (R2 \ R1)

(* RetentionReads::affected_by: a changed symbol was queried by identity,  *)
(* or its name was.                                                        *)
AffectedBy(w, symbols, names, delta) ==
  \E s \in delta : s \in symbols \/ NameOf(w, s) \in names

(* What the cache relies on for file f: the probe recorded every query of  *)
(* the retained set, negative ones included, so a preparation none of      *)
(* whose recorded queries changed its answer gives the same decisions and  *)
(* makes the same queries.  The ancestor rule of property_abi.rs records   *)
(* nothing, so files of interfaces with properties need not satisfy this.  *)
ReadsRecorded(w, f) ==
  \A R1, R2 \in SUBSET Symbols :
    ~ AffectedBy(w, SymbolReads(w, f, R1), NameReads(w, f, R1), Delta(R1, R2))
      => /\ Prepared(w, f, R1) = Prepared(w, f, R2)
         /\ SymbolReads(w, f, R1) = SymbolReads(w, f, R2)
         /\ NameReads(w, f, R1) = NameReads(w, f, R2)

AllReadsRecorded(w) == \A f \in Files : ReadsRecorded(w, f)

(* translate_one: the hint is the retained set together with the pins, and *)
(* a pinned declaration of the file is Kotlin-owned whatever the lowerer   *)
(* covered (its OwnershipCycle reason blocks it in reconcile).             *)
Hint(R, P) == R \cup P

KotlinOwned(w, f, R, P) ==
  Prepared(w, f, Hint(R, P)) \cup (P \cap Declared(w, f))

CachedPlan(w, f, R, P) ==
  [ owned   |-> KotlinOwned(w, f, R, P),
    symbols |-> SymbolReads(w, f, Hint(R, P)),
    names   |-> NameReads(w, f, Hint(R, P)) ]

(* One full pass over the workspace: every file planned anew.              *)
FullPass(w, R, P) ==
  UNION { KotlinOwned(w, f, R, P) : f \in Files }

(* cycle_varying_symbols: in the union of the cycle's states and not in    *)
(* their intersection.                                                     *)
CycleVarying(states) == { s \in UNION states : \E S \in states : s \notin S }

(* A snapshot whose rules only ever block more as more is retained, the    *)
(* shape the closed-hierarchy rules have.                                  *)
Monotone(w) ==
  \A f \in Files : \A R1, R2 \in SUBSET Symbols :
    R1 \subseteq R2 => Prepared(w, f, R1) \subseteq Prepared(w, f, R2)
=============================================================================
