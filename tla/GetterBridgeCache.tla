------------------------- MODULE GetterBridgeCache -------------------------
(***************************************************************************)
(* The cache of inherited-getter answers that survives from one snapshot   *)
(* of the workspace to the next (workspace/default_getters.rs and          *)
(* SourceIndex::with_overlays_using_cache_from of src/src).                *)
(*                                                                         *)
(* Every round of the speculative migration builds new snapshots from the  *)
(* sources on disk and the texts rewritten so far, and takes the answers   *)
(* of the previous snapshot along if nothing they were computed from has   *)
(* changed.  An answer records the files and names it read while it was    *)
(* computed; the type of a delegating getter is remembered per snapshot    *)
(* with what it read, which is replayed into whoever asks again.           *)
(***************************************************************************)
EXTENDS GetterResolution

CONSTANTS
    Owners,     \* the classes asked about, as <<path, name>>
    Contents,   \* for every path, the contents it can have (NoFile: none)
    Bases,      \* the snapshots on disk a run can start from
    MaxEdits    \* bound: paths one overlay rewrites or deletes

Snapshots == {s \in [PathSet -> UNION {Contents[p] : p \in PathSet}] :
                \A p \in PathSet : s[p] \in Contents[p]}

ASSUME ContentsAssumption == \A p \in PathSet : \A f \in Contents[p] : WellFormed(f)
ASSUME OwnersAssumption == Owners \subseteq PathSet \X STRING
ASSUME BasesAssumption == Bases \subseteq Snapshots

VARIABLES
    base,     \* the snapshot on disk: every overlay is made from it
    files,    \* the snapshot in use
    entries,  \* owner -> [answer, deps], for the owners asked about
    cells     \* delegating getter -> [type, deps], for those inferred

vars == <<base, files, entries, cells>>

(* ---------------------- what two snapshots differ in ------------------- *)

ChangedFiles(old, new) == {p \in PathSet : old[p] # new[p]}

(* How often a file declares each name, by the kind of the name.           *)
NameCounts(f) ==
    LET getters == {n \in DOMAIN f.types : f.types[n].getter # "none"}
        kinds == {<<"type", <<n>> >> : n \in DOMAIN f.types}
                   \cup {<<"type", <<f.package, n>> >> : n \in DOMAIN f.types}
                   \cup {<<"alias", a>> : a \in f.aliases}
                   \cup {<<"alias", <<f.package>> \o a>> : a \in f.aliases}
                   \cup (IF getters = {} THEN {} ELSE {<<"member", <<"value">> >>})
    IN  [k \in kinds |-> IF k[1] = "member" THEN Cardinality(getters) ELSE 1]

NoChangedNames(old, new) == {}

ChangedNames(old, new) ==
    LET counts(s, p, k) == IF k \in DOMAIN NameCounts(s[p])
                           THEN NameCounts(s[p])[k] ELSE 0
        kinds(p) == DOMAIN NameCounts(old[p]) \cup DOMAIN NameCounts(new[p])
    IN  UNION {{k[2] : k \in {k \in kinds(p) : counts(old, p, k) # counts(new, p, k)}} :
                 p \in ChangedFiles(old, new)}

Compatible(deps, old, new) ==
    /\ deps.files \cap ChangedFiles(old, new) = {}
    /\ deps.names \cap ChangedNames(old, new) = {}

(* ------------------------------- actions ------------------------------- *)

Init == /\ base \in Bases
        /\ files = base
        /\ entries = <<>>
        /\ cells = <<>>

(* inferred_simple_property_type, asked from outside a bridge query.       *)
Infer(d) ==
    /\ d \in Delegating(files) \ DOMAIN cells
    /\ cells' = [e \in DOMAIN cells \cup {d} |->
                   IF e = d THEN Inference(files, d) ELSE cells[e]]
    /\ UNCHANGED <<base, files, entries>>

NoCellReads(known, d) == NoReads

(* What a remembered type adds to the answer that asks for it: the reads   *)
(* it was inferred from, recorded now or replayed.                         *)
CellReads(known, d) == known[d].deps

(* covariant_default_getter_bridges for an owner that has no entry: the    *)
(* walk, the inferences it needs, and the record of what both read.  An    *)
(* owner that has an entry is answered from it.                            *)
Query(o) ==
    /\ o \in Declarations(files) \ DOMAIN entries
    /\ LET known == [d \in DOMAIN cells \cup Asked(files, o) |->
                       IF d \in DOMAIN cells THEN cells[d] ELSE Inference(files, d)]
           entry == [answer |-> Bridges(files, o),
                     deps   |-> JoinAll({WalkReads(files, o)} \cup
                                  {CellReads(known, d) : d \in Asked(files, o)})]
       IN  /\ cells' = known
           /\ entries' = [e \in DOMAIN entries \cup {o} |->
                            IF e = o THEN entry ELSE entries[e]]
    /\ UNCHANGED <<base, files>>

(* carry_compatible_entries: what the new snapshot takes from the old.     *)
Carried(old, new) ==
    {o \in DOMAIN entries : /\ Compatible(entries[o].deps, old, new)
                            /\ o \in Declarations(new)}

(* The snapshot before the new one supplies the entries and is what the    *)
(* new one is compared with; the texts come from the base.                 *)
ComparedWithDisk == base

ComparedWith == files

KeptCells == {}

Overlay(edited) ==
    \E texts \in [edited -> UNION {Contents[p] : p \in edited}] :
        /\ \A p \in edited : texts[p] \in Contents[p]
        /\ files' = [p \in PathSet |-> IF p \in edited THEN texts[p] ELSE base[p]]
        /\ entries' = [o \in Carried(ComparedWith, files') |-> entries[o]]
        /\ cells' = [d \in KeptCells |-> cells[d]]
        /\ UNCHANGED base

Next == \/ \E d \in Declarations(files) : Infer(d)
        \/ \E o \in Owners : Query(o)
        \/ \E edited \in SUBSET PathSet :
              Cardinality(edited) <= MaxEdits /\ Overlay(edited)

Spec == Init /\ [][Next]_vars

(* ------------------------------ properties ----------------------------- *)

(* The cache holds answers for declared classes and types for delegating   *)
(* getters of the snapshot it belongs to.                                  *)
TypeOK ==
    /\ base \in Bases
    /\ files \in Snapshots
    /\ DOMAIN entries \subseteq Owners \cap Declarations(files)
    /\ DOMAIN cells \subseteq Delegating(files)

(* Whatever the snapshots a carried answer has passed through (edits,      *)
(* reverts to the text on disk, a file that appears with a name the answer *)
(* looked for in vain, a rewritten bound of a getter whose type was        *)
(* remembered), it is the answer a new query would compute now.            *)
CachedAnswersFresh ==
    \A o \in DOMAIN entries : entries[o].answer = Bridges(files, o)

(* A remembered type is the type the getter has in this snapshot.          *)
RememberedTypesFresh ==
    \A d \in DOMAIN cells : cells[d] = Inference(files, d)

(* Answers computed with a remembered type record as much as answers that  *)
(* inferred it: what is recorded does not depend on who asked first.       *)
RecordIndependentOfOrder ==
    \A o \in DOMAIN entries : entries[o].deps = Reads(files, o)

(* The types an answer is about: the owner, its ancestors, the names they  *)
(* spell.                                                                  *)
Involved(s, o) ==
    LET about == Ancestors(s, o) \cup {o}
        bounds == {Resolve(s, d[1], Decl(s, d).bound) : d \in about \cap Delegating(s)}
        all == about \cup (bounds \ {None})
                 \cup UNION {Ancestors(s, d) : d \in bounds \ {None}}
    IN  [files |-> {d[1] : d \in all},
         names |-> UNION {{<<d[2]>>} \cup {Simple(n) : n \in Decl(s, d).supertypes}
                            \cup {Simple(n) : n \in {n \in {Decl(s, d).type, Decl(s, d).bound} : n # None}} :
                            d \in all}]

(* A member counts among the names of a file as a type does.              *)
Mentions(f) ==
    {<<n>> : n \in DOMAIN f.types} \cup f.aliases
      \cup {<<"value">> : n \in {n \in DOMAIN f.types : f.types[n].getter # "none"}}

(* An edit of files that hold none of the types an answer is about, and    *)
(* declare none of the names those spell, before or after, keeps it.       *)
UnrelatedEditsKeepAnswers ==
    [][\A o \in DOMAIN entries :
         (\A p \in ChangedFiles(files, files') :
             /\ p \notin Involved(files, o).files
             /\ (Mentions(files[p]) \cup Mentions(files'[p]))
                  \cap Involved(files, o).names = {})
         => /\ o \in DOMAIN entries'
            /\ entries'[o] = entries[o]]_vars

(* What is carried from snapshot to snapshot is what this snapshot says.   *)
CacheConsistent == TypeOK /\ CachedAnswersFresh /\ RememberedTypesFresh
=============================================================================
