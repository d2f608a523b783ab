-------------------------- MODULE GetterResolution --------------------------
(***************************************************************************)
(* What a source index answers about the getters a class inherits, and     *)
(* what it reads to answer (workspace.rs and workspace/default_getters.rs  *)
(* of src/src, with the inference of property_abi.rs).                     *)
(*                                                                         *)
(* A snapshot is a function from the paths of the workspace to file        *)
(* contents.  A content is                                                 *)
(*   [package, stars, imports, aliases, types]                             *)
(* with the packages it star-imports, the qualified names it imports, the  *)
(* type aliases it declares and a function from the simple names of its    *)
(* types to declarations                                                   *)
(*   [supertypes, getter, type, bound].                                    *)
(* One property is followed: "getter" says whether the type declares none, *)
(* a "typed" one, or a "delegating" one (`val value get() = payload.value` *)
(* with payload of a type parameter whose upper bound is "bound").         *)
(*                                                                         *)
(* A name is a sequence of one or two strings: <<"Code">> is simple,       *)
(* <<"q", "Code">> is qualified.  A missing file is the content NoFile,    *)
(* which declares nothing.  A file declares a name once and imports a      *)
(* simple name once, as Kotlin demands; the first of two files that        *)
(* declare one qualified name is the first in the order of Paths.          *)
(***************************************************************************)
EXTENDS Integers, Sequences, FiniteSets

CONSTANTS
    Paths,      \* the paths of the workspace, in sorted order
    Scalars,    \* simple names the code takes for builtin JVM scalars
    Roots       \* supertype names that have no getters (Any, Object)

ASSUME PathsAssumption == Paths \in Seq(STRING)

PathSet == {Paths[i] : i \in DOMAIN Paths}

None == <<>>

NoFile == [package |-> "", stars |-> {}, imports |-> {}, aliases |-> {},
           types |-> <<>>]

Simple(n) == <<n[Len(n)]>>

IsName(n) == n \in Seq(STRING) /\ Len(n) \in {1, 2}

WellFormed(f) ==
    /\ f.package \in STRING
    /\ \A q \in f.imports : IsName(q) /\ Len(q) = 2
    /\ \A a \in f.aliases : IsName(a) /\ Len(a) = 1
    /\ IsFiniteSet(DOMAIN f.types) /\ DOMAIN f.types \subseteq STRING
    /\ \A n \in DOMAIN f.types :
          /\ \A up \in f.types[n].supertypes : IsName(up)
          /\ f.types[n].getter = "typed" => IsName(f.types[n].type)
          /\ f.types[n].getter = "delegating" => IsName(f.types[n].bound)

(* --------------------------- the name indexes -------------------------- *)

Declarations(s) == UNION {{p} \X DOMAIN s[p].types : p \in PathSet}

Decl(s, d) == s[d[1]].types[d[2]]

Key(s, d) == <<s[d[1]].package, d[2]>>

Named(s, simple) == {d \in Declarations(s) : <<d[2]>> = simple}

Aliasing(s, simple) == {p \in PathSet : simple \in s[p].aliases}

Qualified(s, q) == {d \in Declarations(s) : Key(s, d) = q}

Rank(p) == CHOOSE i \in DOMAIN Paths : Paths[i] = p

FirstFile(found) ==
    IF found = {} THEN None
    ELSE CHOOSE d \in found : \A e \in found : Rank(d[1]) <= Rank(e[1])

FindQualified(s, q) == FirstFile(Qualified(s, q))

Found(s, names) == {FindQualified(s, q) : q \in names} \ {None}

Only(found) == IF Cardinality(found) = 1 THEN CHOOSE d \in found : TRUE ELSE None

(* The first tier that holds any declaration decides, if it holds one.     *)
FirstTier(tiers) ==
    LET live == {i \in DOMAIN tiers : tiers[i] # {}}
    IN  IF live = {} THEN None
        ELSE Only(tiers[CHOOSE i \in live : \A j \in live : i <= j])

(* The tiers: the declarations that answer an import, the file's own       *)
(* package, its star imports and the whole workspace.                      *)
Resolve(s, p, n) ==
    IF Len(n) = 2 THEN Only(Found(s, {n}))
    ELSE FirstTier(<<Found(s, {q \in s[p].imports : Simple(q) = n}),
                     Found(s, {<<s[p].package, n[1]>>}),
                     Found(s, {<<k, n[1]>> : k \in s[p].stars}),
                     Named(s, n)>>)

Parents(s, d) ==
    {Resolve(s, d[1], n) : n \in Decl(s, d).supertypes \ Roots} \ {None}

(* ------------------------------ the reads ------------------------------ *)

NoReads == [files |-> {}, names |-> {}]

JoinAll(R) == [files |-> UNION {r.files : r \in R},
               names |-> UNION {r.names : r \in R}]

Join(a, b) == JoinAll({a, b})

AliasReads(s, n) ==
    [files |-> {d[1] : d \in Named(s, Simple(n))} \cup Aliasing(s, Simple(n)),
     names |-> {n, Simple(n)}]

TypeReadsOfAllFiles(s, p, n) == [files |-> PathSet, names |-> {n, Simple(n)}]

TypeReads(s, p, n) ==
    Join(AliasReads(s, n), [files |-> {p}, names |-> {}])

LookupReads(s, d) ==
    [files |-> {d[1]}, names |-> {<<d[2]>>, Key(s, d)}]

EdgeReads(s, d) ==
    JoinAll({LookupReads(s, e) : e \in {d} \cup Parents(s, d)}
              \cup {TypeReads(s, d[1], n) : n \in Decl(s, d).supertypes \ Roots})

(* ------------------- the type of a delegating getter ------------------- *)

(* Declarations k supertype edges above d, each at its nearest level.      *)
NextLevel(s, lower) ==
    LET seen == lower.here \cup lower.below
    IN  [here  |-> (UNION {Parents(s, e) : e \in lower.here}) \ seen,
         below |-> seen]

Climb(s, d) ==
    LET level[k \in Nat] == IF k = 0 THEN [here |-> {d}, below |-> {}]
                            ELSE NextLevel(s, level[k - 1])
    IN  level

Levels(s, d) == [k \in 0 .. Cardinality(Declarations(s)) |-> Climb(s, d)[k].here]

Typed(s, d, k) == /\ Decl(s, d).getter = "typed"
                  /\ k = 0 \/ Decl(s, d).type \in Scalars

(* The nearest typed getters above d (or of d itself, from = 0) and what   *)
(* the walk up to them reads.  An inherited type counts if it is a scalar. *)
TypedLevels(s, levels, from) ==
    {k \in DOMAIN levels : k >= from /\ \E e \in levels[k] : Typed(s, e, k)}

TypesAt(s, levels, k) ==
    {Decl(s, e).type : e \in {e \in levels[k] : Typed(s, e, k)}}

WalkTo(s, levels, typed) ==
    LET at == CHOOSE k \in typed : \A j \in typed : k <= j
        walked == IF typed = {} THEN DOMAIN levels ELSE 0 .. (at - 1)
    IN  [type  |-> IF typed = {} THEN None ELSE Only(TypesAt(s, levels, at)),
         reads |-> JoinAll({EdgeReads(s, e) :
                              e \in UNION {levels[k] : k \in walked}})]

WalkUp(s, levels, from) == WalkTo(s, levels, TypedLevels(s, levels, from))

Nearest(s, d, from) == WalkUp(s, Levels(s, d), from)

(* What the imports of p, or else its package, let it mean by n.            *)
Imported(s, p, n) == {q \in s[p].imports : Simple(q) = Simple(n)}

MeansKey(s, p, n, explicit, starred, key) ==
    IF Len(n) = 2 THEN n = key
    ELSE IF explicit # {} THEN explicit = {key}
    ELSE IF starred # {} THEN {Key(s, e) : e \in starred} = {key}
    ELSE s[p].package = key[1]

Visible(s, p, n, d) ==
    MeansKey(s, p, n, Imported(s, p, n),
             Found(s, {<<k, Simple(n)[1]>> : k \in s[p].stars}), Key(s, d))

(* A getter that delegates to a property of a bound has the type it        *)
(* inherits, if the bound, resolved and visible, gives the same type.      *)
Bounded(s, d, inherited, bound) ==
    IF \/ inherited.type = None
       \/ bound = None
       \/ ~Visible(s, d[1], Decl(s, d).bound, bound)
    THEN [type |-> None, reads |-> NoReads]
    ELSE Nearest(s, bound, 0)

InferredFrom(s, d, inherited, bound, bounded) ==
    [type |-> IF bounded.type = inherited.type THEN inherited.type ELSE None,
     deps |-> JoinAll(
        {LookupReads(s, d), inherited.reads, bounded.reads}
          \cup (IF inherited.type = None THEN {} ELSE {TypeReads(s, d[1], Decl(s, d).bound)})
          \cup (IF bounded.type = None THEN {}
                 ELSE {LookupReads(s, bound), TypeReads(s, d[1], inherited.type)}))]

InferredWith(s, d, inherited, bound) ==
    InferredFrom(s, d, inherited, bound, Bounded(s, d, inherited, bound))

Inference(s, d) ==
    InferredWith(s, d, Nearest(s, d, 1), Resolve(s, d[1], Decl(s, d).bound))

(* -------------------- the contracts a class inherits ------------------- *)

Ancestors(s, o) ==
    LET levels == Levels(s, o)
    IN  (UNION {levels[k] : k \in DOMAIN levels}) \ {o}

Edges(s, o) ==
    UNION {{<<d, n>> : n \in Decl(s, d).supertypes \ Roots} :
             d \in Ancestors(s, o) \cup {o}}

Ambiguous(s, d) == Cardinality(Qualified(s, Key(s, d))) # 1

AliasVisible(s, p, n, q) ==
    LET alias == <<s[q].package>> \o Simple(n)
    IN  IF Len(n) = 2 THEN n = alias
        ELSE \/ q = p
             \/ s[q].package = s[p].package
             \/ alias \in s[p].imports
             \/ s[q].package \in s[p].stars

(* The identity of a return type: a source declaration, a type outside the *)
(* workspace, or unknown (None).                                           *)
Canonical(s, p, n) ==
    LET visible == {d \in Named(s, Simple(n)) : Visible(s, p, n, d)}
        explicit == Imported(s, p, n)
    IN  IF \E q \in Aliasing(s, Simple(n)) : AliasVisible(s, p, n, q) THEN None
        ELSE IF visible # {}
             THEN IF Only(visible) = None THEN None ELSE <<"source">> \o Only(visible)
        ELSE IF Len(n) = 2 THEN <<"external">> \o n
        ELSE IF explicit # {}
             THEN <<"external">> \o (CHOOSE q \in explicit : TRUE)
        ELSE IF Named(s, n) # {} \/ n \notin Scalars THEN None
        ELSE <<"external">> \o n

Delegating(s) == {d \in Declarations(s) : Decl(s, d).getter = "delegating"}

GetterType(s, d) ==
    IF d \in Delegating(s) THEN Inference(s, d).type
    ELSE IF Decl(s, d).getter = "typed" THEN Decl(s, d).type ELSE None

(* What decides the bridges of o: whether the walk failed on an ambiguous  *)
(* type, whether it missed an edge, and the inherited getters o does not   *)
(* declare itself, with the identities of their types.                     *)
Bridges(s, o) ==
    LET edges == Edges(s, o)
        above == IF Decl(s, o).getter = "none" THEN Ancestors(s, o) ELSE {}
    IN  [failed     |-> \E d \in Ancestors(s, o) : Ambiguous(s, d),
         incomplete |-> \E e \in edges : Resolve(s, e[1][1], e[2]) = None,
         contracts  |-> {<<d, Canonical(s, d[1], GetterType(s, d))>> :
                           d \in {d \in above : GetterType(s, d) # None}}]

(* What the walk reads by itself, and the declarations it asks the         *)
(* inference about.                                                        *)
Asked(s, o) == Ancestors(s, o) \cap Delegating(s)

WalkReads(s, o) ==
    LET typed == {d \in Ancestors(s, o) : GetterType(s, d) # None}
    IN  JoinAll({LookupReads(s, o)}
                  \cup {EdgeReads(s, d) : d \in Ancestors(s, o) \cup {o}}
                  \cup {AliasReads(s, GetterType(s, d)) : d \in typed})

Reads(s, o) ==
    JoinAll({WalkReads(s, o)} \cup {Inference(s, d).deps : d \in Asked(s, o)})
=============================================================================
