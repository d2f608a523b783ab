---------------------- MODULE GetterBridgeCacheProofs ----------------------
(***************************************************************************)
(* That the cache of GetterBridgeCache answers as a new query would, for   *)
(* every workspace, every set of owners and every chain of snapshots.      *)
(*                                                                         *)
(* The argument is in three parts.  What a query records decides its       *)
(* answer (RecordDecides): a name whose files and declarations are the     *)
(* same resolves alike, a step up the supertypes therefore leads to the    *)
(* same parents, the levels above a class are the same one by one, and     *)
(* with them the nearest typed getters, the inferred types and the         *)
(* identities of the return types.  The cache then only has to keep the    *)
(* record with the answer (CacheInv).  And what a query records lies near  *)
(* the types it is about (NearRecord), so unrelated edits keep the answer. *)
(***************************************************************************)
EXTENDS GetterBridgeCache, FiniteSetTheorems, SequenceTheorems, WellFoundedInduction, TLAPS

(* An entry holds the answer and the record of a query made now.  The      *)
(* record is part of it: without it an entry could be right today and be   *)
(* carried over an edit it depends on.                                     *)
EntriesExact ==
    /\ DOMAIN entries \subseteq Owners \cap Declarations(files)
    /\ \A o \in DOMAIN entries :
          entries[o] = [answer |-> Bridges(files, o), deps |-> Reads(files, o)]

CacheInv ==
    /\ base \in Bases /\ base \in Snapshots
    /\ files \in Snapshots
    /\ EntriesExact
    /\ DOMAIN cells \subseteq Delegating(files)
    /\ RememberedTypesFresh

LEMMA CacheInit == Init => CacheInv
  BY BasesAssumption
     DEF Init, CacheInv, EntriesExact, RememberedTypesFresh

(* Remembering a type leaves the snapshot and the entries as they are.     *)
LEMMA CacheInfer ==
  ASSUME CacheInv, NEW d \in Declarations(files), Infer(d)
  PROVE  CacheInv'
<1>1. files' = files /\ base' = base /\ entries' = entries
  BY DEF Infer
<1>2. RememberedTypesFresh'
  <2>1. SUFFICES ASSUME NEW e \in DOMAIN cells'
                 PROVE  cells'[e] = Inference(files, e)
    BY <1>1 DEF RememberedTypesFresh
  <2>2. /\ e \in DOMAIN cells \cup {d}
        /\ cells'[e] = IF e = d THEN Inference(files, d) ELSE cells[e]
    BY <2>1 DEF Infer
  <2>. QED  BY <2>2 DEF CacheInv, RememberedTypesFresh
<1>3. DOMAIN cells' \subseteq Delegating(files')
  BY <1>1 DEF CacheInv, Infer
<1>. QED  BY <1>1, <1>2, <1>3 DEF CacheInv, EntriesExact

(* A query records what it reads, be the types it asks for remembered or   *)
(* inferred on the way.                                                    *)
LEMMA CacheQuery ==
  ASSUME CacheInv, NEW o \in Owners, Query(o)
  PROVE  CacheInv'
<1>. DEFINE known == [d \in DOMAIN cells \cup Asked(files, o) |->
                        IF d \in DOMAIN cells THEN cells[d] ELSE Inference(files, d)]
            record == JoinAll({WalkReads(files, o)} \cup
                                {CellReads(known, d) : d \in Asked(files, o)})
            entry == [answer |-> Bridges(files, o), deps |-> record]
<1>1. /\ files' = files /\ base' = base
      /\ o \in Declarations(files)
      /\ cells' = known
      /\ entries' = [e \in DOMAIN entries \cup {o} |->
                       IF e = o THEN entry ELSE entries[e]]
  BY DEF Query
<1>2. \A d \in DOMAIN known : known[d] = Inference(files, d)
  BY DEF CacheInv, RememberedTypesFresh
<1>3. record = Reads(files, o)
  <2>1. \A d \in Asked(files, o) : CellReads(known, d) = Inference(files, d).deps
    BY <1>2 DEF CellReads
  <2>2. {CellReads(known, d) : d \in Asked(files, o)}
          = {Inference(files, d).deps : d \in Asked(files, o)}
    BY <2>1
  <2>. QED  BY <2>2 DEF Reads
<1>4. EntriesExact'
  <2>. HIDE DEF record
  <2>1. DOMAIN entries' \subseteq Owners \cap Declarations(files)
    BY <1>1 DEF CacheInv, EntriesExact
  <2>2. ASSUME NEW e \in DOMAIN entries'
        PROVE  entries'[e] = [answer |-> Bridges(files, e), deps |-> Reads(files, e)]
    BY <1>1, <1>3 DEF CacheInv, EntriesExact
  <2>. QED  BY <1>1, <2>1, <2>2 DEF EntriesExact
<1>5. RememberedTypesFresh'
  <2>. HIDE DEF known
  <2>. QED  BY <1>1, <1>2 DEF RememberedTypesFresh
<1>6. DOMAIN cells' \subseteq Delegating(files')
  <2>1. DOMAIN known \subseteq Delegating(files)
    BY DEF CacheInv, Asked
  <2>. HIDE DEF known
  <2>. QED  BY <1>1, <2>1
<1>. QED  BY <1>1, <1>4, <1>5, <1>6 DEF CacheInv

-------------------------------------------------------------------------------
(* Names.  A file declares a name as often in two snapshots unless the name *)
(* is one the comparison of the snapshots reports.                         *)
LEMMA SnapshotFiles ==
  ASSUME NEW s \in Snapshots, NEW p \in PathSet
  PROVE  WellFormed(s[p])
  BY ContentsAssumption DEF Snapshots

LEMMA DeclarationParts ==
  ASSUME NEW s \in Snapshots, NEW d
  PROVE  d \in Declarations(s) <=>
           \E p \in PathSet : \E n \in DOMAIN s[p].types : d = <<p, n>>
  BY DEF Declarations

LEMMA TypesCounted ==
  ASSUME NEW f, WellFormed(f), NEW n, NEW k
  PROVE  /\ <<"type", <<n>> >> \in DOMAIN NameCounts(f) <=> n \in DOMAIN f.types
         /\ <<"type", <<k, n>> >> \in DOMAIN NameCounts(f)
              <=> n \in DOMAIN f.types /\ k = f.package
<1>. DEFINE getters == {m \in DOMAIN f.types : f.types[m].getter # "none"}
            members == IF getters = {} THEN {} ELSE {<<"member", <<"value">> >>}
<1>1. DOMAIN NameCounts(f) =
        {<<"type", <<m>> >> : m \in DOMAIN f.types}
          \cup {<<"type", <<f.package, m>> >> : m \in DOMAIN f.types}
          \cup {<<"alias", a>> : a \in f.aliases}
          \cup {<<"alias", <<f.package>> \o a>> : a \in f.aliases}
          \cup members
  BY DEF NameCounts
<1>2. \A m \in members : m[1] = "member"
  OBVIOUS
<1>. HIDE DEF members
<1>3. \A x, m : <<x>> # <<k, m>> /\ (<<x>> = <<m>> => x = m)
  OBVIOUS
<1>4. <<"type", <<n>> >> \in DOMAIN NameCounts(f) <=> n \in DOMAIN f.types
  BY <1>1, <1>2
<1>5. <<"type", <<k, n>> >> \in DOMAIN NameCounts(f) <=> n \in DOMAIN f.types /\ k = f.package
  BY <1>1, <1>2
<1>. QED  BY <1>4, <1>5

LEMMA AliasesCounted ==
  ASSUME NEW f, WellFormed(f), NEW a, IsName(a), Len(a) = 1
  PROVE  <<"alias", a>> \in DOMAIN NameCounts(f) <=> a \in f.aliases
<1>. DEFINE getters == {m \in DOMAIN f.types : f.types[m].getter # "none"}
            members == IF getters = {} THEN {} ELSE {<<"member", <<"value">> >>}
<1>1. DOMAIN NameCounts(f) =
        {<<"type", <<m>> >> : m \in DOMAIN f.types}
          \cup {<<"type", <<f.package, m>> >> : m \in DOMAIN f.types}
          \cup {<<"alias", b>> : b \in f.aliases}
          \cup {<<"alias", <<f.package>> \o b>> : b \in f.aliases}
          \cup members
  BY DEF NameCounts
<1>2. \A m \in members : m[1] = "member"
  OBVIOUS
<1>. HIDE DEF members
<1>3. \A b \in f.aliases : <<f.package>> \o b # a
  <2>. TAKE b \in f.aliases
  <2>1. b \in Seq(STRING) /\ Len(b) = 1 /\ <<f.package>> \in Seq(STRING) /\ Len(<<f.package>>) = 1
    BY DEF WellFormed, IsName
  <2>2. Len(<<f.package>> \o b) = Len(<<f.package>>) + Len(b)
    BY <2>1, ConcatProperties
  <2>3. Len(<<f.package>> \o b) # Len(a)
    BY <2>1, <2>2
  <2>. QED  BY <2>3
<1>. QED  BY <1>1, <1>2, <1>3

LEMMA CountOne ==
  ASSUME NEW f, NEW k \in DOMAIN NameCounts(f), k[1] # "member"
  PROVE  NameCounts(f)[k] = 1
  BY DEF NameCounts

LEMMA UnchangedCounts ==
  ASSUME NEW old, NEW new, NEW p \in PathSet,
         NEW kind, kind # "member", NEW name, name \notin ChangedNames(old, new)
  PROVE  <<kind, name>> \in DOMAIN NameCounts(old[p]) <=>
           <<kind, name>> \in DOMAIN NameCounts(new[p])
<1>. DEFINE k == <<kind, name>>
            count(s) == IF k \in DOMAIN NameCounts(s[p]) THEN NameCounts(s[p])[k] ELSE 0
<1>1. CASE old[p] = new[p]
  BY <1>1
<1>2. CASE old[p] # new[p]
  <2>1. p \in ChangedFiles(old, new)
    BY <1>2 DEF ChangedFiles
  <2>2. ASSUME k \in DOMAIN NameCounts(old[p]) \cup DOMAIN NameCounts(new[p])
        PROVE  count(old) = count(new)
    <3>1. k[2] = name
      OBVIOUS
    <3>2. SUFFICES ASSUME count(old) # count(new) PROVE name \in ChangedNames(old, new)
      OBVIOUS
    <3>. HIDE DEF k
    <3>. QED  BY <2>1, <2>2, <3>1, <3>2 DEF ChangedNames
  <2>3. k[1] # "member"
    OBVIOUS
  <2>4. \A s : k \in DOMAIN NameCounts(s[p]) => count(s) = 1
    BY <2>3, CountOne
  <2>. HIDE DEF k
  <2>5. k \in DOMAIN NameCounts(old[p]) <=> k \in DOMAIN NameCounts(new[p])
    BY <2>2, <2>4
  <2>. QED  BY <2>5 DEF k
<1>. QED  BY <1>1, <1>2

LEMMA NamedUnchanged ==
  ASSUME NEW old \in Snapshots, NEW new \in Snapshots, NEW n,
         <<n>> \notin ChangedNames(old, new)
  PROVE  Named(new, <<n>>) = Named(old, <<n>>)
<1>1. \A p \in PathSet : n \in DOMAIN old[p].types <=> n \in DOMAIN new[p].types
  <2>. TAKE p \in PathSet
  <2>1. WellFormed(old[p]) /\ WellFormed(new[p])
    BY SnapshotFiles
  <2>2. <<"type", <<n>> >> \in DOMAIN NameCounts(old[p])
          <=> <<"type", <<n>> >> \in DOMAIN NameCounts(new[p])
    BY UnchangedCounts
  <2>3. /\ <<"type", <<n>> >> \in DOMAIN NameCounts(old[p]) <=> n \in DOMAIN old[p].types
        /\ <<"type", <<n>> >> \in DOMAIN NameCounts(new[p]) <=> n \in DOMAIN new[p].types
    BY <2>1, TypesCounted
  <2>. QED  BY <2>2, <2>3
<1>2. ASSUME NEW s \in Snapshots, NEW d
      PROVE  d \in Named(s, <<n>>) <=> \E p \in PathSet : n \in DOMAIN s[p].types /\ d = <<p, n>>
  BY DeclarationParts DEF Named
<1>3. \A d : d \in Named(new, <<n>>) <=> d \in Named(old, <<n>>)
  BY <1>1, <1>2
<1>. QED  BY <1>3

LEMMA QualifiedUnchanged ==
  ASSUME NEW old \in Snapshots, NEW new \in Snapshots, NEW k, NEW n,
         <<k, n>> \notin ChangedNames(old, new)
  PROVE  Qualified(new, <<k, n>>) = Qualified(old, <<k, n>>)
<1>1. \A p \in PathSet : n \in DOMAIN old[p].types /\ old[p].package = k
                           <=> n \in DOMAIN new[p].types /\ new[p].package = k
  <2>. TAKE p \in PathSet
  <2>1. WellFormed(old[p]) /\ WellFormed(new[p])
    BY SnapshotFiles
  <2>2. <<"type", <<k, n>> >> \in DOMAIN NameCounts(old[p])
          <=> <<"type", <<k, n>> >> \in DOMAIN NameCounts(new[p])
    BY UnchangedCounts
  <2>3. /\ <<"type", <<k, n>> >> \in DOMAIN NameCounts(old[p])
             <=> n \in DOMAIN old[p].types /\ k = old[p].package
        /\ <<"type", <<k, n>> >> \in DOMAIN NameCounts(new[p])
             <=> n \in DOMAIN new[p].types /\ k = new[p].package
    BY <2>1, TypesCounted
  <2>. QED  BY <2>2, <2>3
<1>2. ASSUME NEW s \in Snapshots, NEW d
      PROVE  d \in Qualified(s, <<k, n>>) <=>
               \E p \in PathSet : n \in DOMAIN s[p].types /\ s[p].package = k /\ d = <<p, n>>
  BY DeclarationParts DEF Qualified, Key
<1>3. \A d : d \in Qualified(new, <<k, n>>) <=> d \in Qualified(old, <<k, n>>)
  BY <1>1, <1>2
<1>. QED  BY <1>3

LEMMA AliasingUnchanged ==
  ASSUME NEW old \in Snapshots, NEW new \in Snapshots, NEW a, IsName(a), Len(a) = 1,
         a \notin ChangedNames(old, new)
  PROVE  Aliasing(new, a) = Aliasing(old, a)
<1>1. \A p \in PathSet : a \in old[p].aliases <=> a \in new[p].aliases
  <2>. TAKE p \in PathSet
  <2>1. WellFormed(old[p]) /\ WellFormed(new[p])
    BY SnapshotFiles
  <2>. QED  BY <2>1, AliasesCounted, UnchangedCounts
<1>. QED  BY <1>1 DEF Aliasing

-------------------------------------------------------------------------------
(* Names resolve alike in two snapshots that agree on them: the same files *)
(* declare or alias the name, and these files are the same.                *)
Agrees(old, new, name) ==
    /\ Named(new, name) = Named(old, name)
    /\ Aliasing(new, name) = Aliasing(old, name)
    /\ \A d \in Named(old, name) : new[d[1]] = old[d[1]]
    /\ \A p \in Aliasing(old, name) : new[p] = old[p]

LEMMA CompatibleParts ==
  ASSUME NEW old, NEW new, NEW R, Compatible(JoinAll(R), old, new), NEW r \in R
  PROVE  Compatible(r, old, new)
<1>1. /\ JoinAll(R).files = UNION {q.files : q \in R}
      /\ JoinAll(R).names = UNION {q.names : q \in R}
  BY DEF JoinAll
<1>2. r.files \subseteq JoinAll(R).files /\ r.names \subseteq JoinAll(R).names
  BY <1>1
<1>. QED  BY <1>2 DEF Compatible

LEMMA FileUnchanged ==
  ASSUME NEW old, NEW new, NEW r, Compatible(r, old, new), NEW p \in PathSet, p \in r.files
  PROVE  new[p] = old[p]
  BY DEF Compatible, ChangedFiles

LEMMA NameShape ==
  ASSUME NEW n, IsName(n)
  PROVE  /\ Len(n) = 1 \/ Len(n) = 2
         /\ Len(n) = 1 => n = <<n[1]>> /\ Simple(n) = n
         /\ Len(n) = 2 => n = <<n[1], n[2]>> /\ Simple(n) = <<n[2]>>
         /\ IsName(Simple(n)) /\ Len(Simple(n)) = 1 /\ Simple(n)[1] = n[Len(n)]
  BY DEF IsName, Simple

LEMMA NamedIn ==
  ASSUME NEW s \in Snapshots, NEW m, NEW d \in Named(s, <<m>>)
  PROVE  d[1] \in PathSet /\ m \in DOMAIN s[d[1]].types /\ d = <<d[1], m>> /\ d \in Declarations(s)
  BY DeclarationParts DEF Named

LEMMA AliasReadsAgree ==
  ASSUME NEW old \in Snapshots, NEW new \in Snapshots, NEW n, IsName(n),
         Compatible(AliasReads(old, n), old, new)
  PROVE  Agrees(old, new, Simple(n))
<1>. DEFINE m == n[Len(n)]
<1>1. Simple(n) = <<m>> /\ IsName(Simple(n)) /\ Len(Simple(n)) = 1
  BY NameShape DEF Simple
<1>2. /\ AliasReads(old, n).files = {d[1] : d \in Named(old, <<m>>)} \cup Aliasing(old, <<m>>)
      /\ AliasReads(old, n).names = {n, <<m>>}
  BY <1>1 DEF AliasReads
<1>3. <<m>> \notin ChangedNames(old, new)
  BY <1>2 DEF Compatible
<1>4. Named(new, <<m>>) = Named(old, <<m>>)
  BY <1>3, NamedUnchanged
<1>5. Aliasing(new, <<m>>) = Aliasing(old, <<m>>)
  BY <1>1, <1>3, AliasingUnchanged
<1>6. \A d \in Named(old, <<m>>) : new[d[1]] = old[d[1]]
  BY <1>2, NamedIn, FileUnchanged
<1>7. \A p \in Aliasing(old, <<m>>) : new[p] = old[p]
  BY <1>2, FileUnchanged DEF Aliasing
<1>. QED  BY <1>1, <1>4, <1>5, <1>6, <1>7 DEF Agrees

LEMMA TypeReadsAgree ==
  ASSUME NEW old \in Snapshots, NEW new \in Snapshots, NEW p \in PathSet, NEW n, IsName(n),
         Compatible(TypeReads(old, p, n), old, new)
  PROVE  Agrees(old, new, Simple(n)) /\ new[p] = old[p]
<1>. DEFINE here == [files |-> {p}, names |-> {}]
            parts == {AliasReads(old, n), here}
<1>1. TypeReads(old, p, n) = JoinAll(parts)
  BY DEF TypeReads, Join
<1>2. AliasReads(old, n) \in parts /\ here \in parts
  OBVIOUS
<1>3. p \in here.files
  OBVIOUS
<1>. HIDE DEF parts, here
<1>4. Compatible(AliasReads(old, n), old, new) /\ Compatible(here, old, new)
  BY <1>1, <1>2, CompatibleParts
<1>. QED  BY <1>3, <1>4, AliasReadsAgree, FileUnchanged

LEMMA QualifiedOfNamed ==
  ASSUME NEW s \in Snapshots, NEW k, NEW m
  PROVE  Qualified(s, <<k, m>>) = {d \in Named(s, <<m>>) : s[d[1]].package = k}
<1>1. \A d : d \in Named(s, <<m>>) <=> d \in Declarations(s) /\ d[2] = m
  BY DEF Named
<1>2. \A d : d \in Qualified(s, <<k, m>>) <=>
               d \in Declarations(s) /\ s[d[1]].package = k /\ d[2] = m
  BY DEF Qualified, Key
<1>. QED  BY <1>1, <1>2

LEMMA QualifiedAgree ==
  ASSUME NEW old \in Snapshots, NEW new \in Snapshots, NEW m, Agrees(old, new, <<m>>), NEW k
  PROVE  Qualified(new, <<k, m>>) = Qualified(old, <<k, m>>)
<1>1. /\ Qualified(new, <<k, m>>) = {d \in Named(new, <<m>>) : new[d[1]].package = k}
      /\ Qualified(old, <<k, m>>) = {d \in Named(old, <<m>>) : old[d[1]].package = k}
  BY QualifiedOfNamed, Zenon
<1>2. Named(new, <<m>>) = Named(old, <<m>>) /\ \A d \in Named(old, <<m>>) : new[d[1]] = old[d[1]]
  BY DEF Agrees
<1>3. \A d \in Named(old, <<m>>) : new[d[1]].package = k <=> old[d[1]].package = k
  BY <1>2
<1>. QED  BY <1>1, <1>2, <1>3

LEMMA FoundAgree ==
  ASSUME NEW old \in Snapshots, NEW new \in Snapshots, NEW m, Agrees(old, new, <<m>>),
         NEW Q, \A q \in Q : \E k : q = <<k, m>>
  PROVE  Found(new, Q) = Found(old, Q)
<1>1. \A q \in Q : FindQualified(new, q) = FindQualified(old, q)
  BY QualifiedAgree DEF FindQualified
<1>. QED  BY <1>1 DEF Found

(* The sets of qualified names that resolution tries for a simple one.     *)
LEMMA TriedNames ==
  ASSUME NEW s \in Snapshots, NEW p \in PathSet, NEW m
  PROVE  /\ \A q \in {q \in s[p].imports : Simple(q) = <<m>>} : \E k : q = <<k, m>>
         /\ \A q \in {<<s[p].package, m>>} : \E k : q = <<k, m>>
         /\ \A q \in {<<k, m>> : k \in s[p].stars} : \E k : q = <<k, m>>
<1>1. ASSUME NEW q \in s[p].imports, Simple(q) = <<m>> PROVE q = <<q[1], m>>
  <2>1. IsName(q) /\ Len(q) = 2
    BY SnapshotFiles DEF WellFormed
  <2>2. q = <<q[1], q[2]>> /\ Simple(q) = <<q[2]>>
    BY <2>1, NameShape
  <2>. QED  BY <1>1, <2>2
<1>. QED  BY <1>1

LEMMA ResolveAgree ==
  ASSUME NEW old \in Snapshots, NEW new \in Snapshots, NEW p \in PathSet, NEW n, IsName(n),
         Agrees(old, new, Simple(n)), new[p] = old[p]
  PROVE  Resolve(new, p, n) = Resolve(old, p, n)
<1>1. CASE Len(n) = 2
  <2>1. n = <<n[1], n[2]>> /\ Simple(n) = <<n[2]>>
    BY <1>1, NameShape
  <2>2. Found(new, {n}) = Found(old, {n})
    BY <2>1, FoundAgree
  <2>. QED  BY <1>1, <2>2 DEF Resolve
<1>2. CASE Len(n) = 1
  <2>. DEFINE m == n[1]
  <2>1. n = <<m>> /\ Simple(n) = <<m>>
    BY <1>2, NameShape
  <2>2. Agrees(old, new, <<m>>)
    BY <2>1
  <2>. DEFINE imported == {q \in old[p].imports : Simple(q) = n}
              own == {<<old[p].package, m>>}
              starred == {<<k, m>> : k \in old[p].stars}
  <2>3. /\ \A q \in imported : \E k : q = <<k, m>>
        /\ \A q \in own : \E k : q = <<k, m>>
        /\ \A q \in starred : \E k : q = <<k, m>>
    BY <2>1, TriedNames
  <2>. HIDE DEF m
  <2>4. Found(new, imported) = Found(old, imported) /\ Found(new, own) = Found(old, own)
        /\ Found(new, starred) = Found(old, starred)
    <3>. HIDE DEF imported, own, starred
    <3>. QED  BY <2>2, <2>3, FoundAgree
  <2>5. Named(new, n) = Named(old, n)
    BY <2>1, <2>2 DEF Agrees
  <2>6. Resolve(old, p, n) = FirstTier(<<Found(old, imported), Found(old, own),
                                         Found(old, starred), Named(old, n)>>)
    BY <1>2 DEF Resolve, m
  <2>7. Resolve(new, p, n) = FirstTier(<<Found(new, imported), Found(new, own),
                                         Found(new, starred), Named(new, n)>>)
    BY <1>2 DEF Resolve, m
  <2>. QED  BY <2>4, <2>5, <2>6, <2>7
<1>. QED  BY <1>1, <1>2, NameShape

(* What resolution finds is declared under the name.                       *)
LEMMA Least ==
  ASSUME NEW T, T \subseteq Nat, T # {}
  PROVE  \E n \in T : \A m \in T : n <= m
<1>. DEFINE R == OpToRel(<, Nat)
<1>1. PICK n \in T : \A m \in T : ~(<<m, n>> \in R)
  BY WFMin, NatLessThanWellFounded, Zenon
<1>2. \A m \in T : ~(m < n)
  BY <1>1, Zenon DEF OpToRel
<1>. HIDE DEF R
<1>. QED BY <1>2

LEMMA FirstFileIn ==
  ASSUME NEW found, found # {}, \A d \in found : d[1] \in PathSet
  PROVE  FirstFile(found) \in found
<1>1. \A p \in PathSet : Rank(p) \in Nat
  <2>1. DOMAIN Paths \subseteq Nat
    BY PathsAssumption
  <2>. QED  BY <2>1 DEF Rank, PathSet
<1>. DEFINE ranks == {Rank(d[1]) : d \in found}
<1>2. ranks \subseteq Nat /\ ranks # {}
  BY <1>1
<1>3. PICK r \in ranks : \A q \in ranks : r <= q
  <2>. HIDE DEF ranks
  <2>. QED  BY <1>2, Least
<1>4. \E d \in found : \A e \in found : Rank(d[1]) <= Rank(e[1])
  BY <1>3
<1>. QED  BY <1>4 DEF FirstFile

LEMMA FoundIn ==
  ASSUME NEW s \in Snapshots, NEW m, NEW Q, \A q \in Q : \E k : q = <<k, m>>
  PROVE  Found(s, Q) \subseteq Named(s, <<m>>)
<1>. SUFFICES ASSUME NEW q \in Q, FindQualified(s, q) # None
              PROVE  FindQualified(s, q) \in Named(s, <<m>>)
  BY DEF Found
<1>1. PICK k : q = <<k, m>>
  OBVIOUS
<1>2. Qualified(s, q) \subseteq Named(s, <<m>>)
  BY <1>1, QualifiedOfNamed
<1>3. Qualified(s, q) # {}
  BY DEF FindQualified, FirstFile
<1>. QED  BY <1>2, <1>3, NamedIn, FirstFileIn DEF FindQualified

LEMMA OnlyIn ==
  ASSUME NEW found
  PROVE  Only(found) = None \/ Only(found) \in found
<1>1. Cardinality(found) = 1 => found # {}
  BY FS_EmptySet
<1>. QED  BY <1>1 DEF Only

LEMMA ResolveIn ==
  ASSUME NEW s \in Snapshots, NEW p \in PathSet, NEW n, IsName(n), Resolve(s, p, n) # None
  PROVE  Resolve(s, p, n) \in Named(s, Simple(n))
<1>1. CASE Len(n) = 2
  <2>1. n = <<n[1], n[2]>> /\ Simple(n) = <<n[2]>>
    BY <1>1, NameShape
  <2>2. Found(s, {n}) \subseteq Named(s, Simple(n))
    BY <2>1, FoundIn
  <2>. QED  BY <1>1, <2>2, OnlyIn DEF Resolve
<1>2. CASE Len(n) = 1
  <2>. DEFINE m == n[1]
              imported == {q \in s[p].imports : Simple(q) = n}
              own == {<<s[p].package, m>>}
              starred == {<<k, m>> : k \in s[p].stars}
              tiers == <<Found(s, imported), Found(s, own), Found(s, starred), Named(s, n)>>
              live == {i \in DOMAIN tiers : tiers[i] # {}}
  <2>1. n = <<m>> /\ Simple(n) = <<m>>
    BY <1>2, NameShape
  <2>2. /\ \A q \in imported : \E k : q = <<k, m>>
        /\ \A q \in own : \E k : q = <<k, m>>
        /\ \A q \in starred : \E k : q = <<k, m>>
    BY <2>1, TriedNames
  <2>3. Resolve(s, p, n) = FirstTier(tiers)
    BY <1>2 DEF Resolve
  <2>. HIDE DEF m
  <2>4. /\ Found(s, imported) \subseteq Named(s, n) /\ Found(s, own) \subseteq Named(s, n)
        /\ Found(s, starred) \subseteq Named(s, n)
    <3>. HIDE DEF imported, own, starred
    <3>. QED  BY <2>1, <2>2, FoundIn
  <2>. HIDE DEF imported, own, starred
  <2>5. \A i \in DOMAIN tiers : tiers[i] \subseteq Named(s, n)
    BY <2>4
  <2>6. live \subseteq Nat
    OBVIOUS
  <2>. HIDE DEF tiers
  <2>7. live # {}
    BY <2>3 DEF FirstTier
  <2>8. (CHOOSE i \in live : \A j \in live : i <= j) \in live
    <3>. HIDE DEF live
    <3>1. \E i \in live : \A j \in live : i <= j
      BY <2>6, <2>7, Least
    <3>. QED  BY <3>1
  <2>9. \E i \in DOMAIN tiers : FirstTier(tiers) = Only(tiers[i])
    BY <2>7, <2>8 DEF FirstTier
  <2>. QED  BY <2>1, <2>3, <2>5, <2>9, OnlyIn
<1>. QED  BY <1>1, <1>2, NameShape

LEMMA VisibleAgree ==
  ASSUME NEW old \in Snapshots, NEW new \in Snapshots, NEW p \in PathSet, NEW n, IsName(n),
         Agrees(old, new, Simple(n)), new[p] = old[p], NEW d, new[d[1]] = old[d[1]]
  PROVE  Visible(new, p, n, d) <=> Visible(old, p, n, d)
<1>. DEFINE m == n[Len(n)]
            starred == {<<k, m>> : k \in old[p].stars}
<1>1. Simple(n) = <<m>> /\ Simple(n)[1] = m
  BY NameShape DEF Simple
<1>2. \A q \in starred : \E k : q = <<k, m>>
  OBVIOUS
<1>. HIDE DEF m, starred
<1>3. Found(new, starred) = Found(old, starred)
  BY <1>1, <1>2, FoundAgree
<1>4. Found(old, starred) \subseteq Named(old, <<m>>)
  BY <1>2, FoundIn
<1>5. \A e \in Found(old, starred) : Key(new, e) = Key(old, e)
  BY <1>1, <1>4 DEF Agrees, Key
<1>6. Key(new, d) = Key(old, d)
  BY DEF Key
<1>7. Imported(new, p, n) = Imported(old, p, n)
  BY DEF Imported
<1>8. {Key(new, e) : e \in Found(old, starred)} = {Key(old, e) : e \in Found(old, starred)}
  BY <1>5
<1>9. /\ Visible(old, p, n, d) <=>
             MeansKey(old, p, n, Imported(old, p, n), Found(old, starred), Key(old, d))
      /\ Visible(new, p, n, d) <=>
             MeansKey(new, p, n, Imported(old, p, n), Found(old, starred), Key(old, d))
  BY <1>1, <1>3, <1>6, <1>7 DEF Visible, starred
<1>. QED  BY <1>8, <1>9 DEF MeansKey

LEMMA AliasReadsSame ==
  ASSUME NEW old, NEW new, NEW n, Agrees(old, new, Simple(n))
  PROVE  AliasReads(new, n) = AliasReads(old, n)
  BY DEF Agrees, AliasReads

LEMMA TypeReadsSame ==
  ASSUME NEW old, NEW new, NEW p, NEW n, Agrees(old, new, Simple(n))
  PROVE  TypeReads(new, p, n) = TypeReads(old, p, n)
  BY AliasReadsSame DEF TypeReads

LEMMA LookupReadsSame ==
  ASSUME NEW old, NEW new, NEW d, new[d[1]] = old[d[1]]
  PROVE  LookupReads(new, d) = LookupReads(old, d)
  BY DEF LookupReads, Key

LEMMA DeclSame ==
  ASSUME NEW old, NEW new, NEW d, new[d[1]] = old[d[1]]
  PROVE  Decl(new, d) = Decl(old, d)
  BY DEF Decl

(* The identity of a type is read off the name alone.                      *)
LEMMA CanonicalAgree ==
  ASSUME NEW old \in Snapshots, NEW new \in Snapshots, NEW p \in PathSet, NEW n, IsName(n),
         Agrees(old, new, Simple(n)), new[p] = old[p]
  PROVE  Canonical(new, p, n) = Canonical(old, p, n)
<1>. DEFINE visible(s) == {d \in Named(s, Simple(n)) : Visible(s, p, n, d)}
            aliased(s) == \E q \in Aliasing(s, Simple(n)) : AliasVisible(s, p, n, q)
<1>1. visible(new) = visible(old)
  BY VisibleAgree DEF Agrees
<1>2. aliased(new) <=> aliased(old)
  BY DEF Agrees, AliasVisible
<1>3. Imported(new, p, n) = Imported(old, p, n)
  BY DEF Imported
<1>4. Len(n) # 2 => Named(new, n) = Named(old, n)
  BY NameShape DEF Agrees
<1>. HIDE DEF visible, aliased
<1>5. ASSUME NEW s
      PROVE  Canonical(s, p, n) =
               IF aliased(s) THEN None
               ELSE IF visible(s) # {}
                    THEN IF Only(visible(s)) = None THEN None
                         ELSE <<"source">> \o Only(visible(s))
               ELSE IF Len(n) = 2 THEN <<"external">> \o n
               ELSE IF Imported(s, p, n) # {}
                    THEN <<"external">> \o (CHOOSE q \in Imported(s, p, n) : TRUE)
               ELSE IF Named(s, n) # {} \/ n \notin Scalars THEN None
               ELSE <<"external">> \o n
  BY Zenon DEF Canonical, visible, aliased
<1>. QED  BY <1>1, <1>2, <1>3, <1>4, <1>5, Zenon

(* What a declaration of a snapshot looks like.                            *)
LEMMA DeclShape ==
  ASSUME NEW s \in Snapshots, NEW d \in Declarations(s)
  PROVE  /\ d[1] \in PathSet
         /\ d = <<d[1], d[2]>>
         /\ \A up \in Decl(s, d).supertypes : IsName(up)
         /\ Decl(s, d).getter = "typed" => IsName(Decl(s, d).type)
         /\ Decl(s, d).getter = "delegating" => IsName(Decl(s, d).bound)
<1>1. PICK p \in PathSet : \E n \in DOMAIN s[p].types : d = <<p, n>>
  BY DeclarationParts
<1>2. WellFormed(s[p])
  BY SnapshotFiles
<1>. QED  BY <1>1, <1>2 DEF WellFormed, Decl

LEMMA ParentsIn ==
  ASSUME NEW s \in Snapshots, NEW d \in Declarations(s)
  PROVE  Parents(s, d) \subseteq Declarations(s)
<1>. SUFFICES ASSUME NEW n \in Decl(s, d).supertypes, Resolve(s, d[1], n) # None
              PROVE  Resolve(s, d[1], n) \in Declarations(s)
  BY DEF Parents
<1>1. IsName(n) /\ d[1] \in PathSet
  BY DeclShape
<1>. QED  BY <1>1, ResolveIn DEF Named

(* What one step up from a declaration reads decides the step.             *)
LEMMA EdgeAgree ==
  ASSUME NEW old \in Snapshots, NEW new \in Snapshots, NEW d \in Declarations(old),
         Compatible(EdgeReads(old, d), old, new)
  PROVE  /\ new[d[1]] = old[d[1]]
         /\ \A n \in Decl(old, d).supertypes \ Roots :
               Resolve(new, d[1], n) = Resolve(old, d[1], n)
         /\ Parents(new, d) = Parents(old, d)
         /\ EdgeReads(new, d) = EdgeReads(old, d)
         /\ \A e \in Parents(old, d) : new[e[1]] = old[e[1]]
<1>. DEFINE ups == Decl(old, d).supertypes \ Roots
            looked == {LookupReads(old, e) : e \in {d} \cup Parents(old, d)}
            typed == {TypeReads(old, d[1], n) : n \in ups}
<1>1. d[1] \in PathSet /\ (\A n \in ups : IsName(n)) /\ Parents(old, d) \subseteq Declarations(old)
  BY DeclShape, ParentsIn
<1>2. EdgeReads(old, d) = JoinAll(looked \cup typed)
  BY DEF EdgeReads
<1>3. \A e \in {d} \cup Parents(old, d) : new[e[1]] = old[e[1]]
  <2>. TAKE e \in {d} \cup Parents(old, d)
  <2>1. LookupReads(old, e) \in looked \cup typed
    OBVIOUS
  <2>. HIDE DEF looked, typed
  <2>2. Compatible(LookupReads(old, e), old, new)
    BY <1>2, <2>1, CompatibleParts
  <2>3. e[1] \in PathSet /\ e[1] \in LookupReads(old, e).files
    BY <1>1, DeclShape DEF LookupReads
  <2>. QED  BY <2>2, <2>3, FileUnchanged
<1>4. \A n \in ups : Agrees(old, new, Simple(n))
  <2>. TAKE n \in ups
  <2>1. TypeReads(old, d[1], n) \in looked \cup typed
    OBVIOUS
  <2>. HIDE DEF looked, typed
  <2>2. Compatible(TypeReads(old, d[1], n), old, new)
    BY <1>2, <2>1, CompatibleParts
  <2>. QED  BY <1>1, <2>2, TypeReadsAgree
<1>5. Decl(new, d) = Decl(old, d)
  BY <1>3, DeclSame
<1>6. \A n \in ups : Resolve(new, d[1], n) = Resolve(old, d[1], n)
  <2>. HIDE DEF ups
  <2>. QED  BY <1>1, <1>3, <1>4, ResolveAgree
<1>7. Parents(new, d) = Parents(old, d)
  <2>1. /\ Parents(old, d) = {Resolve(old, d[1], n) : n \in ups} \ {None}
        /\ Parents(new, d) = {Resolve(new, d[1], n) : n \in ups} \ {None}
    BY <1>5 DEF Parents
  <2>2. {Resolve(old, d[1], n) : n \in ups} = {Resolve(new, d[1], n) : n \in ups}
    BY <1>6
  <2>. QED  BY <2>1, <2>2
<1>8. EdgeReads(new, d) = EdgeReads(old, d)
  <2>1. \A e \in {d} \cup Parents(old, d) : LookupReads(new, e) = LookupReads(old, e)
    BY <1>3, LookupReadsSame
  <2>2. {LookupReads(new, e) : e \in {d} \cup Parents(old, d)} = looked
    BY <2>1
  <2>3. \A n \in ups : TypeReads(new, d[1], n) = TypeReads(old, d[1], n)
    <3>. HIDE DEF ups
    <3>. QED  BY <1>4, TypeReadsSame
  <2>4. {TypeReads(new, d[1], n) : n \in ups} = typed
    BY <2>3
  <2>5. EdgeReads(new, d) =
          JoinAll({LookupReads(new, e) : e \in {d} \cup Parents(old, d)}
                    \cup {TypeReads(new, d[1], n) : n \in ups})
    BY <1>5, <1>7 DEF EdgeReads
  <2>. QED  BY <1>2, <2>2, <2>4, <2>5
<1>. QED  BY <1>3, <1>6, <1>7, <1>8

-------------------------------------------------------------------------------
(* The levels above a declaration: the recursion has a solution, a level   *)
(* holds declarations not yet seen below it, and there are no more levels  *)
(* than declarations.                                                      *)
ClimbedTo(s, d, g, n) ==
    /\ g[0] = [here |-> {d}, below |-> {}]
    /\ \A k \in Nat : k < n => g[k + 1] = NextLevel(s, g[k])

LEMMA ClimbExists ==
  ASSUME NEW s, NEW d, NEW n \in Nat
  PROVE  \E g : ClimbedTo(s, d, g, n)
<1>. DEFINE T == {m \in Nat : ~ \E g : ClimbedTo(s, d, g, m)}
<1>1. SUFFICES ASSUME T # {} PROVE FALSE
  OBVIOUS
<1>2. PICK m \in T : \A j \in T : m <= j
  <2>. HIDE DEF T
  <2>1. T \subseteq Nat
    BY DEF T
  <2>. QED  BY <1>1, <2>1, Least
<1>3. m \in Nat /\ ~ \E g : ClimbedTo(s, d, g, m)
  OBVIOUS
<1>4. CASE m = 0
  <2>1. [k \in {0} |-> [here |-> {d}, below |-> {}]][0] = [here |-> {d}, below |-> {}]
    OBVIOUS
  <2>2. ClimbedTo(s, d, [k \in {0} |-> [here |-> {d}, below |-> {}]], 0)
    BY <2>1 DEF ClimbedTo
  <2>. QED  BY <1>3, <1>4, <2>2
<1>5. CASE m # 0
  <2>1. m - 1 \in Nat /\ m - 1 \notin T
    BY <1>2, <1>3, <1>5
  <2>. HIDE DEF T
  <2>2. PICK g : ClimbedTo(s, d, g, m - 1)
    BY <2>1 DEF T
  <2>. DEFINE h == [k \in 0 .. m |-> IF k = m THEN NextLevel(s, g[m - 1]) ELSE g[k]]
  <2>3. \A k \in Nat : k < m => h[k] = g[k]
    BY <1>3
  <2>4. h[m] = NextLevel(s, g[m - 1])
    BY <1>3
  <2>. HIDE DEF h
  <2>5. h[0] = [here |-> {d}, below |-> {}]
    BY <1>3, <1>5, <2>2, <2>3 DEF ClimbedTo
  <2>6. ASSUME NEW k \in Nat, k < m PROVE h[k + 1] = NextLevel(s, h[k])
    <3>1. CASE k = m - 1
      <4>1. k + 1 = m
        BY <3>1, <1>3
      <4>. QED  BY <2>3, <2>4, <2>6, <3>1, <4>1
    <3>2. CASE k # m - 1
      <4>1. k < m - 1 /\ k + 1 \in Nat /\ k + 1 < m
        BY <2>6, <3>2, <1>3
      <4>2. g[k + 1] = NextLevel(s, g[k])
        BY <2>2, <4>1 DEF ClimbedTo
      <4>. QED  BY <2>3, <2>6, <4>1, <4>2
    <3>. QED  BY <3>1, <3>2
  <2>. QED  BY <1>3, <2>5, <2>6 DEF ClimbedTo
<1>. QED  BY <1>4, <1>5

LEMMA ClimbUnique ==
  ASSUME NEW s, NEW d, NEW n \in Nat, NEW m \in Nat, NEW g, NEW h,
         ClimbedTo(s, d, g, n), ClimbedTo(s, d, h, m),
         NEW k \in Nat, k <= n, k <= m
  PROVE  g[k] = h[k]
<1>. DEFINE T == {j \in Nat : j <= n /\ j <= m /\ g[j] # h[j]}
<1>1. SUFFICES ASSUME T # {} PROVE FALSE
  OBVIOUS
<1>2. PICK j \in T : \A i \in T : j <= i
  <2>. HIDE DEF T
  <2>1. T \subseteq Nat
    BY DEF T
  <2>. QED  BY <1>1, <2>1, Least
<1>3. j \in Nat /\ j <= n /\ j <= m /\ g[j] # h[j]
  OBVIOUS
<1>4. j # 0
  BY <1>3 DEF ClimbedTo
<1>5. j - 1 \in Nat /\ j - 1 < n /\ j - 1 < m /\ j - 1 \notin T /\ (j - 1) + 1 = j
  BY <1>2, <1>3, <1>4
<1>6. g[j - 1] = h[j - 1]
  BY <1>5
<1>7. g[(j - 1) + 1] = NextLevel(s, g[j - 1]) /\ h[(j - 1) + 1] = NextLevel(s, h[j - 1])
  BY <1>5 DEF ClimbedTo
<1>. QED  BY <1>3, <1>5, <1>6, <1>7

LEMMA ClimbSteps ==
  ASSUME NEW s, NEW d
  PROVE  /\ Climb(s, d)[0] = [here |-> {d}, below |-> {}]
         /\ \A k \in Nat : Climb(s, d)[k + 1] = NextLevel(s, Climb(s, d)[k])
<1>. DEFINE G(n) == CHOOSE g : ClimbedTo(s, d, g, n)
            F == [k \in Nat |-> G(k)[k]]
            first == [here |-> {d}, below |-> {}]
            Rec(f) == [k \in Nat |-> IF k = 0 THEN first ELSE NextLevel(s, f[k - 1])]
<1>1. \A n \in Nat : ClimbedTo(s, d, G(n), n)
  BY ClimbExists
<1>. HIDE DEF G
<1>2. F[0] = first
  BY <1>1 DEF ClimbedTo
<1>3. ASSUME NEW k \in Nat, k # 0 PROVE F[k] = NextLevel(s, F[k - 1])
  <2>1. k - 1 \in Nat /\ k - 1 < k /\ (k - 1) + 1 = k
    BY <1>3
  <2>2. ClimbedTo(s, d, G(k), k) /\ ClimbedTo(s, d, G(k - 1), k - 1)
    BY <1>1, <2>1
  <2>3. G(k)[(k - 1) + 1] = NextLevel(s, G(k)[k - 1])
    BY <2>1, <2>2 DEF ClimbedTo
  <2>4. G(k)[k - 1] = G(k - 1)[k - 1]
    BY <2>1, <2>2, ClimbUnique
  <2>. QED  BY <2>1, <2>3, <2>4
<1>4. F = Rec(F)
  BY <1>2, <1>3
<1>5. Climb(s, d) = CHOOSE f : f = Rec(f)
  BY Zenon DEF Climb
<1>. HIDE DEF F
<1>6. Climb(s, d) = Rec(Climb(s, d))
  <2>. HIDE DEF Rec
  <2>. QED  BY <1>4, <1>5
<1>7. Climb(s, d)[0] = first
  BY <1>6
<1>8. ASSUME NEW k \in Nat PROVE Climb(s, d)[k + 1] = NextLevel(s, Climb(s, d)[k])
  <2>. DEFINE C == Climb(s, d)
  <2>1. C = [j \in Nat |-> IF j = 0 THEN first ELSE NextLevel(s, C[j - 1])]
    BY <1>6
  <2>. HIDE DEF C, first
  <2>2. k + 1 \in Nat /\ k + 1 # 0 /\ (k + 1) - 1 = k
    OBVIOUS
  <2>3. C[k + 1] = NextLevel(s, C[(k + 1) - 1])
    BY <2>1, <2>2
  <2>. QED  BY <2>2, <2>3 DEF C
<1>. QED  BY <1>7, <1>8

Here(s, d, k) == Climb(s, d)[k].here
Below(s, d, k) == Climb(s, d)[k].below

LEMMA HereSteps ==
  ASSUME NEW s, NEW d
  PROVE  /\ Here(s, d, 0) = {d} /\ Below(s, d, 0) = {}
         /\ \A k \in Nat :
              /\ Below(s, d, k + 1) = Here(s, d, k) \cup Below(s, d, k)
              /\ Here(s, d, k + 1) = (UNION {Parents(s, e) : e \in Here(s, d, k)})
                                       \ (Here(s, d, k) \cup Below(s, d, k))
<1>1. Here(s, d, 0) = {d} /\ Below(s, d, 0) = {}
  <2>1. Climb(s, d)[0] = [here |-> {d}, below |-> {}]
    BY ClimbSteps
  <2>2. Climb(s, d)[0].here = {d} /\ Climb(s, d)[0].below = {}
    BY <2>1
  <2>. QED  BY <2>2, Zenon DEF Here, Below
<1>2. ASSUME NEW k \in Nat
      PROVE  /\ Below(s, d, k + 1) = Here(s, d, k) \cup Below(s, d, k)
             /\ Here(s, d, k + 1) = (UNION {Parents(s, e) : e \in Here(s, d, k)})
                                      \ (Here(s, d, k) \cup Below(s, d, k))
  <2>1. Climb(s, d)[k + 1] = NextLevel(s, Climb(s, d)[k])
    BY ClimbSteps
  <2>. QED  BY <2>1 DEF Here, Below, NextLevel
<1>. QED  BY <1>1, <1>2

LEMMA DeclarationsFinite ==
  ASSUME NEW s \in Snapshots
  PROVE  IsFiniteSet(Declarations(s))
<1>. DEFINE in(p) == {p} \X DOMAIN s[p].types
            T == {in(p) : p \in PathSet}
            f == [i \in DOMAIN Paths |-> in(Paths[i])]
<1>1. IsFiniteSet(DOMAIN Paths)
  <2>1. DOMAIN Paths = 1 .. Len(Paths) /\ Len(Paths) \in Nat
    BY PathsAssumption
  <2>. QED  BY <2>1, FS_Interval
<1>2. f \in Surjection(DOMAIN Paths, T)
  <2>. HIDE DEF in
  <2>1. f \in [DOMAIN Paths -> T]
    BY DEF PathSet
  <2>2. \A t \in T : \E i \in DOMAIN Paths : f[i] = t
    BY DEF PathSet
  <2>. HIDE DEF f, T
  <2>. QED  BY <2>1, <2>2 DEF Surjection
<1>3. IsFiniteSet(T)
  <2>. HIDE DEF f, T
  <2>. QED  BY <1>1, <1>2, FS_Surjection
<1>4. ASSUME NEW p \in PathSet PROVE IsFiniteSet(in(p))
  <2>1. IsFiniteSet(DOMAIN s[p].types)
    BY SnapshotFiles DEF WellFormed
  <2>2. IsFiniteSet({p})
    BY FS_Singleton
  <2>. QED  BY <2>1, <2>2, FS_Product
<1>5. IsFiniteSet(UNION T)
  <2>1. \A t \in T : IsFiniteSet(t)
    BY <1>4
  <2>. HIDE DEF T
  <2>. QED  BY <1>3, <2>1, FS_UNION
<1>. QED  BY <1>5 DEF Declarations

ClimbInv(s, d, k) ==
    /\ Here(s, d, k) \cup Below(s, d, k) \subseteq Declarations(s)
    /\ Here(s, d, k) \cap Below(s, d, k) = {}
    /\ Here(s, d, k) # {} => Cardinality(Below(s, d, k)) >= k

LEMMA ClimbIn ==
  ASSUME NEW s \in Snapshots, NEW d \in Declarations(s), NEW k \in Nat
  PROVE  ClimbInv(s, d, k)
<1>. DEFINE T == {j \in Nat : ~ClimbInv(s, d, j)}
<1>1. SUFFICES ASSUME T # {} PROVE FALSE
  OBVIOUS
<1>2. PICK j \in T : \A i \in T : j <= i
  <2>. HIDE DEF T
  <2>1. T \subseteq Nat
    BY DEF T
  <2>. QED  BY <1>1, <2>1, Least
<1>3. j \in Nat /\ ~ClimbInv(s, d, j)
  OBVIOUS
<1>4. j # 0
  <2>1. Here(s, d, 0) = {d} /\ Below(s, d, 0) = {}
    BY HereSteps
  <2>2. Cardinality({}) = 0
    BY FS_EmptySet
  <2>3. ClimbInv(s, d, 0)
    BY <2>1, <2>2 DEF ClimbInv
  <2>. QED  BY <1>3, <2>3
<1>. DEFINE i == j - 1
            H == Here(s, d, i)
            B == Below(s, d, i)
<1>5. i \in Nat /\ i \notin T /\ i + 1 = j
  BY <1>2, <1>3, <1>4
<1>6. ClimbInv(s, d, i)
  BY <1>5
<1>. HIDE DEF T, i
<1>7. /\ Below(s, d, j) = H \cup B
      /\ Here(s, d, j) = (UNION {Parents(s, e) : e \in H}) \ (H \cup B)
  BY <1>5, HereSteps
<1>8. H \cup B \subseteq Declarations(s) /\ H \cap B = {} /\ (H # {} => Cardinality(B) >= i)
  BY <1>6 DEF ClimbInv
<1>. HIDE DEF H, B
<1>9. Here(s, d, j) \subseteq Declarations(s)
  BY <1>7, <1>8, ParentsIn
<1>10. ASSUME Here(s, d, j) # {} PROVE Cardinality(H \cup B) >= j
  <2>1. H # {}
    BY <1>7, <1>10
  <2>2. IsFiniteSet(H) /\ IsFiniteSet(B) /\ Cardinality(H) # 0
        /\ Cardinality(H) \in Nat /\ Cardinality(B) \in Nat /\ Cardinality(H \cap B) = 0
    BY <1>8, <2>1, DeclarationsFinite, FS_Subset, FS_EmptySet, FS_CardinalityType
  <2>3. Cardinality(H \cup B) = Cardinality(H) + Cardinality(B) - Cardinality(H \cap B)
    BY <2>2, FS_Union
  <2>. QED  BY <1>5, <1>8, <2>1, <2>2, <2>3
<1>11. ClimbInv(s, d, j)
  BY <1>7, <1>8, <1>9, <1>10 DEF ClimbInv
<1>. QED  BY <1>3, <1>11

LEMMA NoLevelBeyond ==
  ASSUME NEW s \in Snapshots, NEW d \in Declarations(s),
         NEW k \in Nat, k >= Cardinality(Declarations(s))
  PROVE  Here(s, d, k) = {}
<1>. SUFFICES ASSUME Here(s, d, k) # {} PROVE FALSE
  OBVIOUS
<1>. DEFINE D == Declarations(s)
            B == Below(s, d, k)
<1>1. B \subseteq D /\ B # D /\ Cardinality(B) >= k
  BY ClimbIn DEF ClimbInv
<1>2. IsFiniteSet(D)
  BY DeclarationsFinite
<1>. HIDE DEF D, B
<1>3. Cardinality(D) \in Nat /\ Cardinality(B) \in Nat /\ Cardinality(B) <= Cardinality(D)
      /\ Cardinality(B) # Cardinality(D)
  BY <1>1, <1>2, FS_Subset, FS_CardinalityType
<1>4. k >= Cardinality(D)
  BY DEF D
<1>. QED  BY <1>1, <1>3, <1>4

(* Two snapshots that agree on the steps up from a declaration, level by   *)
(* level, have the same declarations on the next level.                    *)
LEMMA ClimbAgree ==
  ASSUME NEW old \in Snapshots, NEW new \in Snapshots, NEW d \in Declarations(old),
         new[d[1]] = old[d[1]], NEW n \in Nat,
         \A j \in Nat : j < n =>
            \A e \in Here(old, d, j) : Compatible(EdgeReads(old, e), old, new)
  PROVE  /\ Here(new, d, n) = Here(old, d, n)
         /\ Below(new, d, n) = Below(old, d, n)
         /\ \A e \in Here(old, d, n) : new[e[1]] = old[e[1]]
<1>. DEFINE Same(k) == /\ Here(new, d, k) = Here(old, d, k)
                       /\ Below(new, d, k) = Below(old, d, k)
                       /\ \A e \in Here(old, d, k) : new[e[1]] = old[e[1]]
            T == {k \in Nat : k <= n /\ ~Same(k)}
<1>1. SUFFICES ASSUME T # {} PROVE FALSE
  OBVIOUS
<1>2. PICK k \in T : \A j \in T : k <= j
  <2>. HIDE DEF T
  <2>1. T \subseteq Nat
    BY DEF T
  <2>. QED  BY <1>1, <2>1, Least
<1>. HIDE DEF Same
<1>3. k \in Nat /\ k <= n /\ ~Same(k)
  OBVIOUS
<1>4. k # 0
  <2>1. \A s : Here(s, d, 0) = {d} /\ Below(s, d, 0) = {}
    BY HereSteps
  <2>2. Same(0)
    BY <2>1 DEF Same
  <2>. QED  BY <1>3, <2>2
<1>. DEFINE i == k - 1
<1>5. i \in Nat /\ i \notin T /\ i + 1 = k /\ i < n
  BY <1>2, <1>3, <1>4
<1>6. Same(i)
  BY <1>5
<1>. HIDE DEF T, i
<1>7. \A e \in Here(old, d, i) : e \in Declarations(old) /\ Compatible(EdgeReads(old, e), old, new)
  BY <1>5, ClimbIn DEF ClimbInv
<1>8. \A e \in Here(old, d, i) : /\ Parents(new, e) = Parents(old, e)
                                 /\ \A u \in Parents(old, e) : new[u[1]] = old[u[1]]
  BY <1>7, EdgeAgree
<1>9. ASSUME NEW s
      PROVE  /\ Below(s, d, k) = Here(s, d, i) \cup Below(s, d, i)
             /\ Here(s, d, k) = (UNION {Parents(s, e) : e \in Here(s, d, i)})
                                  \ (Here(s, d, i) \cup Below(s, d, i))
  BY <1>5, HereSteps
<1>10. {Parents(new, e) : e \in Here(new, d, i)} = {Parents(old, e) : e \in Here(old, d, i)}
  BY <1>6, <1>8 DEF Same
<1>11. Here(new, d, k) = Here(old, d, k) /\ Below(new, d, k) = Below(old, d, k)
  <2>1. Here(new, d, i) = Here(old, d, i) /\ Below(new, d, i) = Below(old, d, i)
    BY <1>6 DEF Same
  <2>. QED  BY <1>9, <1>10, <2>1, Zenon
<1>12. \A e \in Here(old, d, k) : new[e[1]] = old[e[1]]
  BY <1>8, <1>9
<1>. QED  BY <1>3, <1>11, <1>12 DEF Same

(* The nearest typed getters, with the levels counted without their bound. *)
TypedAbove(s, d, from) ==
    {k \in Nat : k >= from /\ \E e \in Here(s, d, k) : Typed(s, e, k)}

NearestOf(T) == CHOOSE k \in T : \A j \in T : k <= j

Walked(T) == IF T = {} THEN Nat ELSE 0 .. (NearestOf(T) - 1)

WalkedDeclarations(s, d, T) == UNION {Here(s, d, k) : k \in Walked(T)}

TypesOn(s, d, k) == {Decl(s, e).type : e \in {e \in Here(s, d, k) : Typed(s, e, k)}}

LEMMA NearestLeast ==
  ASSUME NEW T, T \subseteq Nat, T # {}
  PROVE  NearestOf(T) \in T /\ \A j \in T : NearestOf(T) <= j
<1>1. \E k \in T : \A j \in T : k <= j
  BY Least
<1>. QED  BY <1>1 DEF NearestOf

LEMMA LevelsHere ==
  ASSUME NEW s \in Snapshots, NEW d \in Declarations(s)
  PROVE  /\ DOMAIN Levels(s, d) \subseteq Nat
         /\ \A k \in DOMAIN Levels(s, d) : Levels(s, d)[k] = Here(s, d, k)
         /\ \A k \in Nat : Here(s, d, k) # {} => k \in DOMAIN Levels(s, d)
         /\ \A k \in DOMAIN Levels(s, d) : 0 .. (k - 1) \subseteq DOMAIN Levels(s, d)
<1>. DEFINE n == Cardinality(Declarations(s))
<1>1. n \in Nat
  BY DeclarationsFinite, FS_CardinalityType
<1>2. DOMAIN Levels(s, d) = 0 .. n
  BY DEF Levels
<1>3. \A k \in 0 .. n : Levels(s, d)[k] = Here(s, d, k)
  BY DEF Levels, Here
<1>4. \A k \in Nat : Here(s, d, k) # {} => k < n
  BY <1>1, NoLevelBeyond
<1>. HIDE DEF n
<1>. QED  BY <1>1, <1>2, <1>3, <1>4

LEMMA NearestOverAll ==
  ASSUME NEW s \in Snapshots, NEW d \in Declarations(s), NEW from \in Nat
  PROVE  Nearest(s, d, from) =
           [type  |-> IF TypedAbove(s, d, from) = {} THEN None
                      ELSE Only(TypesOn(s, d, NearestOf(TypedAbove(s, d, from)))),
            reads |-> JoinAll({EdgeReads(s, e) :
                         e \in WalkedDeclarations(s, d, TypedAbove(s, d, from))})]
<1>. DEFINE L == Levels(s, d)
            T == TypedLevels(s, L, from)
            at == CHOOSE k \in T : \A j \in T : k <= j
            walked == IF T = {} THEN DOMAIN L ELSE 0 .. (at - 1)
<1>1. T = TypedAbove(s, d, from)
  <2>1. \A k \in Nat : k \in T <=> k \in TypedAbove(s, d, from)
    BY LevelsHere DEF TypedLevels, TypedAbove
  <2>2. T \subseteq Nat /\ TypedAbove(s, d, from) \subseteq Nat
    BY LevelsHere DEF TypedLevels, TypedAbove
  <2>. HIDE DEF T
  <2>. QED  BY <2>1, <2>2
<1>2. at = NearestOf(T)
  BY DEF NearestOf
<1>3. T \subseteq DOMAIN L
  BY DEF TypedLevels
<1>4. Nearest(s, d, from) =
        [type  |-> IF T = {} THEN None ELSE Only(TypesAt(s, L, at)),
         reads |-> JoinAll({EdgeReads(s, e) : e \in UNION {L[k] : k \in walked}})]
  BY Zenon DEF Nearest, WalkUp, WalkTo
<1>. HIDE DEF T, at, L
<1>5. T # {} => at \in T /\ at \in DOMAIN L /\ 0 .. (at - 1) \subseteq DOMAIN L
  <2>1. T \subseteq Nat
    BY <1>3, LevelsHere DEF L
  <2>. QED  BY <1>2, <1>3, <2>1, NearestLeast, LevelsHere DEF L
<1>6. T # {} => TypesAt(s, L, at) = TypesOn(s, d, at)
  BY <1>5, LevelsHere DEF L, TypesAt, TypesOn
<1>7. UNION {L[k] : k \in walked} = WalkedDeclarations(s, d, T)
  <2>1. CASE T = {}
    <3>1. UNION {L[k] : k \in DOMAIN L} = UNION {Here(s, d, k) : k \in Nat}
      <4>1. /\ \A k \in DOMAIN L : k \in Nat /\ L[k] = Here(s, d, k)
            /\ \A k \in Nat : Here(s, d, k) # {} => k \in DOMAIN L
        BY LevelsHere DEF L
      <4>. QED  BY <4>1
    <3>. QED  BY <2>1, <3>1 DEF WalkedDeclarations, Walked
  <2>2. CASE T # {}
    <3>1. \A k \in 0 .. (at - 1) : L[k] = Here(s, d, k)
      BY <1>5, <2>2, LevelsHere DEF L
    <3>2. Walked(T) = 0 .. (at - 1) /\ walked = 0 .. (at - 1)
      BY <1>2, <2>2 DEF Walked
    <3>3. {L[k] : k \in 0 .. (at - 1)} = {Here(s, d, k) : k \in 0 .. (at - 1)}
      BY <3>1
    <3>. QED  BY <3>2, <3>3 DEF WalkedDeclarations
  <2>. QED  BY <2>1, <2>2
<1>. HIDE DEF walked
<1>. QED  BY <1>1, <1>2, <1>4, <1>6, <1>7, Zenon

LEMMA NearestName ==
  ASSUME NEW s \in Snapshots, NEW d \in Declarations(s), NEW from \in Nat,
         Nearest(s, d, from).type # None
  PROVE  IsName(Nearest(s, d, from).type)
<1>. DEFINE T == TypedAbove(s, d, from)
            at == NearestOf(T)
<1>1. T # {} /\ Nearest(s, d, from).type = Only(TypesOn(s, d, at))
  <2>. DEFINE reads == JoinAll({EdgeReads(s, e) : e \in WalkedDeclarations(s, d, T)})
              type == IF T = {} THEN None ELSE Only(TypesOn(s, d, at))
  <2>1. Nearest(s, d, from) = [type |-> type, reads |-> reads]
    BY NearestOverAll, Zenon
  <2>. HIDE DEF type, reads
  <2>2. Nearest(s, d, from).type = type
    BY <2>1
  <2>. QED  BY <2>2 DEF type
<1>2. at \in Nat
  <2>1. T \subseteq Nat
    BY DEF TypedAbove
  <2>. QED  BY <1>1, <2>1, NearestLeast
<1>. HIDE DEF T, at
<1>3. Nearest(s, d, from).type \in TypesOn(s, d, at)
  BY <1>1, OnlyIn
<1>4. PICK e \in Here(s, d, at) : Typed(s, e, at) /\ Nearest(s, d, from).type = Decl(s, e).type
  BY <1>3 DEF TypesOn
<1>5. e \in Declarations(s)
  BY <1>2, ClimbIn DEF ClimbInv
<1>. QED  BY <1>4, <1>5, DeclShape DEF Typed

(* What the walk up to the nearest typed getters reads decides the walk.   *)
LEMMA NearestAgree ==
  ASSUME NEW old \in Snapshots, NEW new \in Snapshots, NEW d \in Declarations(old),
         d \in Declarations(new), new[d[1]] = old[d[1]], NEW from \in Nat,
         Compatible(Nearest(old, d, from).reads, old, new)
  PROVE  Nearest(new, d, from) = Nearest(old, d, from)
<1>. DEFINE T == TypedAbove(old, d, from)
            N == TypedAbove(new, d, from)
            read == {EdgeReads(old, e) : e \in WalkedDeclarations(old, d, T)}
<1>1. Nearest(old, d, from).reads = JoinAll(read)
  BY NearestOverAll
<1>2. \A e \in WalkedDeclarations(old, d, T) : Compatible(EdgeReads(old, e), old, new)
  <2>. TAKE e \in WalkedDeclarations(old, d, T)
  <2>1. EdgeReads(old, e) \in read
    OBVIOUS
  <2>. HIDE DEF read
  <2>. QED  BY <1>1, <2>1, CompatibleParts
<1>3. \A k \in Walked(T) : \A e \in Here(old, d, k) : Compatible(EdgeReads(old, e), old, new)
  BY <1>2 DEF WalkedDeclarations
<1>4. T \subseteq Nat /\ N \subseteq Nat
  BY DEF TypedAbove
<1>. HIDE DEF T, N, read
<1>5. ASSUME NEW n \in Nat, \A j \in Nat : j < n => j \in Walked(T)
      PROVE  /\ Here(new, d, n) = Here(old, d, n)
             /\ \A e \in Here(old, d, n) : new[e[1]] = old[e[1]]
  <2>1. \A j \in Nat : j < n =>
           \A e \in Here(old, d, j) : Compatible(EdgeReads(old, e), old, new)
    BY <1>3, <1>5
  <2>. QED  BY <2>1, ClimbAgree
<1>6. ASSUME NEW n \in Nat, \A j \in Nat : j < n => j \in Walked(T)
      PROVE  /\ n \in N <=> n \in T
             /\ TypesOn(new, d, n) = TypesOn(old, d, n)
  <2>1. Here(new, d, n) = Here(old, d, n)
    BY <1>5, <1>6
  <2>2. \A e \in Here(old, d, n) : Decl(new, e) = Decl(old, e)
    BY <1>5, <1>6 DEF Decl
  <2>3. \A e \in Here(old, d, n) : Typed(new, e, n) <=> Typed(old, e, n)
    BY <2>2 DEF Typed
  <2>. QED  BY <2>1, <2>2, <2>3 DEF TypedAbove, TypesOn, T, N
<1>7. ASSUME NEW n \in Walked(T), \A j \in Nat : j < n => j \in Walked(T), n \in Nat
      PROVE  /\ Here(new, d, n) = Here(old, d, n)
             /\ \A e \in Here(old, d, n) : EdgeReads(new, e) = EdgeReads(old, e)
  <2>1. \A e \in Here(old, d, n) : e \in Declarations(old) /\ Compatible(EdgeReads(old, e), old, new)
    BY <1>3, <1>7, ClimbIn DEF ClimbInv
  <2>. QED  BY <1>5, <1>7, <2>1, EdgeAgree
<1>8. CASE T = {}
  <2>1. Walked(T) = Nat
    BY <1>8 DEF Walked
  <2>2. N = {}
    BY <1>4, <1>6, <1>8, <2>1
  <2>3. \A k \in Nat : /\ Here(new, d, k) = Here(old, d, k)
                       /\ \A e \in Here(old, d, k) : EdgeReads(new, e) = EdgeReads(old, e)
    BY <1>7, <2>1
  <2>4. /\ WalkedDeclarations(new, d, {}) = WalkedDeclarations(old, d, {})
        /\ \A e \in WalkedDeclarations(old, d, {}) : EdgeReads(new, e) = EdgeReads(old, e)
    BY <2>3 DEF WalkedDeclarations, Walked
  <2>5. {EdgeReads(new, e) : e \in WalkedDeclarations(new, d, {})}
          = {EdgeReads(old, e) : e \in WalkedDeclarations(old, d, {})}
    BY <2>4
  <2>6. /\ Nearest(old, d, from) =
             [type |-> None, reads |-> JoinAll({EdgeReads(old, e) : e \in WalkedDeclarations(old, d, {})})]
        /\ Nearest(new, d, from) =
             [type |-> None, reads |-> JoinAll({EdgeReads(new, e) : e \in WalkedDeclarations(new, d, {})})]
    BY <1>8, <2>2, NearestOverAll, Zenon DEF T, N
  <2>. QED  BY <2>5, <2>6, Zenon
<1>9. CASE T # {}
  <2>. DEFINE at == NearestOf(T)
  <2>1. at \in T /\ at \in Nat /\ \A j \in T : at <= j
    BY <1>4, <1>9, NearestLeast
  <2>2. Walked(T) = 0 .. (at - 1)
    BY <1>9 DEF Walked
  <2>. HIDE DEF at
  <2>3. \A n \in Nat : n <= at => \A j \in Nat : j < n => j \in Walked(T)
    BY <2>1, <2>2
  <2>4. at \in N /\ \A n \in Nat : n < at => n \notin N
    BY <1>6, <2>1, <2>3
  <2>5. NearestOf(N) = at
    <3>1. N # {}
      BY <2>4
    <3>2. NearestOf(N) \in N /\ \A j \in N : NearestOf(N) <= j
      BY <1>4, <3>1, NearestLeast
    <3>3. NearestOf(N) \in Nat /\ NearestOf(N) <= at
      BY <1>4, <2>4, <3>2
    <3>4. ~(NearestOf(N) < at)
      BY <2>4, <3>2, <3>3
    <3>. QED  BY <2>1, <3>3, <3>4
  <2>6. TypesOn(new, d, at) = TypesOn(old, d, at)
    BY <1>6, <2>1, <2>3
  <2>7. Walked(N) = Walked(T)
    BY <1>9, <2>2, <2>4, <2>5 DEF Walked
  <2>8. \A k \in Walked(T) : /\ Here(new, d, k) = Here(old, d, k)
                             /\ \A e \in Here(old, d, k) : EdgeReads(new, e) = EdgeReads(old, e)
    <3>. TAKE k \in Walked(T)
    <3>1. k \in Nat /\ k <= at
      BY <2>1, <2>2
    <3>. QED  BY <1>7, <2>3, <3>1
  <2>9. /\ WalkedDeclarations(new, d, N) = WalkedDeclarations(old, d, T)
        /\ \A e \in WalkedDeclarations(old, d, T) : EdgeReads(new, e) = EdgeReads(old, e)
    BY <2>7, <2>8 DEF WalkedDeclarations
  <2>10. {EdgeReads(new, e) : e \in WalkedDeclarations(new, d, N)}
           = {EdgeReads(old, e) : e \in WalkedDeclarations(old, d, T)}
    BY <2>9
  <2>11. /\ Nearest(old, d, from) =
              [type |-> Only(TypesOn(old, d, at)),
               reads |-> JoinAll({EdgeReads(old, e) : e \in WalkedDeclarations(old, d, T)})]
         /\ Nearest(new, d, from) =
              [type |-> Only(TypesOn(new, d, at)),
               reads |-> JoinAll({EdgeReads(new, e) : e \in WalkedDeclarations(new, d, N)})]
    <3>1. N # {}
      BY <2>4
    <3>. QED  BY <1>9, <2>5, <3>1, NearestOverAll, Zenon DEF T, N, at
  <2>. QED  BY <2>6, <2>10, <2>11, Zenon
<1>. QED  BY <1>8, <1>9

(* What the inference of a delegating getter's type reads decides it.      *)
BoundOf(s, d) == Resolve(s, d[1], Decl(s, d).bound)

LookedUp(s, d, inherited, bound, bounded) ==
    {LookupReads(s, d), inherited.reads, bounded.reads}
      \cup (IF inherited.type = None THEN {} ELSE {TypeReads(s, d[1], Decl(s, d).bound)})
      \cup (IF bounded.type = None THEN {}
             ELSE {LookupReads(s, bound), TypeReads(s, d[1], inherited.type)})

LEMMA InferenceParts ==
  ASSUME NEW s, NEW d
  PROVE  LET inherited == Nearest(s, d, 1)
             bounded == Bounded(s, d, inherited, BoundOf(s, d))
         IN  Inference(s, d) =
               [type |-> IF bounded.type = inherited.type THEN inherited.type ELSE None,
                deps |-> JoinAll(LookedUp(s, d, inherited, BoundOf(s, d), bounded))]
  BY Zenon DEF Inference, InferredWith, InferredFrom, LookedUp, BoundOf

LEMMA InferenceName ==
  ASSUME NEW s \in Snapshots, NEW d \in Declarations(s), Inference(s, d).type # None
  PROVE  IsName(Inference(s, d).type)
<1>. DEFINE inherited == Nearest(s, d, 1)
            bounded == Bounded(s, d, inherited, BoundOf(s, d))
            deps == JoinAll(LookedUp(s, d, inherited, BoundOf(s, d), bounded))
            type == IF bounded.type = inherited.type THEN inherited.type ELSE None
<1>1. Inference(s, d) = [type |-> type, deps |-> deps]
  BY InferenceParts, Zenon
<1>. HIDE DEF type, deps, bounded
<1>2. Inference(s, d).type = type
  BY <1>1
<1>3. type = inherited.type
  BY <1>2 DEF type
<1>. QED  BY <1>2, <1>3, NearestName

LEMMA InferenceAgree ==
  ASSUME NEW old \in Snapshots, NEW new \in Snapshots, NEW d \in Delegating(old),
         d \in Declarations(new), Compatible(Inference(old, d).deps, old, new)
  PROVE  new[d[1]] = old[d[1]] /\ Inference(new, d) = Inference(old, d)
<1>. DEFINE inherited == Nearest(old, d, 1)
            n == Decl(old, d).bound
            bound == BoundOf(old, d)
            bounded == Bounded(old, d, inherited, bound)
            looked == LookedUp(old, d, inherited, bound, bounded)
            type == IF bounded.type = inherited.type THEN inherited.type ELSE None
<1>1. d \in Declarations(old) /\ d[1] \in PathSet /\ IsName(n)
  BY DeclShape DEF Delegating
<1>2. Inference(old, d) = [type |-> type, deps |-> JoinAll(looked)]
  BY InferenceParts, Zenon
<1>3. Inference(old, d).deps = JoinAll(looked)
  <2>. HIDE DEF type, looked
  <2>. QED  BY <1>2
<1>4. \A r \in looked : Compatible(r, old, new)
  <2>. HIDE DEF looked
  <2>. QED  BY <1>3, CompatibleParts
<1>5. /\ Compatible(LookupReads(old, d), old, new)
      /\ Compatible(inherited.reads, old, new)
      /\ Compatible(bounded.reads, old, new)
  <2>. HIDE DEF inherited, bounded, bound
  <2>. QED  BY <1>4 DEF LookedUp
<1>6. inherited.type # None => Compatible(TypeReads(old, d[1], n), old, new)
  <2>. HIDE DEF inherited, bounded, bound
  <2>. QED  BY <1>4 DEF LookedUp
<1>7. bounded.type # None => Compatible(TypeReads(old, d[1], inherited.type), old, new)
  <2>. HIDE DEF inherited, bounded, bound
  <2>. QED  BY <1>4 DEF LookedUp
<1>8. new[d[1]] = old[d[1]]
  <2>1. d[1] \in LookupReads(old, d).files
    BY DEF LookupReads
  <2>. QED  BY <1>1, <1>5, <2>1, FileUnchanged
<1>9. Decl(new, d) = Decl(old, d) /\ LookupReads(new, d) = LookupReads(old, d)
  BY <1>8, DeclSame, LookupReadsSame
<1>10. Nearest(new, d, 1) = inherited
  BY <1>1, <1>5, <1>8, NearestAgree
<1>. HIDE DEF inherited, n, bound
<1>11. inherited.type # None => /\ Agrees(old, new, Simple(n))
                                /\ BoundOf(new, d) = bound
                                /\ TypeReads(new, d[1], n) = TypeReads(old, d[1], n)
  <2>. SUFFICES ASSUME inherited.type # None PROVE
         /\ Agrees(old, new, Simple(n)) /\ BoundOf(new, d) = bound
         /\ TypeReads(new, d[1], n) = TypeReads(old, d[1], n)
    OBVIOUS
  <2>1. Agrees(old, new, Simple(n))
    BY <1>1, <1>6, TypeReadsAgree
  <2>2. Resolve(new, d[1], n) = Resolve(old, d[1], n)
    BY <1>1, <1>8, <2>1, ResolveAgree
  <2>. QED  BY <1>9, <2>1, <2>2, TypeReadsSame DEF BoundOf, bound, n
<1>12. inherited.type # None /\ bound # None =>
         /\ bound \in Declarations(old) /\ bound \in Declarations(new)
         /\ new[bound[1]] = old[bound[1]]
         /\ Visible(new, d[1], n, bound) <=> Visible(old, d[1], n, bound)
  <2>. SUFFICES ASSUME inherited.type # None, bound # None PROVE
         /\ bound \in Declarations(old) /\ bound \in Declarations(new)
         /\ new[bound[1]] = old[bound[1]]
         /\ Visible(new, d[1], n, bound) <=> Visible(old, d[1], n, bound)
    OBVIOUS
  <2>1. bound \in Named(old, Simple(n))
    BY <1>1, ResolveIn DEF bound, n, BoundOf
  <2>2. new[bound[1]] = old[bound[1]] /\ bound \in Named(new, Simple(n))
    BY <1>11, <2>1 DEF Agrees
  <2>. QED  BY <1>1, <1>8, <1>11, <2>1, <2>2, VisibleAgree DEF Named
<1>13. Bounded(new, d, inherited, BoundOf(new, d)) = bounded
  <2>1. CASE inherited.type = None
    BY <2>1, Zenon DEF Bounded
  <2>2. CASE inherited.type # None
    <3>1. BoundOf(new, d) = bound
      BY <1>11, <2>2
    <3>2. CASE bound = None
      BY <3>1, <3>2, Zenon DEF Bounded
    <3>3. CASE bound # None /\ ~Visible(old, d[1], n, bound)
      <4>1. ~Visible(new, d[1], Decl(new, d).bound, bound)
        BY <1>9, <1>12, <2>2, <3>3 DEF n
      <4>2. ~Visible(old, d[1], Decl(old, d).bound, bound)
        BY <3>3 DEF n
      <4>. QED  BY <3>1, <4>1, <4>2, Zenon DEF Bounded
    <3>4. CASE bound # None /\ Visible(old, d[1], n, bound)
      <4>1. Visible(new, d[1], Decl(new, d).bound, bound)
        BY <1>9, <1>12, <2>2, <3>4 DEF n
      <4>2. Visible(old, d[1], Decl(old, d).bound, bound)
        BY <3>4 DEF n
      <4>3. bounded = Nearest(old, bound, 0)
        BY <2>2, <3>4, <4>2, Zenon DEF Bounded
      <4>4. Bounded(new, d, inherited, bound) = Nearest(new, bound, 0)
        BY <2>2, <3>4, <4>1, Zenon DEF Bounded
      <4>5. Nearest(new, bound, 0) = Nearest(old, bound, 0)
        <5>1. Compatible(Nearest(old, bound, 0).reads, old, new)
          BY <1>5, <4>3, Zenon
        <5>. QED  BY <1>12, <2>2, <3>4, <5>1, NearestAgree
      <4>. QED  BY <3>1, <4>3, <4>4, <4>5, Zenon
    <3>. QED  BY <3>2, <3>3, <3>4
  <2>. QED  BY <2>1, <2>2
<1>14. bounded.type # None => /\ inherited.type # None
                              /\ bound # None
                              /\ TypeReads(new, d[1], inherited.type) = TypeReads(old, d[1], inherited.type)
                              /\ LookupReads(new, bound) = LookupReads(old, bound)
  <2>. SUFFICES ASSUME bounded.type # None PROVE
         /\ inherited.type # None /\ bound # None
         /\ TypeReads(new, d[1], inherited.type) = TypeReads(old, d[1], inherited.type)
         /\ LookupReads(new, bound) = LookupReads(old, bound)
    OBVIOUS
  <2>1. inherited.type # None /\ bound # None
    <3>1. SUFFICES ASSUME inherited.type = None \/ bound = None PROVE FALSE
      OBVIOUS
    <3>2. bounded = [type |-> None, reads |-> NoReads]
      BY <3>1, Zenon DEF Bounded
    <3>. QED  BY <3>2
  <2>2. IsName(inherited.type)
    BY <1>1, <2>1, NearestName DEF inherited
  <2>3. Agrees(old, new, Simple(inherited.type))
    BY <1>1, <1>7, <2>2, TypeReadsAgree
  <2>4. TypeReads(new, d[1], inherited.type) = TypeReads(old, d[1], inherited.type)
    BY <2>3, TypeReadsSame
  <2>. QED  BY <1>12, <2>1, <2>4, LookupReadsSame
<1>. HIDE DEF bounded
<1>15. LookedUp(new, d, inherited, BoundOf(new, d), bounded) = looked
  <2>1. Decl(new, d).bound = n /\ Decl(old, d).bound = n
    BY <1>9 DEF n
  <2>2. bounded.type # None => inherited.type # None /\ BoundOf(new, d) = bound
    BY <1>11, <1>14
  <2>. QED  BY <1>9, <1>11, <1>14, <2>1, <2>2, Zenon DEF LookedUp
<1>16. Inference(new, d) = [type |-> type, deps |-> JoinAll(looked)]
  <2>1. Inference(new, d) =
          [type |-> IF Bounded(new, d, inherited, BoundOf(new, d)).type = inherited.type
                    THEN inherited.type ELSE None,
           deps |-> JoinAll(LookedUp(new, d, inherited, BoundOf(new, d),
                                     Bounded(new, d, inherited, BoundOf(new, d))))]
    BY <1>10, InferenceParts, Zenon
  <2>. QED  BY <1>13, <1>15, <2>1, Zenon
<1>. HIDE DEF type, looked
<1>. QED  BY <1>2, <1>8, <1>16

LEMMA GetterName ==
  ASSUME NEW s \in Snapshots, NEW d \in Declarations(s), GetterType(s, d) # None
  PROVE  IsName(GetterType(s, d))
<1>1. CASE d \in Delegating(s)
  BY <1>1, InferenceName DEF GetterType
<1>2. CASE d \notin Delegating(s)
  BY <1>2, DeclShape DEF GetterType
<1>. QED  BY <1>1, <1>2

LEMMA AncestorsHere ==
  ASSUME NEW s \in Snapshots, NEW o \in Declarations(s)
  PROVE  /\ Ancestors(s, o) = (UNION {Here(s, o, k) : k \in Nat}) \ {o}
         /\ Ancestors(s, o) \subseteq Declarations(s)
<1>. DEFINE L == Levels(s, o)
<1>1. UNION {L[k] : k \in DOMAIN L} = UNION {Here(s, o, k) : k \in Nat}
  <2>1. /\ \A k \in DOMAIN L : k \in Nat /\ L[k] = Here(s, o, k)
        /\ \A k \in Nat : Here(s, o, k) # {} => k \in DOMAIN L
    BY LevelsHere
  <2>. HIDE DEF L
  <2>. QED  BY <2>1
<1>2. Ancestors(s, o) = (UNION {L[k] : k \in DOMAIN L}) \ {o}
  BY DEF Ancestors
<1>3. \A k \in Nat : Here(s, o, k) \subseteq Declarations(s)
  BY ClimbIn DEF ClimbInv
<1>. HIDE DEF L
<1>. QED  BY <1>1, <1>2, <1>3

(* What the walk over the ancestors of a class reads, with what its        *)
(* inferences read, decides the walk, the inferences and their record.     *)
LEMMA WalkAgree ==
  ASSUME NEW old \in Snapshots, NEW new \in Snapshots,
         NEW o \in Declarations(old), o \in Declarations(new),
         Compatible(Reads(old, o), old, new)
  PROVE  /\ Ancestors(new, o) = Ancestors(old, o)
         /\ LookupReads(new, o) = LookupReads(old, o)
         /\ \A d \in Ancestors(old, o) \cup {o} :
              /\ d \in Declarations(old) /\ d[1] \in PathSet
              /\ new[d[1]] = old[d[1]]
              /\ Compatible(EdgeReads(old, d), old, new)
              /\ EdgeReads(new, d) = EdgeReads(old, d)
              /\ \A n \in Decl(old, d).supertypes \ Roots :
                    Resolve(new, d[1], n) = Resolve(old, d[1], n)
<1>. DEFINE A == Ancestors(old, o)
            walk == {LookupReads(old, o)} \cup {EdgeReads(old, d) : d \in A \cup {o}}
                      \cup {AliasReads(old, GetterType(old, d)) :
                              d \in {d \in A : GetterType(old, d) # None}}
<1>1. Compatible(WalkReads(old, o), old, new)
  <2>. DEFINE parts == {WalkReads(old, o)} \cup {Inference(old, d).deps : d \in Asked(old, o)}
  <2>1. Reads(old, o) = JoinAll(parts) /\ WalkReads(old, o) \in parts
    BY Zenon DEF Reads
  <2>. HIDE DEF parts
  <2>. QED  BY <2>1, CompatibleParts
<1>2. WalkReads(old, o) = JoinAll(walk)
  BY Zenon DEF WalkReads
<1>3. \A r \in walk : Compatible(r, old, new)
  <2>. HIDE DEF walk
  <2>. QED  BY <1>1, <1>2, CompatibleParts
<1>4. \A d \in A \cup {o} : Compatible(EdgeReads(old, d), old, new)
  <2>. TAKE d \in A \cup {o}
  <2>. HIDE DEF A
  <2>1. EdgeReads(old, d) \in walk
    OBVIOUS
  <2>. QED  BY <1>3, <2>1
<1>5. /\ A = (UNION {Here(old, o, k) : k \in Nat}) \ {o}
      /\ A \subseteq Declarations(old)
  BY AncestorsHere
<1>. HIDE DEF A, walk
<1>6. \A d \in A \cup {o} :
         /\ d \in Declarations(old) /\ d[1] \in PathSet
         /\ new[d[1]] = old[d[1]]
         /\ EdgeReads(new, d) = EdgeReads(old, d)
         /\ \A n \in Decl(old, d).supertypes \ Roots :
               Resolve(new, d[1], n) = Resolve(old, d[1], n)
  <2>. TAKE d \in A \cup {o}
  <2>1. d \in Declarations(old)
    BY <1>5
  <2>. QED  BY <1>4, <2>1, EdgeAgree, DeclShape
<1>7. \A k \in Nat : Here(new, o, k) = Here(old, o, k)
  <2>. TAKE k \in Nat
  <2>1. \A j \in Nat : j < k => \A e \in Here(old, o, j) : Compatible(EdgeReads(old, e), old, new)
    BY <1>4, <1>5
  <2>2. new[o[1]] = old[o[1]]
    BY <1>6
  <2>. QED  BY <2>1, <2>2, ClimbAgree
<1>8. Ancestors(new, o) = A
  <2>1. Ancestors(new, o) = (UNION {Here(new, o, k) : k \in Nat}) \ {o}
    BY AncestorsHere
  <2>2. {Here(new, o, k) : k \in Nat} = {Here(old, o, k) : k \in Nat}
    BY <1>7
  <2>. QED  BY <1>5, <2>1, <2>2
<1>9. LookupReads(new, o) = LookupReads(old, o)
  BY <1>6, LookupReadsSame
<1>. QED  BY <1>4, <1>6, <1>8, <1>9 DEF A

LEMMA GettersAgree ==
  ASSUME NEW old \in Snapshots, NEW new \in Snapshots,
         NEW o \in Declarations(old), o \in Declarations(new),
         Compatible(Reads(old, o), old, new)
  PROVE  /\ Asked(new, o) = Asked(old, o)
         /\ \A d \in Asked(old, o) : Inference(new, d) = Inference(old, d)
         /\ \A d \in Ancestors(old, o) : GetterType(new, d) = GetterType(old, d)
<1>. DEFINE A == Ancestors(old, o)
            parts == {WalkReads(old, o)} \cup {Inference(old, d).deps : d \in Asked(old, o)}
<1>1. \A d \in Asked(old, o) : Compatible(Inference(old, d).deps, old, new)
  <2>. TAKE d \in Asked(old, o)
  <2>1. Reads(old, o) = JoinAll(parts)
    BY Zenon DEF Reads
  <2>2. Inference(old, d).deps \in parts
    OBVIOUS
  <2>. HIDE DEF parts
  <2>. QED  BY <2>1, <2>2, CompatibleParts
<1>2. Ancestors(new, o) = A /\ \A d \in A : d \in Declarations(old) /\ new[d[1]] = old[d[1]]
  BY WalkAgree
<1>3. A \subseteq Declarations(new)
  BY <1>2, AncestorsHere
<1>4. \A d \in A : Decl(new, d) = Decl(old, d)
  BY <1>2, DeclSame
<1>. HIDE DEF A
<1>5. \A d \in A : d \in Delegating(new) <=> d \in Delegating(old)
  BY <1>2, <1>3, <1>4 DEF Delegating
<1>6. Asked(new, o) = Asked(old, o) /\ Asked(old, o) = A \cap Delegating(old)
  BY <1>2, <1>5 DEF Asked, A
<1>7. \A d \in Asked(old, o) : Inference(new, d) = Inference(old, d)
  BY <1>1, <1>3, <1>6, InferenceAgree
<1>8. \A d \in A : GetterType(new, d) = GetterType(old, d)
  BY <1>4, <1>5, <1>6, <1>7 DEF GetterType
<1>. QED  BY <1>6, <1>7, <1>8 DEF A

LEMMA IdentitiesAgree ==
  ASSUME NEW old \in Snapshots, NEW new \in Snapshots,
         NEW o \in Declarations(old), o \in Declarations(new),
         Compatible(Reads(old, o), old, new),
         NEW d \in Ancestors(old, o), GetterType(old, d) # None
  PROVE  /\ AliasReads(new, GetterType(old, d)) = AliasReads(old, GetterType(old, d))
         /\ Canonical(new, d[1], GetterType(old, d)) = Canonical(old, d[1], GetterType(old, d))
<1>. DEFINE n == GetterType(old, d)
            aliases == {AliasReads(old, GetterType(old, e)) :
                          e \in {e \in Ancestors(old, o) : GetterType(old, e) # None}}
            edges == {EdgeReads(old, e) : e \in Ancestors(old, o) \cup {o}}
            walk == {LookupReads(old, o)} \cup edges \cup aliases
            parts == {WalkReads(old, o)} \cup {Inference(old, e).deps : e \in Asked(old, o)}
<1>1. d \in Declarations(old) /\ d[1] \in PathSet /\ new[d[1]] = old[d[1]]
  BY WalkAgree
<1>2. IsName(n)
  BY <1>1, GetterName
<1>3. AliasReads(old, n) \in walk
  <2>. HIDE DEF edges
  <2>. QED  OBVIOUS
<1>4. WalkReads(old, o) = JoinAll(walk)
  BY Zenon DEF WalkReads
<1>5. Reads(old, o) = JoinAll(parts) /\ WalkReads(old, o) \in parts
  BY Zenon DEF Reads
<1>. HIDE DEF walk, parts, n
<1>6. Compatible(AliasReads(old, n), old, new)
  BY <1>3, <1>4, <1>5, CompatibleParts
<1>7. Agrees(old, new, Simple(n))
  BY <1>2, <1>6, AliasReadsAgree
<1>. QED  BY <1>1, <1>2, <1>7, AliasReadsSame, CanonicalAgree DEF n

(* A type the walk passed is as ambiguous as it was: its qualified name is *)
(* recorded.                                                               *)
LEMMA AmbiguityAgrees ==
  ASSUME NEW old \in Snapshots, NEW new \in Snapshots, NEW d \in Declarations(old),
         Compatible(EdgeReads(old, d), old, new)
  PROVE  Ambiguous(new, d) <=> Ambiguous(old, d)
<1>. DEFINE looked == {LookupReads(old, e) : e \in {d} \cup Parents(old, d)}
            typed == {TypeReads(old, d[1], n) : n \in Decl(old, d).supertypes \ Roots}
            parts == looked \cup typed
<1>1. EdgeReads(old, d) = JoinAll(parts)
  BY DEF EdgeReads
<1>2. LookupReads(old, d) \in parts
  OBVIOUS
<1>. HIDE DEF parts
<1>3. Compatible(LookupReads(old, d), old, new)
  BY <1>1, <1>2, CompatibleParts
<1>4. Key(old, d) \notin ChangedNames(old, new)
  BY <1>3 DEF Compatible, LookupReads
<1>5. new[d[1]] = old[d[1]]
  BY EdgeAgree
<1>6. Key(new, d) = Key(old, d) /\ Key(old, d) = <<old[d[1]].package, d[2]>>
  BY <1>5 DEF Key
<1>7. Qualified(new, Key(old, d)) = Qualified(old, Key(old, d))
  BY <1>4, <1>6, QualifiedUnchanged
<1>. QED  BY <1>6, <1>7 DEF Ambiguous

(* The record decides the answer: in any two snapshots that differ in none *)
(* of the files and names an answer recorded, every class both declare has *)
(* the same bridges, ambiguities and missing edges, and a new query would  *)
(* record the same.  This is what carry_compatible_entries relies on when  *)
(* it takes an entry to the next snapshot.                                 *)
THEOREM RecordDecides ==
  ASSUME NEW old \in Snapshots, NEW new \in Snapshots,
         NEW o \in Declarations(old) \cap Declarations(new),
         Compatible(Reads(old, o), old, new)
  PROVE  Reads(new, o) = Reads(old, o) /\ Bridges(new, o) = Bridges(old, o)
<1>. DEFINE A == Ancestors(old, o)
<1>1. /\ Ancestors(new, o) = A
      /\ LookupReads(new, o) = LookupReads(old, o)
      /\ \A d \in A \cup {o} :
           /\ d \in Declarations(old) /\ d[1] \in PathSet
           /\ new[d[1]] = old[d[1]]
           /\ Compatible(EdgeReads(old, d), old, new)
           /\ EdgeReads(new, d) = EdgeReads(old, d)
           /\ \A n \in Decl(old, d).supertypes \ Roots :
                 Resolve(new, d[1], n) = Resolve(old, d[1], n)
  BY WalkAgree
<1>2. /\ Asked(new, o) = Asked(old, o)
      /\ \A d \in Asked(old, o) : Inference(new, d) = Inference(old, d)
      /\ \A d \in A : GetterType(new, d) = GetterType(old, d)
  BY GettersAgree
<1>3. \A d \in A : GetterType(old, d) # None =>
         /\ AliasReads(new, GetterType(old, d)) = AliasReads(old, GetterType(old, d))
         /\ Canonical(new, d[1], GetterType(old, d)) = Canonical(old, d[1], GetterType(old, d))
  BY IdentitiesAgree
<1>4. \A d \in A \cup {o} : Decl(new, d) = Decl(old, d)
  BY <1>1, DeclSame
<1>5. \A d \in A \cup {o} : Ambiguous(new, d) <=> Ambiguous(old, d)
  BY <1>1, AmbiguityAgrees
<1>. HIDE DEF A
<1>6. Reads(new, o) = Reads(old, o)
  <2>. DEFINE typed(s) == {d \in A : GetterType(s, d) # None}
              edges(s) == {EdgeReads(s, d) : d \in A \cup {o}}
              aliases(s) == {AliasReads(s, GetterType(s, d)) : d \in typed(s)}
              inferred(s) == {Inference(s, d).deps : d \in Asked(old, o)}
  <2>1. edges(new) = edges(old)
    BY <1>1
  <2>2. aliases(new) = aliases(old)
    BY <1>2, <1>3
  <2>3. inferred(new) = inferred(old)
    BY <1>2
  <2>4. /\ WalkReads(old, o) = JoinAll({LookupReads(old, o)} \cup edges(old) \cup aliases(old))
        /\ WalkReads(new, o) = JoinAll({LookupReads(new, o)} \cup edges(new) \cup aliases(new))
    BY <1>1, Zenon DEF WalkReads, A
  <2>5. /\ Reads(old, o) = JoinAll({WalkReads(old, o)} \cup inferred(old))
        /\ Reads(new, o) = JoinAll({WalkReads(new, o)} \cup inferred(new))
    BY <1>2, Zenon DEF Reads
  <2>. HIDE DEF edges, aliases, inferred
  <2>. QED  BY <1>1, <2>1, <2>2, <2>3, <2>4, <2>5, Zenon
<1>7. Bridges(new, o) = Bridges(old, o)
  <2>. DEFINE edges == UNION {{<<d, n>> : n \in Decl(old, d).supertypes \ Roots} : d \in A \cup {o}}
              above == IF Decl(old, o).getter = "none" THEN A ELSE {}
              failed(s) == \E d \in A : Ambiguous(s, d)
              incomplete(s) == \E e \in edges : Resolve(s, e[1][1], e[2]) = None
              typed(s) == {d \in above : GetterType(s, d) # None}
              contracts(s) == {<<d, Canonical(s, d[1], GetterType(s, d))>> : d \in typed(s)}
  <2>1. Edges(old, o) = edges /\ Edges(new, o) = edges
    <3>1. {{<<d, n>> : n \in Decl(old, d).supertypes \ Roots} : d \in A \cup {o}}
            = {{<<d, n>> : n \in Decl(new, d).supertypes \ Roots} : d \in A \cup {o}}
      BY <1>4
    <3>. QED  BY <1>1, <3>1, Zenon DEF Edges, A
  <2>2. failed(new) <=> failed(old)
    BY <1>5
  <2>3. \A e \in edges : Resolve(new, e[1][1], e[2]) = Resolve(old, e[1][1], e[2])
    BY <1>1
  <2>4. incomplete(new) <=> incomplete(old)
    <3>. HIDE DEF edges
    <3>. QED  BY <2>3
  <2>5. above \subseteq A
    OBVIOUS
  <2>. HIDE DEF edges
  <2>6. contracts(new) = contracts(old)
    <3>. HIDE DEF above
    <3>1. typed(new) = typed(old)
      BY <1>2, <2>5
    <3>2. \A d \in typed(old) : Canonical(new, d[1], GetterType(new, d)) = Canonical(old, d[1], GetterType(old, d))
      BY <1>2, <1>3, <2>5
    <3>. HIDE DEF typed
    <3>. QED  BY <3>1, <3>2
  <2>. HIDE DEF failed, incomplete, contracts
  <2>7. Bridges(old, o) = [failed |-> failed(old), incomplete |-> incomplete(old), contracts |-> contracts(old)]
    BY <2>1, Zenon DEF Bridges, failed, incomplete, contracts, A
  <2>8. Bridges(new, o) = [failed |-> failed(new), incomplete |-> incomplete(new), contracts |-> contracts(new)]
    <3>1. Decl(new, o) = Decl(old, o)
      BY <1>4
    <3>. QED  BY <1>1, <2>1, <3>1, Zenon DEF Bridges, failed, incomplete, contracts, A
  <2>9. failed(old) \in BOOLEAN /\ failed(new) \in BOOLEAN
        /\ incomplete(old) \in BOOLEAN /\ incomplete(new) \in BOOLEAN
    BY DEF failed, incomplete
  <2>10. failed(new) = failed(old) /\ incomplete(new) = incomplete(old)
    BY <2>2, <2>4, <2>9
  <2>. QED  BY <2>6, <2>7, <2>8, <2>10, Zenon
<1>. QED  BY <1>6, <1>7

-------------------------------------------------------------------------------
(* What an answer records stays near the types it is about: every file it  *)
(* records holds one of them or mentions one of their names, and every     *)
(* name it records is spelled by one of them.                              *)
About(s, o) == Ancestors(s, o) \cup {o}

Bounds(s, o) == {BoundOf(s, d) : d \in About(s, o) \cap Delegating(s)} \ {None}

InvolvedTypes(s, o) ==
    About(s, o) \cup Bounds(s, o) \cup UNION {Ancestors(s, d) : d \in Bounds(s, o)}

Near(s, o, r) ==
    /\ \A p \in r.files : /\ p \in PathSet
                          /\ \/ p \in Involved(s, o).files
                             \/ Mentions(s[p]) \cap Involved(s, o).names # {}
    /\ \A n \in r.names : IsName(n) /\ Simple(n) \in Involved(s, o).names

Unrelated(s, new, o) ==
    \A p \in ChangedFiles(s, new) :
        /\ p \notin Involved(s, o).files
        /\ (Mentions(s[p]) \cup Mentions(new[p])) \cap Involved(s, o).names = {}

LEMMA InvolvedOf ==
  ASSUME NEW s, NEW o, NEW d \in InvolvedTypes(s, o)
  PROVE  /\ d[1] \in Involved(s, o).files
         /\ <<d[2]>> \in Involved(s, o).names
         /\ \A n \in Decl(s, d).supertypes : Simple(n) \in Involved(s, o).names
         /\ Decl(s, d).type # None => Simple(Decl(s, d).type) \in Involved(s, o).names
         /\ Decl(s, d).bound # None => Simple(Decl(s, d).bound) \in Involved(s, o).names
<1>. DEFINE spelled(e) == {<<e[2]>>} \cup {Simple(n) : n \in Decl(s, e).supertypes}
                            \cup {Simple(n) : n \in {n \in {Decl(s, e).type, Decl(s, e).bound} : n # None}}
            all == InvolvedTypes(s, o)
            about == Ancestors(s, o) \cup {o}
            bounds == {Resolve(s, e[1], Decl(s, e).bound) : e \in about \cap Delegating(s)}
            reached == about \cup (bounds \ {None}) \cup UNION {Ancestors(s, e) : e \in bounds \ {None}}
<1>1. reached = all
  BY DEF InvolvedTypes, About, Bounds, BoundOf
<1>2. Involved(s, o) = [files |-> {e[1] : e \in reached}, names |-> UNION {spelled(e) : e \in reached}]
  BY Zenon DEF Involved
<1>. HIDE DEF reached, all, spelled
<1>3. Involved(s, o).files = {e[1] : e \in all} /\ Involved(s, o).names = UNION {spelled(e) : e \in all}
  BY <1>1, <1>2
<1>4. d[1] \in Involved(s, o).files /\ spelled(d) \subseteq Involved(s, o).names
  BY <1>3 DEF all
<1>5. /\ <<d[2]>> \in spelled(d)
      /\ \A n \in Decl(s, d).supertypes : Simple(n) \in spelled(d)
      /\ Decl(s, d).type # None => Simple(Decl(s, d).type) \in spelled(d)
      /\ Decl(s, d).bound # None => Simple(Decl(s, d).bound) \in spelled(d)
  BY DEF spelled
<1>. QED  BY <1>4, <1>5

LEMMA NearJoin ==
  ASSUME NEW s, NEW o, NEW R, \A r \in R : Near(s, o, r)
  PROVE  Near(s, o, JoinAll(R))
  BY DEF Near, JoinAll

LEMMA KindsMentioned ==
  ASSUME NEW f, WellFormed(f), NEW k \in DOMAIN NameCounts(f)
  PROVE  Simple(k[2]) \in Mentions(f)
<1>. DEFINE getters == {m \in DOMAIN f.types : f.types[m].getter # "none"}
            members == IF getters = {} THEN {} ELSE {<<"member", <<"value">> >>}
<1>1. DOMAIN NameCounts(f) =
        {<<"type", <<m>> >> : m \in DOMAIN f.types}
          \cup {<<"type", <<f.package, m>> >> : m \in DOMAIN f.types}
          \cup {<<"alias", a>> : a \in f.aliases}
          \cup {<<"alias", <<f.package>> \o a>> : a \in f.aliases}
          \cup members
  BY DEF NameCounts
<1>2. ASSUME NEW m \in DOMAIN f.types, k[2] = <<m>> \/ k[2] = <<f.package, m>>
      PROVE  Simple(k[2]) \in Mentions(f)
  <2>1. Simple(<<m>>) = <<m>> /\ Simple(<<f.package, m>>) = <<m>>
    BY DEF Simple
  <2>2. <<m>> \in Mentions(f)
    BY DEF Mentions
  <2>. QED  BY <1>2, <2>1, <2>2, Zenon
<1>3. ASSUME NEW a \in f.aliases, k[2] = a \/ k[2] = <<f.package>> \o a
      PROVE  Simple(k[2]) \in Mentions(f)
  <2>. DEFINE own == <<f.package>>
              q == own \o a
  <2>1. a \in Seq(STRING) /\ Len(a) = 1 /\ own \in Seq(STRING) /\ Len(own) = 1
    BY DEF WellFormed, IsName
  <2>. HIDE DEF own
  <2>2. Len(q) = 2 /\ q[2] = a[1]
    <3>1. /\ Len(q) = Len(own) + Len(a)
          /\ \A i \in 1 .. Len(own) + Len(a) :
                q[i] = IF i <= Len(own) THEN own[i] ELSE a[i - Len(own)]
      BY <2>1, ConcatProperties
    <3>. HIDE DEF q
    <3>. QED  BY <2>1, <3>1
  <2>3. a = <<a[1]>>
    BY <2>1
  <2>. HIDE DEF q
  <2>4. Simple(a) = a /\ Simple(q) = a
    BY <2>1, <2>2, <2>3 DEF Simple
  <2>5. a \in Mentions(f)
    BY DEF Mentions
  <2>. QED  BY <1>3, <2>4, <2>5, Zenon DEF q, own
<1>4. ASSUME k \in members PROVE Simple(k[2]) \in Mentions(f)
  <2>1. getters # {} /\ k[2] = <<"value">>
    BY <1>4
  <2>2. <<"value">> \in Mentions(f)
    BY <2>1 DEF Mentions
  <2>3. Simple(<<"value">>) = <<"value">>
    BY DEF Simple
  <2>. QED  BY <2>1, <2>2, <2>3, Zenon
<1>. HIDE DEF members
<1>5. \/ \E m \in DOMAIN f.types : k = <<"type", <<m>> >>
      \/ \E m \in DOMAIN f.types : k = <<"type", <<f.package, m>> >>
      \/ \E a \in f.aliases : k = <<"alias", a>>
      \/ \E a \in f.aliases : k = <<"alias", <<f.package>> \o a>>
      \/ k \in members
  BY <1>1, Zenon
<1>6. CASE \E m \in DOMAIN f.types : k = <<"type", <<m>> >>
  BY <1>2, <1>6
<1>7. CASE \E m \in DOMAIN f.types : k = <<"type", <<f.package, m>> >>
  BY <1>2, <1>7
<1>8. CASE \E a \in f.aliases : k = <<"alias", a>>
  BY <1>3, <1>8
<1>9. CASE \E a \in f.aliases : k = <<"alias", <<f.package>> \o a>>
  <2>1. PICK a \in f.aliases : k = <<"alias", <<f.package>> \o a>>
    BY <1>9
  <2>. DEFINE q == <<f.package>> \o a
  <2>. HIDE DEF q
  <2>2. k = <<"alias", q>>
    BY <2>1, Zenon DEF q
  <2>3. k[2] = q
    BY <2>2
  <2>. QED  BY <1>3, <2>3, Zenon DEF q
<1>. QED  BY <1>4, <1>5, <1>6, <1>7, <1>8, <1>9, Zenon

LEMMA NearCompatible ==
  ASSUME NEW s \in Snapshots, NEW new \in Snapshots, NEW o, Unrelated(s, new, o),
         NEW r, Near(s, o, r)
  PROVE  Compatible(r, s, new)
<1>1. r.files \cap ChangedFiles(s, new) = {}
  BY DEF Near, Unrelated
<1>2. ASSUME NEW n \in r.names, n \in ChangedNames(s, new) PROVE FALSE
  <2>1. PICK p \in ChangedFiles(s, new) :
          \E k \in DOMAIN NameCounts(s[p]) \cup DOMAIN NameCounts(new[p]) : k[2] = n
    BY <1>2 DEF ChangedNames
  <2>2. p \in PathSet /\ WellFormed(s[p]) /\ WellFormed(new[p])
    BY <2>1, SnapshotFiles DEF ChangedFiles
  <2>3. Simple(n) \in Mentions(s[p]) \cup Mentions(new[p])
    BY <2>1, <2>2, KindsMentioned
  <2>4. Simple(n) \in Involved(s, o).names
    BY DEF Near
  <2>. QED  BY <2>1, <2>3, <2>4 DEF Unrelated
<1>. QED  BY <1>1, <1>2 DEF Compatible

LEMMA NearLookup ==
  ASSUME NEW s \in Snapshots, NEW o, NEW d \in InvolvedTypes(s, o), d \in Declarations(s)
  PROVE  Near(s, o, LookupReads(s, d))
<1>1. d[1] \in Involved(s, o).files /\ <<d[2]>> \in Involved(s, o).names
  BY InvolvedOf
<1>2. d[1] \in PathSet /\ d[2] \in STRING /\ s[d[1]].package \in STRING
  BY DeclarationParts, SnapshotFiles DEF WellFormed
<1>3. /\ IsName(<<d[2]>>) /\ Simple(<<d[2]>>) = <<d[2]>>
      /\ IsName(Key(s, d)) /\ Simple(Key(s, d)) = <<d[2]>>
  BY <1>2 DEF IsName, Simple, Key
<1>. QED  BY <1>1, <1>2, <1>3 DEF Near, LookupReads

LEMMA NearAlias ==
  ASSUME NEW s \in Snapshots, NEW o, NEW n, IsName(n), Simple(n) \in Involved(s, o).names
  PROVE  Near(s, o, AliasReads(s, n))
<1>. DEFINE m == n[Len(n)]
<1>1. Simple(n) = <<m>> /\ IsName(<<m>>) /\ Simple(<<m>>) = <<m>>
  BY NameShape DEF Simple
<1>2. /\ AliasReads(s, n).files = {d[1] : d \in Named(s, <<m>>)} \cup Aliasing(s, <<m>>)
      /\ AliasReads(s, n).names = {n, <<m>>}
  BY <1>1 DEF AliasReads
<1>3. \A d \in Named(s, <<m>>) : d[1] \in PathSet /\ <<m>> \in Mentions(s[d[1]])
  BY NamedIn DEF Mentions
<1>4. \A p \in Aliasing(s, <<m>>) : p \in PathSet /\ <<m>> \in Mentions(s[p])
  BY DEF Aliasing, Mentions
<1>. HIDE DEF m
<1>. QED  BY <1>1, <1>2, <1>3, <1>4 DEF Near

LEMMA NearType ==
  ASSUME NEW s \in Snapshots, NEW o, NEW p \in PathSet, p \in Involved(s, o).files,
         NEW n, IsName(n), Simple(n) \in Involved(s, o).names
  PROVE  Near(s, o, TypeReads(s, p, n))
<1>. DEFINE here == [files |-> {p}, names |-> {}]
<1>1. Near(s, o, here)
  BY DEF Near
<1>2. Near(s, o, AliasReads(s, n))
  BY NearAlias
<1>3. TypeReads(s, p, n) = JoinAll({AliasReads(s, n), here})
  BY DEF TypeReads, Join
<1>. HIDE DEF here
<1>. QED  BY <1>1, <1>2, <1>3, NearJoin

LEMMA NearEdge ==
  ASSUME NEW s \in Snapshots, NEW o, NEW d \in Declarations(s),
         {d} \cup Parents(s, d) \subseteq InvolvedTypes(s, o)
  PROVE  Near(s, o, EdgeReads(s, d))
<1>. DEFINE ups == Decl(s, d).supertypes \ Roots
            looked == {LookupReads(s, e) : e \in {d} \cup Parents(s, d)}
            typed == {TypeReads(s, d[1], n) : n \in ups}
<1>1. EdgeReads(s, d) = JoinAll(looked \cup typed)
  BY DEF EdgeReads
<1>2. \A e \in {d} \cup Parents(s, d) : Near(s, o, LookupReads(s, e))
  BY ParentsIn, NearLookup
<1>3. d[1] \in PathSet /\ d[1] \in Involved(s, o).files
      /\ \A n \in ups : IsName(n) /\ Simple(n) \in Involved(s, o).names
  BY DeclShape, InvolvedOf
<1>. HIDE DEF ups
<1>4. \A n \in ups : Near(s, o, TypeReads(s, d[1], n))
  BY <1>3, NearType
<1>5. \A r \in looked \cup typed : Near(s, o, r)
  BY <1>2, <1>4
<1>. HIDE DEF looked, typed
<1>. QED  BY <1>1, <1>5, NearJoin

(* The types above a declaration, with it, are closed under its supertypes *)
(* and hold every level above any of them.                                 *)
LEMMA AboutClosed ==
  ASSUME NEW s \in Snapshots, NEW o \in Declarations(s)
  PROVE  /\ About(s, o) \subseteq Declarations(s)
         /\ \A d \in About(s, o) : Parents(s, d) \subseteq About(s, o)
<1>. DEFINE levels == UNION {Here(s, o, k) : k \in Nat}
<1>1. About(s, o) = levels
  <2>1. o \in Here(s, o, 0)
    BY HereSteps
  <2>2. Ancestors(s, o) = levels \ {o}
    BY AncestorsHere
  <2>. QED  BY <2>1, <2>2 DEF About
<1>2. About(s, o) \subseteq Declarations(s)
  BY AncestorsHere DEF About
<1>3. \A k \in Nat : Below(s, o, k) \subseteq levels
  <2>. DEFINE T == {k \in Nat : ~(Below(s, o, k) \subseteq levels)}
  <2>1. SUFFICES ASSUME T # {} PROVE FALSE
    OBVIOUS
  <2>2. PICK k \in T : \A j \in T : k <= j
    <3>. HIDE DEF T
    <3>1. T \subseteq Nat
      BY DEF T
    <3>. QED  BY <2>1, <3>1, Least
  <2>3. k \in Nat /\ ~(Below(s, o, k) \subseteq levels)
    OBVIOUS
  <2>4. k # 0
    BY <2>3, HereSteps
  <2>. DEFINE i == k - 1
  <2>5. i \in Nat /\ i \notin T /\ i + 1 = k
    BY <2>2, <2>3, <2>4
  <2>6. Below(s, o, i) \subseteq levels /\ Here(s, o, i) \subseteq levels
    <3>1. Below(s, o, i) \subseteq levels
      BY <2>5
    <3>. HIDE DEF T, i
    <3>. QED  BY <2>5, <3>1
  <2>. HIDE DEF T, i, levels
  <2>. QED  BY <2>3, <2>5, <2>6, HereSteps
<1>4. \A k \in Nat :
         /\ Below(s, o, k + 1) = Here(s, o, k) \cup Below(s, o, k)
         /\ Here(s, o, k + 1) = (UNION {Parents(s, e) : e \in Here(s, o, k)})
                                  \ (Here(s, o, k) \cup Below(s, o, k))
  BY HereSteps, Zenon
<1>5. ASSUME NEW d \in About(s, o) PROVE Parents(s, d) \subseteq About(s, o)
  <2>1. PICK k \in Nat : d \in Here(s, o, k)
    BY <1>1
  <2>2. Here(s, o, k + 1) = (UNION {Parents(s, e) : e \in Here(s, o, k)})
                              \ (Here(s, o, k) \cup Below(s, o, k))
    BY <1>4, Zenon
  <2>3. Parents(s, d) \subseteq Here(s, o, k + 1) \cup Here(s, o, k) \cup Below(s, o, k)
    BY <2>1, <2>2
  <2>4. Here(s, o, k + 1) \subseteq levels /\ Here(s, o, k) \subseteq levels
    <3>1. k + 1 \in Nat
      OBVIOUS
    <3>. QED  BY <3>1, Zenon
  <2>. HIDE DEF levels
  <2>. QED  BY <1>1, <1>3, <2>3, <2>4
<1>. QED  BY <1>2, <1>5

LEMMA HereWithin ==
  ASSUME NEW s, NEW X, \A e \in X : Parents(s, e) \subseteq X, NEW d \in X, NEW n \in Nat
  PROVE  Here(s, d, n) \subseteq X
<1>. DEFINE T == {k \in Nat : ~(Here(s, d, k) \subseteq X)}
<1>1. SUFFICES ASSUME T # {} PROVE FALSE
  OBVIOUS
<1>2. PICK k \in T : \A j \in T : k <= j
  <2>. HIDE DEF T
  <2>1. T \subseteq Nat
    BY DEF T
  <2>. QED  BY <1>1, <2>1, Least
<1>3. k \in Nat /\ ~(Here(s, d, k) \subseteq X)
  OBVIOUS
<1>4. k # 0
  BY <1>3, HereSteps
<1>. DEFINE i == k - 1
<1>5. i \in Nat /\ i \notin T /\ i + 1 = k
  BY <1>2, <1>3, <1>4
<1>6. Here(s, d, i) \subseteq X
  BY <1>5
<1>. HIDE DEF T, i
<1>7. Here(s, d, k) = (UNION {Parents(s, e) : e \in Here(s, d, i)})
                        \ (Here(s, d, i) \cup Below(s, d, i))
  BY <1>5, HereSteps
<1>. QED  BY <1>3, <1>6, <1>7

(* The walk to the nearest typed getters stays within such a closed set.   *)
LEMMA NearNearest ==
  ASSUME NEW s \in Snapshots, NEW o, NEW X, X \subseteq Declarations(s),
         X \subseteq InvolvedTypes(s, o), \A e \in X : Parents(s, e) \subseteq X,
         NEW d \in X, NEW from \in Nat
  PROVE  /\ Near(s, o, Nearest(s, d, from).reads)
         /\ Nearest(s, d, from).type # None =>
              Simple(Nearest(s, d, from).type) \in Involved(s, o).names
<1>. DEFINE T == TypedAbove(s, d, from)
            at == NearestOf(T)
            walked == WalkedDeclarations(s, d, T)
            edges == {EdgeReads(s, e) : e \in walked}
            type == IF T = {} THEN None ELSE Only(TypesOn(s, d, at))
            reads == JoinAll(edges)
<1>1. Nearest(s, d, from) = [type |-> type, reads |-> reads]
  BY NearestOverAll, Zenon
<1>2. T \subseteq Nat
  BY DEF TypedAbove
<1>. HIDE DEF T
<1>3. Walked(T) \subseteq Nat
  BY DEF Walked
<1>4. walked \subseteq X
  BY <1>3, HereWithin DEF WalkedDeclarations
<1>. HIDE DEF walked
<1>5. \A e \in walked : Near(s, o, EdgeReads(s, e))
  BY <1>4, NearEdge
<1>6. \A r \in edges : Near(s, o, r)
  BY <1>5
<1>. HIDE DEF edges
<1>7. Near(s, o, reads)
  BY <1>6, NearJoin
<1>8. ASSUME type # None PROVE Simple(type) \in Involved(s, o).names
  <2>1. T # {} /\ type \in TypesOn(s, d, at)
    BY <1>8, OnlyIn
  <2>2. at \in Nat
    BY <1>2, <2>1, NearestLeast
  <2>. HIDE DEF at, type
  <2>3. PICK e \in Here(s, d, at) : type = Decl(s, e).type
    BY <2>1 DEF TypesOn
  <2>4. e \in InvolvedTypes(s, o)
    BY <2>2, HereWithin
  <2>. QED  BY <1>8, <2>3, <2>4, InvolvedOf
<1>. HIDE DEF type, reads
<1>9. Nearest(s, d, from).type = type /\ Nearest(s, d, from).reads = reads
  BY <1>1
<1>. QED  BY <1>7, <1>8, <1>9

LEMMA NearInference ==
  ASSUME NEW s \in Snapshots, NEW o \in Declarations(s), NEW d \in Asked(s, o)
  PROVE  /\ Near(s, o, Inference(s, d).deps)
         /\ Inference(s, d).type # None => Simple(Inference(s, d).type) \in Involved(s, o).names
<1>. DEFINE inherited == Nearest(s, d, 1)
            n == Decl(s, d).bound
            bound == BoundOf(s, d)
            bounded == Bounded(s, d, inherited, bound)
            looked == LookedUp(s, d, inherited, bound, bounded)
            type == IF bounded.type = inherited.type THEN inherited.type ELSE None
            deps == JoinAll(looked)
<1>1. d \in About(s, o) /\ d \in Delegating(s) /\ d \in Declarations(s) /\ Decl(s, d).getter = "delegating"
  BY DEF Asked, About, Delegating
<1>2. d \in InvolvedTypes(s, o) /\ About(s, o) \subseteq InvolvedTypes(s, o)
  BY <1>1 DEF InvolvedTypes
<1>3. d[1] \in PathSet /\ IsName(n)
  BY <1>1, DeclShape
<1>4. d[1] \in Involved(s, o).files /\ Simple(n) \in Involved(s, o).names
  <2>1. n # None
    <3>. HIDE DEF n
    <3>1. Len(n) = 1 \/ Len(n) = 2
      BY <1>3, NameShape
    <3>. QED  BY <3>1 DEF None
  <2>. QED  BY <1>2, <2>1, InvolvedOf
<1>5. /\ Near(s, o, inherited.reads)
      /\ inherited.type # None => IsName(inherited.type)
                                  /\ Simple(inherited.type) \in Involved(s, o).names
  <2>1. About(s, o) \subseteq Declarations(s) /\ \A e \in About(s, o) : Parents(s, e) \subseteq About(s, o)
    BY AboutClosed
  <2>. QED  BY <1>1, <1>2, <2>1, NearNearest, NearestName
<1>6. bound # None => /\ bound \in Declarations(s)
                      /\ bound \in InvolvedTypes(s, o)
                      /\ Ancestors(s, bound) \subseteq InvolvedTypes(s, o)
  <2>. SUFFICES ASSUME bound # None
                PROVE  /\ bound \in Declarations(s)
                       /\ bound \in InvolvedTypes(s, o)
                       /\ Ancestors(s, bound) \subseteq InvolvedTypes(s, o)
    OBVIOUS
  <2>1. bound \in Declarations(s)
    BY <1>3, ResolveIn DEF BoundOf, Named
  <2>2. bound \in Bounds(s, o)
    BY <1>1 DEF Bounds
  <2>. HIDE DEF bound
  <2>. QED  BY <2>1, <2>2 DEF InvolvedTypes
<1>. HIDE DEF inherited, n, bound
<1>7. /\ Near(s, o, bounded.reads)
      /\ bounded.type # None => inherited.type # None /\ bound # None
  <2>1. CASE inherited.type = None \/ bound = None \/ ~Visible(s, d[1], Decl(s, d).bound, bound)
    <3>1. bounded = [type |-> None, reads |-> NoReads]
      BY <2>1, Zenon DEF Bounded
    <3>. HIDE DEF bounded
    <3>2. bounded.type = None /\ bounded.reads = NoReads
      BY <3>1
    <3>3. Near(s, o, NoReads)
      BY DEF Near, NoReads
    <3>. QED  BY <3>2, <3>3
  <2>2. CASE ~(inherited.type = None \/ bound = None \/ ~Visible(s, d[1], Decl(s, d).bound, bound))
    <3>1. bounded = Nearest(s, bound, 0)
      BY <2>2, Zenon DEF Bounded
    <3>2. bound # None /\ inherited.type # None
      BY <2>2
    <3>. DEFINE X == About(s, bound)
    <3>3. X \subseteq Declarations(s) /\ (\A e \in X : Parents(s, e) \subseteq X)
      BY <1>6, <3>2, AboutClosed
    <3>4. X \subseteq InvolvedTypes(s, o) /\ bound \in X
      BY <1>6, <3>2 DEF About
    <3>. HIDE DEF X
    <3>5. Near(s, o, Nearest(s, bound, 0).reads)
      BY <3>3, <3>4, NearNearest
    <3>. QED  BY <3>1, <3>2, <3>5
  <2>. QED  BY <2>1, <2>2
<1>8. Inference(s, d) = [type |-> type, deps |-> deps]
  BY InferenceParts, Zenon DEF inherited, bound
<1>. HIDE DEF bounded
<1>9. \A r \in looked : Near(s, o, r)
  <2>1. Near(s, o, LookupReads(s, d))
    BY <1>1, <1>2, NearLookup
  <2>2. Near(s, o, TypeReads(s, d[1], n))
    BY <1>3, <1>4, NearType
  <2>3. bounded.type # None => Near(s, o, LookupReads(s, bound))
    BY <1>6, <1>7, NearLookup
  <2>4. bounded.type # None => Near(s, o, TypeReads(s, d[1], inherited.type))
    BY <1>3, <1>4, <1>5, <1>7, NearType
  <2>. QED  BY <1>5, <1>7, <2>1, <2>2, <2>3, <2>4 DEF LookedUp, n
<1>. HIDE DEF looked
<1>10. Near(s, o, deps)
  BY <1>9, NearJoin
<1>11. type # None => Simple(type) \in Involved(s, o).names
  BY <1>5
<1>. HIDE DEF type, deps
<1>12. Inference(s, d).type = type /\ Inference(s, d).deps = deps
  BY <1>8
<1>. QED  BY <1>10, <1>11, <1>12

LEMMA NearRecord ==
  ASSUME NEW s \in Snapshots, NEW o \in Declarations(s)
  PROVE  Near(s, o, Reads(s, o))
<1>. DEFINE A == Ancestors(s, o)
            typed == {d \in A : GetterType(s, d) # None}
            edges == {EdgeReads(s, d) : d \in A \cup {o}}
            aliases == {AliasReads(s, GetterType(s, d)) : d \in typed}
            walk == {LookupReads(s, o)} \cup edges \cup aliases
            inferred == {Inference(s, d).deps : d \in Asked(s, o)}
<1>1. /\ A \cup {o} \subseteq Declarations(s)
      /\ A \cup {o} \subseteq InvolvedTypes(s, o)
      /\ \A d \in A \cup {o} : Parents(s, d) \subseteq InvolvedTypes(s, o)
  <2>1. A \cup {o} = About(s, o) /\ About(s, o) \subseteq InvolvedTypes(s, o)
    BY DEF About, InvolvedTypes
  <2>2. About(s, o) \subseteq Declarations(s) /\ \A d \in About(s, o) : Parents(s, d) \subseteq About(s, o)
    BY AboutClosed
  <2>. HIDE DEF A
  <2>. QED  BY <2>1, <2>2
<1>2. \A d \in A : GetterType(s, d) # None =>
         IsName(GetterType(s, d)) /\ Simple(GetterType(s, d)) \in Involved(s, o).names
  <2>. SUFFICES ASSUME NEW d \in A, GetterType(s, d) # None
                PROVE  Simple(GetterType(s, d)) \in Involved(s, o).names
    BY <1>1, GetterName
  <2>1. CASE d \in Delegating(s)
    <3>1. d \in Asked(s, o) /\ GetterType(s, d) = Inference(s, d).type
      BY <2>1 DEF Asked, GetterType
    <3>. QED  BY <3>1, NearInference
  <2>2. CASE d \notin Delegating(s)
    <3>1. GetterType(s, d) = Decl(s, d).type /\ d \in InvolvedTypes(s, o)
      BY <1>1, <2>2 DEF GetterType
    <3>. QED  BY <3>1, InvolvedOf
  <2>. QED  BY <2>1, <2>2
<1>3. \A d \in A \cup {o} : Near(s, o, EdgeReads(s, d))
  BY <1>1, NearEdge
<1>4. Near(s, o, LookupReads(s, o))
  BY <1>1, NearLookup
<1>5. \A d \in typed : Near(s, o, AliasReads(s, GetterType(s, d)))
  BY <1>2, NearAlias
<1>6. WalkReads(s, o) = JoinAll(walk) /\ Reads(s, o) = JoinAll({WalkReads(s, o)} \cup inferred)
  BY Zenon DEF WalkReads, Reads
<1>. HIDE DEF A, typed
<1>7. \A r \in walk : Near(s, o, r)
  BY <1>3, <1>4, <1>5
<1>. HIDE DEF walk
<1>8. Near(s, o, WalkReads(s, o))
  BY <1>6, <1>7, NearJoin
<1>9. \A r \in {WalkReads(s, o)} \cup inferred : Near(s, o, r)
  BY <1>8, NearInference
<1>. HIDE DEF inferred
<1>. QED  BY <1>6, <1>9, NearJoin

-------------------------------------------------------------------------------
(* An overlay carries an entry only past a snapshot that differs in        *)
(* nothing the entry recorded, so the answer and the record are those of   *)
(* the new snapshot too.                                                   *)
LEMMA CacheOverlay ==
  ASSUME CacheInv, NEW edited \in SUBSET PathSet, Overlay(edited)
  PROVE  CacheInv'
<1>1. PICK texts \in [edited -> UNION {Contents[p] : p \in edited}] :
        /\ \A p \in edited : texts[p] \in Contents[p]
        /\ files' = [p \in PathSet |-> IF p \in edited THEN texts[p] ELSE base[p]]
        /\ entries' = [o \in Carried(ComparedWith, files') |-> entries[o]]
        /\ cells' = [d \in KeptCells |-> cells[d]]
        /\ base' = base
  BY DEF Overlay
<1>2. files' \in Snapshots
  <2>1. \A p \in PathSet : files'[p] \in Contents[p]
    BY <1>1 DEF CacheInv, Snapshots
  <2>2. files' \in [PathSet -> UNION {Contents[p] : p \in PathSet}]
    BY <1>1, <2>1
  <2>. QED  BY <2>1, <2>2 DEF Snapshots
<1>3. EntriesExact'
  <2>1. DOMAIN entries' \subseteq DOMAIN entries
    BY <1>1 DEF Carried
  <2>2. ASSUME NEW o \in DOMAIN entries'
        PROVE  /\ o \in Owners \cap Declarations(files')
               /\ entries'[o] = [answer |-> Bridges(files', o), deps |-> Reads(files', o)]
    <3>1. /\ o \in DOMAIN entries
          /\ entries'[o] = entries[o]
          /\ Compatible(entries[o].deps, files, files')
          /\ o \in Declarations(files')
      BY <1>1 DEF Carried, ComparedWith
    <3>2. /\ o \in Owners /\ o \in Declarations(files)
          /\ entries[o] = [answer |-> Bridges(files, o), deps |-> Reads(files, o)]
      BY <3>1 DEF CacheInv, EntriesExact
    <3>3. Compatible(Reads(files, o), files, files')
      BY <3>1, <3>2
    <3>4. Reads(files', o) = Reads(files, o) /\ Bridges(files', o) = Bridges(files, o)
      BY <3>1, <3>2, <3>3, <1>2, RecordDecides DEF CacheInv
    <3>. QED  BY <3>1, <3>2, <3>4
  <2>. QED  BY <2>2 DEF EntriesExact
<1>4. RememberedTypesFresh' /\ DOMAIN cells' \subseteq Delegating(files')
  BY <1>1 DEF RememberedTypesFresh, KeptCells
<1>. QED  BY <1>1, <1>2, <1>3, <1>4 DEF CacheInv

LEMMA CacheStep == CacheInv /\ [Next]_vars => CacheInv'
<1>. SUFFICES ASSUME CacheInv, [Next]_vars PROVE CacheInv'
  OBVIOUS
<1>1. ASSUME NEW d \in Declarations(files), Infer(d) PROVE CacheInv'
  BY <1>1, CacheInfer
<1>2. ASSUME NEW o \in Owners, Query(o) PROVE CacheInv'
  BY <1>2, CacheQuery
<1>3. ASSUME NEW edited \in SUBSET PathSet, Overlay(edited) PROVE CacheInv'
  BY <1>3, CacheOverlay
<1>4. CASE UNCHANGED vars
  BY <1>4 DEF vars, CacheInv, EntriesExact, RememberedTypesFresh
<1>. QED  BY <1>1, <1>2, <1>3, <1>4 DEF Next

LEMMA CacheExact == Spec => []CacheInv
  BY CacheInit, CacheStep, PTL DEF Spec

(* Every cached answer is the answer a new query would compute, and every  *)
(* remembered type the one the getter has now: whatever was edited,        *)
(* reverted, added or deleted since, however many snapshots an entry was   *)
(* carried over.                                                           *)
THEOREM CarriedAnswersFresh == Spec => []CacheConsistent
<1>1. CacheInv => CacheConsistent
  BY DEF CacheInv, EntriesExact, CachedAnswersFresh, TypeOK, CacheConsistent
<1>. QED  BY <1>1, CacheExact, PTL

(* Every cached answer carries the record a new query would make: a        *)
(* remembered type replays all it was inferred from.                       *)
THEOREM RecordsComplete == Spec => []RecordIndependentOfOrder
<1>1. CacheInv => RecordIndependentOfOrder
  BY DEF CacheInv, EntriesExact, RecordIndependentOfOrder
<1>. QED  BY <1>1, CacheExact, PTL

(* An edit of files that neither hold the types an answer is about nor     *)
(* declare a name those spell keeps the answer: nothing it recorded lies   *)
(* further off, so carry_compatible_entries takes the entry along.         *)
THEOREM UnrelatedEditsAreIgnored == Spec => UnrelatedEditsKeepAnswers
<1>. DEFINE Kept(o) == o \in DOMAIN entries' /\ entries'[o] = entries[o]
            Keeps == \A o \in DOMAIN entries : Unrelated(files, files', o) => Kept(o)
<1>1. ASSUME CacheInv, Next, NEW o \in DOMAIN entries, Unrelated(files, files', o)
      PROVE  Kept(o)
  <2>1. ASSUME NEW d \in Declarations(files), Infer(d) PROVE Kept(o)
    BY <2>1 DEF Infer
  <2>2. ASSUME NEW q \in Owners, Query(q) PROVE Kept(o)
    <3>1. /\ q \notin DOMAIN entries
          /\ DOMAIN entries' = DOMAIN entries \cup {q}
          /\ \A e \in DOMAIN entries \cup {q} : e # q => entries'[e] = entries[e]
      BY <2>2 DEF Query
    <3>. QED  BY <3>1
  <2>3. ASSUME NEW edited \in SUBSET PathSet, Overlay(edited) PROVE Kept(o)
    <3>1. entries' = [e \in Carried(files, files') |-> entries[e]]
      BY <2>3, Zenon DEF Overlay, ComparedWith
    <3>2. files \in Snapshots /\ files' \in Snapshots
      BY <1>1, <2>3, CacheOverlay DEF CacheInv
    <3>3. o \in Declarations(files) /\ entries[o].deps = Reads(files, o)
      BY <1>1 DEF CacheInv, EntriesExact
    <3>4. Compatible(Reads(files, o), files, files')
      BY <1>1, <3>2, <3>3, NearRecord, NearCompatible
    <3>5. files'[o[1]] = files[o[1]]
      <4>1. o \in InvolvedTypes(files, o)
        BY DEF InvolvedTypes, About
      <4>2. o[1] \in Involved(files, o).files /\ o[1] \in PathSet
        BY <3>2, <3>3, <4>1, InvolvedOf, DeclShape
      <4>. QED  BY <1>1, <4>2 DEF Unrelated, ChangedFiles
    <3>6. o \in Declarations(files')
      BY <3>2, <3>3, <3>5, DeclarationParts
    <3>7. o \in Carried(files, files')
      BY <3>3, <3>4, <3>6 DEF Carried
    <3>. QED  BY <3>1, <3>7
  <2>. QED  BY <1>1, <2>1, <2>2, <2>3 DEF Next
<1>2. CacheInv /\ [Next]_vars => [Keeps]_vars
  BY <1>1 DEF vars
<1>3. [Keeps]_vars =>
        [\A o \in DOMAIN entries :
           (\A p \in ChangedFiles(files, files') :
               /\ p \notin Involved(files, o).files
               /\ (Mentions(files[p]) \cup Mentions(files'[p]))
                    \cap Involved(files, o).names = {})
           => /\ o \in DOMAIN entries'
              /\ entries'[o] = entries[o]]_vars
  BY Zenon DEF Unrelated
<1>. QED  BY <1>2, <1>3, CacheExact, PTL DEF Spec, UnrelatedEditsKeepAnswers
=============================================================================
