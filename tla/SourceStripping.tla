-------------------------- MODULE SourceStripping --------------------------
(***************************************************************************)
(* What an in-place run does to one Kotlin file (src/migrate.rs): the      *)
(* declarations that became Java are cut out, every construct that keeps   *)
(* the rest in Kotlin gets a NOTLIN comment on the line above it, and a    *)
(* file with nothing left is deleted.  The comments are input of the next  *)
(* run: the code recognises and replaces its own, old ones included.       *)
(*                                                                         *)
(* A file is a sequence of items, each one or more whole lines: a line of  *)
(* code, a comment of the user's, a blank line, or a comment that notlin   *)
(* wrote, with its indentation.  Byte offsets are positions in that        *)
(* sequence; declarations that share a line are left out.                  *)
(***************************************************************************)
EXTENDS Integers, SequencesExt

CONSTANTS
    Files,         \* the files the first run may find, sequences of items
    Reasons,       \* what a comment can say
    MaxRuns        \* bound: runs over the file

(***************************************************************************)
(* kind: "text" a package or import line; "comment" a // line of the       *)
(* user's; "doc" a KDoc and "plain" a block comment of the user's, each    *)
(* over several lines; "ann", "head" and "body" the lines of declaration   *)
(* of; "marker" a generated KDoc, "note" a generated // line and "legacy"  *)
(* the block comment older versions wrote, each giving a reason.           *)
(* `indent` is the column the lines of an item start at; the first line of *)
(* a marker stands `drift` columns further right when a run has put it     *)
(* behind the indentation of the marker it replaced.                       *)
(***************************************************************************)
Code == {"ann", "head", "body"}
Generated == {"marker", "note", "legacy"}
Blocks == {"marker", "legacy", "doc", "plain"}
Kinds == Code \cup Blocks \cup {"note", "text", "comment", "blank"}
Items == [kind : Kinds, of : STRING, indent : Nat, drift : Nat]
Indented(kind, of, n) == [kind |-> kind, of |-> of, indent |-> n, drift |-> 0]
Item(kind, of) == Indented(kind, of, 0)
Column(x) == x.indent + x.drift
Blank == Item("blank", "")

VARIABLES
    file,          \* the items of the file, <<>> once it is deleted
    verdict,       \* what the last run said of each declaration
    parse,         \* where that run's parser saw each annotated declaration
    strays,        \* its stale diagnostics at a comment, as far as not dropped
    runs           \* invocations so far

vars == <<file, verdict, parse, strays, runs>>

Lines(f, d) == {i \in DOMAIN f : f[i].kind \in Code /\ f[i].of = d}
Declarations(f) == {f[i].of : i \in {j \in DOMAIN f : f[j].kind \in Code}}
Keyword(f, d) == CHOOSE i \in Lines(f, d) : f[i].kind = "head"

(***************************************************************************)
(* A file the parser reads: a declaration is its annotations, one keyword  *)
(* and its body, in this order, and what stands between two of its lines   *)
(* is another of its lines, a blank line or a comment notlin put there.    *)
(* (A comment of the user's inside it is part of its body.)                *)
(***************************************************************************)
WellFormed(f) ==
    /\ f \in Seq(Items)
    /\ \A d \in Declarations(f) : \E i \in Lines(f, d) :
          /\ f[i].kind = "head"
          /\ \A j \in Lines(f, d) \ {i} : f[j].kind = IF j < i THEN "ann" ELSE "body"
    /\ \A i, j, k \in DOMAIN f :
          /\ i < j /\ j < k
          /\ f[i].kind \in Code /\ k \in Lines(f, f[i].of)
          => j \in Lines(f, f[i].of) \/ f[j].kind \in Generated \cup {"blank"}

ASSUME FilesAssumption == \A f \in Files : WellFormed(f)

(* The words a verdict is made of are names like any other.                *)
ASSUME ReasonsAssumption ==
    /\ Reasons \cup {"none", "java", "stale"} \subseteq STRING
    /\ MaxRuns \in Nat

(***************************************************************************)
(* The items of f at some positions, in their order.                       *)
(***************************************************************************)
Pick(f, at) ==
    LET picked[i \in 0 .. Len(f)] ==
            IF i = 0 THEN <<>>
            ELSE IF i \in at THEN Append(picked[i - 1], f[i])
            ELSE picked[i - 1]
    IN picked[Len(f)]

(***************************************************************************)
(* A verdict is "java" or the reasons that retain the declaration: one at  *)
(* the declaration and one at a line of its body, either may be missing.   *)
(* `stale` is a diagnostic of an earlier parse that points at a comment.   *)
(***************************************************************************)
None == "none"
Java == [at |-> "java", inside |-> None]
Verdicts(f, d) ==
    {Java} \cup
    {[at |-> a, inside |-> b] :
        a \in Reasons \cup {None},
        b \in IF \E i \in Lines(f, d) : f[i].kind = "body"
              THEN Reasons \cup {None} ELSE {None}}

(***************************************************************************)
(* The grammar attaches a leading annotation to its declaration or leaves  *)
(* it beside it as an expression of its own; the declaration then starts   *)
(* at the keyword, and the annotation is a wrapper recorded for it.        *)
(***************************************************************************)
Parses(f, d) ==
    IF \E i \in Lines(f, d) : f[i].kind = "ann"
    THEN {"attached", "separate"} ELSE {"attached"}

First(f, d, how) ==
    IF how = "separate" THEN Keyword(f, d) ELSE Min(Lines(f, d))

(***************************************************************************)
(* The positions a run strips: each translated declaration from its first  *)
(* line to its last, and the wrappers before it.                           *)
(***************************************************************************)
TranslatedSpans(f, v, how) ==
    UNION {(First(f, d, how[d]) .. Max(Lines(f, d))) \cup Lines(f, d) :
              d \in {e \in Declarations(f) : v[e] = Java}}

(***************************************************************************)
(* The comments a run wants above each line, in the order of the           *)
(* diagnostics and with the line's indentation.  A diagnostic that points  *)
(* at a comment notlin wrote should be dropped; but the code looks for an  *)
(* opening before the position first and at the position itself only if    *)
(* the file has none, so behind any other KDoc, which is closed, it keeps  *)
(* it.  (One that points further into the comment is always dropped.)      *)
(***************************************************************************)
InsideGeneratedKdoc(f, at) ==
    /\ f[at].kind = "marker"
    /\ \A i \in 1 .. at - 1 : f[i].kind \notin {"marker", "doc"}

BlockersAnnotatingComments(f, v, how, stale) ==
    [i \in DOMAIN f |->
        LET d == f[i].of
            own == f[i].kind \in Code /\ v[d] # Java
            says(reason) == <<Indented("marker", reason, Column(f[i]))>>
        IN (IF own /\ v[d].at # None /\ i = First(f, d, how[d])
            THEN says(v[d].at) ELSE <<>>)
           \o (IF own /\ v[d].inside # None /\ f[i].kind = "body"
               THEN says(v[d].inside) ELSE <<>>)
           \o (IF i \in stale THEN says("stale") ELSE <<>>)]

Blockers(f, v, how, stale) ==
    [i \in DOMAIN f |->
        LET d == f[i].of
            own == f[i].kind \in Code /\ v[d] # Java
            says(reason) == <<Indented("marker", reason, Column(f[i]))>>
        IN (IF own /\ v[d].at # None /\ i = First(f, d, how[d])
            THEN says(v[d].at) ELSE <<>>)
           \o (IF own /\ v[d].inside # None /\ f[i].kind = "body"
               THEN says(v[d].inside) ELSE <<>>)
           \o (IF i \in stale /\ ~InsideGeneratedKdoc(f, i)
               THEN says("stale") ELSE <<>>)]

(***************************************************************************)
(* A generated KDoc with nothing but annotations between it and the line   *)
(* belongs to that line.  0 when there is none.                            *)
(***************************************************************************)
LastOf(f, from, to, kinds) ==
    LET at == {i \in from .. to : f[i].kind \in kinds}
    IN IF at = {} THEN 0 ELSE Max(at)

NearestMarker(f, from, line) ==
    LET open == LastOf(f, from, line - 1, {"marker", "doc"})
    IN IF open # 0 /\ f[open].kind = "marker" THEN open ELSE 0

MarkerBeforeAnnotations(f, from, line) ==
    LET open == LastOf(f, from, line - 1, {"marker", "doc"})
        between == {f[i].kind : i \in open + 1 .. line - 1}
    IN IF /\ open # 0
          /\ f[open].kind = "marker"
          /\ "ann" \in between
          /\ between \subseteq {"ann", "blank"}
       THEN open ELSE 0

(***************************************************************************)
(* The generated comments that stand directly above a line: notes, and     *)
(* blocks whose opening is found by searching back for the last KDoc, and  *)
(* for the last legacy block when that KDoc is not generated.  A block is  *)
(* taken only if no other comment ends between its opening and here, a     *)
(* note only if it is indented like the line.                              *)
(***************************************************************************)
Opening(f, from, at) ==
    LET kdoc == LastOf(f, from, at, {"marker", "doc"})
    IN IF kdoc # 0 /\ f[kdoc].kind = "marker" THEN kdoc
       ELSE LastOf(f, from, at, {"legacy"})

AbsorbedAnyComment(f, from, at, indent) ==
    f[at].kind \in Blocks \cup {"note"}

Absorbed(f, from, at, indent) ==
    \/ f[at].kind = "note" /\ f[at].indent = indent
    \/ f[at].kind \in Blocks /\ Opening(f, from, at) = at

BlockStart(f, from, line) ==
    Min({s \in from .. line :
           \A i \in s .. line - 1 : Absorbed(f, from, i, Column(f[line]))})

(***************************************************************************)
(* Copies f[from..to], each wanted comment above its line.  p is what has  *)
(* not been copied yet: a marker an earlier line consumed is not replaced  *)
(* a second time.  A marker above annotations is compared and cut out from *)
(* its opening on, without the indentation before it: only an unindented   *)
(* one can equal what is wanted, and what replaces it is written behind    *)
(* the old indentation.                                                    *)
(***************************************************************************)
CopyKeptInPlace(f, from, to, wanted) ==
    FlattenSeq([k \in 1 .. to - from + 1 |->
        LET i == from + k - 1 IN IF wanted[i] = <<>> THEN <<f[i]>> ELSE wanted[i]])

Behind(column, block) == [block EXCEPT ![1].drift = column]

ReadsAlike(marker, block) ==
    block = <<[marker EXCEPT !.drift = 0]>> /\ marker.indent = 0

InsertAbove(f, from, wanted, acc, line) ==
    LET block == wanted[line]
        above == MarkerBeforeAnnotations(f, acc.p, line)
        start == Max({BlockStart(f, from, line), acc.p})
    IN CASE above # 0 /\ ReadsAlike(f[above], block) -> acc
         [] above # 0 /\ ~ReadsAlike(f[above], block) ->
              [out |-> acc.out \o SubSeq(f, acc.p, above - 1)
                               \o Behind(Column(f[above]), block)
                               \o SubSeq(f, above + 1, line - 1),
               p |-> line]
         [] above = 0 /\ SubSeq(f, start, line - 1) = block -> acc
         [] OTHER ->
              [out |-> acc.out \o SubSeq(f, acc.p, start - 1) \o block,
               p |-> line]

CopyKept(f, from, to, wanted) ==
    LET done[i \in 0 .. to] ==
            IF i < from THEN [out |-> <<>>, p |-> from]
            ELSE IF wanted[i] = <<>> THEN done[i - 1]
            ELSE InsertAbove(f, from, wanted, done[i - 1], i)
    IN done[to].out \o SubSeq(f, done[to].p, to)

(***************************************************************************)
(* Strips the spans: the regions between them are copied one by one, so a  *)
(* comment is never sought beyond the cut above its line.  copied[i] is    *)
(* what the first i items leave.                                           *)
(***************************************************************************)
StripTranslated(f, spans, wanted) ==
    LET start(i) == Min({j \in 1 .. i : (j .. i) \cap spans = {}})
        copied[i \in 0 .. Len(f)] ==
            IF i = 0 THEN <<>>
            ELSE IF i \in spans THEN copied[i - 1]
            ELSE copied[start(i) - 1] \o CopyKept(f, start(i), i, wanted)
    IN copied[Len(f)]

(***************************************************************************)
(* One blank line where there were several, none at either end.            *)
(***************************************************************************)
Tidy(f) ==
    LET shown == {i \in DOMAIN f : f[i] # Blank}
    IN Pick(f, {i \in DOMAIN f :
                    \/ i \in shown
                    \/ /\ \E j \in shown : j < i
                       /\ \E j \in shown : j > i
                       /\ f[i - 1] # Blank})

OnlyCommentLines(f) ==
    \A i \in DOMAIN f : f[i].kind \in {"blank", "comment", "note"}

(***************************************************************************)
(* The decision for the file: the items to write, or <<>> to delete it.    *)
(***************************************************************************)
Propose(f, v, how, stale, includeBlockers) ==
    LET spans == TranslatedSpans(f, v, how)
        all == Blockers(f, v, how, stale)
        wanted == IF includeBlockers THEN all ELSE [i \in DOMAIN f |-> <<>>]
        stripped == Tidy(StripTranslated(f, spans, wanted))
        untouched == spans = {} /\ \A i \in DOMAIN f : wanted[i] = <<>>
    IN CASE untouched -> f
         [] ~untouched /\ spans # {} /\ \A d \in Declarations(f) : v[d] = Java -> <<>>
         [] ~untouched /\ spans = {} -> stripped
         [] OTHER -> IF OnlyCommentLines(stripped) THEN <<>> ELSE stripped

Init ==
    /\ file \in Files
    /\ verdict = [d \in Declarations(file) |-> [at |-> None, inside |-> None]]
    /\ parse = [d \in Declarations(file) |-> "attached"]
    /\ strays = {}
    /\ runs = 0

(***************************************************************************)
(* One --in-place run: the user has changed what he wanted between runs,   *)
(* so any verdict may follow any other.                                    *)
(***************************************************************************)
Run ==
    /\ runs < MaxRuns
    /\ file # <<>>
    /\ runs' = runs + 1
    /\ \E v \in [Declarations(file) -> UNION {Verdicts(file, d) : d \in Declarations(file)}],
          how \in [Declarations(file) -> {"attached", "separate"}],
          stale \in {s \in SUBSET {i \in DOMAIN file : file[i].kind = "marker"} :
                        Cardinality(s) <= 1} :
          /\ \A d \in Declarations(file) :
                v[d] \in Verdicts(file, d) /\ how[d] \in Parses(file, d)
          /\ verdict' = v
          /\ parse' = how
          /\ strays' = {i \in stale : ~InsideGeneratedKdoc(file, i)}
          /\ file' = Propose(file, v, how, stale, TRUE)

Next == Run
Spec == Init /\ [][Next]_vars

---------------------------------------------------------------------------
Retained(f, v) == {d \in Declarations(f) : v[d] # Java}

(***************************************************************************)
(* A file as a run wrote it has no blank line at either end and never two  *)
(* in a row, and the declarations left in it all have a verdict.           *)
(***************************************************************************)
TypeOK ==
    /\ file \in Seq(Items)
    /\ Declarations(file) \subseteq DOMAIN verdict
    /\ DOMAIN parse = DOMAIN verdict
    /\ strays \subseteq Nat
    /\ runs \in 0 .. MaxRuns
    /\ file \notin Files =>
          \A i \in DOMAIN file : file[i] = Blank =>
             i \notin {1, Len(file)} /\ file[i - 1] # Blank

(***************************************************************************)
(* A run loses no line but those of the declarations that became Java: the *)
(* code it keeps is there in its order, and so are the user's comments and *)
(* imports in every file that is not deleted, however many generated       *)
(* comments are replaced around them.                                      *)
(***************************************************************************)
Users(f) == Pick(f, {i \in DOMAIN f : f[i].kind \notin Generated \cup {"blank"}})

UserLinesSurvive ==
    [][LET Stays(x) == /\ x.kind \notin Generated \cup {"blank"}
                       /\ x.kind \in Code => verdict'[x.of] # Java
                       /\ file' = <<>> => x.kind \in Code
       IN Users(file') = Pick(file, {i \in DOMAIN file : Stays(file[i])})]_vars

(***************************************************************************)
(* Running again with the same verdicts writes the same file, whatever     *)
(* stale diagnostics point at a first comment, and even when the parser    *)
(* that saw a declaration start at its annotations now sees it start at    *)
(* its keyword: markers do not pile up.  Three things are excepted: a      *)
(* stale diagnostic that is not dropped; a comment that already stands     *)
(* between annotations and keyword, which only the second parse takes for  *)
(* the declaration's own; and a marker above annotations that is indented  *)
(* or whose declaration is, which a run replaces and pushes to the right.  *)
(***************************************************************************)
MarkerInside(f, d) ==
    \E i, j, k \in DOMAIN f :
        /\ i < j /\ j < k
        /\ f[i].kind = "ann" /\ f[i].of = d
        /\ f[j].kind \in Generated
        /\ f[k].kind = "head" /\ f[k].of = d

Pushed(f, v, how, d) ==
    LET above == MarkerBeforeAnnotations(f, 1, Keyword(f, d))
    IN /\ how[d] = "separate" /\ v[d].at # None /\ above # 0
       /\ f[above].indent # 0 \/ Column(f[Keyword(f, d)]) # 0

RunningAgainChangesNothing ==
    [][/\ runs > 0
       /\ verdict' = verdict
       /\ strays = {} /\ strays' = {}
       /\ \A d \in DOMAIN parse' :
             parse'[d] # parse[d] =>
                parse'[d] = "separate" /\ ~MarkerInside(file, d)
       /\ \A d \in Retained(file, verdict) : ~Pushed(file, verdict, parse', d)
       => file' = file]_vars

(***************************************************************************)
(* After a run, the nearest comment above a line the run blamed, past      *)
(* annotations and blank lines only, is this run's reason and no older one *)
(* (copy_kept, generated_kdoc_before_annotations and tidy together).  A    *)
(* stale diagnostic at a comment between annotations and keyword can take  *)
(* the place of the reason above the annotations.                          *)
(***************************************************************************)
Above(f, i) ==
    {j \in 1 .. i - 1 :
        /\ f[j].kind \in Generated
        /\ \A k \in j + 1 .. i - 1 : f[k].kind \in Generated \cup {"ann", "blank"}}

Reads(f, i, reason) ==
    /\ Above(f, i) # {}
    /\ f[Max(Above(f, i))].kind = "marker"
    /\ f[Max(Above(f, i))].of = reason

ReasonIsCurrent ==
    runs > 0 =>
        \A d \in Retained(file, verdict) :
            /\ verdict[d].at # None =>
                 LET first == First(file, d, parse[d])
                 IN \/ Reads(file, first, verdict[d].at)
                    \/ /\ strays # {} /\ file[first].kind = "ann"
                       /\ Reads(file, first, "stale")
            /\ verdict[d].inside # None =>
                 \A i \in Lines(file, d) :
                    file[i].kind = "body" => Reads(file, i, verdict[d].inside)

(***************************************************************************)
(* The residue the speculative rounds plan on, stripped without comments,  *)
(* is the residue the run writes once its comments are ignored.            *)
(***************************************************************************)
SpeculationSeesTheResidue ==
    [][\A how \in {parse'} :
         Users(file') = Users(Propose(file, verdict', how, {}, FALSE))]_vars

(***************************************************************************)
(* The files between two runs: tidy, and blamed with current reasons.      *)
(***************************************************************************)
MarkersConsistent == TypeOK /\ ReasonIsCurrent
=============================================================================
