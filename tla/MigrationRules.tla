----------------------------- MODULE MigrationRules -----------------------------
(***************************************************************************)
(* The retention rules of the lowerers that look at the current texts and  *)
(* outputs, and so can change their answer from one speculative round to   *)
(* the next.  A workspace is a record                                      *)
(*   file    : declaration -> source      strict : strict mode             *)
(*   path    : declaration -> Java file   occupied : foreign Java files    *)
(*   blocked : declarations the source itself keeps                        *)
(*   needs   : declaration -> declarations it stays Kotlin with            *)
(*   fragile : classes that stay while another Kotlin file names them      *)
(*   names   : <<declaration, class it names>> pairs                       *)
(*   calls   : <<caller, top-level function>> pairs                        *)
(*   unrepairable : calls with named arguments, by reference or qualified  *)
(*   warned  : approximations             answered : signed by the helper  *)
(*   limit   : --max-pass                                                  *)
(***************************************************************************)
EXTENDS Naturals, FiniteSets

RuleFileOf(w, d) == w.file[d]

InText(w, texts, d) == d \in texts[w.file[d]]

(* The KClass rule: any Kotlin file but the declaring one that has the     *)
(* name in its text counts, however much of that file moves this round.    *)
NamedElsewhere(w, texts, d) ==
  \E name \in w.names :
    /\ name[2] = d
    /\ w.file[name[1]] # w.file[d]
    /\ InText(w, texts, name[1])

(* C002 to C007: a call no repair can rewrite stands in some Kotlin text.  *)
CalledUnrepairably(w, texts, t) ==
  \E call \in w.unrepairable : call[2] = t /\ InText(w, texts, call[1])

(* C003: some Java source, a generated one included, calls the Kotlin      *)
(* facade of the function.                                                 *)
CalledThroughFacade(viaKotlin, t) == \E call \in viaKotlin : call[2] = t

Rooted(w, texts, viaKotlin, carried, d) ==
  \/ d \in w.blocked \cup carried
  \/ d \in w.fragile /\ NamedElsewhere(w, texts, d)
  \/ CalledUnrepairably(w, texts, d)
  \/ CalledThroughFacade(viaKotlin, d)

(* The ownership fixpoint of the round over the rules above: a declaration *)
(* stays with any retained one it needs.                                   *)
RuleKept(w, texts, viaKotlin, carried) ==
  LET present == UNION { texts[f] : f \in DOMAIN texts }
      kept[n \in 0..Cardinality(present)] ==
        IF n = 0 THEN { d \in present : Rooted(w, texts, viaKotlin, carried, d) }
        ELSE kept[n - 1] \cup { d \in present : w.needs[d] \cap kept[n - 1] # {} }
  IN kept[Cardinality(present)]

RuleStrict(w) == w.strict
RuleWarned(w) == w.warned
RuleAnswered(w) == w.answered
RuleCalls(w) == w.calls
RuleUnrepairable(w) == w.unrepairable
RuleOutputPath(w, d) == w.path[d]
RuleOccupied(w) == w.occupied
RuleMaxRounds(w) == w.limit
=================================================================================
