----------------------------- MODULE RetentionRules -----------------------------
(***************************************************************************)
(* How preparing a file turns ownership queries into decisions.  Every     *)
(* lowering rule asks the retained set a sequence of questions, in order,  *)
(* and stops at the first that blocks: that short circuit decides both the *)
(* owner and which queries the probe records.  A workspace is a record     *)
(*   owner   : symbol -> file      name : symbol -> simple name            *)
(*   asks    : symbol -> sequence of queries                               *)
(*   coupled : files whose top-level declarations must share an owner      *)
(*   limit   : --max-retention-passes                                      *)
(***************************************************************************)
EXTENDS Naturals, Sequences

Always == [kind |-> "always"]              \* blocked by the source itself
Kotlin(s) == [kind |-> "kotlin", arg |-> s] \* blocked while s stays Kotlin
Java(s) == [kind |-> "java", arg |-> s]     \* blocked while s becomes Java
Named(n) == [kind |-> "named", arg |-> n]   \* blocked by any retained n

(* retention_queries::contains and contains_name.                          *)
Contains(R, s) == s \in R
ContainsName(w, R, n) == \E s \in R : w.name[s] = n

Blocks(w, R, q) ==
  CASE q.kind = "always" -> TRUE
    [] q.kind = "kotlin" -> Contains(R, q.arg)
    [] q.kind = "java"   -> ~ Contains(R, q.arg)
    [] q.kind = "named"  -> ContainsName(w, R, q.arg)

(* The queries evaluated for a declaration: those before the first that    *)
(* blocks, and that one.                                                   *)
Asked(w, s, R) ==
  LET qs == w.asks[s]
  IN { qs[i] : i \in { k \in 1..Len(qs) : \A j \in 1..(k - 1) : ~ Blocks(w, R, qs[j]) } }

Blocked(w, s, R) == \E q \in Asked(w, s, R) : Blocks(w, R, q)

RuleDeclared(w, f) == { s \in DOMAIN w.owner : w.owner[s] = f }

BlockedIn(w, f, R) == { s \in RuleDeclared(w, f) : Blocked(w, s, R) }

(* Effectful file initializers and annotated facades: one blocked, or      *)
(* already retained, top-level member keeps all of them in Kotlin.         *)
Coupling(w, f, R) ==
  f \in w.coupled /\ \E s \in RuleDeclared(w, f) : s \in BlockedIn(w, f, R) \/ Contains(R, s)

RulePrepared(w, f, R) ==
  IF Coupling(w, f, R) THEN RuleDeclared(w, f) ELSE BlockedIn(w, f, R)

(* The coupling asks about every member that nothing else blocked.         *)
RuleSymbolReads(w, f, R) ==
  { q.arg : q \in { p \in UNION { Asked(w, s, R) : s \in RuleDeclared(w, f) } :
                      p.kind \in {"kotlin", "java"} } }
    \cup IF f \in w.coupled THEN RuleDeclared(w, f) \ BlockedIn(w, f, R) ELSE {}

RuleNameReads(w, f, R) ==
  { q.arg : q \in { p \in UNION { Asked(w, s, R) : s \in RuleDeclared(w, f) } :
                      p.kind = "named" } }

RuleNameOf(w, s) == w.name[s]
RuleMaxPasses(w) == w.limit
=============================================================================
