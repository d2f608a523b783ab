--------------------------- MODULE InterfaceRetention ---------------------------
(***************************************************************************)
(* The retention rules kotlin_retention_reason applies to Kotlin           *)
(* interfaces of an in-place run whose properties are plain abstract ones, *)
(* and the ownership queries those rules record.  A workspace is a record  *)
(*   owner     : interface -> file     name : interface -> simple name     *)
(*   supers    : interface -> its direct Kotlin superinterfaces            *)
(*   properties: interface -> the properties it declares                   *)
(*   blocked   : interfaces the source itself keeps in Kotlin              *)
(***************************************************************************)
EXTENDS Naturals, FiniteSets

Interfaces(w) == DOMAIN w.owner

InterfacesIn(w, f) == { i \in Interfaces(w) : w.owner[i] = f }

DirectSubtypes(w, i) == { j \in Interfaces(w) : i \in w.supers[j] }

(* The worklist of retained_kotlin_property_ancestor visits every proper   *)
(* ancestor: n steps up reach them all in a workspace of n interfaces.     *)
Ancestors(w, i) ==
  LET up[n \in 0..Cardinality(Interfaces(w))] ==
        IF n = 0 THEN w.supers[i]
        ELSE up[n - 1] \cup UNION { w.supers[j] : j \in up[n - 1] }
  IN up[Cardinality(Interfaces(w))]

(* An interface without members conflicts with any ancestor property, one  *)
(* with properties only with an ancestor that declares the same one.       *)
RetainedPropertyAncestor(w, i, R) ==
  \E j \in Ancestors(w, i) :
    /\ j \in R
    /\ IF w.properties[i] = {} THEN w.properties[j] # {}
       ELSE w.properties[i] \cap w.properties[j] # {}

Memberless(w, i) == w.properties[i] = {}

(* A memberless interface over abstract properties forwards them.          *)
Forwards(w, i) ==
  Memberless(w, i) /\ \E j \in Ancestors(w, i) : w.properties[j] # {}

(* The boundary check and, after it, the closed-hierarchy check on direct  *)
(* parents, from which only memberless interfaces are exempt.              *)
Retains(w, i, R) ==
  \/ i \in w.blocked
  \/ RetainedPropertyAncestor(w, i, R) /\ ~ Forwards(w, i)
  \/ ~ Memberless(w, i) /\ \E j \in w.supers[i] : j \in R

InterfacePrepared(w, f, R) == { i \in InterfacesIn(w, f) : Retains(w, i, R) }

(* The retained descendants the bridge proof descends into, with the       *)
(* direct subtypes it asks about on the way.                               *)
BridgeReads(w, i, R) ==
  LET down[n \in 0..Cardinality(Interfaces(w))] ==
        IF n = 0 THEN DirectSubtypes(w, i)
        ELSE down[n - 1] \cup UNION { DirectSubtypes(w, j) : j \in down[n - 1] \cap R }
  IN IF Memberless(w, i) THEN {} ELSE down[Cardinality(Interfaces(w))]

(* What the probe records: the bridge proof's queries and the sealed-parent*)
(* check on direct parents.  The ancestor walk tests the retained set      *)
(* directly and records nothing.                                           *)
InterfaceReads(w, f, R) ==
  UNION { IF i \in w.blocked THEN {} ELSE w.supers[i] \cup BridgeReads(w, i, R)
          : i \in InterfacesIn(w, f) }

InterfaceName(w, i) == w.name[i]
=============================================================================
