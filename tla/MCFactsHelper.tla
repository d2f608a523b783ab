----------------------------- MODULE MCFactsHelper -----------------------------
(* Two workers that ask about one Kotlin file and two classes.             *)
EXTENDS FactsHelper

CONSTANTS w1, w2

MCWorkers == {w1, w2}
================================================================================
