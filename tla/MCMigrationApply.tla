----------------------------- MODULE MCMigrationApply -----------------------------
(***************************************************************************)
(* Runs over Kotlin files F, with a class A and a function f, and G, with  *)
(* a class B.                                                              *)
(***************************************************************************)
EXTENDS MigrationApply, TLC

CONSTANTS r1, r2

MCRuns == {r1, r2}

MCFileOf == [ d \in Declarations |-> IF d = "B" THEN "G" ELSE "F" ]

MCSymmetry == Permutations(MCRuns)
===================================================================================
