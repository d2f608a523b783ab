--------------------------- MODULE MCBuildScripts ---------------------------
(***************************************************************************)
(* Instances of BuildScripts for TLC: a root project with its script, a    *)
(* subproject with its own, and a source directory below that.             *)
(***************************************************************************)
EXTENDS BuildScripts, TLC

CONSTANTS root, sub, deep, rootScript, subScript, none, first, second

MCDirectories == { root, sub, deep }
MCRuns == { first, second }
MCParent == (root :> root) @@ (sub :> root) @@ (deep :> sub)
MCScriptIn == (root :> rootScript) @@ (sub :> subScript) @@ (deep :> none)

Twins == Permutations(MCRuns)
=============================================================================
