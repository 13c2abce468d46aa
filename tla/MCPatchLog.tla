----------------------------- MODULE MCPatchLog -----------------------------
(***************************************************************************)
(* Small instances of PatchLog for TLC.                                    *)
(***************************************************************************)
EXTENDS PatchLog

CONSTANTS x1, x2    \* providers

MCOne == <<x1>>
MCTwo == <<x1, x2>>

(* Nothing tells two files or two goroutines apart.                        *)
MCSymmetry == Permutations(Files) \cup Permutations(Editors) \cup Permutations(Writers)
=============================================================================
