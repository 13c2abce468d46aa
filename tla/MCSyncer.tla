------------------------------ MODULE MCSyncer ------------------------------
(***************************************************************************)
(* Small instances of Syncer for TLC.                                      *)
(***************************************************************************)
EXTENDS Syncer

CONSTANTS x1, x2    \* providers

MCOne == <<x1>>
MCTwo == <<x1, x2>>

(* Nothing tells two devices or two goroutines apart.                      *)
MCSymmetry == Permutations(Devices) \cup Permutations(Pushers)
=============================================================================
