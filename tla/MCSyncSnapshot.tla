--------------------------- MODULE MCSyncSnapshot ---------------------------
(***************************************************************************)
(* Small instances of SyncSnapshot for TLC.                                *)
(***************************************************************************)
EXTENDS SyncSnapshot

CONSTANTS x1, x2    \* providers

MCOne == <<x1>>
MCTwo == <<x1, x2>>

(* Nothing tells two devices, two paths or two sizes apart.                *)
MCSymmetry == Permutations(Devices) \cup Permutations(Paths) \cup Permutations(Sizes)
=============================================================================
