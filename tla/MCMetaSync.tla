----------------------------- MODULE MCMetaSync -----------------------------
(***************************************************************************)
(* Small instances of MetaSync for TLC.                                    *)
(***************************************************************************)
EXTENDS MetaSync

CONSTANTS s1, s2    \* providers

MCOne == <<s1>>
MCTwo == <<s1, s2>>

(* Nothing tells two devices or two handlers apart.                        *)
MCSymmetry == Permutations(Devices) \cup Permutations(Callers)
=============================================================================
