----------------------------- MODULE MCBatcher -----------------------------
(***************************************************************************)
(* A small instance of Batcher for TLC.                                    *)
(***************************************************************************)
EXTENDS Batcher

MCLengths == {1, 2}
=============================================================================
