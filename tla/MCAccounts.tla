----------------------------- MODULE MCAccounts -----------------------------
(***************************************************************************)
(* Small instances of Accounts for TLC.                                    *)
(***************************************************************************)
EXTENDS Accounts, TLC

CONSTANTS c1, c2, small, large

MCKeys   == {<<"d", "/", "f">>}
MCChunks == [x \in Data |-> IF x = large THEN 2 ELSE 0]

(* Bound: a token file made by hand meets a new account, one of an earlier *)
(* session an account with a blob.                                         *)
MCInit == Init /\ (tokensFile.life = 0 <=> folders = {})
MCSpec == MCInit /\ [][Next]_vars

MCSymmetry == Permutations(Callers)
=============================================================================
