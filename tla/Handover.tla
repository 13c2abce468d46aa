------------------------------ MODULE Handover ------------------------------
(***************************************************************************)
(* What a batcher promises: each patch given to it is handed over at most  *)
(* once, in a batch with others that wait, and none is ever dropped.       *)
(***************************************************************************)
CONSTANT Items

VARIABLES waiting, handed

vars == <<waiting, handed>>

Init == waiting = {} /\ handed = {}

Accept(i) ==
    /\ i \notin waiting \cup handed
    /\ waiting' = waiting \cup {i}
    /\ UNCHANGED handed

Hand ==
    \E batch \in (SUBSET waiting) \ {{}} :
        /\ waiting' = waiting \ batch
        /\ handed' = handed \cup batch

Next == Hand \/ \E i \in Items : Accept(i)

Spec == Init /\ [][Next]_vars
=============================================================================
