------------------------------- MODULE MCVfs -------------------------------
(***************************************************************************)
(* Small instances of Vfs for TLC.                                         *)
(***************************************************************************)
EXTENDS VfsInv

CONSTANTS hot1, warm1, cold1, \* providers
          file1, file2,       \* paths
          v1, v2, e0          \* versions, e0 the empty one

MCTier    == [x \in Providers |-> IF x = hot1 THEN Hot ELSE IF x = warm1 THEN Warm ELSE Cold]
MCMaxFile == [x \in Providers |-> 0]
MCRoom    == {[x \in Providers |-> 1]}
MCScarce  == {[x \in Providers |-> 1], [x \in Providers |-> IF x = hot1 THEN 0 ELSE 1]}

MCOneSeg  == [v \in Versions |-> IF v = e0 THEN 0 ELSE 1]
(* Nothing tells two handlers apart, nor v1 from v2 where both have one    *)
(* segment.                                                                *)
MCSymmetry == Permutations(Handlers) \cup Permutations({v1, v2})

MCSegs    == [v \in Versions |-> IF v = e0 THEN 0 ELSE IF v = v2 THEN 2 ELSE 1]
=============================================================================
