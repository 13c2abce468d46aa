---------------------------- MODULE MCDecisions ----------------------------
(***************************************************************************)
(* Small instances of Decisions for TLC.                                   *)
(***************************************************************************)
EXTENDS Decisions, TLC

CONSTANTS hot1, warm1, cold1, cold2

MCTier     == [x \in Providers |-> CASE x = hot1 -> Hot [] x = warm1 -> Warm [] OTHER -> Cold]
MCMaxFile  == [x \in Providers |-> 0]
MCAvail    == [x \in Providers |-> Size]
MCLimit    == [x \in Providers |-> IF x = hot1 THEN 0 ELSE 2]
MCContents == {[i \in 1 .. n |-> ToString(i)] : n \in {1, 3, 4, 6}}

(* Nothing tells two readers, the cold providers, two devices or two paths *)
(* apart.                                                                  *)
MCSymmetry == Permutations(Readers) \cup Permutations({cold1, cold2})
              \cup Permutations(Devices) \cup Permutations(Paths)
=============================================================================
