----------------------------- MODULE Placement -----------------------------
(***************************************************************************)
(* Engine.Place (internal/placement/engine.go): which provider stores      *)
(* which shard of a segment.                                               *)
(*                                                                         *)
(* Place sorts the providers by tier and walks the sorted list once per    *)
(* shard: forwards for a data shard, skipping the cold providers unless    *)
(* no other is left, backwards for a parity shard.  sort.Slice is not      *)
(* stable, so providers of one tier may be walked in any order, and that   *)
(* order is the same for every shard of the call.  Each shard's pick is    *)
(* then any free provider of the best tier: the picks made in one tier     *)
(* (data shards from its front, parity shards from its back) never         *)
(* contradict each other, so some order of the tier gives them all.        *)
(***************************************************************************)
EXTENDS Integers, FiniteSets

CONSTANTS
    Providers,  \* provider IDs
    Tier,       \* [Providers -> 0..2]: ProviderProfile.Classify
    MaxFile     \* [Providers -> Nat]: MaxFileSize, 0 for no limit

Hot  == 0
Warm == 1
Cold == 2

ASSUME ProvidersAssumption == IsFiniteSet(Providers)
ASSUME ProfileAssumption == /\ Tier \in [Providers -> Hot..Cold]
                            /\ MaxFile \in [Providers -> Nat]

(***************************************************************************)
(* Providers that may take a shard of the given size.  avail is            *)
(* ProviderInfo.Available, fixed when the engine is built; it is not       *)
(* lowered by what is stored later.                                        *)
(***************************************************************************)
CanFit(x, size, avail) ==
    /\ MaxFile[x] > 0 => size <= MaxFile[x]
    /\ size <= avail[x]

Free(size, avail, used) == {x \in Providers \ used : CanFit(x, size, avail)}

(***************************************************************************)
(* The first provider found walking forwards (cold ones last: the second   *)
(* pass only sees what the first one skipped) and walking backwards.       *)
(***************************************************************************)
Forwards(S)  == {x \in S : \A y \in S : Tier[x] <= Tier[y]}
Backwards(S) == {x \in S : \A y \in S : Tier[x] >= Tier[y]}

Pick(i, k, free) == IF i < k THEN Forwards(free) ELSE Backwards(free)

(* Mutant: the last provider picked is not marked as used.                 *)
BeforeLast(pm, i) == {pm[j] : j \in 0 .. i - 2}

Before(pm, i) == {pm[j] : j \in 0 .. i - 1}

(***************************************************************************)
(* Every map Place(k, m, sizes) may return; none when a shard finds no     *)
(* provider, in which case Place returns an error.                         *)
(***************************************************************************)
Place(k, m, sizes, avail) ==
    {pm \in [0 .. k + m - 1 -> Providers] :
        \A i \in 0 .. k + m - 1 :
            pm[i] \in Pick(i, k, Free(sizes[i], avail, Before(pm, i)))}

=============================================================================
