------------------------------- MODULE Engine -------------------------------
(***************************************************************************)
(* Where a read takes its shards from (Engine.SelectForRead,               *)
(* internal/placement/engine.go), with what Place leaves in the engine for *)
(* it and the bandwidth trackers it asks (BandwidthTracker,                *)
(* internal/provider/profile.go).                                          *)
(*                                                                         *)
(* Readers select, download and record what they have downloaded, one      *)
(* shard at a time and all at once.  Files placed by earlier runs of the   *)
(* program are there from the start; engine and trackers begin anew with   *)
(* every start.  Only downloads are tracked: no code asks CanUpload.       *)
(***************************************************************************)
EXTENDS Placement, Codec

CONSTANTS
    Readers,
    Avail,      \* ProviderInfo.Available of each provider
    Limit,      \* daily download limit of each provider, 0 for none
    Size,       \* bytes of a shard
    Day,        \* 24 hours, in ticks
    MaxTime,    \* bound on the clock
    Contents    \* what the files that are read may hold

ASSUME EngineAssumption == /\ Size \in Nat \ {0} /\ IsFiniteSet(Readers)
                           /\ Avail \in [Providers -> Nat] /\ Limit \in [Providers -> Nat]
                           /\ Day \in Nat \ {0} /\ MaxTime \in Nat
                           /\ \A data \in Contents : data \in Seq(Range(data))
                           /\ K + M >= 2 \* for one shard Place(-1, 2, ...) panics

(* Write calls Place(shardsPerSegment - 2, 2, ...), whatever K and M are.  *)
Maps == Place(K + M - 2, 2, [i \in 0 .. K + M - 1 |-> Size], Avail)

VARIABLES
    k,          \* Engine.k
    used,       \* downloadUsed of each tracker
    nextReset,
    now,        \* the clock
    map,        \* the placement map a reader has selected from
    targets     \* shards it has still to download

(* History: no guard reads them.                                           *)
VARIABLES
    chosen,     \* the shards that a reader's selection named, until it has them all
    refused     \* a selection failed although enough shards could be had

engineVars == <<k, used, nextReset, now, map, targets, chosen, refused>>

EngineInit ==
    /\ k = 0 /\ now = 0
    /\ used = [x \in Providers |-> 0] /\ nextReset = [x \in Providers |-> Day]
    /\ map \in [Readers -> Maps] /\ targets = [r \in Readers |-> {}]
    /\ chosen = [r \in Readers |-> {}] /\ refused = FALSE

-----------------------------------------------------------------------------
(***************************************************************************)
(* BandwidthTracker.                                                       *)
(***************************************************************************)

(* maybeReset, for the trackers of X: what has been used since.            *)
Expired(x) == now > nextReset[x]
Used(x) == IF Expired(x) THEN 0 ELSE used[x]
maybeReset(X) == nextReset' = [x \in Providers |-> IF x \in X /\ Expired(x) THEN now + Day
                                                   ELSE nextReset[x]]

(* Mutant: a provider that has just reached its limit is asked once more.  *)
CanDownloadMore(x, size) == Limit[x] = 0 \/ Used(x) + size <= Limit[x] + 1

CanDownload(x, size) == Limit[x] = 0 \/ Used(x) + size <= Limit[x]

Record(x, size) ==
    /\ maybeReset({x})
    /\ used' = [used EXCEPT ![x] = Used(x) + size]

-----------------------------------------------------------------------------
(***************************************************************************)
(* The engine.                                                             *)
(***************************************************************************)

(* Mutant: Place is told of one data shard less.                           *)
PlaceFileShort ==
    /\ k' = K + M - 3
    /\ UNCHANGED <<used, nextReset, now, map, targets, chosen, refused>>

(* Place, for a file that is written: all that stays is its first argument.*)
PlaceFile ==
    /\ k' = K + M - 2
    /\ UNCHANGED <<used, nextReset, now, map, targets, chosen, refused>>

(* The number of shards SelectForRead wants.                               *)
Needed(pm) == IF k = 0 THEN Max(DOMAIN pm) + 1 ELSE k

(* Shards whose provider is not listed as unavailable and may be asked for *)
(* one byte more.                                                          *)
Candidates(pm, unavailable) ==
    {i \in DOMAIN pm : pm[i] \notin unavailable /\ CanDownload(pm[i], 1)}

(* The first shards of the candidates sorted by tier, in any order within  *)
(* a tier.                                                                 *)
FirstOf(n, S, pm) ==
    {T \in kSubset(n, S) : \A i \in T, j \in S \ T : Tier[pm[i]] <= Tier[pm[j]]}

Asked(pm, unavailable) == {pm[i] : i \in DOMAIN pm} \ unavailable
Reset(X) == /\ maybeReset(X)
            /\ used' = [x \in Providers |-> IF x \in X THEN Used(x) ELSE used[x]]

SelectForRead(r, pm, unavailable) ==
    LET S == Candidates(pm, unavailable)
    IN  /\ targets[r] = {}
        /\ Reset(Asked(pm, unavailable))
        /\ map' = [map EXCEPT ![r] = pm]
        /\ \/ /\ Cardinality(S) < Needed(pm)
              /\ refused' = (refused \/ Cardinality(S) >= K)
              /\ UNCHANGED <<targets, chosen>>
           \/ \E T \in FirstOf(Needed(pm), S, pm) :
                 /\ targets' = [targets EXCEPT ![r] = T]
                 /\ chosen' = [chosen EXCEPT ![r] = T]
                 /\ UNCHANGED refused
        /\ UNCHANGED <<k, now>>

(* A reader downloads its next shard and records it.                       *)
Download(r) ==
    /\ \E i \in targets[r] :
          /\ Record(map[r][i], Size)
          /\ targets' = [targets EXCEPT ![r] = @ \ {i}]
          /\ chosen' = IF targets[r] = {i} THEN [chosen EXCEPT ![r] = {}] ELSE chosen
    /\ UNCHANGED <<k, now, map, refused>>

Tick == /\ now < MaxTime /\ now' = now + 1
        /\ UNCHANGED <<k, used, nextReset, map, targets, chosen, refused>>

(* The program starts again: NewEngine, NewBandwidthTracker.               *)
Restart ==
    /\ k' = 0
    /\ used' = [x \in Providers |-> 0] /\ nextReset' = [x \in Providers |-> now + Day]
    /\ targets' = [r \in Readers |-> {}] /\ chosen' = [r \in Readers |-> {}]
    /\ UNCHANGED <<now, map, refused>>

-----------------------------------------------------------------------------
Decodes(r) == \A data \in Contents : ReadFrom(data, chosen[r]) = data

(* With two parity shards or more, what SelectForRead names gives back the *)
(* contents, whatever their length and whichever of the shards are parity, *)
(* whether a file has been placed since the start or not; and it is on as  *)
(* many providers, whatever the code.                                      *)
Decodable ==
    \A r \in Readers : chosen[r] # {} =>
        /\ M >= 2 => Decodes(r)
        /\ Cardinality({map[r][i] : i \in chosen[r]}) = Cardinality(chosen[r])

(* SelectForRead asks for one byte and readers then download whole shards, *)
(* all at once: a provider is used beyond its limit by less than a shard   *)
(* for each reader, also when the day ends between selection and download. *)
BoundedOverrun ==
    \A x \in Providers : Limit[x] # 0 => used[x] < Limit[x] + Cardinality(Readers) * Size

-----------------------------------------------------------------------------
(* "SelectForRead picks providers to read k shards from".  (The k of Place *)
(* is not that of the encoder: with one parity shard it is one too small.) *)
DecodableAnyCode == \A r \in Readers : chosen[r] # {} => Decodes(r)

(* "TestReadPath_DegradedMode: one hot provider down, assert falls back to *)
(* parity shard on cold provider".  (A program that has not yet written a  *)
(* file takes k for the number of all shards.)                             *)
DegradedMode == ~refused
=============================================================================
