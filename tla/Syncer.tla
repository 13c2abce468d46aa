------------------------------- MODULE Syncer -------------------------------
(***************************************************************************)
(* The exchange of patch batches in live sync (Syncer,                     *)
(* internal/livesync/syncer.go) between devices that share the providers.  *)
(*                                                                         *)
(* On a device several goroutines may be in Push, for the batcher calls it *)
(* outside its lock, and one calls Pull.  Push takes no lock: pushSeq++ is *)
(* a load and a store, and the key is made from what pushSeq is later.     *)
(* What a Syncer remembers is lost when the device restarts.  A batch is   *)
(* named by its device and how many were made before it.  A race on the   *)
(* map of pulled keys, which may abort the program, is a Restart.          *)
(***************************************************************************)
EXTENDS Integers, FiniteSets, SequencesExt

CONSTANTS
    Devices,
    Pushers,      \* goroutines that may be in Push at once on a device
    Providers,    \* Syncer.providers, a sequence
    None,         \* no blob
    MaxBatches,   \* bound on the batches made by all devices
    MaxFaults     \* bound on restarts and failed backend calls

ASSUME SyncerAssumption == /\ Providers \in Seq(ToSet(Providers)) /\ Len(Providers) > 0
                           /\ IsInjective(Providers)
                           /\ MaxBatches \in Nat /\ MaxFaults \in Nat
                           /\ None \notin Devices \X Nat

Backends == ToSet(Providers)
Batches  == Devices \X (1 .. MaxBatches)
Keys     == Devices \X (1 .. MaxBatches)   \* .cloudfs/patches/<device>/<number>.batch

VARIABLES
    pushSeq,
    pulled,    \* keys each device has pulled, or need not
    blobs,     \* blobs[x][key]: the batch stored, or None
    made,      \* how many batches have been made
    pc,        \* the next step of each Push
    batch,     \* its batch
    num,       \* pushSeq as loaded, then the number in the key
    at,        \* the provider its loop is at
    pullPc,    \* the next step of Pull
    pullAt,    \* the provider its loop is at
    keys,      \* listed keys it has still to fetch
    faults

(* History: no guard reads them.                                           *)
VARIABLES
    got,       \* what the Pulls of a device have collected since its start
    uses,      \* batches that Push has ever tried to store under a key
    owed       \* <<x, b>>: b was at x when Pull began, and no call there failed

pushVars == <<pc, batch, num, at>>
pullVars == <<pullPc, pullAt, keys>>
history  == <<got, uses, owed>>
vars == <<pushSeq, pulled, blobs, made, pushVars, pullVars, faults, history>>

Each(v) == [d \in Devices |-> v]
Threads(v) == [d \in Devices |-> [t \in Pushers |-> v]]

Init ==
    /\ pushSeq = Each(0) /\ pulled = Each({}) /\ made = 0
    /\ blobs = [x \in Backends |-> [k \in Keys |-> None]]
    /\ pc = Threads("idle") /\ batch = Threads(None) /\ num = Threads(0) /\ at = Threads(1)
    /\ pullPc = Each("idle") /\ pullAt = Each(1) /\ keys = Each({})
    /\ faults = 0
    /\ got = Each(<< >>) /\ uses = [k \in Keys |-> {}] /\ owed = Each({})

Fault == faults < MaxFaults /\ faults' = faults + 1
Goto(d, t, step) == pc' = [pc EXCEPT ![d][t] = step]

-----------------------------------------------------------------------------
(***************************************************************************)
(* Push.                                                                   *)
(***************************************************************************)

(* s.pushSeq++, the load.                                                  *)
Load(d, t) ==
    /\ pc[d][t] = "idle" /\ made < MaxBatches
    /\ made' = made + 1
    /\ batch' = [batch EXCEPT ![d][t] = <<d, made + 1>>]
    /\ num' = [num EXCEPT ![d][t] = pushSeq[d]]
    /\ Goto(d, t, "store")
    /\ UNCHANGED <<pushSeq, pulled, blobs, at, pullVars, faults, history>>

(* ... and the store.                                                      *)
Store(d, t) ==
    /\ pc[d][t] = "store"
    /\ pushSeq' = [pushSeq EXCEPT ![d] = num[d][t] + 1]
    /\ Goto(d, t, "key")
    /\ UNCHANGED <<pulled, blobs, made, batch, num, at, pullVars, faults, history>>

(* The key, from pushSeq as it is by now.                                  *)
Key(d, t) ==
    /\ pc[d][t] = "key"
    /\ num' = [num EXCEPT ![d][t] = pushSeq[d]]
    /\ at' = [at EXCEPT ![d][t] = 1]
    /\ Goto(d, t, "put")
    /\ UNCHANGED <<pushSeq, pulled, blobs, made, batch, pullVars, faults, history>>

KeyOf(d, t) == <<d, num[d][t]>>

(* The loop's next provider, or its end.                                   *)
AfterPut(d, t) ==
    IF at[d][t] < Len(Providers) THEN at' = [at EXCEPT ![d][t] = @ + 1] /\ UNCHANGED pc
    ELSE Goto(d, t, "mark") /\ UNCHANGED at

Put(d, t) ==
    /\ pc[d][t] = "put"
    /\ blobs' = [blobs EXCEPT ![Providers[at[d][t]]][KeyOf(d, t)] = batch[d][t]]
    /\ uses' = [uses EXCEPT ![KeyOf(d, t)] = @ \cup {batch[d][t]}]
    /\ AfterPut(d, t)
    /\ UNCHANGED <<pushSeq, pulled, made, batch, num, pullVars, faults, got, owed>>

(* The error is ignored; the batch may have been stored all the same.      *)
PutFails(d, t) ==
    /\ pc[d][t] = "put" /\ Fault
    /\ \E b \in {batch[d][t], blobs[Providers[at[d][t]]][KeyOf(d, t)]} :
          blobs' = [blobs EXCEPT ![Providers[at[d][t]]][KeyOf(d, t)] = b]
    /\ uses' = [uses EXCEPT ![KeyOf(d, t)] = @ \cup {batch[d][t]}]
    /\ AfterPut(d, t)
    /\ UNCHANGED <<pushSeq, pulled, made, batch, num, pullVars, got, owed>>

Mark(d, t) ==
    /\ pc[d][t] = "mark"
    /\ pulled' = [pulled EXCEPT ![d] = @ \cup {KeyOf(d, t)}]
    /\ batch' = [batch EXCEPT ![d][t] = None]
    /\ num' = [num EXCEPT ![d][t] = 0]
    /\ at' = [at EXCEPT ![d][t] = 1]
    /\ Goto(d, t, "idle")
    /\ UNCHANGED <<pushSeq, blobs, made, pullVars, faults, history>>

-----------------------------------------------------------------------------
(***************************************************************************)
(* Pull.                                                                   *)
(***************************************************************************)
At(x) == {k \in Keys : blobs[x][k] # None}

StartPull(d) ==
    /\ pullPc[d] = "idle"
    /\ pullPc' = [pullPc EXCEPT ![d] = "list"]
    /\ pullAt' = [pullAt EXCEPT ![d] = 1]
    /\ owed' = [owed EXCEPT ![d] = UNION {{<<x, blobs[x][k]>> : k \in At(x)} : x \in Backends}]
    /\ UNCHANGED <<pushSeq, pulled, blobs, made, pushVars, keys, faults, got, uses>>

(* What follows once the keys in left have still to be fetched from the    *)
(* provider the loop is at.  Their batches are returned at the end.        *)
Continue(d, left) ==
    /\ keys' = [keys EXCEPT ![d] = left]
    /\ IF left # {} THEN pullPc' = [pullPc EXCEPT ![d] = "get"] /\ UNCHANGED pullAt
       ELSE IF pullAt[d] < Len(Providers)
            THEN /\ pullPc' = [pullPc EXCEPT ![d] = "list"]
                 /\ pullAt' = [pullAt EXCEPT ![d] = @ + 1]
            ELSE pullPc' = [pullPc EXCEPT ![d] = "idle"] /\ UNCHANGED pullAt

Excuse(d) == owed' = [owed EXCEPT ![d] = {o \in @ : o[1] # Providers[pullAt[d]]}]

(* Mutant: only the marks keep a device from its own batches.              *)
WantedUnmarked(d, x) == At(x) \ pulled[d]

(* The keys that the loop will not skip.                                   *)
Wanted(d, x) == {k \in At(x) : k \notin pulled[d] /\ k[1] # d}

(* The device's own keys are marked when the loop comes to them; that no   *)
(* other step reads, so they are all marked here.                          *)
List(d) ==
    /\ pullPc[d] = "list"
    /\ LET x == Providers[pullAt[d]]
       IN  /\ pulled' = [pulled EXCEPT ![d] = @ \cup {k \in At(x) : k[1] = d}]
           /\ Continue(d, Wanted(d, x))
    /\ UNCHANGED <<pushSeq, blobs, made, pushVars, faults, history>>

ListFails(d) ==
    /\ pullPc[d] = "list" /\ Fault
    /\ Continue(d, {})
    /\ Excuse(d)
    /\ UNCHANGED <<pushSeq, pulled, blobs, made, pushVars, got, uses>>

(* Mutant: a batch that was fetched is not remembered.                     *)
GetForgets(d) ==
    /\ pullPc[d] = "get"
    /\ \E k \in keys[d] :
          /\ got' = [got EXCEPT ![d] = Append(@, blobs[Providers[pullAt[d]]][k])]
          /\ Continue(d, keys[d] \ {k})
    /\ UNCHANGED <<pushSeq, pulled, blobs, made, pushVars, faults, uses, owed>>

(* Listed keys are fetched in the order of the listing, which is any.      *)
Get(d) ==
    /\ pullPc[d] = "get"
    /\ \E k \in keys[d] :
          /\ got' = [got EXCEPT ![d] = Append(@, blobs[Providers[pullAt[d]]][k])]
          /\ pulled' = [pulled EXCEPT ![d] = @ \cup {k}]
          /\ Continue(d, keys[d] \ {k})
    /\ UNCHANGED <<pushSeq, blobs, made, pushVars, faults, uses, owed>>

(* Mutant: a key counts as pulled although the batch has not come.         *)
GetFailsMarked(d) ==
    /\ pullPc[d] = "get" /\ Fault
    /\ \E k \in keys[d] :
          /\ pulled' = [pulled EXCEPT ![d] = @ \cup {k}]
          /\ Continue(d, keys[d] \ {k})
    /\ Excuse(d)
    /\ UNCHANGED <<pushSeq, blobs, made, pushVars, got, uses>>

GetFails(d) ==
    /\ pullPc[d] = "get" /\ Fault
    /\ \E k \in keys[d] : Continue(d, keys[d] \ {k})
    /\ Excuse(d)
    /\ UNCHANGED <<pushSeq, pulled, blobs, made, pushVars, got, uses>>

-----------------------------------------------------------------------------
(* The device starts again, with a new Syncer.                             *)
Restart(d) ==
    /\ Fault
    /\ pushSeq' = [pushSeq EXCEPT ![d] = 0]
    /\ pulled' = [pulled EXCEPT ![d] = {}]
    /\ pc' = [pc EXCEPT ![d] = [t \in Pushers |-> "idle"]]
    /\ batch' = [batch EXCEPT ![d] = [t \in Pushers |-> None]]
    /\ num' = [num EXCEPT ![d] = [t \in Pushers |-> 0]]
    /\ at' = [at EXCEPT ![d] = [t \in Pushers |-> 1]]
    /\ pullPc' = [pullPc EXCEPT ![d] = "idle"]
    /\ pullAt' = [pullAt EXCEPT ![d] = 1]
    /\ keys' = [keys EXCEPT ![d] = {}]
    /\ got' = [got EXCEPT ![d] = << >>]
    /\ owed' = [owed EXCEPT ![d] = {}]
    /\ UNCHANGED <<blobs, made, uses>>

Push(d, t) == Load(d, t) \/ Store(d, t) \/ Key(d, t) \/ Put(d, t) \/ PutFails(d, t) \/ Mark(d, t)
Pull(d) == StartPull(d) \/ List(d) \/ ListFails(d) \/ Get(d) \/ GetFails(d)

Next == \E d \in Devices : (\E t \in Pushers : Push(d, t)) \/ Pull(d) \/ Restart(d)

Spec == Init /\ [][Next]_vars

-----------------------------------------------------------------------------
(* A device is never given a batch of its own: not after a restart either, *)
(* when the marks that Push leaves are gone.                               *)
NoEcho == \A d \in Devices : \A b \in ToSet(got[d]) : b[1] # d

(* As long as a device runs, its Pulls return no batch twice, from         *)
(* however many providers, and whatever keys are used again by others.     *)
ReturnedOnce == \A d \in Devices : IsInjective(got[d])

(* What was at a provider when Pull began has been returned when it ends,  *)
(* unless a call to that provider failed: no failure elsewhere, now or     *)
(* earlier, hides it.  This is so of the keys that were used only once.    *)
SingleUse(b) == \A k \in Keys : b \in uses[k] => uses[k] = {b}
PullComplete ==
    \A d \in Devices : pullPc[d] = "idle" =>
        \A o \in owed[d] : o[2][1] = d \/ ~SingleUse(o[2]) \/ o[2] \in ToSet(got[d])

-----------------------------------------------------------------------------
(* "Pull downloads new batch files from providers."  (A device that has    *)
(* restarted uses its keys again, and its peers have them marked.)         *)
PullDownloadsNew ==
    \A d \in Devices : pullPc[d] = "idle" =>
        \A o \in owed[d] : o[2][1] = d \/ o[2] \in ToSet(got[d])

(* "Push uploads a batch to all hot providers."  (Two Pushes take the same *)
(* key.)                                                                   *)
PushUploads ==
    \A d \in Devices, t \in Pushers : pc[d][t] = "mark" =>
        \A x \in Backends : batch[d][t] \in {blobs[x][k] : k \in Keys}
=============================================================================
