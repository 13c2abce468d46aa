------------------------------ MODULE MetaSync ------------------------------
(***************************************************************************)
(* The operations log of each device (internal/metadata/ops.go) and its    *)
(* exchange over the providers (SyncEngine, internal/metadata/sync.go).    *)
(*                                                                         *)
(* On each device callers append to the log, under the ID that its         *)
(* SyncEngine has, while one thread calls Push and Pull.  (The file system *)
(* appends under an ID of its own, fs.go:58; under one that no SyncEngine  *)
(* has, nothing is ever pushed.)  A step is one SQL statement or one       *)
(* backend call.  The log survives a restart of the device; what the       *)
(* SyncEngine remembers and what was in progress do not.                   *)
(*                                                                         *)
(* A row's type and path are abstracted to the operation it stands for,    *)
(* named by the ID under which its own device first recorded it.  Keys are *)
(* listed in any order: memory.List walks a Go map, and by name "10.json"  *)
(* comes before "2.json".                                                  *)
(***************************************************************************)
EXTENDS Integers, FiniteSets, SequencesExt

CONSTANTS
    Devices,
    Callers,     \* handlers that may append at once on a device
    Providers,   \* SyncEngine.providers, a sequence
    MaxOps,      \* bound on the operations of all devices
    MaxFaults    \* bound on restarts and failed backend calls

ASSUME SyncAssumption == /\ Providers \in Seq(ToSet(Providers))
                         /\ Len(Providers) > 0 /\ IsInjective(Providers)
                         /\ MaxOps \in Nat /\ MaxFaults \in Nat

Backends == ToSet(Providers)
Keys     == Devices \X (1 .. MaxOps)          \* .cloudfs/ops/<device>/<number>.json

VARIABLES
    ops,      \* table ops of each device, in insertion order
    number,   \* Append: the sequence number read, not yet inserted, or 0
    pushed,   \* pushedSeq of the device itself
    pulled,   \* pulledSeq
    blobs,    \* blobs[x][key]: records of an ops file, << >> if there is none
    pc,       \* the next step of Push or Pull
    at,       \* the provider the loop is at
    keys,     \* Pull: listed keys it has still to fetch
    file,     \* Push: the records to upload.  Pull: those still to import
    faults

(* History: no guard reads them.                                           *)
VARIABLES
    kept,     \* length of the log when the device was last started
    missed,   \* <<backend, ID>>: the last Put of the operation there failed
    fetched   \* IDs in the ops files that Pull has fetched since the start

logVars    == <<ops, number>>
engineVars == <<pushed, pulled>>
loopVars   == <<pc, at, keys, file>>
history    == <<kept, missed, fetched>>
vars == <<logVars, engineVars, blobs, loopVars, faults, history>>

Init ==
    /\ ops = [d \in Devices |-> << >>]
    /\ number = [d \in Devices |-> [c \in Callers |-> 0]]
    /\ pushed = [d \in Devices |-> 0]
    /\ pulled = [d \in Devices |-> [e \in Devices |-> 0]]
    /\ blobs = [x \in Backends |-> [k \in Keys |-> << >>]]
    /\ pc = [d \in Devices |-> "idle"]
    /\ at = [d \in Devices |-> 1]
    /\ keys = [d \in Devices |-> {}]
    /\ file = [d \in Devices |-> << >>]
    /\ faults = 0
    /\ kept = [d \in Devices |-> 0]
    /\ missed = {}
    /\ fetched = [d \in Devices |-> {}]

Fault == faults < MaxFaults /\ faults' = faults + 1

-----------------------------------------------------------------------------
(***************************************************************************)
(* OpLog.                                                                  *)
(***************************************************************************)
RowsOf(d, e) == {i \in DOMAIN ops[d] : ops[d][i].dev = e}

(* SELECT MAX(seq_num) FROM ops WHERE device_id = ?, plus one.             *)
NextSeq(d, e) == Max({ops[d][i].seq : i \in RowsOf(d, e)} \cup {0}) + 1

(* A new row: its ID is fresh, as the UUID in the code is.                 *)
Row(d, e, n, what) == [id |-> <<d, Len(ops[d]) + 1>>, dev |-> e, seq |-> n,
                       of |-> IF what = << >> THEN <<d, Len(ops[d]) + 1>> ELSE what]

(* ReadSince: ORDER BY seq_num, and by rowid where numbers are equal.  The *)
(* set has one element, the indices of the rows found in their order.      *)
Since(d, e, since) == {i \in RowsOf(d, e) : ops[d][i].seq > since}
Before(d, i, j) == \/ ops[d][i].seq < ops[d][j].seq
                   \/ ops[d][i].seq = ops[d][j].seq /\ i < j
ReadSince(d, e, since) ==
    LET hits == Since(d, e, since)
    IN  {s \in [1 .. Cardinality(hits) -> hits] :
            \A m, n \in DOMAIN s : m < n => Before(d, s[m], s[n])}

Own       == UNION {{e} \X RowsOf(e, e) : e \in Devices}
Appending == {p \in Devices \X Callers : number[p[1]][p[2]] # 0}

(* Append of a handler on d, up to the SELECT.                             *)
Number(d, c) ==
    /\ number[d][c] = 0
    /\ Cardinality(Own) + Cardinality(Appending) < MaxOps
    /\ number' = [number EXCEPT ![d][c] = NextSeq(d, d)]
    /\ UNCHANGED <<ops, engineVars, blobs, loopVars, faults, history>>

(* Append, the INSERT.                                                     *)
Insert(d, c) ==
    /\ number[d][c] # 0
    /\ ops' = [ops EXCEPT ![d] = Append(@, Row(d, d, number[d][c], << >>))]
    /\ number' = [number EXCEPT ![d][c] = 0]
    /\ UNCHANGED <<engineVars, blobs, loopVars, faults, history>>

-----------------------------------------------------------------------------
(***************************************************************************)
(* Push.                                                                   *)
(***************************************************************************)
Goto(d, step) == pc' = [pc EXCEPT ![d] = step]

Record(row) == [id |-> row.id, dev |-> row.dev, seq |-> row.seq]
Ids(recs)   == {recs[i].id : i \in DOMAIN recs}

(* ReadSince; with nothing new Push returns.                               *)
StartPush(d) ==
    /\ pc[d] = "idle"
    /\ \E new \in ReadSince(d, d, pushed[d]) :
          /\ new # << >>
          /\ file' = [file EXCEPT ![d] = [n \in DOMAIN new |-> Record(ops[d][new[n]])]]
    /\ at' = [at EXCEPT ![d] = 1]
    /\ Goto(d, "put")
    /\ UNCHANGED <<logVars, engineVars, blobs, keys, faults, history>>

(* Mutant: the operations count as pushed after the first Put.             *)
AfterPutEarly(d) ==
    /\ pushed' = [pushed EXCEPT ![d] = Last(file[d]).seq]
    /\ IF at[d] < Len(Providers)
       THEN at' = [at EXCEPT ![d] = @ + 1] /\ UNCHANGED <<pc, file>>
       ELSE Goto(d, "idle") /\ file' = [file EXCEPT ![d] = << >>] /\ UNCHANGED at

(* The loop's next provider, or its end.                                   *)
AfterPut(d) ==
    IF at[d] < Len(Providers)
    THEN at' = [at EXCEPT ![d] = @ + 1] /\ UNCHANGED <<pc, file, pushed>>
    ELSE /\ pushed' = [pushed EXCEPT ![d] = Last(file[d]).seq]
         /\ Goto(d, "idle")
         /\ file' = [file EXCEPT ![d] = << >>]
         /\ UNCHANGED at

(* Mutant: the key has the number of records, not the last one's number.   *)
PutByLength(d) ==
    /\ pc[d] = "put"
    /\ LET x == Providers[at[d]]
       IN  /\ blobs' = [blobs EXCEPT ![x][<<d, Len(file[d])>>] = file[d]]
           /\ missed' = missed \ ({x} \X Ids(file[d]))
    /\ AfterPut(d)
    /\ UNCHANGED <<logVars, pulled, keys, faults, kept, fetched>>

Put(d) ==
    /\ pc[d] = "put"
    /\ LET x == Providers[at[d]]
       IN  /\ blobs' = [blobs EXCEPT ![x][<<d, Last(file[d]).seq>>] = file[d]]
           /\ missed' = missed \ ({x} \X Ids(file[d]))
    /\ AfterPut(d)
    /\ UNCHANGED <<logVars, pulled, keys, faults, kept, fetched>>

(* The error is ignored.                                                   *)
PutFails(d) ==
    /\ pc[d] = "put" /\ Fault
    /\ missed' = missed \cup ({Providers[at[d]]} \X Ids(file[d]))
    /\ AfterPut(d)
    /\ UNCHANGED <<logVars, pulled, blobs, keys, kept, fetched>>

-----------------------------------------------------------------------------
(***************************************************************************)
(* Pull.                                                                   *)
(***************************************************************************)
StartPull(d) ==
    /\ pc[d] = "idle"
    /\ at' = [at EXCEPT ![d] = 1]
    /\ Goto(d, "list")
    /\ UNCHANGED <<logVars, engineVars, blobs, keys, file, faults, history>>

(* What follows once the keys in left have still to be fetched from the    *)
(* provider the loop is at.                                                *)
Continue(d, left) ==
    /\ keys' = [keys EXCEPT ![d] = left]
    /\ IF left # {} THEN Goto(d, "get") /\ UNCHANGED at
       ELSE IF at[d] < Len(Providers)
            THEN Goto(d, "list") /\ at' = [at EXCEPT ![d] = @ + 1]
            ELSE Goto(d, "idle") /\ UNCHANGED at

(* The keys of other devices at this provider.                             *)
List(d) ==
    /\ pc[d] = "list"
    /\ Continue(d, {k \in Keys : k[1] # d /\ blobs[Providers[at[d]]][k] # << >>})
    /\ UNCHANGED <<logVars, engineVars, blobs, file, faults, history>>

ListFails(d) ==
    /\ pc[d] = "list" /\ Fault
    /\ Continue(d, {})
    /\ UNCHANGED <<logVars, engineVars, blobs, file, history>>

Get(d) ==
    /\ pc[d] = "get"
    /\ \E k \in keys[d] :
          LET recs == blobs[Providers[at[d]]][k]
          IN  /\ file' = [file EXCEPT ![d] = recs]
              /\ fetched' = [fetched EXCEPT ![d] = @ \cup Ids(recs)]
              /\ keys' = [keys EXCEPT ![d] = @ \ {k}]
    /\ Goto(d, "import")
    /\ UNCHANGED <<logVars, engineVars, blobs, at, faults, kept, missed>>

GetFails(d) ==
    /\ pc[d] = "get" /\ Fault
    /\ \E k \in keys[d] : Continue(d, keys[d] \ {k})
    /\ UNCHANGED <<logVars, engineVars, blobs, file, history>>

(* Is rec in the log already?  The log has it under another ID, though,    *)
(* since Append makes a new one for every row.                             *)
AlreadyHave(d, rec) ==
    \E i \in Since(d, rec.dev, rec.seq - 1) : ops[d][i].id = rec.id

(* Mutant: the high-water mark is not raised.                              *)
RaiseNot(d, rec) == UNCHANGED pulled

Raise(d, rec) == pulled' = [pulled EXCEPT ![d][rec.dev] = rec.seq]

Seen(d, rec) == rec.seq <= pulled[d][rec.dev]

(* One record of the file: skipped, or appended under the next number that *)
(* the log has for its device.                                             *)
Import(d) ==
    /\ pc[d] = "import"
    /\ LET rec == Head(file[d])
       IN  IF Seen(d, rec)
           THEN UNCHANGED <<ops, pulled>>
           ELSE /\ Raise(d, rec)
                /\ IF AlreadyHave(d, rec) THEN UNCHANGED ops
                   ELSE ops' = [ops EXCEPT ![d] =
                                Append(@, Row(d, rec.dev, NextSeq(d, rec.dev), rec.id))]
    /\ file' = [file EXCEPT ![d] = Tail(@)]
    /\ IF Len(file[d]) > 1 THEN UNCHANGED <<pc, at, keys>> ELSE Continue(d, keys[d])
    /\ UNCHANGED <<number, pushed, blobs, faults, history>>

-----------------------------------------------------------------------------
(* The device is restarted: a new SyncEngine over the same log.            *)
Restart(d) ==
    /\ Fault
    /\ number' = [number EXCEPT ![d] = [c \in Callers |-> 0]]
    /\ pushed' = [pushed EXCEPT ![d] = 0]
    /\ pulled' = [pulled EXCEPT ![d] = [e \in Devices |-> 0]]
    /\ Goto(d, "idle")
    /\ at' = [at EXCEPT ![d] = 1]
    /\ keys' = [keys EXCEPT ![d] = {}]
    /\ file' = [file EXCEPT ![d] = << >>]
    /\ kept' = [kept EXCEPT ![d] = Len(ops[d])]
    /\ fetched' = [fetched EXCEPT ![d] = {}]
    /\ UNCHANGED <<ops, blobs, missed>>

Next == \E d \in Devices :
           \/ \E c \in Callers : Number(d, c) \/ Insert(d, c)
           \/ StartPush(d) \/ Put(d) \/ PutFails(d)
           \/ StartPull(d) \/ List(d) \/ ListFails(d) \/ Get(d) \/ GetFails(d) \/ Import(d)
           \/ Restart(d)

Spec == Init /\ [][Next]_vars

-----------------------------------------------------------------------------
OpIds   == Devices \X (Nat \ {0})
Rows    == [id : OpIds, dev : Devices, seq : Nat \ {0}, of : OpIds]
Records == [id : OpIds, dev : Devices, seq : Nat \ {0}]

Held(x) == UNION {Ids(blobs[x][k]) : k \in Keys}

(* What a device counts as pushed is stored at every provider but those    *)
(* where its last Put failed: also after restarts, and while operations    *)
(* are appended during a Push.  An operation that came into the log after  *)
(* one with its number or a higher one may be passed over.                 *)
InTurn(d, i) == \A j \in RowsOf(d, d) : j < i => ops[d][j].seq < ops[d][i].seq
PushedStored ==
    \A d \in Devices : \A i \in RowsOf(d, d) : \A x \in Backends :
        InTurn(d, i) /\ ops[d][i].seq <= pushed[d] =>
            ops[d][i].id \in Held(x) \/ <<x, ops[d][i].id>> \in missed

(* No operation that a provider holds is ever lost there: a restarted      *)
(* device uploads under keys it has used before, and what it writes there  *)
(* covers what it overwrites, whatever numbers its appends have taken.     *)
NeverForgotten == [][\A x \in Backends : Held(x) \subseteq Held(x)']_vars

(* The number that an imported row has on the device it comes from.        *)
Origin(row) == ops[row.of[1]][row.of[2]].seq

(* As long as a device runs it imports the operations of another in the    *)
(* order of their numbers, and so none of them twice, from however many    *)
(* providers and overlapping ops files it reads them.                      *)
ImportedInOrder ==
    \A d \in Devices : \A e \in Devices \ {d} :
        \A i, j \in {n \in RowsOf(d, e) : n > kept[d]} :
            i < j => Origin(ops[d][i]) < Origin(ops[d][j])

-----------------------------------------------------------------------------
(* The operations a device appends have growing numbers.  (The SELECT and  *)
(* the INSERT of two handlers interleave.)                                 *)
OwnSequence ==
    \A d \in Devices : \A i, j \in RowsOf(d, d) : i < j => ops[d][i].seq < ops[d][j].seq

(* When Pull returns, the operations in the files it has fetched are in    *)
(* the log.  (A file listed after a later one of the same device is passed *)
(* over.)                                                                  *)
PullMerges ==
    \A d \in Devices : pc[d] = "idle" => fetched[d] \subseteq {ops[d][i].of : i \in DOMAIN ops[d]}

(* No operation is in the log twice.  (The check for that compares IDs     *)
(* which Append has replaced.)                                             *)
NoDuplicates ==
    \A d \in Devices : \A i, j \in DOMAIN ops[d] : ops[d][i].of = ops[d][j].of => i = j
=============================================================================
