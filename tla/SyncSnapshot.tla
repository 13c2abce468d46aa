---------------------------- MODULE SyncSnapshot ----------------------------
(***************************************************************************)
(* Snapshots of the metadata (SyncEngine.Snapshot and Restore,             *)
(* internal/metadata/sync.go): a device uploads its table files, under one *)
(* key that all devices share, and another adds what it finds there to its *)
(* own, while the handlers of both change theirs.                          *)
(*                                                                         *)
(* A step is one SQL statement or one backend call.  What a handler does   *)
(* to the tables is one step here (module Vfs has all of them).  A file is *)
(* known by its size: no two files that are ever made have the same.       *)
(***************************************************************************)
EXTENDS Integers, FiniteSets, SequencesExt

CONSTANTS
    Devices,
    Paths,
    Sizes,       \* the sizes of all files ever made
    Providers,   \* SyncEngine.providers, a sequence
    None,        \* no file, no snapshot
    MaxTasks,    \* bound on the Snapshots and Restores
    MaxFaults    \* bound on failed backend calls

ASSUME SyncSnapshotAssumption == /\ Providers \in Seq(ToSet(Providers)) /\ Len(Providers) > 0
                                 /\ IsInjective(Providers)
                                 /\ MaxTasks \in Nat /\ MaxFaults \in Nat
                                 /\ None \notin Sizes

Backends == ToSet(Providers)
NoFiles  == [p \in Paths |-> None]
Entries  == Paths \X Sizes          \* FileMeta

VARIABLES
    files,     \* table files of each device: the size at a path, or None
    sharded,   \* paths that have rows in table shards
    blobs,     \* .cloudfs/snapshot/latest.json at each provider, or None
    pc,        \* the next step of each device's Snapshot or Restore
    at,        \* the provider its loop is at
    todo,      \* Snapshot: paths to read; Restore: entries to add
    snap,      \* Snapshot: entries read
    tasks, faults

(* History: no guard of the code reads them.                               *)
VARIABLES
    made,      \* sizes already given to a file
    before,    \* the table when the task began
    touched,   \* paths that handlers have changed since
    seen,      \* entries that the table has had since
    own        \* the table as the device's handlers alone have made it

localVars == <<pc, at, todo, snap>>
history   == <<made, before, touched, seen, own>>
vars == <<files, sharded, blobs, localVars, tasks, faults, history>>

Each(v) == [d \in Devices |-> v]

Init ==
    /\ files = Each(NoFiles) /\ sharded = Each({})
    /\ blobs = [x \in Backends |-> None]
    /\ pc = Each("idle") /\ at = Each(1) /\ todo = Each({}) /\ snap = Each({})
    /\ tasks = 0 /\ faults = 0
    /\ made = {} /\ before = Each(NoFiles) /\ touched = Each({}) /\ seen = Each({})
    /\ own = Each(NoFiles)

Graph(table) == {<<p, table[p]>> : p \in {q \in Paths : table[q] # None}}
Fault == faults < MaxFaults /\ faults' = faults + 1

-----------------------------------------------------------------------------
(***************************************************************************)
(* The handlers of a device.                                               *)
(***************************************************************************)
Changed(d, P, table) ==
    /\ files' = [files EXCEPT ![d] = table]
    /\ touched' = [touched EXCEPT ![d] = @ \cup P]
    /\ seen' = [seen EXCEPT ![d] = @ \cup Graph(table)]
    /\ UNCHANGED <<blobs, localVars, tasks, faults, before>>

Write(d, p, z) ==
    /\ files[d][p] = None /\ z \notin made
    /\ made' = made \cup {z}
    /\ sharded' = [sharded EXCEPT ![d] = @ \cup {p}]
    /\ own' = [own EXCEPT ![d][p] = z]
    /\ Changed(d, {p}, [files[d] EXCEPT ![p] = z])

Delete(d, p) ==
    /\ files[d][p] # None
    /\ sharded' = [sharded EXCEPT ![d] = @ \ {p}]
    /\ own' = [own EXCEPT ![d][p] = None]
    /\ UNCHANGED made
    /\ Changed(d, {p}, [files[d] EXCEPT ![p] = None])

Rename(d, p, q) ==
    /\ files[d][p] # None /\ files[d][q] = None
    /\ sharded' = [sharded EXCEPT ![d] = IF p \in @ THEN (@ \ {p}) \cup {q} ELSE @]
    /\ own' = [own EXCEPT ![d][p] = None, ![d][q] = files[d][p]]
    /\ UNCHANGED made
    /\ Changed(d, {p, q}, [files[d] EXCEPT ![p] = None, ![q] = files[d][p]])

-----------------------------------------------------------------------------
Begin(d) ==
    /\ pc[d] = "idle" /\ tasks < MaxTasks
    /\ tasks' = tasks + 1
    /\ at' = [at EXCEPT ![d] = 1]
    /\ before' = [before EXCEPT ![d] = files[d]]
    /\ touched' = [touched EXCEPT ![d] = {}]
    /\ seen' = [seen EXCEPT ![d] = Graph(files[d])]
    /\ UNCHANGED <<files, sharded, blobs, faults, made, own>>

(* The task of d goes on at a step, or ends.                               *)
Goto(d, step) == pc' = [pc EXCEPT ![d] = step]
End(d) == /\ Goto(d, "idle")
          /\ at' = [at EXCEPT ![d] = 1]
          /\ todo' = [todo EXCEPT ![d] = {}]
          /\ snap' = [snap EXCEPT ![d] = {}]

(***************************************************************************)
(* Snapshot.                                                               *)
(***************************************************************************)

(* ListAllFiles.                                                           *)
StartSnapshot(d) ==
    /\ Begin(d)
    /\ todo' = [todo EXCEPT ![d] = {p \in Paths : files[d][p] # None}]
    /\ snap' = [snap EXCEPT ![d] = {}]
    /\ Goto(d, IF files[d] = NoFiles THEN "put" ELSE "read")

(* Mutant: a file that is gone ends the loop.                              *)
ReadFileBreak(d) ==
    /\ pc[d] = "read"
    /\ \E p \in todo[d] :
          IF files[d][p] = None THEN /\ todo' = [todo EXCEPT ![d] = {}]
                                     /\ Goto(d, "put")
                                     /\ UNCHANGED snap
          ELSE /\ todo' = [todo EXCEPT ![d] = @ \ {p}]
               /\ snap' = [snap EXCEPT ![d] = @ \cup {<<p, files[d][p]>>}]
               /\ Goto(d, IF todo[d] = {p} THEN "put" ELSE "read")
    /\ UNCHANGED <<files, sharded, blobs, at, tasks, faults, history>>

(* GetFile of the next path listed, skipped if it is no longer there.      *)
ReadFile(d) ==
    /\ pc[d] = "read"
    /\ \E p \in todo[d] :
          /\ todo' = [todo EXCEPT ![d] = @ \ {p}]
          /\ snap' = [snap EXCEPT ![d] = IF files[d][p] = None THEN @
                                         ELSE @ \cup {<<p, files[d][p]>>}]
          /\ Goto(d, IF todo[d] = {p} THEN "put" ELSE "read")
    /\ UNCHANGED <<files, sharded, blobs, at, tasks, faults, history>>

(* What follows the upload to one provider.                                *)
AfterPut(d) == IF at[d] = Len(Providers) THEN End(d)
               ELSE at' = [at EXCEPT ![d] = @ + 1] /\ UNCHANGED <<pc, todo, snap>>

Put(d) ==
    /\ pc[d] = "put"
    /\ blobs' = [blobs EXCEPT ![Providers[at[d]]] = snap[d]]
    /\ AfterPut(d)
    /\ UNCHANGED <<files, sharded, tasks, faults, history>>

(* The error is ignored; the snapshot may have been stored all the same.   *)
PutFails(d) ==
    /\ pc[d] = "put" /\ Fault
    /\ \E b \in {snap[d], blobs[Providers[at[d]]]} :
          blobs' = [blobs EXCEPT ![Providers[at[d]]] = b]
    /\ AfterPut(d)
    /\ UNCHANGED <<files, sharded, tasks, history>>

-----------------------------------------------------------------------------
(***************************************************************************)
(* Restore.                                                                *)
(***************************************************************************)
StartRestore(d) == /\ Begin(d) /\ Goto(d, "fetch") /\ UNCHANGED <<todo, snap>>

(* Get of the snapshot from the provider the loop is at.                   *)
Fetch(d) ==
    LET b == blobs[Providers[at[d]]]
    IN  /\ pc[d] = "fetch" /\ b # None
        /\ IF b = {} THEN End(d)
           ELSE /\ todo' = [todo EXCEPT ![d] = b]
                /\ Goto(d, "exists")
                /\ UNCHANGED <<at, snap>>
        /\ UNCHANGED <<files, sharded, blobs, tasks, faults, history>>

(* The provider has none, or the call fails: the next one, or an error.    *)
FetchFails(d) ==
    /\ pc[d] = "fetch"
    /\ IF blobs[Providers[at[d]]] = None THEN UNCHANGED faults ELSE Fault
    /\ IF at[d] = Len(Providers) THEN End(d)
       ELSE at' = [at EXCEPT ![d] = @ + 1] /\ UNCHANGED <<pc, todo, snap>>
    /\ UNCHANGED <<files, sharded, blobs, tasks, history>>

(* The next entry, or the end.  snap holds the one between GetFile and     *)
(* CreateFile.                                                             *)
Next1(d, e) == IF todo[d] = {e} THEN End(d)
               ELSE /\ todo' = [todo EXCEPT ![d] = @ \ {e}]
                    /\ snap' = [snap EXCEPT ![d] = {}]
                    /\ Goto(d, "exists")
                    /\ UNCHANGED at

(* GetFile: does the file exist already?                                   *)
Exists(d) ==
    /\ pc[d] = "exists"
    /\ \E e \in todo[d] :
          IF files[d][e[1]] # None THEN Next1(d, e)
          ELSE /\ snap' = [snap EXCEPT ![d] = {e}]
               /\ Goto(d, "create")
               /\ UNCHANGED <<at, todo>>
    /\ UNCHANGED <<files, sharded, blobs, tasks, faults, history>>

(* Mutant: a row that is there is replaced.                                *)
CreateFileOver(d) ==
    /\ pc[d] = "create"
    /\ \E e \in snap[d] :
          /\ files' = [files EXCEPT ![d][e[1]] = e[2]]
          /\ seen' = [seen EXCEPT ![d] = @ \cup {e}]
          /\ Next1(d, e)
    /\ UNCHANGED <<sharded, blobs, tasks, faults, made, before, touched, own>>

(* CreateFile, which fails if the path has come to exist meanwhile.        *)
CreateFile(d) ==
    /\ pc[d] = "create"
    /\ \E e \in snap[d] :
          /\ files' = [files EXCEPT ![d][e[1]] = IF @ = None THEN e[2] ELSE @]
          /\ seen' = [seen EXCEPT ![d] = @ \cup Graph(files'[d])]
          /\ Next1(d, e)
    /\ UNCHANGED <<sharded, blobs, tasks, faults, made, before, touched, own>>

-----------------------------------------------------------------------------
Snapshot(d) == StartSnapshot(d) \/ ReadFile(d) \/ Put(d) \/ PutFails(d)
Restore(d)  == StartRestore(d) \/ Fetch(d) \/ FetchFails(d) \/ Exists(d) \/ CreateFile(d)
Handler(d)  == \E p \in Paths : \/ \E z \in Sizes : Write(d, p, z)
                                \/ Delete(d, p)
                                \/ \E q \in Paths : Rename(d, p, q)

Next == \E d \in Devices : Snapshot(d) \/ Restore(d) \/ Handler(d)

Spec == Init /\ [][Next]_vars

-----------------------------------------------------------------------------
(* What Snapshot uploads was true: each entry has been in the table since  *)
(* it began, and none is missing of the paths that no handler, nor another *)
(* call, has changed meanwhile.                                            *)
SnapshotTrue ==
    \A d \in Devices : pc[d] = "put" =>
        /\ snap[d] \subseteq seen[d]
        /\ \A p \in Paths \ touched[d] :
              before[d][p] # None => <<p, before[d][p]>> \in snap[d]

(* Restore changes no file that the device has of its own, also when it is *)
(* made between Restore's look and its CreateFile.                         *)
KeepsOwn ==
    \A d \in Devices, p \in Paths : own[d][p] # None => files[d][p] = own[d][p]

-----------------------------------------------------------------------------
(* "Snapshot serializes the full metadata database".  (A file that is      *)
(* renamed between the listing and the reading is in it by no name.)       *)
FullMetadata ==
    \A d \in Devices : pc[d] = "put" =>
        \A p, q \in Paths :
            before[d][p] # None /\ files[d][q] = before[d][p] =>
                \E r \in Paths : <<r, before[d][p]>> \in snap[d]

(* "restore on a new device (empty store), assert metadata matches         *)
(* original".  (The shard map is in no snapshot: a restored file cannot be *)
(* read.)                                                                  *)
RestoredMatches ==
    \A d \in Devices, p \in Paths : files[d][p] # None => p \in sharded[d]
=============================================================================
