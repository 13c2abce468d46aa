------------------------- MODULE SyncSnapshotProofs -------------------------
(***************************************************************************)
(* What a snapshot holds was in the table, and a restore leaves the files  *)
(* of the device alone; for all numbers of devices, files, providers,      *)
(* tasks and faults.                                                       *)
(***************************************************************************)
EXTENDS SyncSnapshot, TLAPS

Tables == [Paths -> Sizes \cup {None}]

TypeOK ==
    /\ files \in [Devices -> Tables] /\ own \in [Devices -> Tables]
    /\ before \in [Devices -> Tables]
    /\ blobs \in [Backends -> {None} \cup SUBSET Entries]
    /\ pc \in [Devices -> {"idle", "read", "put", "fetch", "exists", "create"}]
    /\ at \in [Devices -> 1 .. Len(Providers)]
    /\ todo \in [Devices -> (SUBSET Paths) \cup (SUBSET Entries)]
    /\ snap \in [Devices -> SUBSET Entries]
    /\ touched \in [Devices -> SUBSET Paths]
    /\ seen \in [Devices -> SUBSET Entries]

(* Restore adds entries, and has nothing else in its hands.                *)
Restoring(d) == pc[d] \in {"exists", "create"} => todo[d] \subseteq Entries

(* A path that no call has changed since the listing has what it had, and  *)
(* is still to be read or has been read; all that has been read was there. *)
Listed(d) ==
    \A p \in Paths \ touched[d] :
        before[d][p] # None =>
            /\ files[d][p] = before[d][p]
            /\ p \in todo[d] \/ <<p, before[d][p]>> \in snap[d]

Reading(d) ==
    pc[d] \in {"read", "put"} =>
        /\ Graph(files[d]) \subseteq seen[d] /\ snap[d] \subseteq seen[d]
        /\ IF pc[d] = "put" THEN todo[d] = {} ELSE todo[d] \subseteq Paths
        /\ Listed(d)

IInv == TypeOK /\ KeepsOwn /\ \A d \in Devices : Restoring(d) /\ Reading(d)
-----------------------------------------------------------------------------
(***************************************************************************)
(* Facts that the steps share.                                             *)
(***************************************************************************)
LEMMA ProviderKnown ==
  ASSUME TypeOK, NEW d \in Devices
  PROVE  Providers[at[d]] \in Backends
  BY SyncSnapshotAssumption DEF TypeOK, Backends, ToSet

LEMMA GraphType ==
  ASSUME NEW table \in Tables
  PROVE  Graph(table) \subseteq Entries
  BY DEF Tables, Graph, Entries

LEMMA NoFilesType == NoFiles \in Tables
  BY DEF NoFiles, Tables

(* What a step does not touch of a device stays true of it.                *)
LEMMA Elsewhere ==
  ASSUME IInv, NEW g \in Devices,
         files'[g] = files[g], pc'[g] = pc[g], todo'[g] = todo[g], snap'[g] = snap[g],
         before'[g] = before[g], touched'[g] = touched[g], seen'[g] = seen[g]
  PROVE  Restoring(g)' /\ Reading(g)'
  BY DEF IInv, Restoring, Reading, Listed

(* A task that has ended owes nothing.                                     *)
LEMMA Ended ==
  ASSUME NEW d \in Devices, pc'[d] = "idle"
  PROVE  Restoring(d)' /\ Reading(d)'
  BY DEF Restoring, Reading

-----------------------------------------------------------------------------
(***************************************************************************)
(* The handlers.                                                           *)
(***************************************************************************)
LEMMA HandlerSafe ==
  ASSUME IInv, NEW d \in Devices, NEW P \in SUBSET Paths, NEW table \in Tables,
         NEW mine \in Tables, Changed(d, P, table), own' = [own EXCEPT ![d] = mine],
         \A p \in Paths : mine[p] # None => table[p] = mine[p],
         \A p \in Paths \ P : table[p] = files[d][p]
  PROVE  IInv'
  <1>1. /\ files' = [files EXCEPT ![d] = table]
        /\ touched' = [touched EXCEPT ![d] = @ \cup P]
        /\ seen' = [seen EXCEPT ![d] = @ \cup Graph(table)]
        /\ blobs' = blobs /\ pc' = pc /\ at' = at /\ todo' = todo /\ snap' = snap
        /\ before' = before
    BY DEF Changed, localVars
  <1>2. TypeOK /\ KeepsOwn
    BY DEF IInv
  <1>3. TypeOK'
    BY <1>1, <1>2, GraphType DEF TypeOK
  <1>4. KeepsOwn'
    BY <1>1, <1>2 DEF TypeOK, KeepsOwn
  <1>5. ASSUME NEW g \in Devices \ {d} PROVE Restoring(g)' /\ Reading(g)'
    <2>1. files'[g] = files[g] /\ touched'[g] = touched[g] /\ seen'[g] = seen[g]
      BY <1>1, <1>2, <1>5 DEF TypeOK
    <2>. QED
      BY <1>1, <2>1, Elsewhere
  <1>6. /\ files'[d] = table /\ touched'[d] = touched[d] \cup P
        /\ seen'[d] = seen[d] \cup Graph(table)
    BY <1>1, <1>2 DEF TypeOK
  <1>7. Restoring(d) /\ Reading(d)
    BY DEF IInv
  <1>8. Restoring(d)' /\ Reading(d)'
    BY <1>1, <1>6, <1>7 DEF Restoring, Reading, Listed
  <1>. QED
    BY <1>3, <1>4, <1>5, <1>8 DEF IInv

LEMMA WriteSafe ==
  ASSUME IInv, NEW d \in Devices, NEW p \in Paths, NEW z \in Sizes, Write(d, p, z)
  PROVE  IInv'
  <1>. DEFINE table == [files[d] EXCEPT ![p] = z]
              mine == [own[d] EXCEPT ![p] = z]
  <1>1. Changed(d, {p}, table) /\ own' = [own EXCEPT ![d] = mine]
    BY DEF Write
  <1>2. table \in Tables /\ mine \in Tables
    BY DEF IInv, TypeOK, Tables
  <1>3. \A q \in Paths : mine[q] # None => table[q] = mine[q]
    BY DEF IInv, TypeOK, Tables, KeepsOwn
  <1>4. \A q \in Paths \ {p} : table[q] = files[d][q]
    BY DEF IInv, TypeOK, Tables
  <1>. QED
    BY <1>1, <1>2, <1>3, <1>4, HandlerSafe

LEMMA DeleteSafe ==
  ASSUME IInv, NEW d \in Devices, NEW p \in Paths, Delete(d, p)
  PROVE  IInv'
  <1>. DEFINE table == [files[d] EXCEPT ![p] = None]
              mine == [own[d] EXCEPT ![p] = None]
  <1>1. Changed(d, {p}, table) /\ own' = [own EXCEPT ![d] = mine]
    BY DEF Delete
  <1>2. table \in Tables /\ mine \in Tables
    BY DEF IInv, TypeOK, Tables
  <1>3. \A q \in Paths : mine[q] # None => table[q] = mine[q]
    BY DEF IInv, TypeOK, Tables, KeepsOwn
  <1>4. \A q \in Paths \ {p} : table[q] = files[d][q]
    BY DEF IInv, TypeOK, Tables
  <1>. QED
    BY <1>1, <1>2, <1>3, <1>4, HandlerSafe

LEMMA RenameSafe ==
  ASSUME IInv, NEW d \in Devices, NEW p \in Paths, NEW q \in Paths, Rename(d, p, q)
  PROVE  IInv'
  <1>. DEFINE table == [files[d] EXCEPT ![p] = None, ![q] = files[d][p]]
              mine == [own[d] EXCEPT ![p] = None, ![q] = files[d][p]]
  <1>1. Changed(d, {p, q}, table) /\ own' = [own EXCEPT ![d] = mine]
    <2>1. Changed(d, {p, q}, table) /\ own' = [own EXCEPT ![d][p] = None, ![d][q] = files[d][p]]
      BY DEF Rename
    <2>2. own \in [Devices -> Tables]
      BY DEF IInv, TypeOK
    <2>. QED
      BY <2>1, <2>2
  <1>2. table \in Tables /\ mine \in Tables
    <2>1. files[d] \in Tables /\ own[d] \in Tables
      BY DEF IInv, TypeOK
    <2>2. files[d][p] \in Sizes \cup {None}
      BY <2>1 DEF Tables
    <2>. QED
      BY <2>1, <2>2 DEF Tables
  <1>3. \A r \in Paths : mine[r] # None => table[r] = mine[r]
    BY DEF IInv, TypeOK, Tables, KeepsOwn
  <1>4. \A r \in Paths \ {p, q} : table[r] = files[d][r]
    BY DEF IInv, TypeOK, Tables
  <1>5. {p, q} \in SUBSET Paths
    OBVIOUS
  <1>. HIDE DEF table, mine
  <1>. QED
    BY <1>1, <1>2, <1>3, <1>4, <1>5, HandlerSafe

-----------------------------------------------------------------------------
(***************************************************************************)
(* The tasks.  What a step of a task of d leaves alone.                    *)
(***************************************************************************)
LEMMA StepSafe ==
  ASSUME IInv, TypeOK', NEW d \in Devices, own' = own,
         \A p \in Paths : files'[d][p] = files[d][p] \/ files[d][p] = None,
         \A g \in Devices \ {d} :
            /\ files'[g] = files[g] /\ pc'[g] = pc[g] /\ todo'[g] = todo[g]
            /\ snap'[g] = snap[g] /\ before'[g] = before[g] /\ touched'[g] = touched[g]
            /\ seen'[g] = seen[g],
         Restoring(d)', Reading(d)'
  PROVE  IInv'
  <1>1. KeepsOwn'
    <2>. SUFFICES ASSUME NEW g \in Devices, NEW p \in Paths, own[g][p] # None
                  PROVE  files'[g][p] = own[g][p]
      BY DEF KeepsOwn
    <2>1. files[g][p] = own[g][p]
      BY DEF IInv, KeepsOwn
    <2>. QED
      BY <2>1
  <1>2. \A g \in Devices \ {d} : Restoring(g)' /\ Reading(g)'
    BY Elsewhere
  <1>. QED
    BY <1>1, <1>2 DEF IInv

LEMMA StartSnapshotSafe ==
  ASSUME IInv, NEW d \in Devices, StartSnapshot(d)
  PROVE  IInv'
  <1>0. TypeOK
    BY DEF IInv
  <1>1. /\ files' = files /\ own' = own /\ blobs' = blobs
        /\ at' = [at EXCEPT ![d] = 1] /\ before' = [before EXCEPT ![d] = files[d]]
        /\ touched' = [touched EXCEPT ![d] = {}]
        /\ seen' = [seen EXCEPT ![d] = Graph(files[d])]
        /\ todo' = [todo EXCEPT ![d] = {p \in Paths : files[d][p] # None}]
        /\ snap' = [snap EXCEPT ![d] = {}]
        /\ pc' = [pc EXCEPT ![d] = IF files[d] = NoFiles THEN "put" ELSE "read"]
    BY DEF StartSnapshot, Begin, Goto
  <1>2. TypeOK'
    <2>1. 1 \in 1 .. Len(Providers)
      BY SyncSnapshotAssumption
    <2>2. files[d] \in Tables
      BY <1>0 DEF TypeOK
    <2>. QED
      BY <1>0, <1>1, <2>1, <2>2, GraphType DEF TypeOK
  <1>3. /\ before'[d] = files[d] /\ touched'[d] = {} /\ seen'[d] = Graph(files[d])
        /\ todo'[d] = {p \in Paths : files[d][p] # None} /\ snap'[d] = {}
        /\ pc'[d] = IF files[d] = NoFiles THEN "put" ELSE "read"
    BY <1>0, <1>1 DEF TypeOK
  <1>4. Restoring(d)'
    BY <1>3 DEF Restoring
  <1>5. Reading(d)'
    <2>1. Listed(d)'
      BY <1>1, <1>3 DEF Listed
    <2>2. pc'[d] = "put" => todo'[d] = {}
      BY <1>3 DEF NoFiles
    <2>. QED
      BY <1>1, <1>3, <2>1, <2>2 DEF Reading
  <1>6. \A g \in Devices \ {d} :
            /\ files'[g] = files[g] /\ pc'[g] = pc[g] /\ todo'[g] = todo[g]
            /\ snap'[g] = snap[g] /\ before'[g] = before[g] /\ touched'[g] = touched[g]
            /\ seen'[g] = seen[g]
    BY <1>0, <1>1 DEF TypeOK
  <1>. QED
    BY <1>1, <1>2, <1>4, <1>5, <1>6, StepSafe

LEMMA ReadFileSafe ==
  ASSUME IInv, NEW d \in Devices, ReadFile(d)
  PROVE  IInv'
  <1>0. TypeOK /\ Reading(d)
    BY DEF IInv
  <1>1. PICK p \in todo[d] :
          /\ todo' = [todo EXCEPT ![d] = @ \ {p}]
          /\ snap' = [snap EXCEPT ![d] = IF files[d][p] = None THEN @
                                         ELSE @ \cup {<<p, files[d][p]>>}]
          /\ pc' = [pc EXCEPT ![d] = IF todo[d] = {p} THEN "put" ELSE "read"]
    BY DEF ReadFile, Goto
  <1>2. /\ pc[d] = "read" /\ files' = files /\ blobs' = blobs /\ at' = at /\ own' = own
        /\ before' = before /\ touched' = touched /\ seen' = seen
    BY DEF ReadFile, history
  <1>3. p \in Paths /\ todo[d] \subseteq Paths
    BY <1>0, <1>2 DEF Reading
  <1>4. files[d][p] # None => <<p, files[d][p]>> \in Graph(files[d])
    BY <1>3 DEF Graph
  <1>5. Graph(files[d]) \subseteq Entries
    BY <1>0, GraphType DEF TypeOK
  <1>6. TypeOK'
    <2>1. todo' \in [Devices -> (SUBSET Paths) \cup (SUBSET Entries)]
      BY <1>0, <1>1, <1>3 DEF TypeOK
    <2>2. snap' \in [Devices -> SUBSET Entries]
      BY <1>0, <1>1, <1>4, <1>5 DEF TypeOK
    <2>. QED
      BY <1>0, <1>1, <1>2, <2>1, <2>2 DEF TypeOK
  <1>7. /\ todo'[d] = todo[d] \ {p}
        /\ snap'[d] = IF files[d][p] = None THEN snap[d] ELSE snap[d] \cup {<<p, files[d][p]>>}
        /\ pc'[d] = IF todo[d] = {p} THEN "put" ELSE "read"
    BY <1>0, <1>1 DEF TypeOK
  <1>8. Restoring(d)'
    BY <1>7 DEF Restoring
  <1>9. Reading(d)'
    <2>1. Graph(files[d]) \subseteq seen[d] /\ snap[d] \subseteq seen[d] /\ Listed(d)
      BY <1>0, <1>2 DEF Reading
    <2>2. Listed(d)'
      BY <1>2, <1>7, <2>1 DEF Listed
    <2>3. snap'[d] \subseteq seen[d]
      BY <1>4, <1>7, <2>1
    <2>. QED
      BY <1>2, <1>3, <1>7, <2>1, <2>2, <2>3 DEF Reading
  <1>10. \A g \in Devices \ {d} :
            pc'[g] = pc[g] /\ todo'[g] = todo[g] /\ snap'[g] = snap[g]
    BY <1>0, <1>1 DEF TypeOK
  <1>. QED
    BY <1>2, <1>6, <1>8, <1>9, <1>10, StepSafe

(* Where a task can be after a step that keeps to its own variables.       *)
LocalOK(d) ==
    /\ pc' \in [Devices -> {"idle", "read", "put", "fetch", "exists", "create"}]
    /\ at' \in [Devices -> 1 .. Len(Providers)]
    /\ todo' \in [Devices -> (SUBSET Paths) \cup (SUBSET Entries)]
    /\ snap' \in [Devices -> SUBSET Entries]
    /\ \A g \in Devices \ {d} : pc'[g] = pc[g] /\ todo'[g] = todo[g] /\ snap'[g] = snap[g]

LEMMA EndEffect ==
  ASSUME TypeOK, NEW d \in Devices, End(d)
  PROVE  LocalOK(d) /\ pc'[d] = "idle"
  <1>1. 1 \in 1 .. Len(Providers)
    BY SyncSnapshotAssumption
  <1>. QED
    BY <1>1 DEF End, Goto, TypeOK, LocalOK

(* The loops over the providers, after a Put or a Get that failed.         *)
LEMMA OnwardEffect ==
  ASSUME TypeOK, NEW d \in Devices, AfterPut(d)
  PROVE  /\ LocalOK(d)
         /\ pc'[d] = "idle" \/ (pc' = pc /\ todo' = todo /\ snap' = snap)
  <1>1. CASE at[d] = Len(Providers)
    BY <1>1, EndEffect DEF AfterPut
  <1>2. CASE at[d] # Len(Providers)
    <2>1. at' = [at EXCEPT ![d] = @ + 1] /\ UNCHANGED <<pc, todo, snap>>
      BY <1>2 DEF AfterPut
    <2>2. at[d] + 1 \in 1 .. Len(Providers)
      BY <1>2, SyncSnapshotAssumption DEF TypeOK
    <2>. QED
      BY <2>1, <2>2 DEF TypeOK, LocalOK
  <1>. QED
    BY <1>1, <1>2

LEMMA OnwardSafe ==
  ASSUME IInv, NEW d \in Devices, AfterPut(d), pc[d] \in {"put", "fetch"},
         blobs' \in [Backends -> {None} \cup SUBSET Entries], UNCHANGED <<files, history>>
  PROVE  IInv'
  <1>0. TypeOK /\ Reading(d)
    BY DEF IInv
  <1>1. /\ LocalOK(d)
        /\ pc'[d] = "idle" \/ (pc' = pc /\ todo' = todo /\ snap' = snap)
    BY <1>0, OnwardEffect
  <1>2. own' = own /\ before' = before /\ touched' = touched /\ seen' = seen
    BY DEF history
  <1>3. TypeOK'
    BY <1>0, <1>1, <1>2 DEF TypeOK, LocalOK
  <1>4. Restoring(d)' /\ Reading(d)'
    BY <1>0, <1>1, <1>2, Ended DEF Restoring, Reading, Listed
  <1>. QED
    BY <1>1, <1>2, <1>3, <1>4, StepSafe DEF LocalOK

LEMMA PutSafe ==
  ASSUME IInv, NEW d \in Devices, Put(d) \/ PutFails(d)
  PROVE  IInv'
  <1>0. TypeOK
    BY DEF IInv
  <1>1. \E b \in {snap[d], blobs[Providers[at[d]]]} :
           blobs' = [blobs EXCEPT ![Providers[at[d]]] = b]
    BY DEF Put, PutFails
  <1>2. blobs' \in [Backends -> {None} \cup SUBSET Entries]
    BY <1>0, <1>1, ProviderKnown DEF TypeOK
  <1>3. pc[d] = "put" /\ AfterPut(d) /\ UNCHANGED <<files, history>>
    BY DEF Put, PutFails
  <1>. QED
    BY <1>2, <1>3, OnwardSafe

LEMMA FetchFailsSafe ==
  ASSUME IInv, NEW d \in Devices, FetchFails(d)
  PROVE  IInv'
  <1>1. pc[d] = "fetch" /\ AfterPut(d) /\ UNCHANGED <<files, history>> /\ blobs' = blobs
    BY DEF FetchFails, AfterPut
  <1>2. blobs \in [Backends -> {None} \cup SUBSET Entries]
    BY DEF IInv, TypeOK
  <1>. QED
    BY <1>1, <1>2, OnwardSafe

LEMMA StartRestoreSafe ==
  ASSUME IInv, NEW d \in Devices, StartRestore(d)
  PROVE  IInv'
  <1>0. TypeOK
    BY DEF IInv
  <1>1. /\ files' = files /\ own' = own /\ blobs' = blobs /\ todo' = todo /\ snap' = snap
        /\ at' = [at EXCEPT ![d] = 1] /\ before' = [before EXCEPT ![d] = files[d]]
        /\ touched' = [touched EXCEPT ![d] = {}]
        /\ seen' = [seen EXCEPT ![d] = Graph(files[d])]
        /\ pc' = [pc EXCEPT ![d] = "fetch"]
    BY DEF StartRestore, Begin, Goto
  <1>2. TypeOK'
    <2>1. 1 \in 1 .. Len(Providers)
      BY SyncSnapshotAssumption
    <2>2. files[d] \in Tables
      BY <1>0 DEF TypeOK
    <2>. QED
      BY <1>0, <1>1, <2>1, <2>2, GraphType DEF TypeOK
  <1>3. pc'[d] = "fetch"
    BY <1>0, <1>1 DEF TypeOK
  <1>4. Restoring(d)' /\ Reading(d)'
    BY <1>3 DEF Restoring, Reading
  <1>5. \A g \in Devices \ {d} :
            pc'[g] = pc[g] /\ before'[g] = before[g] /\ touched'[g] = touched[g]
            /\ seen'[g] = seen[g]
    BY <1>0, <1>1 DEF TypeOK
  <1>. QED
    BY <1>1, <1>2, <1>4, <1>5, StepSafe

LEMMA FetchSafe ==
  ASSUME IInv, NEW d \in Devices, Fetch(d)
  PROVE  IInv'
  <1>. DEFINE b == blobs[Providers[at[d]]]
  <1>0. TypeOK
    BY DEF IInv
  <1>1. b \in SUBSET Entries
    BY <1>0, ProviderKnown DEF Fetch, TypeOK
  <1>2. UNCHANGED <<files, blobs, history>>
    BY DEF Fetch
  <1>3. own' = own /\ before' = before /\ touched' = touched /\ seen' = seen
    BY <1>2 DEF history
  <1>4. LocalOK(d) /\ (pc'[d] = "idle" \/ (pc'[d] = "exists" /\ todo'[d] = b))
    <2>1. CASE b = {}
      BY <1>0, <2>1, EndEffect DEF Fetch
    <2>2. CASE b # {}
      <3>1. /\ todo' = [todo EXCEPT ![d] = b] /\ pc' = [pc EXCEPT ![d] = "exists"]
            /\ at' = at /\ snap' = snap
        BY <2>2 DEF Fetch, Goto
      <3>. HIDE DEF b
      <3>2. todo' \in [Devices -> (SUBSET Paths) \cup (SUBSET Entries)]
        BY <1>0, <1>1, <3>1 DEF TypeOK
      <3>3. LocalOK(d)
        BY <1>0, <3>1, <3>2 DEF TypeOK, LocalOK
      <3>. QED
        BY <1>0, <3>1, <3>3 DEF TypeOK
    <2>. QED
      BY <2>1, <2>2
  <1>. HIDE DEF b
  <1>5. TypeOK'
    BY <1>0, <1>2, <1>3, <1>4 DEF TypeOK, LocalOK
  <1>6. Restoring(d)' /\ Reading(d)'
    BY <1>1, <1>4, Ended DEF Restoring, Reading
  <1>. QED
    BY <1>2, <1>3, <1>4, <1>5, <1>6, StepSafe DEF LocalOK

(* After an entry, Restore has come to the next one or has ended.          *)
LEMMA Next1Effect ==
  ASSUME TypeOK, NEW d \in Devices, todo[d] \subseteq Entries, NEW e, Next1(d, e)
  PROVE  LocalOK(d) /\ (pc'[d] = "idle" \/ (pc'[d] = "exists" /\ todo'[d] \subseteq Entries))
  <1>1. CASE todo[d] = {e}
    BY <1>1, EndEffect DEF Next1
  <1>2. CASE todo[d] # {e}
    <2>1. /\ todo' = [todo EXCEPT ![d] = @ \ {e}] /\ snap' = [snap EXCEPT ![d] = {}]
          /\ pc' = [pc EXCEPT ![d] = "exists"] /\ at' = at
      BY <1>2 DEF Next1, Goto
    <2>. QED
      BY <2>1 DEF TypeOK, LocalOK
  <1>. QED
    BY <1>1, <1>2

LEMMA ExistsSafe ==
  ASSUME IInv, NEW d \in Devices, Exists(d)
  PROVE  IInv'
  <1>0. TypeOK /\ Restoring(d)
    BY DEF IInv
  <1>1. todo[d] \subseteq Entries /\ pc[d] = "exists"
    BY <1>0 DEF Restoring, Exists
  <1>2. UNCHANGED <<files, blobs, history>>
    BY DEF Exists
  <1>3. own' = own /\ before' = before /\ touched' = touched /\ seen' = seen
    BY <1>2 DEF history
  <1>4. LocalOK(d) /\ pc'[d] \in {"idle", "exists", "create"}
        /\ (pc'[d] # "idle" => todo'[d] \subseteq Entries)
    <2>1. PICK e \in todo[d] :
             IF files[d][e[1]] # None THEN Next1(d, e)
             ELSE /\ snap' = [snap EXCEPT ![d] = {e}]
                  /\ pc' = [pc EXCEPT ![d] = "create"]
                  /\ at' = at /\ todo' = todo
      BY DEF Exists, Goto
    <2>2. CASE Next1(d, e)
      BY <1>0, <1>1, <2>2, Next1Effect
    <2>3. CASE /\ snap' = [snap EXCEPT ![d] = {e}]
               /\ pc' = [pc EXCEPT ![d] = "create"]
               /\ at' = at /\ todo' = todo
      BY <1>0, <1>1, <2>3 DEF TypeOK, LocalOK
    <2>. QED
      BY <2>1, <2>2, <2>3
  <1>5. TypeOK'
    BY <1>0, <1>2, <1>3, <1>4 DEF TypeOK, LocalOK
  <1>6. Restoring(d)' /\ Reading(d)'
    BY <1>4 DEF Restoring, Reading
  <1>. QED
    BY <1>2, <1>3, <1>4, <1>5, <1>6, StepSafe DEF LocalOK

LEMMA CreateFileSafe ==
  ASSUME IInv, NEW d \in Devices, CreateFile(d)
  PROVE  IInv'
  <1>0. TypeOK /\ Restoring(d)
    BY DEF IInv
  <1>1. PICK e \in snap[d] :
          /\ files' = [files EXCEPT ![d][e[1]] = IF @ = None THEN e[2] ELSE @]
          /\ seen' = [seen EXCEPT ![d] = @ \cup Graph(files'[d])]
          /\ Next1(d, e)
    BY DEF CreateFile
  <1>2. /\ todo[d] \subseteq Entries
        /\ blobs' = blobs /\ before' = before /\ touched' = touched /\ own' = own
    BY <1>0 DEF Restoring, CreateFile
  <1>3. e[1] \in Paths /\ e[2] \in Sizes
    BY <1>0, <1>1 DEF TypeOK, Entries
  <1>4. LocalOK(d) /\ (pc'[d] = "idle" \/ (pc'[d] = "exists" /\ todo'[d] \subseteq Entries))
    BY <1>0, <1>1, <1>2, Next1Effect
  <1>5. files' \in [Devices -> Tables] /\ files'[d] \in Tables
    BY <1>0, <1>1, <1>3 DEF TypeOK, Tables
  <1>6. TypeOK'
    <2>1. Graph(files'[d]) \subseteq Entries
      BY <1>5, GraphType
    <2>2. seen' \in [Devices -> SUBSET Entries]
      BY <1>0, <1>1, <2>1 DEF TypeOK
    <2>. QED
      BY <1>0, <1>2, <1>4, <1>5, <2>2 DEF TypeOK, LocalOK
  <1>7. \A p \in Paths : files'[d][p] = files[d][p] \/ files[d][p] = None
    BY <1>0, <1>1, <1>3 DEF TypeOK, Tables
  <1>8. \A g \in Devices \ {d} : files'[g] = files[g] /\ seen'[g] = seen[g]
    BY <1>0, <1>1 DEF TypeOK
  <1>9. Restoring(d)' /\ Reading(d)'
    BY <1>4 DEF Restoring, Reading
  <1>. QED
    BY <1>2, <1>4, <1>6, <1>7, <1>8, <1>9, StepSafe DEF LocalOK

-----------------------------------------------------------------------------
(***************************************************************************)
(* The theorems.                                                           *)
(***************************************************************************)
LEMMA InitSafe == Init => IInv
  <1>. SUFFICES ASSUME Init PROVE IInv
    OBVIOUS
  <1>1. 1 \in 1 .. Len(Providers)
    BY SyncSnapshotAssumption
  <1>2. TypeOK
    BY <1>1, NoFilesType DEF Init, Each, TypeOK
  <1>3. KeepsOwn
    BY DEF Init, Each, KeepsOwn, NoFiles
  <1>4. \A d \in Devices : Restoring(d) /\ Reading(d)
    BY DEF Init, Each, Restoring, Reading
  <1>. QED
    BY <1>2, <1>3, <1>4 DEF IInv

LEMMA NextSafe == IInv /\ [Next]_vars => IInv'
  <1>. SUFFICES ASSUME IInv, [Next]_vars PROVE IInv'
    OBVIOUS
  <1>1. ASSUME NEW d \in Devices, Snapshot(d) PROVE IInv'
    BY <1>1, StartSnapshotSafe, ReadFileSafe, PutSafe DEF Snapshot
  <1>2. ASSUME NEW d \in Devices, Restore(d) PROVE IInv'
    BY <1>2, StartRestoreSafe, FetchSafe, FetchFailsSafe, ExistsSafe, CreateFileSafe DEF Restore
  <1>3. ASSUME NEW d \in Devices, Handler(d) PROVE IInv'
    BY <1>3, WriteSafe, DeleteSafe, RenameSafe DEF Handler
  <1>4. CASE UNCHANGED vars
    BY <1>4 DEF vars, localVars, history, IInv, TypeOK, KeepsOwn, Restoring, Reading, Listed
  <1>. QED
    BY <1>1, <1>2, <1>3, <1>4 DEF Next

LEMMA Inductive == Spec => []IInv
  BY InitSafe, NextSafe, PTL DEF Spec

(* However Snapshot's reads are interleaved with the handlers' changes,    *)
(* each entry that it uploads has been in the table while it ran, and no   *)
(* file is missing that was there all the time (metadata/sync.go).         *)
THEOREM SnapshotsAreTrue == Spec => []SnapshotTrue
  <1>1. IInv => SnapshotTrue
    BY DEF IInv, Reading, Listed, SnapshotTrue
  <1>. QED
    BY <1>1, Inductive, PTL

(* No Restore, from whatever snapshot and whatever is written between its  *)
(* GetFile and its CreateFile, changes a file that the device's own        *)
(* handlers have made.                                                     *)
THEOREM RestoresKeepOwn == Spec => []KeepsOwn
  <1>1. IInv => KeepsOwn
    BY DEF IInv
  <1>. QED
    BY <1>1, Inductive, PTL
=============================================================================
