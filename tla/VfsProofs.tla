----------------------------- MODULE VfsProofs -----------------------------
(***************************************************************************)
(* What holds in every reachable state of Vfs, for every number of         *)
(* providers, handlers, paths, versions and segments.                      *)
(*                                                                         *)
(* First the types: each action keeps TypeOK, one lemma per action.  Then  *)
(* IInv is shown inductive, which gives Durable and RowsHaveFile.  A step  *)
(* of a call changes the paths of the call and the handler's own variables *)
(* only (Frame), so what IInv says of other paths and other handlers is    *)
(* kept by all of them alike, and each action is left with what it does to *)
(* its own paths (Local).                                                  *)
(*                                                                         *)
(* Then ReadBack, NoReadPanic, NoLeak and LogMatchesStore.  The parts they *)
(* rest on (ReadInv, OrderInv, BlobInv, LogInv) are kept by each step that *)
(* begins and ends in a state with IInv.                                   *)
(***************************************************************************)
EXTENDS VfsInv, FiniteSetTheorems, SequenceTheorems, WellFoundedInduction, TLAPS

LEMMA NoRowsType == NoRows \in ShardMaps
  BY DEF NoRows, ShardMaps

LEMMA CallTypes ==
  /\ \A c \in Uploads : /\ c.op = "write" /\ c.path \in Paths /\ c.to = c.path
                        /\ c.ver \in Versions
  /\ \A c \in Deletes : /\ c.op = "delete" /\ c.path \in Paths /\ c.to = c.path
                        /\ c.ver = None
  /\ \A c \in Renames : /\ c.op = "rename" /\ c.path \in Paths /\ c.to \in Paths
                        /\ c.ver = None
  /\ \A c \in Downloads : c.op = "read" /\ c.path \in Paths /\ c.to = c.path
  /\ NoCall.op = "none"
  <1>1. \A c \in Uploads : /\ c.op = "write" /\ c.path \in Paths /\ c.to = c.path
                           /\ c.ver \in Versions
    BY DEF Uploads, Request
  <1>2. \A c \in Deletes : /\ c.op = "delete" /\ c.path \in Paths /\ c.to = c.path
                        /\ c.ver = None
    BY DEF Deletes, Request
  <1>3. \A c \in Renames : /\ c.op = "rename" /\ c.path \in Paths /\ c.to \in Paths
                        /\ c.ver = None
    BY DEF Renames, Request
  <1>4. \A c \in Downloads : c.op = "read" /\ c.path \in Paths /\ c.to = c.path
    BY DEF Downloads, Request
  <1>5. NoCall.op = "none"
    BY DEF NoCall, Request
  <1>. QED
    BY <1>1, <1>2, <1>3, <1>4, <1>5

(* Storing one shard keeps the type of what the providers store.           *)
LEMMA BlobsType ==
  ASSUME blobs \in Blobs, NEW x \in Providers, NEW p \in Paths, NEW s \in Slots,
         NEW b \in Versions \cup {None}
  PROVE  [blobs EXCEPT ![x][p][s] = b] \in Blobs
  BY DEF Blobs

(* Write always asks for one provider for each shard the encoder makes.    *)
LEMMA PlacementsType == Placements \subseteq [Shards -> Providers]
  <1>1. K + M - 2 + 2 - 1 = K + M - 1
    BY ShapeAssumption
  <1>. QED
    BY <1>1 DEF Placements, Place, Shards

LEMMA InitType == Init => TypeOK
  <1>. SUFFICES ASSUME Init PROVE TypeOK
    OBVIOUS
  <1>. USE DEF Init
  <1>1. StoreOK
    BY NoRowsType DEF StoreOK, ShardMaps
  <1>2. CloudOK
    BY DEF CloudOK, Blobs, NoRows
  <1>3. ProcessOK
    BY EnvironmentAssumption DEF ProcessOK
  <1>4. HandlersOK
    <2>1. \A h \in Handlers : AtStep(h) /\ Pointed(h)
      BY DEF AtStep, Pointed
    <2>8. pc \in [Handlers -> AllSteps]
      BY DEF AllSteps
    <2>9. existed \in [Handlers -> BOOLEAN]
      OBVIOUS
    <2>2. /\ held \in [Handlers -> Versions \cup {None}]
          /\ limit \in [Handlers -> Nat]
      OBVIOUS
    <2>6. call \in [Handlers -> Requests \cup {NoCall}]
      OBVIOUS
    <2>7. cur \in [Handlers -> Nat \X Nat]
      OBVIOUS
    <2>3. /\ plan \in [Handlers -> ShardMaps]
          /\ todo \in [Handlers -> SUBSET Slots]
      BY NoRowsType
    <2>4. /\ got \in [Handlers -> [Shards -> Versions \cup {None}]]
      BY DEF NoneGot
    <2>5. out \in [Handlers -> Seq(Content \X Nat)]
      <3>1. << >> \in Seq(Content \X Nat)
        OBVIOUS
      <3>. QED
        BY <3>1
    <2>. QED
      BY <2>1, <2>2, <2>3, <2>4, <2>5, <2>6, <2>7, <2>8, <2>9 DEF HandlersOK
  <1>5. HistoryOK
    BY DEF HistoryOK
  <1>. QED
    BY <1>1, <1>2, <1>3, <1>4, <1>5 DEF TypeOK




(* Returning resets every variable of the handler.                         *)
LEMMA ReturnType ==
  ASSUME HandlersOK, NEW h \in Handlers, Return(h)
  PROVE  HandlersOK'
  <1>. USE DEF HandlersOK, Return
  <1>1. \A g \in Handlers : AtStep(g)' /\ Pointed(g)'
    BY DEF AtStep, Pointed
  <1>2. /\ pc' \in [Handlers -> AllSteps]
        /\ call' \in [Handlers -> Requests \cup {NoCall}]
        /\ existed' \in [Handlers -> BOOLEAN]
    BY DEF AllSteps
  <1>3. /\ plan' \in [Handlers -> ShardMaps]
        /\ todo' \in [Handlers -> SUBSET Slots]
        /\ cur' \in [Handlers -> Nat \X Nat]
        /\ held' \in [Handlers -> Versions \cup {None}]
    BY NoRowsType
  <1>4. limit' \in [Handlers -> Nat] /\ got' \in [Handlers -> [Shards -> Versions \cup {None}]]
    BY DEF NoneGot
  <1>5. out' \in [Handlers -> Seq(Content \X Nat)]
    <2>1. << >> \in Seq(Content \X Nat)
      OBVIOUS
    <2>. QED
      BY <2>1
  <1>. QED
    BY <1>1, <1>2, <1>3, <1>4, <1>5


LEMMA CreateEmptyType ==
  ASSUME TypeOK, NEW h \in Handlers, CreateEmpty(h)
  PROVE  TypeOK'
  <1>. USE DEF CreateEmpty, Acknowledge, Abandon, storeVars, cloudVars, excuses
  <1>1. StoreOK'
    <2>1. call[h] \in Uploads
      BY CallTypes DEF TypeOK, HandlersOK, AtStep, PurgeSteps, RenameSteps, ReadSteps
    <2>. QED
      BY <2>1, CallTypes, ShapeAssumption DEF TypeOK, StoreOK
  <1>2. CloudOK'
    BY DEF TypeOK, CloudOK
  <1>3. ProcessOK' /\ HistoryOK'
    <2>1. call[h] \in Uploads
      BY CallTypes DEF TypeOK, HandlersOK, AtStep, PurgeSteps, RenameSteps, ReadSteps
    <2>. QED
      BY <2>1, CallTypes, ShapeAssumption DEF TypeOK, ProcessOK, HistoryOK, Return
  <1>4. HandlersOK'
    BY ReturnType DEF TypeOK
  <1>. QED
    BY <1>1, <1>2, <1>3, <1>4 DEF TypeOK

LEMMA CreateFailsType ==
  ASSUME TypeOK, NEW h \in Handlers, CreateFails(h)
  PROVE  TypeOK'
  <1>. USE DEF CreateFails, Acknowledge, Abandon, storeVars, cloudVars, excuses
  <1>1. StoreOK'
    BY DEF TypeOK, StoreOK
  <1>2. CloudOK'
    BY DEF TypeOK, CloudOK
  <1>3. ProcessOK' /\ HistoryOK'
    BY CallTypes DEF TypeOK, ProcessOK, HistoryOK, HandlersOK, AtStep, Touches, Return, Fault
  <1>4. HandlersOK'
    BY ReturnType DEF TypeOK
  <1>. QED
    BY <1>1, <1>2, <1>3, <1>4 DEF TypeOK

LEMMA PutFailsType ==
  ASSUME TypeOK, NEW h \in Handlers, PutFails(h)
  PROVE  TypeOK'
  <1>. USE DEF PutFails, Acknowledge, Abandon, storeVars, cloudVars, excuses
  <1>1. StoreOK'
    BY DEF TypeOK, StoreOK
  <1>2. CloudOK'
    <2>1. call[h] \in Uploads
      BY CallTypes DEF TypeOK, HandlersOK, AtStep, PurgeSteps, RenameSteps, ReadSteps
    <2>2. blobs \in Blobs /\ dead \subseteq Providers /\ dead' = dead
      BY DEF TypeOK, CloudOK
    <2>3. CASE ~ UNCHANGED blobs
      <3>1. PICK s \in todo[h] :
               \E b \in {blobs[plan[h][s]][call[h].path][s], call[h].ver, None} :
                  blobs' = [blobs EXCEPT ![plan[h][s]][call[h].path][s] = b]
        BY <2>3 DEF First
      <3>2. /\ plan[h][s] \in Providers /\ s \in Slots
            /\ call[h].path \in Paths /\ call[h].ver \in Versions
        BY <2>1, CallTypes DEF TypeOK, HandlersOK, Pointed
      <3>3. blobs[plan[h][s]][call[h].path][s] \in Versions \cup {None}
        <4>. HIDE DEF PutFails
        <4>. QED
          BY <2>2, <3>2 DEF Blobs
      <3>4. PICK b \in Versions \cup {None} :
               blobs' = [blobs EXCEPT ![plan[h][s]][call[h].path][s] = b]
        BY <3>1, <3>2, <3>3
      <3>5. blobs' \in Blobs
        BY <2>2, <3>2, <3>4, BlobsType
      <3>. QED
        BY <2>2, <3>5 DEF CloudOK
    <2>. QED
      BY <2>2, <2>3 DEF CloudOK
  <1>3. ProcessOK' /\ HistoryOK'
    BY CallTypes DEF TypeOK, ProcessOK, HistoryOK, HandlersOK, AtStep, Touches, Return, Fault
  <1>4. HandlersOK'
    BY ReturnType DEF TypeOK
  <1>. QED
    BY <1>1, <1>2, <1>3, <1>4 DEF TypeOK

LEMMA LogType ==
  ASSUME TypeOK, NEW h \in Handlers, Log(h)
  PROVE  TypeOK'
  <1>. USE DEF Log, Acknowledge, Abandon, storeVars, cloudVars, excuses
  <1>1. StoreOK'
    <2>1. call[h] \in Uploads \cup Deletes \cup Renames
      BY DEF TypeOK, HandlersOK, AtStep, ReadSteps
    <2>2. [type |-> OpType(h), path |-> call[h].path, to |-> call[h].to] \in LogRecords
      BY <2>1, CallTypes DEF LogRecords, OpType
    <2>. QED
      BY <2>2 DEF TypeOK, StoreOK
  <1>2. CloudOK'
    BY DEF TypeOK, CloudOK
  <1>3. ProcessOK' /\ HistoryOK'
    BY CallTypes DEF TypeOK, ProcessOK, HistoryOK, HandlersOK, AtStep, Touches, Return, Fault
  <1>4. HandlersOK'
    BY ReturnType DEF TypeOK
  <1>. QED
    BY <1>1, <1>2, <1>3, <1>4 DEF TypeOK

LEMMA RetableFailsType ==
  ASSUME TypeOK, NEW h \in Handlers, RetableFails(h)
  PROVE  TypeOK'
  <1>. USE DEF RetableFails, Acknowledge, Abandon, storeVars, cloudVars, excuses
  <1>1. StoreOK'
    BY DEF TypeOK, StoreOK
  <1>2. CloudOK'
    BY DEF TypeOK, CloudOK
  <1>3. ProcessOK' /\ HistoryOK'
    BY CallTypes DEF TypeOK, ProcessOK, HistoryOK, HandlersOK, AtStep, Touches, Return, Fault
  <1>4. HandlersOK'
    BY ReturnType DEF TypeOK
  <1>. QED
    BY <1>1, <1>2, <1>3, <1>4 DEF TypeOK

LEMMA NotFoundType ==
  ASSUME TypeOK, NEW h \in Handlers, NotFound(h)
  PROVE  TypeOK'
  <1>. USE DEF NotFound, Acknowledge, Abandon, storeVars, cloudVars, excuses
  <1>1. StoreOK'
    BY DEF TypeOK, StoreOK
  <1>2. CloudOK'
    BY DEF TypeOK, CloudOK
  <1>3. ProcessOK' /\ HistoryOK'
    BY CallTypes DEF TypeOK, ProcessOK, HistoryOK, HandlersOK, AtStep, Touches, Return, Fault
  <1>4. HandlersOK'
    BY ReturnType DEF TypeOK
  <1>. QED
    BY <1>1, <1>2, <1>3, <1>4 DEF TypeOK

LEMMA PanicType ==
  ASSUME TypeOK, NEW h \in Handlers, Panic(h)
  PROVE  TypeOK'
  <1>. USE DEF Panic, Acknowledge, Abandon, storeVars, cloudVars, excuses
  <1>1. StoreOK'
    BY DEF TypeOK, StoreOK
  <1>2. CloudOK'
    BY DEF TypeOK, CloudOK
  <1>3. ProcessOK' /\ HistoryOK'
    BY CallTypes DEF TypeOK, ProcessOK, HistoryOK, HandlersOK, AtStep, Touches, Return, Fault
  <1>4. HandlersOK'
    BY ReturnType DEF TypeOK
  <1>. QED
    BY <1>1, <1>2, <1>3, <1>4 DEF TypeOK

LEMMA DecodeFailsType ==
  ASSUME TypeOK, NEW h \in Handlers, DecodeFails(h)
  PROVE  TypeOK'
  <1>. USE DEF DecodeFails, Acknowledge, Abandon, storeVars, cloudVars, excuses
  <1>1. StoreOK'
    BY DEF TypeOK, StoreOK
  <1>2. CloudOK'
    BY DEF TypeOK, CloudOK
  <1>3. ProcessOK' /\ HistoryOK'
    BY CallTypes DEF TypeOK, ProcessOK, HistoryOK, HandlersOK, AtStep, Touches, Return, Fault
  <1>4. HandlersOK'
    BY ReturnType DEF TypeOK
  <1>. QED
    BY <1>1, <1>2, <1>3, <1>4 DEF TypeOK

LEMMA RespondType ==
  ASSUME TypeOK, NEW h \in Handlers, Respond(h)
  PROVE  TypeOK'
  <1>. USE DEF Respond, Acknowledge, Abandon, storeVars, cloudVars, excuses
  <1>1. StoreOK'
    BY DEF TypeOK, StoreOK
  <1>2. CloudOK'
    BY DEF TypeOK, CloudOK
  <1>3. ProcessOK' /\ HistoryOK'
    BY CallTypes DEF TypeOK, ProcessOK, HistoryOK, HandlersOK, AtStep, Touches, Return, Fault
  <1>4. HandlersOK'
    BY ReturnType DEF TypeOK
  <1>. QED
    BY <1>1, <1>2, <1>3, <1>4 DEF TypeOK
LEMMA CheckType ==
  ASSUME TypeOK, NEW h \in Handlers, Check(h)
  PROVE  TypeOK'
  <1>. USE CallTypes DEF Check, Step
  <1>. USE DEF storeVars, cloudVars, localVars, readVars, excuses, promises
  <1>1. StoreOK'
    BY DEF TypeOK, StoreOK
  <1>2. CloudOK'
    BY DEF TypeOK, CloudOK
  <1>3. ProcessOK' /\ HistoryOK'
    BY DEF TypeOK, ProcessOK, HistoryOK
  <1>4. HandlersOK'
    <2>. USE DEF HandlersOK, AllSteps, WriteSteps, PurgeSteps, RenameSteps, ReadSteps
    <2>1. ASSUME NEW g \in Handlers PROVE AtStep(g)' /\ Pointed(g)'
      BY DEF TypeOK, AtStep, Pointed
    <2>2. pc' \in [Handlers -> AllSteps] /\ existed' \in [Handlers -> BOOLEAN]
      BY DEF TypeOK
    <2>. QED
      BY <2>1, <2>2 DEF TypeOK
  <1>. QED
    BY <1>1, <1>2, <1>3, <1>4 DEF TypeOK

LEMMA ScanType ==
  ASSUME TypeOK, NEW h \in Handlers, Scan(h)
  PROVE  TypeOK'
  <1>. USE CallTypes DEF Scan, Step
  <1>. USE DEF storeVars, cloudVars, localVars, readVars, excuses, promises
  <1>1. StoreOK'
    BY DEF TypeOK, StoreOK
  <1>2. CloudOK'
    BY DEF TypeOK, CloudOK
  <1>3. ProcessOK' /\ HistoryOK'
    BY DEF TypeOK, ProcessOK, HistoryOK
  <1>4. HandlersOK'
    <2>. USE DEF HandlersOK, AllSteps, WriteSteps, PurgeSteps, RenameSteps, ReadSteps
    <2>1. ASSUME NEW g \in Handlers PROVE AtStep(g)' /\ Pointed(g)'
      BY DEF TypeOK, StoreOK, AtStep, Pointed, ShardMaps
    <2>2. pc' \in [Handlers -> AllSteps]
      BY DEF TypeOK, AtStep
    <2>3. plan' \in [Handlers -> ShardMaps] /\ todo' \in [Handlers -> SUBSET Slots]
      BY DEF TypeOK, StoreOK, AtStep
    <2>. QED
      BY <2>1, <2>2, <2>3 DEF TypeOK
  <1>. QED
    BY <1>1, <1>2, <1>3, <1>4 DEF TypeOK

LEMMA PurgeType ==
  ASSUME TypeOK, NEW h \in Handlers, Purge(h)
  PROVE  TypeOK'
  <1>. USE CallTypes DEF Purge, Step, Loop, Fault
  <1>. USE DEF storeVars, cloudVars, localVars, readVars, excuses, promises
  <1>1. StoreOK'
    BY DEF TypeOK, StoreOK
  <1>2. CloudOK'
    <2>1. blobs \in Blobs /\ dead \subseteq Providers /\ dead' = dead
      BY DEF TypeOK, CloudOK
    <2>2. PICK s \in todo[h] : \/ UNCHANGED blobs
                              \/ blobs' = [blobs EXCEPT ![plan[h][s]][call[h].path][s] = None]
      OBVIOUS
    <2>3. plan[h][s] \in Providers /\ s \in Slots /\ call[h].path \in Paths
      BY DEF TypeOK, HandlersOK, AtStep, Pointed
    <2>4. blobs' \in Blobs
      <3>. HIDE DEF Purge, Loop, Fault
      <3>. QED
        BY <2>1, <2>2, <2>3, BlobsType
    <2>. QED
      BY <2>1, <2>4 DEF CloudOK
  <1>3. ProcessOK' /\ HistoryOK'
    BY DEF TypeOK, ProcessOK, HistoryOK, HandlersOK, AtStep
  <1>4. HandlersOK'
    <2>. USE DEF HandlersOK, AllSteps, WriteSteps, PurgeSteps, RenameSteps, ReadSteps
    <2>1. ASSUME NEW g \in Handlers PROVE AtStep(g)' /\ Pointed(g)'
      BY DEF TypeOK, AtStep, Pointed
    <2>2. pc' \in [Handlers -> AllSteps] /\ todo' \in [Handlers -> SUBSET Slots]
      BY DEF TypeOK
    <2>. QED
      BY <2>1, <2>2 DEF TypeOK
  <1>. QED
    BY <1>1, <1>2, <1>3, <1>4 DEF TypeOK

LEMMA UnrowType ==
  ASSUME TypeOK, NEW h \in Handlers, Unrow(h)
  PROVE  TypeOK'
  <1>. USE CallTypes DEF Unrow, Step
  <1>. USE DEF storeVars, cloudVars, localVars, readVars, excuses, promises
  <1>1. StoreOK'
    BY NoRowsType DEF TypeOK, StoreOK
  <1>2. CloudOK'
    BY DEF TypeOK, CloudOK
  <1>3. ProcessOK' /\ HistoryOK'
    BY DEF TypeOK, ProcessOK, HistoryOK
  <1>4. HandlersOK'
    <2>. USE DEF HandlersOK, AllSteps, WriteSteps, PurgeSteps, RenameSteps, ReadSteps
    <2>1. ASSUME NEW g \in Handlers PROVE AtStep(g)'
      BY DEF TypeOK, AtStep
    <2>2. ASSUME NEW g \in Handlers PROVE Pointed(g)'
      BY DEF TypeOK, Pointed
    <2>3. pc' \in [Handlers -> AllSteps]
      BY DEF TypeOK
    <2>. QED
      BY <2>1, <2>2, <2>3 DEF TypeOK
  <1>. QED
    BY <1>1, <1>2, <1>3, <1>4 DEF TypeOK

LEMMA UnlinkType ==
  ASSUME TypeOK, NEW h \in Handlers, Unlink(h)
  PROVE  TypeOK'
  <1>. USE CallTypes DEF Unlink, Step
  <1>. USE DEF storeVars, cloudVars, localVars, readVars, excuses, promises
  <1>1. StoreOK'
    BY DEF TypeOK, StoreOK
  <1>2. CloudOK'
    BY DEF TypeOK, CloudOK
  <1>3. ProcessOK' /\ HistoryOK'
    BY DEF TypeOK, ProcessOK, HistoryOK
  <1>4. HandlersOK'
    <2>. USE DEF HandlersOK, AllSteps, WriteSteps, PurgeSteps, RenameSteps, ReadSteps
    <2>1. ASSUME NEW g \in Handlers PROVE AtStep(g)' /\ Pointed(g)'
      BY DEF TypeOK, AtStep, Pointed
    <2>2. pc' \in [Handlers -> AllSteps]
      BY DEF TypeOK
    <2>. QED
      BY <2>1, <2>2 DEF TypeOK
  <1>. QED
    BY <1>1, <1>2, <1>3, <1>4 DEF TypeOK

LEMMA CreateFileType ==
  ASSUME TypeOK, NEW h \in Handlers, CreateFile(h)
  PROVE  TypeOK'
  <1>. USE CallTypes DEF CreateFile, Step
  <1>. USE DEF storeVars, cloudVars, localVars, readVars, excuses, promises
  <1>. DEFINE v == call[h].ver
  <1>0. v \in Versions /\ call[h].path \in Paths /\ Segs[v] \in 0 .. MaxSegs
    BY ShapeAssumption DEF TypeOK, HandlersOK, AtStep, PurgeSteps, RenameSteps, ReadSteps
  <1>5. PICK pm \in [Shards -> Providers] :
           plan' = [plan EXCEPT ![h] =
                      [s \in Slots |-> IF s[1] < Segs[v] THEN pm[s[2]] ELSE None]]
    BY PlacementsType
  <1>6. \A s \in SlotsOf(v) : s \in Slots /\ s[1] < Segs[v] /\ pm[s[2]] \in Providers
    BY <1>5 DEF SlotsOf, Slots
  <1>7. <<0, 0>> \in SlotsOf(v)
    BY <1>0, ShapeAssumption DEF SlotsOf, Slots, Shards
  <1>8. [s \in Slots |-> IF s[1] < Segs[v] THEN pm[s[2]] ELSE None] \in ShardMaps
    BY <1>5 DEF ShardMaps, Slots
  <1>1. StoreOK'
    BY <1>0 DEF TypeOK, StoreOK
  <1>2. CloudOK'
    BY DEF TypeOK, CloudOK
  <1>3. ProcessOK' /\ HistoryOK'
    BY DEF TypeOK, ProcessOK, HistoryOK
  <1>4. HandlersOK'
    <2>. USE DEF HandlersOK, AllSteps, WriteSteps, PurgeSteps, RenameSteps, ReadSteps
    <2>1. ASSUME NEW g \in Handlers PROVE AtStep(g)' /\ Pointed(g)'
      <3>1. CASE g = h
        BY <1>0, <1>5, <1>6, <1>7, <2>1, <3>1 DEF TypeOK, AtStep, Pointed
      <3>2. CASE g # h
        BY <2>1, <3>2 DEF TypeOK, AtStep, Pointed
      <3>. QED
        BY <3>1, <3>2
    <2>2. pc' \in [Handlers -> AllSteps] /\ todo' \in [Handlers -> SUBSET Slots]
      BY DEF TypeOK, SlotsOf
    <2>3. plan' \in [Handlers -> ShardMaps]
      BY <1>5, <1>8 DEF TypeOK
    <2>. QED
      BY <2>1, <2>2, <2>3 DEF TypeOK
  <1>. QED
    BY <1>1, <1>2, <1>3, <1>4 DEF TypeOK

LEMMA PutType ==
  ASSUME TypeOK, NEW h \in Handlers, Put(h)
  PROVE  TypeOK'
  <1>. USE CallTypes DEF Put, Step
  <1>. USE DEF storeVars, cloudVars, localVars, readVars, excuses, promises
  <1>0. call[h].ver \in Versions /\ call[h].path \in Paths
    BY DEF TypeOK, HandlersOK, AtStep, PurgeSteps, RenameSteps, ReadSteps
  <1>5. PICK s \in todo[h] :
           /\ blobs' = [blobs EXCEPT ![plan[h][s]][call[h].path][s] = call[h].ver]
           /\ cur' = [cur EXCEPT ![h] = s]
           /\ todo' = [todo EXCEPT ![h] = @ \ {s}]
    BY DEF First
  <1>6. plan[h][s] \in Providers /\ s \in Slots
    BY DEF TypeOK, HandlersOK, Pointed
  <1>7. s \in Nat \X Nat
    BY <1>6, ShapeAssumption DEF Slots, Shards
  <1>1. StoreOK'
    BY DEF TypeOK, StoreOK
  <1>2. CloudOK'
    <2>1. blobs \in Blobs /\ dead \subseteq Providers /\ dead' = dead
      BY DEF TypeOK, CloudOK
    <2>. QED
      BY <1>0, <1>5, <1>6, <2>1, BlobsType DEF CloudOK
  <1>3. ProcessOK' /\ HistoryOK'
    BY DEF TypeOK, ProcessOK, HistoryOK
  <1>4. HandlersOK'
    <2>. USE DEF HandlersOK, AllSteps, WriteSteps, PurgeSteps, RenameSteps, ReadSteps
    <2>1. ASSUME NEW g \in Handlers PROVE AtStep(g)' /\ Pointed(g)'
      BY <1>5, <1>6, <2>1 DEF TypeOK, AtStep, Pointed
    <2>2. pc' \in [Handlers -> AllSteps] /\ todo' \in [Handlers -> SUBSET Slots]
      BY <1>5 DEF TypeOK
    <2>3. cur' \in [Handlers -> Nat \X Nat]
      BY <1>5, <1>7 DEF TypeOK
    <2>. QED
      BY <2>1, <2>2, <2>3 DEF TypeOK
  <1>. QED
    BY <1>1, <1>2, <1>3, <1>4 DEF TypeOK

LEMMA RecordType ==
  ASSUME TypeOK, NEW h \in Handlers, Record(h)
  PROVE  TypeOK'
  <1>. USE CallTypes DEF Record, Step
  <1>. USE DEF storeVars, cloudVars, localVars, readVars, excuses, promises
  <1>1. StoreOK'
    BY DEF TypeOK, StoreOK, HandlersOK, AtStep, Pointed, ShardMaps
  <1>2. CloudOK'
    BY DEF TypeOK, CloudOK
  <1>3. ProcessOK' /\ HistoryOK'
    BY DEF TypeOK, ProcessOK, HistoryOK
  <1>4. HandlersOK'
    <2>. USE DEF HandlersOK, AllSteps, WriteSteps, PurgeSteps, RenameSteps, ReadSteps
    <2>1. ASSUME NEW g \in Handlers PROVE AtStep(g)' /\ Pointed(g)'
      BY DEF TypeOK, AtStep, Pointed
    <2>2. pc' \in [Handlers -> AllSteps]
      BY DEF TypeOK
    <2>. QED
      BY <2>1, <2>2 DEF TypeOK
  <1>. QED
    BY <1>1, <1>2, <1>3, <1>4 DEF TypeOK

LEMMA GetType ==
  ASSUME TypeOK, NEW h \in Handlers, Get(h)
  PROVE  TypeOK'
  <1>. USE CallTypes DEF Get, Step, Loop, Fault
  <1>. USE DEF storeVars, cloudVars, localVars, readVars, excuses, promises
  <1>5. PICK s \in todo[h] :
           \/ /\ held' = [held EXCEPT ![h] = blobs[plan[h][s]][call[h].path][s]]
              /\ blobs[plan[h][s]][call[h].path][s] # None
              /\ cur' = [cur EXCEPT ![h] = s]
              /\ todo' = [todo EXCEPT ![h] = @ \ {s}]
              /\ pc' = [pc EXCEPT ![h] = "copy"]
           \/ /\ UNCHANGED <<held, cur>>
              /\ todo' = [todo EXCEPT ![h] = @ \ {s}]
              /\ pc' = [pc EXCEPT ![h] = IF todo[h] = {s} THEN "retable" ELSE @]
    BY Zenon
  <1>6. plan[h][s] \in Providers /\ s \in Slots /\ call[h].path \in Paths /\ call[h].to \in Paths
    BY DEF TypeOK, HandlersOK, AtStep, Pointed
  <1>7. blobs[plan[h][s]][call[h].path][s] \in Versions \cup {None}
    BY <1>6 DEF TypeOK, CloudOK, Blobs
  <1>8. s \in Nat \X Nat
    BY <1>6, ShapeAssumption DEF Slots, Shards
  <1>9. pc[h] = "get" /\ UNCHANGED <<call, existed, plan, limit, got, out>>
    OBVIOUS
  <1>1. StoreOK'
    BY DEF TypeOK, StoreOK
  <1>2. CloudOK'
    BY DEF TypeOK, CloudOK
  <1>3. ProcessOK' /\ HistoryOK'
    <2>1. ProcessOK'
      BY DEF TypeOK, ProcessOK
    <2>2. soiled' \subseteq Paths /\ clean' \in [Handlers -> BOOLEAN]
      BY <1>6 DEF TypeOK, HistoryOK, Touches
    <2>. QED
      BY <2>1, <2>2 DEF TypeOK, HistoryOK
  <1>4. HandlersOK'
    <2>0. HandlersOK
      BY DEF TypeOK
    <2>. HIDE DEF Get, Loop, Fault
    <2>. USE <2>0
    <2>. USE DEF HandlersOK, AllSteps, WriteSteps, PurgeSteps, RenameSteps, ReadSteps
    <2>1. ASSUME NEW g \in Handlers PROVE AtStep(g)' /\ Pointed(g)'
      <3>1. CASE g = h
        BY <1>5, <1>6, <1>7, <1>9, <3>1 DEF AtStep, Pointed
      <3>2. CASE g # h
        BY <1>5, <1>9, <2>1, <3>2 DEF AtStep, Pointed
      <3>. QED
        BY <3>1, <3>2
    <2>2. pc' \in [Handlers -> AllSteps]
      <3>1. PICK next \in {"get", "copy", "retable"} : pc' = [pc EXCEPT ![h] = next]
        BY <1>5, <1>9, Zenon
      <3>. QED
        BY <3>1
    <2>3. todo' \in [Handlers -> SUBSET Slots]
      <3>1. todo' = [todo EXCEPT ![h] = @ \ {s}]
        BY <1>5, Zenon DEF Loop
      <3>. QED
        BY <3>1 DEF TypeOK, HandlersOK
    <2>4. cur' \in [Handlers -> Nat \X Nat]
      <3>1. cur' = cur \/ cur' = [cur EXCEPT ![h] = s]
        BY <1>5, Zenon
      <3>. QED
        BY <3>1, <1>8
    <2>5. held' \in [Handlers -> Versions \cup {None}]
      BY <1>5, <1>7
    <2>. QED
      BY <1>9, <2>1, <2>2, <2>3, <2>4, <2>5
  <1>. QED
    BY <1>1, <1>2, <1>3, <1>4 DEF TypeOK

LEMMA CopyType ==
  ASSUME TypeOK, NEW h \in Handlers, Copy(h)
  PROVE  TypeOK'
  <1>. USE CallTypes DEF Copy, Step, Fault
  <1>. USE DEF storeVars, cloudVars, localVars, readVars, excuses, promises
  <1>0. call[h].path \in Paths /\ call[h].to \in Paths
    BY DEF TypeOK, HandlersOK, AtStep
  <1>1. StoreOK'
    BY DEF TypeOK, StoreOK
  <1>2. CloudOK'
    <2>1. blobs \in Blobs /\ dead \subseteq Providers /\ dead' = dead
      BY DEF TypeOK, CloudOK
    <2>2. /\ cur[h] \in Slots /\ plan[h][cur[h]] \in Providers
          /\ call[h].to \in Paths /\ held[h] \in Versions
      BY <1>0 DEF TypeOK, HandlersOK, AtStep, Pointed
    <2>3. blobs' \in Blobs
      <3>1. \/ UNCHANGED blobs
            \/ \E b \in {held[h], blobs[plan[h][cur[h]]][call[h].to][cur[h]], None} :
                  blobs' = [blobs EXCEPT ![plan[h][cur[h]]][call[h].to][cur[h]] = b]
        BY Zenon
      <3>2. blobs[plan[h][cur[h]]][call[h].to][cur[h]] \in Versions \cup {None}
        <4>. HIDE DEF Copy, Erase, Fault
        <4>. QED
          BY <2>1, <2>2 DEF Blobs
      <3>. HIDE DEF Copy, Erase, Fault
      <3>3. \/ UNCHANGED blobs
            \/ \E b \in Versions \cup {None} :
                  blobs' = [blobs EXCEPT ![plan[h][cur[h]]][call[h].to][cur[h]] = b]
        BY <2>2, <3>1, <3>2
      <3>4. CASE UNCHANGED blobs
        BY <2>1, <3>4
      <3>5. CASE ~ UNCHANGED blobs
        <4>1. PICK b \in Versions \cup {None} :
                 blobs' = [blobs EXCEPT ![plan[h][cur[h]]][call[h].to][cur[h]] = b]
          BY <3>3, <3>5
        <4>. QED
          BY <2>1, <2>2, <4>1, BlobsType
      <3>. QED
        BY <3>4, <3>5
    <2>. QED
      BY <2>1, <2>3 DEF CloudOK
  <1>3. ProcessOK' /\ HistoryOK'
    <2>1. ProcessOK'
      <3>1. UNCHANGED faults \/ faults' = faults + 1
        BY Zenon
      <3>. QED
        <4>1. ProcessOK /\ UNCHANGED <<cache, avail, calls>>
          BY DEF TypeOK
        <4>. HIDE DEF Copy, Fault
        <4>. QED
          BY <3>1, <4>1 DEF ProcessOK
    <2>2. soiled' \subseteq Paths /\ clean' \in [Handlers -> BOOLEAN]
      BY <1>0 DEF TypeOK, HistoryOK, Touches
    <2>. QED
      BY <2>1, <2>2 DEF TypeOK, HistoryOK
  <1>4. HandlersOK'
    <2>. USE DEF HandlersOK, AllSteps, WriteSteps, PurgeSteps, RenameSteps, ReadSteps
    <2>1. ASSUME NEW g \in Handlers PROVE AtStep(g)' /\ Pointed(g)'
      BY DEF TypeOK, AtStep, Pointed
    <2>2. pc' \in [Handlers -> AllSteps]
      BY DEF TypeOK
    <2>. QED
      BY <2>1, <2>2 DEF TypeOK
  <1>. QED
    BY <1>1, <1>2, <1>3, <1>4 DEF TypeOK

LEMMA EraseType ==
  ASSUME TypeOK, NEW h \in Handlers, Erase(h)
  PROVE  TypeOK'
  <1>. USE CallTypes DEF Erase, Step, Fault
  <1>. USE DEF storeVars, cloudVars, localVars, readVars, excuses, promises
  <1>0. call[h].path \in Paths /\ call[h].to \in Paths
    BY DEF TypeOK, HandlersOK, AtStep
  <1>1. StoreOK'
    BY DEF TypeOK, StoreOK
  <1>2. CloudOK'
    <2>1. blobs \in Blobs /\ dead \subseteq Providers /\ dead' = dead
      BY DEF TypeOK, CloudOK
    <2>2. /\ cur[h] \in Slots /\ plan[h][cur[h]] \in Providers
          /\ call[h].path \in Paths
      BY <1>0 DEF TypeOK, HandlersOK, AtStep, Pointed
    <2>3. blobs' \in Blobs
      <3>1. \/ UNCHANGED blobs
            \/ blobs' = [blobs EXCEPT ![plan[h][cur[h]]][call[h].path][cur[h]] = None]
        BY Zenon
      <3>2. blobs[plan[h][cur[h]]][call[h].path][cur[h]] \in Versions \cup {None}
        <4>. HIDE DEF Copy, Erase, Fault
        <4>. QED
          BY <2>1, <2>2 DEF Blobs
      <3>. HIDE DEF Copy, Erase, Fault
      <3>3. \/ UNCHANGED blobs
            \/ \E b \in Versions \cup {None} :
                  blobs' = [blobs EXCEPT ![plan[h][cur[h]]][call[h].path][cur[h]] = b]
        BY <2>2, <3>1, <3>2
      <3>4. CASE UNCHANGED blobs
        BY <2>1, <3>4
      <3>5. CASE ~ UNCHANGED blobs
        <4>1. PICK b \in Versions \cup {None} :
                 blobs' = [blobs EXCEPT ![plan[h][cur[h]]][call[h].path][cur[h]] = b]
          BY <3>3, <3>5
        <4>. QED
          BY <2>1, <2>2, <4>1, BlobsType
      <3>. QED
        BY <3>4, <3>5
    <2>. QED
      BY <2>1, <2>3 DEF CloudOK
  <1>3. ProcessOK' /\ HistoryOK'
    BY <1>0 DEF TypeOK, ProcessOK, HistoryOK
  <1>4. HandlersOK'
    <2>. USE DEF HandlersOK, AllSteps, WriteSteps, PurgeSteps, RenameSteps, ReadSteps
    <2>1. ASSUME NEW g \in Handlers PROVE AtStep(g)' /\ Pointed(g)'
      BY DEF TypeOK, AtStep, Pointed
    <2>2. pc' \in [Handlers -> AllSteps]
      BY DEF TypeOK
    <2>. QED
      BY <2>1, <2>2 DEF TypeOK
  <1>. QED
    BY <1>1, <1>2, <1>3, <1>4 DEF TypeOK

LEMMA RetableType ==
  ASSUME TypeOK, NEW h \in Handlers, Retable(h)
  PROVE  TypeOK'
  <1>. USE CallTypes DEF Retable, Step
  <1>. USE DEF storeVars, cloudVars, localVars, readVars, excuses, promises
  <1>0. call[h].path \in Paths /\ call[h].to \in Paths
    BY DEF TypeOK, HandlersOK, AtStep
  <1>1. StoreOK'
    BY <1>0, NoRowsType DEF TypeOK, StoreOK, ShardMaps
  <1>2. CloudOK'
    BY DEF TypeOK, CloudOK
  <1>3. ProcessOK' /\ HistoryOK'
    BY DEF TypeOK, ProcessOK, HistoryOK
  <1>4. HandlersOK'
    <2>. USE DEF HandlersOK, AllSteps, WriteSteps, PurgeSteps, RenameSteps, ReadSteps
    <2>1. ASSUME NEW g \in Handlers PROVE AtStep(g)' /\ Pointed(g)'
      BY DEF TypeOK, AtStep, Pointed
    <2>2. pc' \in [Handlers -> AllSteps]
      BY DEF TypeOK
    <2>. QED
      BY <2>1, <2>2 DEF TypeOK
  <1>. QED
    BY <1>1, <1>2, <1>3, <1>4 DEF TypeOK

LEMMA StatType ==
  ASSUME TypeOK, NEW h \in Handlers, Stat(h)
  PROVE  TypeOK'
  <1>. USE CallTypes DEF Stat, Step
  <1>. USE DEF storeVars, cloudVars, localVars, readVars, excuses, promises
  <1>1. StoreOK'
    BY DEF TypeOK, StoreOK
  <1>2. CloudOK'
    BY DEF TypeOK, CloudOK
  <1>3. ProcessOK' /\ HistoryOK'
    BY DEF TypeOK, ProcessOK, HistoryOK
  <1>4. HandlersOK'
    <2>. USE DEF HandlersOK, AllSteps, WriteSteps, PurgeSteps, RenameSteps, ReadSteps
    <2>1. ASSUME NEW g \in Handlers PROVE AtStep(g)' /\ Pointed(g)'
      BY DEF TypeOK, AtStep, Pointed
    <2>2. pc' \in [Handlers -> AllSteps]
      BY DEF TypeOK
    <2>3. limit' \in [Handlers -> Nat]
      <3>1. call[h].path \in Paths
        BY DEF TypeOK, AtStep
      <3>2. files[call[h].path] \in Nat
        BY <3>1, ShapeAssumption DEF TypeOK, StoreOK
      <3>. QED
        BY <3>2 DEF TypeOK
    <2>. QED
      BY <2>1, <2>2, <2>3 DEF TypeOK
  <1>. QED
    BY <1>1, <1>2, <1>3, <1>4 DEF TypeOK

LEMMA ReadMapType ==
  ASSUME TypeOK, NEW h \in Handlers, ReadMap(h)
  PROVE  TypeOK'
  <1>. USE CallTypes DEF ReadMap, Step
  <1>. USE DEF storeVars, cloudVars, localVars, readVars, excuses, promises
  <1>0. call[h].path \in Paths /\ call[h].to \in Paths
    BY DEF TypeOK, HandlersOK, AtStep
  <1>1. StoreOK'
    BY DEF TypeOK, StoreOK
  <1>2. CloudOK'
    BY DEF TypeOK, CloudOK
  <1>3. ProcessOK' /\ HistoryOK'
    BY DEF TypeOK, ProcessOK, HistoryOK
  <1>4. HandlersOK'
    <2>. USE DEF HandlersOK, AllSteps, WriteSteps, PurgeSteps, RenameSteps, ReadSteps
    <2>1. ASSUME NEW g \in Handlers PROVE AtStep(g)' /\ Pointed(g)'
      BY <1>0 DEF TypeOK, AtStep, Pointed
    <2>2. pc' \in [Handlers -> AllSteps]
      BY DEF TypeOK
    <2>3. plan' \in [Handlers -> ShardMaps]
      BY <1>0 DEF TypeOK, StoreOK
    <2>. QED
      BY <2>1, <2>2, <2>3 DEF TypeOK
  <1>. QED
    BY <1>1, <1>2, <1>3, <1>4 DEF TypeOK

LEMMA FinishType ==
  ASSUME TypeOK, NEW h \in Handlers, Finish(h)
  PROVE  TypeOK'
  <1>. USE CallTypes DEF Finish, Step
  <1>. USE DEF storeVars, cloudVars, localVars, readVars, excuses, promises
  <1>1. StoreOK'
    BY DEF TypeOK, StoreOK
  <1>2. CloudOK'
    BY DEF TypeOK, CloudOK
  <1>3. ProcessOK' /\ HistoryOK'
    BY DEF TypeOK, ProcessOK, HistoryOK
  <1>4. HandlersOK'
    <2>. USE DEF HandlersOK, AllSteps, WriteSteps, PurgeSteps, RenameSteps, ReadSteps
    <2>1. ASSUME NEW g \in Handlers PROVE AtStep(g)' /\ Pointed(g)'
      BY DEF TypeOK, AtStep, Pointed
    <2>2. pc' \in [Handlers -> AllSteps]
      BY DEF TypeOK
    <2>. QED
      BY <2>1, <2>2 DEF TypeOK
  <1>. QED
    BY <1>1, <1>2, <1>3, <1>4 DEF TypeOK

(* Taking an entry out of the cache, putting one in, and decoding.         *)
LEMMA OthersType ==
  ASSUME NEW S, cache \in Seq(S), NEW p, NEW i
  PROVE  Others(p, i) \in Seq(S)
  <1>1. CASE Cached(p, i) = {}
    BY <1>1 DEF Others
  <1>2. CASE Cached(p, i) # {}
    <2>1. PICK e \in 1 .. Len(cache) : Others(p, i) = RemoveAt(cache, e)
      BY <1>2 DEF Others, Cached
    <2>2. SubSeq(cache, 1, e - 1) \in Seq(S)
      BY SubSeqProperties
    <2>3. SubSeq(cache, e + 1, Len(cache)) \in Seq(S)
      BY SubSeqProperties
    <2>. QED
      BY <2>1, <2>2, <2>3, ConcatProperties DEF RemoveAt
  <1>. QED
    BY <1>1, <1>2

LEMMA CachePutType ==
  ASSUME NEW S, cache \in Seq(S), NEW p, NEW i, NEW v, [path |-> p, seg |-> i, ver |-> v] \in S
  PROVE  CachePut(p, i, v) \in Seq(S)
  <1>. DEFINE rest == Others(p, i)
              room == IF Capacity = 0 THEN 0 ELSE Capacity - 1
              keep == IF Len(rest) < room THEN Len(rest) ELSE room
  <1>1. rest \in Seq(S)
    BY OthersType
  <1>2. keep \in Nat /\ keep <= Len(rest)
    BY <1>1, ShapeAssumption
  <1>3. SubSeq(rest, 1, keep) \in Seq(S)
    <2>. HIDE DEF rest, keep
    <2>. QED
      BY <1>1, <1>2, SubSeqProperties
  <1>4. <<[path |-> p, seg |-> i, ver |-> v]>> \in Seq(S)
    OBVIOUS
  <1>. QED
    BY <1>3, <1>4, ConcatProperties DEF CachePut

LEMMA DecodedType ==
  ASSUME NEW shards \in [Shards -> Versions \cup {None}]
  PROVE  Decoded(shards) \in Content
  <1>. DEFINE vs == {shards[i] : i \in Used(shards)}
  <1>1. vs \subseteq Versions
    BY DEF Used, Present
  <1>2. Cardinality(vs) = 1 => vs # {}
    BY FS_EmptySet
  <1>3. Cardinality(vs) = 1 => (CHOOSE v \in vs : TRUE) \in Versions
    <2>. HIDE DEF vs
    <2>. QED
      BY <1>1, <1>2
  <1>. QED
    BY <1>3 DEF Decoded, Content

LEMMA ReaderType ==
  ASSUME TypeOK, NEW h \in Handlers, pc[h] \in {"seg", "decode"}
  PROVE  /\ call[h].path \in Paths /\ call[h] \in Downloads
         /\ out[h] \in Seq(Content \X Nat) /\ Len(out[h]) \in Nat /\ cache \in Seq(CacheEntries)
  <1>1. call[h] \in Downloads /\ call[h].path \in Paths
    BY CallTypes DEF TypeOK, HandlersOK, AtStep, WriteSteps, PurgeSteps, RenameSteps
  <1>2. out[h] \in Seq(Content \X Nat) /\ Len(out[h]) \in Nat
    BY DEF TypeOK, HandlersOK
  <1>3. cache \in Seq(CacheEntries)
    BY DEF TypeOK, ProcessOK
  <1>. QED
    BY <1>1, <1>2, <1>3

LEMMA HitType ==
  ASSUME TypeOK, NEW h \in Handlers, Hit(h)
  PROVE  TypeOK'
  <1>. USE CallTypes DEF Hit, Step, More
  <1>. USE DEF storeVars, cloudVars, localVars, readVars, excuses, promises
  <1>0. /\ call[h].path \in Paths /\ call[h] \in Downloads
        /\ out[h] \in Seq(Content \X Nat) /\ Len(out[h]) \in Nat /\ cache \in Seq(CacheEntries)
    BY ReaderType
  <1>5. PICK e \in 1 .. Len(cache) :
           /\ cache' = <<cache[e]>> \o Others(call[h].path, Len(out[h]))
           /\ out' = [out EXCEPT ![h] = Append(@, <<cache[e].ver, cache[e].seg>>)]
    BY DEF Cached
  <1>6. /\ cache[e] \in CacheEntries
        /\ <<cache[e].ver, cache[e].seg>> \in Content \X Nat
    <2>1. cache[e] \in CacheEntries
      BY <1>0
    <2>. QED
      BY <2>1 DEF CacheEntries
  <1>7. Append(out[h], <<cache[e].ver, cache[e].seg>>) \in Seq(Content \X Nat)
    BY <1>0, <1>6
  <1>1. StoreOK'
    BY DEF TypeOK, StoreOK
  <1>2. CloudOK'
    BY DEF TypeOK, CloudOK
  <1>3. ProcessOK' /\ HistoryOK'
    <2>1. cache' \in Seq(CacheEntries)
      <3>1. <<cache[e]>> \in Seq(CacheEntries)
        BY <1>6
      <3>. QED
        BY <1>0, <1>5, <3>1, OthersType, ConcatProperties
    <2>. QED
      BY <2>1 DEF TypeOK, ProcessOK, HistoryOK
  <1>4. HandlersOK'
    <2>. USE DEF HandlersOK, AllSteps, WriteSteps, PurgeSteps, RenameSteps, ReadSteps
    <2>1. ASSUME NEW g \in Handlers PROVE AtStep(g)' /\ Pointed(g)'
      BY DEF TypeOK, AtStep, Pointed
    <2>2. out' \in [Handlers -> Seq(Content \X Nat)]
      BY <1>5, <1>7 DEF TypeOK
    <2>. QED
      BY <2>1, <2>2 DEF TypeOK
  <1>. QED
    BY <1>1, <1>2, <1>3, <1>4 DEF TypeOK

LEMMA MissType ==
  ASSUME TypeOK, NEW h \in Handlers, Miss(h)
  PROVE  TypeOK'
  <1>. USE CallTypes DEF Miss, Step, More
  <1>. USE DEF storeVars, cloudVars, localVars, readVars, excuses, promises
  <1>0. /\ call[h].path \in Paths /\ call[h] \in Downloads
        /\ out[h] \in Seq(Content \X Nat) /\ Len(out[h]) \in Nat /\ cache \in Seq(CacheEntries)
    BY ReaderType
  <1>. DEFINE i == Len(out[h])
              slots == {<<i, j>> : j \in IndicesOf(plan[h], i)}
  <1>5. \A s \in slots : s \in Slots /\ plan[h][s] \in Providers
    <2>1. plan[h] \in ShardMaps
      BY DEF TypeOK, HandlersOK
    <2>2. \A j \in IndicesOf(plan[h], i) : <<i, j>> \in Slots /\ plan[h][<<i, j>>] # None
      BY <1>0, ShapeAssumption DEF IndicesOf, Slots
    <2>. QED
      BY <2>1, <2>2 DEF ShardMaps
  <1>6. IndicesOf(plan[h], i) = {} <=> slots = {}
    OBVIOUS
  <1>7. /\ todo' = [todo EXCEPT ![h] = slots]
        /\ pc' = [pc EXCEPT ![h] = IF slots = {} THEN "decode" ELSE "fetch"]
        /\ UNCHANGED <<plan, call, cur, held, existed, limit, out>>
    BY <1>6
  <1>1. StoreOK'
    BY DEF TypeOK, StoreOK
  <1>2. CloudOK'
    BY DEF TypeOK, CloudOK
  <1>3. ProcessOK' /\ HistoryOK'
    BY DEF TypeOK, ProcessOK, HistoryOK
  <1>4. HandlersOK'
    <2>. USE DEF HandlersOK, AllSteps, WriteSteps, PurgeSteps, RenameSteps, ReadSteps
    <2>1. ASSUME NEW g \in Handlers PROVE AtStep(g)' /\ Pointed(g)'
      <3>1. CASE g = h
        <4>. HIDE DEF slots, Miss
        <4>. QED
          BY <1>0, <1>5, <1>7, <3>1 DEF TypeOK, AtStep, Pointed
      <3>2. CASE g # h
        BY <2>1, <3>2 DEF TypeOK, AtStep, Pointed
      <3>. QED
        BY <3>1, <3>2
    <2>2. pc' \in [Handlers -> AllSteps]
      BY DEF TypeOK
    <2>3. todo' \in [Handlers -> SUBSET Slots]
      <3>1. slots \in SUBSET Slots
        BY <1>5
      <3>. HIDE DEF slots
      <3>. QED
        BY <1>7, <3>1 DEF TypeOK
    <2>4. got' \in [Handlers -> [Shards -> Versions \cup {None}]]
      BY DEF TypeOK, NoneGot
    <2>. QED
      BY <2>1, <2>2, <2>3, <2>4 DEF TypeOK
  <1>. QED
    BY <1>1, <1>2, <1>3, <1>4 DEF TypeOK

LEMMA FetchType ==
  ASSUME TypeOK, NEW h \in Handlers, Fetch(h)
  PROVE  TypeOK'
  <1>. USE CallTypes DEF Fetch, Step, Loop, Fault
  <1>. USE DEF storeVars, cloudVars, localVars, readVars, excuses, promises
  <1>5. PICK s \in todo[h] :
           /\ todo' = [todo EXCEPT ![h] = @ \ {s}]
           /\ \/ got' = [got EXCEPT ![h][s[2]] = blobs[plan[h][s]][call[h].path][s]]
              \/ UNCHANGED got
    OBVIOUS
  <1>6. plan[h][s] \in Providers /\ s \in Slots /\ call[h].path \in Paths /\ s[2] \in Shards
    BY DEF TypeOK, HandlersOK, AtStep, Pointed, Slots
  <1>7. blobs[plan[h][s]][call[h].path][s] \in Versions \cup {None}
    BY <1>6 DEF TypeOK, CloudOK, Blobs
  <1>1. StoreOK'
    BY DEF TypeOK, StoreOK
  <1>2. CloudOK'
    BY DEF TypeOK, CloudOK
  <1>3. ProcessOK' /\ HistoryOK'
    BY DEF TypeOK, ProcessOK, HistoryOK
  <1>4. HandlersOK'
    <2>. USE DEF HandlersOK, AllSteps, WriteSteps, PurgeSteps, RenameSteps, ReadSteps
    <2>1. ASSUME NEW g \in Handlers PROVE AtStep(g)' /\ Pointed(g)'
      BY DEF TypeOK, AtStep, Pointed
    <2>2. pc' \in [Handlers -> AllSteps] /\ todo' \in [Handlers -> SUBSET Slots]
      BY DEF TypeOK
    <2>3. got' \in [Handlers -> [Shards -> Versions \cup {None}]]
      <3>1. got \in [Handlers -> [Shards -> Versions \cup {None}]]
        BY DEF TypeOK
      <3>. HIDE DEF Fetch, Loop, Fault
      <3>. QED
        BY <1>5, <1>6, <1>7, <3>1
    <2>. QED
      BY <2>1, <2>2, <2>3 DEF TypeOK
  <1>. QED
    BY <1>1, <1>2, <1>3, <1>4 DEF TypeOK

LEMMA DecodeType ==
  ASSUME TypeOK, NEW h \in Handlers, Decode(h)
  PROVE  TypeOK'
  <1>. USE CallTypes DEF Decode, Step
  <1>. USE DEF storeVars, cloudVars, localVars, readVars, excuses, promises
  <1>0. /\ call[h].path \in Paths /\ call[h] \in Downloads
        /\ out[h] \in Seq(Content \X Nat) /\ Len(out[h]) \in Nat /\ cache \in Seq(CacheEntries)
    BY ReaderType
  <1>5. Decoded(got[h]) \in Content
    BY DecodedType DEF TypeOK, HandlersOK
  <1>6. Append(out[h], <<Decoded(got[h]), Len(out[h])>>) \in Seq(Content \X Nat)
    <2>1. <<Decoded(got[h]), Len(out[h])>> \in Content \X Nat
      BY <1>0, <1>5
    <2>. QED
      BY <1>0, <2>1
  <1>1. StoreOK'
    BY DEF TypeOK, StoreOK
  <1>2. CloudOK'
    BY DEF TypeOK, CloudOK
  <1>3. ProcessOK' /\ HistoryOK'
    <2>1. [path |-> call[h].path, seg |-> Len(out[h]), ver |-> Decoded(got[h])] \in CacheEntries
      BY <1>0, <1>5 DEF CacheEntries
    <2>2. cache' \in Seq(CacheEntries)
      BY <1>0, <2>1, CachePutType
    <2>. QED
      BY <2>2 DEF TypeOK, ProcessOK, HistoryOK
  <1>4. HandlersOK'
    <2>. USE DEF HandlersOK, AllSteps, WriteSteps, PurgeSteps, RenameSteps, ReadSteps
    <2>1. ASSUME NEW g \in Handlers PROVE AtStep(g)' /\ Pointed(g)'
      BY DEF TypeOK, AtStep, Pointed
    <2>2. pc' \in [Handlers -> AllSteps]
      BY DEF TypeOK
    <2>3. got' \in [Handlers -> [Shards -> Versions \cup {None}]]
      BY DEF TypeOK, NoneGot
    <2>4. out' \in [Handlers -> Seq(Content \X Nat)]
      BY <1>6 DEF TypeOK
    <2>. QED
      BY <2>1, <2>2, <2>3, <2>4 DEF TypeOK
  <1>. QED
    BY <1>1, <1>2, <1>3, <1>4 DEF TypeOK

LEMMA StartType ==
  ASSUME TypeOK, NEW h \in Handlers, NEW c \in Requests, Start(h, c)
  PROVE  TypeOK'
  <1>. USE CallTypes DEF Start, Step
  <1>. USE DEF storeVars, cloudVars, localVars, readVars, excuses, promises
  <1>5. Touches(c) \subseteq Paths
    BY DEF Touches, Requests, Mutations
  <1>6. \A g \in Handlers : Changing(g) => Touches(call[g]) \subseteq Paths
    BY DEF Changing, Active, Touches, TypeOK, HandlersOK, AtStep
  <1>7. \A T : T \subseteq Paths => Taint(T) \subseteq Paths
    BY <1>6 DEF Taint, Rivals
  <1>1. StoreOK'
    BY DEF TypeOK, StoreOK
  <1>2. CloudOK'
    BY DEF TypeOK, CloudOK
  <1>3. ProcessOK' /\ HistoryOK'
    <2>1. ProcessOK'
      BY DEF TypeOK, ProcessOK
    <2>2. CASE c.op # "read"
      <3>. USE <2>2 DEF StartChange, TypeOK, HistoryOK
      <3>1. acked' \in [Paths -> Versions \cup {None}]
        OBVIOUS
      <3>2. contended' \subseteq Paths /\ unlogged' \subseteq Paths
        BY <1>5, <1>7 DEF Touches
      <3>3. due' \in [Handlers -> Versions \cup {None}]
        <4>1. c.op = "rename" \/ c.ver \in Versions \cup {None}
          BY DEF Requests, Mutations
        <4>2. c.path \in Paths
          BY <1>5 DEF Touches
        <4>. QED
          BY <4>1, <4>2
      <3>4. clean' \in [Handlers -> BOOLEAN]
        <4>1. (c.op = "rename" => c.path # c.to) \in BOOLEAN
          OBVIOUS
        <4>. QED
          BY <4>1
      <3>. QED
        BY <2>1, <3>1, <3>2, <3>3, <3>4
    <2>3. CASE c.op = "read"
      <3>. USE <2>3 DEF StartRead, TypeOK, HistoryOK
      <3>1. due' \in [Handlers -> Versions \cup {None}]
        BY <1>5 DEF Touches
      <3>2. clean' \in [Handlers -> BOOLEAN]
        <4>1. \A p, v : FreshCache(p, v) \in BOOLEAN
          BY DEF FreshCache
        <4>. QED
          BY <4>1
      <3>. QED
        BY <2>1, <3>1, <3>2
    <2>. QED
      BY <2>2, <2>3
  <1>4. HandlersOK'
    <2>. USE DEF HandlersOK, AllSteps, WriteSteps, PurgeSteps, RenameSteps, ReadSteps
    <2>1. ASSUME NEW g \in Handlers PROVE AtStep(g)' /\ Pointed(g)'
      <3>1. CASE g # h
        BY <2>1, <3>1 DEF TypeOK, AtStep, Pointed, StartChange, StartRead
      <3>2. CASE g = h
        <4>1. pc'[h] = IF c.op = "read" THEN "info" ELSE IF c.op = "write" THEN "check" ELSE "scan"
          BY DEF TypeOK, StartChange, StartRead
        <4>2. c \in Uploads \/ c \in Deletes \/ c \in Renames \/ c \in Downloads
          BY DEF Requests, Mutations
        <4>3. AtStep(h)'
          BY <4>1, <4>2 DEF TypeOK, AtStep
        <4>. QED
          BY <3>2, <4>1, <4>3 DEF TypeOK, Pointed
      <3>. QED
        BY <3>1, <3>2
    <2>2. pc' \in [Handlers -> AllSteps]
      BY DEF TypeOK, StartChange, StartRead
    <2>3. call' \in [Handlers -> Requests \cup {NoCall}]
      BY DEF TypeOK
    <2>. QED
      BY <2>1, <2>2, <2>3 DEF TypeOK
  <1>. QED
    BY <1>1, <1>2, <1>3, <1>4 DEF TypeOK

LEMMA MkdirType ==
  ASSUME TypeOK, NEW d \in Dirs, Mkdir(d)
  PROVE  TypeOK'
  <1>. USE CallTypes DEF Mkdir, Step
  <1>. USE DEF storeVars, cloudVars, localVars, readVars, excuses, promises
  <1>0. d \in Paths
    BY EnvironmentAssumption
  <1>5. \A g \in Handlers : Changing(g) => Touches(call[g]) \subseteq Paths
    BY DEF Changing, Active, Touches, TypeOK, HandlersOK, AtStep
  <1>6. Taint({d}) \subseteq Paths
    BY <1>0, <1>5 DEF Taint, Rivals
  <1>1. StoreOK'
    BY <1>0, ShapeAssumption DEF TypeOK, StoreOK
  <1>2. CloudOK'
    BY DEF TypeOK, CloudOK
  <1>3. ProcessOK' /\ HistoryOK'
    <2>1. ProcessOK'
      BY DEF TypeOK, ProcessOK
    <2>2. contended' \subseteq Paths /\ unlogged' \subseteq Paths
      <3>1. contended \subseteq Paths /\ unlogged \subseteq Paths
        BY DEF TypeOK, HistoryOK
      <3>. QED
        BY <3>1, <1>0, <1>6
    <2>. QED
      BY <2>1, <2>2 DEF TypeOK, HistoryOK
  <1>4. HandlersOK'
    <2>. USE DEF HandlersOK, AllSteps, WriteSteps, PurgeSteps, RenameSteps, ReadSteps
    <2>1. ASSUME NEW g \in Handlers PROVE AtStep(g)' /\ Pointed(g)'
      BY DEF TypeOK, AtStep, Pointed
    <2>2. pc' \in [Handlers -> AllSteps]
      BY DEF TypeOK
    <2>. QED
      BY <2>1, <2>2 DEF TypeOK
  <1>. QED
    BY <1>1, <1>2, <1>3, <1>4 DEF TypeOK

LEMMA LoseType ==
  ASSUME TypeOK, NEW x \in Providers, Lose(x)
  PROVE  TypeOK'
  <1>. USE CallTypes DEF Lose, Step, Fault
  <1>. USE DEF storeVars, cloudVars, localVars, readVars, excuses, promises
  <1>1. StoreOK'
    BY DEF TypeOK, StoreOK
  <1>2. CloudOK'
    BY DEF TypeOK, CloudOK, Blobs, NoRows
  <1>3. ProcessOK' /\ HistoryOK'
    BY DEF TypeOK, ProcessOK, HistoryOK
  <1>4. HandlersOK'
    <2>. USE DEF HandlersOK, AllSteps, WriteSteps, PurgeSteps, RenameSteps, ReadSteps
    <2>1. ASSUME NEW g \in Handlers PROVE AtStep(g)' /\ Pointed(g)'
      BY DEF TypeOK, AtStep, Pointed
    <2>2. pc' \in [Handlers -> AllSteps]
      BY DEF TypeOK
    <2>. QED
      BY <2>1, <2>2 DEF TypeOK
  <1>. QED
    BY <1>1, <1>2, <1>3, <1>4 DEF TypeOK

LEMMA CrashType ==
  ASSUME TypeOK, Crash
  PROVE  TypeOK'
  <1>. USE CallTypes DEF Crash, Step, Fault
  <1>. USE DEF storeVars, cloudVars, localVars, readVars, excuses, promises
  <1>1. StoreOK'
    BY DEF TypeOK, StoreOK
  <1>2. CloudOK'
    BY DEF TypeOK, CloudOK
  <1>3. ProcessOK' /\ HistoryOK'
    <2>1. ProcessOK'
      <3>1. << >> \in Seq(CacheEntries)
        OBVIOUS
      <3>. QED
        BY <3>1, EnvironmentAssumption DEF TypeOK, ProcessOK
    <2>2. \A g \in Handlers : Changing(g) => Touches(call[g]) \subseteq Paths
      BY DEF Changing, Active, Touches, TypeOK, HandlersOK, AtStep
    <2>. QED
      BY <2>1, <2>2 DEF TypeOK, HistoryOK
  <1>4. HandlersOK'
    <2>. USE DEF HandlersOK, AllSteps, WriteSteps, PurgeSteps, RenameSteps, ReadSteps
    <2>1. ASSUME NEW g \in Handlers PROVE AtStep(g)' /\ Pointed(g)'
      BY DEF TypeOK, AtStep, Pointed
    <2>2. pc' \in [Handlers -> AllSteps]
      OBVIOUS
    <2>3. /\ call' \in [Handlers -> Requests \cup {NoCall}]
          /\ existed' \in [Handlers -> BOOLEAN]
          /\ held' \in [Handlers -> Versions \cup {None}]
          /\ limit' \in [Handlers -> Nat]
      OBVIOUS
    <2>4. /\ plan' \in [Handlers -> ShardMaps]
          /\ todo' \in [Handlers -> SUBSET Slots]
          /\ cur' \in [Handlers -> Nat \X Nat]
      BY NoRowsType
    <2>5. /\ got' \in [Handlers -> [Shards -> Versions \cup {None}]]
          /\ out' \in [Handlers -> Seq(Content \X Nat)]
      <3>1. << >> \in Seq(Content \X Nat)
        OBVIOUS
      <3>. QED
        BY <3>1 DEF NoneGot
    <2>. QED
      BY <2>1, <2>2, <2>3, <2>4, <2>5 DEF TypeOK
  <1>. QED
    BY <1>1, <1>2, <1>3, <1>4 DEF TypeOK

LEMMA NextType == TypeOK /\ [Next]_vars => TypeOK'
  <1>. SUFFICES ASSUME TypeOK, [Next]_vars PROVE TypeOK'
    OBVIOUS
  <1>1. ASSUME NEW h \in Handlers, NEW c \in Requests, Start(h, c) PROVE TypeOK'
    BY <1>1, StartType
  <1>2. ASSUME NEW h \in Handlers, Change(h) PROVE TypeOK'
    BY <1>2, CheckType, ScanType, PurgeType, UnrowType, UnlinkType, CreateEmptyType,
       CreateFileType, CreateFailsType, PutType, PutFailsType, RecordType, LogType,
       GetType, CopyType, EraseType, RetableType, RetableFailsType DEF Change
  <1>3. ASSUME NEW h \in Handlers, Read(h) PROVE TypeOK'
    BY <1>3, StatType, NotFoundType, ReadMapType, HitType, MissType, PanicType, FetchType,
       DecodeType, DecodeFailsType, FinishType, RespondType DEF Read
  <1>4. ASSUME NEW d \in Dirs, Mkdir(d) PROVE TypeOK'
    BY <1>4, MkdirType
  <1>5. ASSUME NEW x \in Providers, Lose(x) PROVE TypeOK'
    BY <1>5, LoseType
  <1>6. CASE Crash
    BY <1>6, CrashType
  <1>7. CASE UNCHANGED vars
    <2>. USE <1>7 DEF vars, storeVars, cloudVars, localVars, readVars, excuses, promises
    <2>1. StoreOK' /\ CloudOK' /\ ProcessOK' /\ HistoryOK'
      BY DEF TypeOK, StoreOK, CloudOK, ProcessOK, HistoryOK
    <2>2. HandlersOK'
      BY DEF TypeOK, HandlersOK, AtStep, Pointed
    <2>. QED
      BY <2>1, <2>2 DEF TypeOK
  <1>. QED
    BY <1>1, <1>2, <1>3, <1>4, <1>5, <1>6, <1>7 DEF Next

(* The types, and the bookkeeping of every handler's loop, for any number  *)
(* of handlers, paths, versions and providers and any code K, M: the steps *)
(* of internal/vfs never index a shard map where it names no provider.     *)
THEOREM TypeCorrect == Spec => []TypeOK
  BY InitType, NextType, PTL DEF Spec

-----------------------------------------------------------------------------
(***************************************************************************)
(* The inductive invariant.                                                *)
(***************************************************************************)
(* What a step of the changing call of h leaves alone.                     *)
Frame(h) ==
    /\ \A p \in Paths \ Own(h) :
          /\ files'[p] = files[p] /\ rows'[p] = rows[p] /\ acked'[p] = acked[p]
          /\ \A x \in Providers : blobs'[x][p] = blobs[x][p]
    /\ dead' = dead /\ contended' = contended
    /\ \A g \in Handlers \ {h} :
          /\ pc'[g] = pc[g] /\ call'[g] = call[g] /\ plan'[g] = plan[g]
          /\ todo'[g] = todo[g] /\ cur'[g] = cur[g] /\ held'[g] = held[g]
          /\ due'[g] = due[g] /\ clean'[g] = clean[g]
    /\ \/ pc'[h] = "idle" /\ call'[h] = NoCall
       \/ call'[h] = call[h] /\ acked' = acked

(* What it has to establish itself.                                        *)
Local(h) ==
    /\ DeadEmpty'
    /\ CallInv(h)'
    /\ \A p \in Own(h) \ contended :
          /\ files'[p] = None => rows'[p] = NoRows
          /\ acked'[p] # None => Intact(p, acked[p])'

LEMMA ChangingType ==
  ASSUME TypeOK, NEW h \in Handlers, Changing(h)
  PROVE  /\ call[h] \in Mutations /\ pc[h] \in WriteSteps \cup RenameSteps
         /\ call[h].path \in Paths /\ call[h].to \in Paths
         /\ call[h].op \in {"write", "delete", "rename"}
         /\ call[h].op # "rename" => call[h].to = call[h].path
  BY CallTypes DEF TypeOK, HandlersOK, AtStep, Changing, Active, Mutations, PurgeSteps,
     WriteSteps, RenameSteps, ReadSteps

LEMMA IdleCall ==
  ASSUME TypeOK, NEW h \in Handlers, ~Changing(h)
  PROVE  call[h].op \notin {"write", "delete", "rename"}
  BY CallTypes DEF TypeOK, HandlersOK, AtStep, Changing, Active, PurgeSteps, WriteSteps,
     RenameSteps, ReadSteps

LEMMA SpreadProviders ==
  ASSUME NEW map \in ShardMaps, NEW v, Spread(map, v)
  PROVE  \A s \in SlotsOf(v) : s \in Slots /\ map[s] \in Providers
  BY DEF Spread, SlotsOf, ShardMaps

LEMMA IntactKept ==
  ASSUME TypeOK, NEW p \in Paths, NEW v, Intact(p, v), dead' = dead,
         files'[p] = files[p], rows'[p] = rows[p],
         \A x \in Providers : blobs'[x][p] = blobs[x][p]
  PROVE  Intact(p, v)'
  <1>1. rows[p] \in ShardMaps
    BY DEF TypeOK, StoreOK
  <1>2. \A s \in SlotsOf(v) : rows[p][s] \in Providers
    BY <1>1, SpreadProviders DEF Intact, Located
  <1>. QED
    BY <1>2 DEF Intact, Located, Stored

(* The step of one call keeps the invariant of the other calls.            *)
LEMMA OtherCalls ==
  ASSUME IInv, TypeOK', NEW h \in Handlers, Changing(h), Frame(h), NEW g \in Handlers \ {h}
  PROVE  CallInv(g)'
  <1>. DEFINE p == call[g].path
              q == call[g].to
  <1>1. CASE ~Changing(g)
    <2>1. call[g].op \notin {"write", "delete", "rename"}
      BY <1>1, IdleCall DEF IInv
    <2>. QED
      BY <2>1 DEF CallInv, PurgeInv, UploadInv, RenameInv, Frame
  <1>2. CASE Changing(g) /\ Own(g) \subseteq contended
    BY <1>2 DEF CallInv, PurgeInv, UploadInv, RenameInv, Frame, Own, Touches
  <1>3. CASE Changing(g) /\ ~(Own(g) \subseteq contended)
    <2>1. Own(g) \cap Own(h) = {}
      BY <1>3 DEF IInv, Separate
    <2>2. p \in Paths \ Own(h) /\ q \in Paths \ Own(h)
      BY <1>3, <2>1, ChangingType DEF IInv, Own, Touches
    <2>3. /\ files'[p] = files[p] /\ rows'[p] = rows[p]
          /\ files'[q] = files[q] /\ rows'[q] = rows[q]
          /\ \A x \in Providers : blobs'[x][p] = blobs[x][p] /\ blobs'[x][q] = blobs[x][q]
          /\ dead' = dead /\ contended' = contended
          /\ pc'[g] = pc[g] /\ call'[g] = call[g] /\ plan'[g] = plan[g]
          /\ todo'[g] = todo[g] /\ cur'[g] = cur[g] /\ held'[g] = held[g]
          /\ due'[g] = due[g] /\ clean'[g] = clean[g]
      BY <2>2 DEF Frame
    <2>4. CallInv(g)
      BY DEF IInv
    <2>5. PurgeInv(g)'
      BY <2>3, <2>4 DEF CallInv, PurgeInv
    <2>6. UploadInv(g)'
      <3>. SUFFICES ASSUME call[g].op = "write", p \notin contended,
                           pc[g] \in {"put", "record", "log"}
                    PROVE  UploadInv(g)'
        BY <2>3, <2>4 DEF CallInv, UploadInv
      <3>1. \A s \in SlotsOf(call[g].ver) : plan[g][s] \in Providers
        BY <2>4, SpreadProviders DEF CallInv, UploadInv, IInv, TypeOK, HandlersOK
      <3>. QED
        BY <2>3, <2>4, <3>1 DEF CallInv, UploadInv, Stored
    <2>7. RenameInv(g)'
      <3>. DEFINE v == due[g]
      <3>. SUFFICES ASSUME call[g].op = "rename", q \notin contended, v # None, clean[g]
                    PROVE  RenameInv(g)'
        BY <2>3 DEF RenameInv
      <3>1. p # q
        BY <2>4 DEF CallInv, RenameInv
      <3>2. ASSUME pc[g] = "scan" PROVE Intact(p, v)'
        <4>1. Intact(p, v)
          BY <3>2, <2>4 DEF CallInv, RenameInv
        <4>. QED
          BY <4>1, <2>2, <2>3, IntactKept DEF IInv
      <3>3. ASSUME pc[g] = "log" PROVE Intact(q, v)'
        <4>1. Intact(q, v)
          BY <3>3, <2>4 DEF CallInv, RenameInv
        <4>. QED
          BY <4>1, <2>2, <2>3, IntactKept DEF IInv
      <3>4. ASSUME pc[g] \in {"get", "copy", "erase", "retable"}
            PROVE  /\ Located(p, plan[g], v)
                   /\ todo[g] \subseteq SlotsOf(v)
                   /\ pc[g] \in {"copy", "erase"} => cur[g] \in SlotsOf(v) \ todo[g]
                   /\ \A s \in SlotsOf(v) :
                        IF s \in todo[g] THEN Stored(plan[g][s], p, s, v)
                        ELSE IF pc[g] = "copy" /\ s = cur[g] THEN held[g] = v
                        ELSE Stored(plan[g][s], q, s, v)
        BY <3>4, <2>4 DEF CallInv, RenameInv
      <3>5. ASSUME pc[g] \in {"get", "copy", "erase", "retable"}
            PROVE  \A s \in SlotsOf(v) : plan[g][s] \in Providers
        BY <3>4, <3>5, SpreadProviders DEF IInv, TypeOK, HandlersOK, Located
      <3>. QED
        BY <2>3, <3>1, <3>2, <3>3, <3>4, <3>5 DEF RenameInv, Located, Stored
    <2>. QED
      BY <2>5, <2>6, <2>7 DEF CallInv
  <1>. QED
    BY <1>1, <1>2, <1>3

LEMMA FrameKeeps ==
  ASSUME IInv, TypeOK', NEW h \in Handlers, Changing(h), Frame(h), Local(h)
  PROVE  IInv'
  <1>1. \A g \in Handlers : Changing(g)' => Changing(g) /\ call'[g] = call[g]
    BY DEF Frame, Changing, Active
  <1>2. Separate'
    BY <1>1 DEF IInv, Separate, Frame, Own
  <1>3. Pending'
    <2>1. ASSUME NEW g \in Handlers, Changing(g)', NEW p \in Own(g) \ contended
          PROVE  acked'[p] = None
      <3>1. CASE g = h
        BY <1>1, <2>1, <3>1 DEF IInv, Pending, Frame, Changing, Active
      <3>2. CASE g # h
        <4>1. Changing(g) /\ call'[g] = call[g] /\ p \in Paths
          BY <1>1, <2>1, ChangingType DEF IInv, Own, Touches
        <4>2. p \notin Own(h)
          BY <2>1, <3>2, <4>1 DEF IInv, Separate
        <4>3. acked'[p] = acked[p]
          BY <4>1, <4>2 DEF Frame
        <4>. QED
          BY <2>1, <4>1, <4>3 DEF IInv, Pending
      <3>. QED
        BY <3>1, <3>2
    <2>. QED
      BY <1>1, <2>1 DEF Pending, Own, Frame
  <1>4. RowsHaveFile'
    BY DEF IInv, RowsHaveFile, Frame, Local
  <1>5. Kept'
    <2>1. ASSUME NEW p \in Paths \ contended, acked'[p] # None PROVE Intact(p, acked[p])'
      <3>1. CASE p \in Own(h)
        BY <2>1, <3>1 DEF Local
      <3>2. CASE p \notin Own(h)
        <4>1. acked'[p] = acked[p] /\ Intact(p, acked[p])
          BY <2>1, <3>2 DEF Frame, IInv, Kept
        <4>. QED
          BY <2>1, <3>2, <4>1, IntactKept DEF Frame, IInv
      <3>. QED
        BY <3>1, <3>2
    <2>. QED
      BY <2>1 DEF Kept, Frame
  <1>6. \A g \in Handlers : CallInv(g)'
    BY OtherCalls DEF Local
  <1>. QED
    BY <1>2, <1>3, <1>4, <1>5, <1>6 DEF IInv, Local

(***************************************************************************)
(* Steps of a call.                                                        *)
(***************************************************************************)
LEMMA ChangingStep ==
  ASSUME TypeOK, NEW h \in Handlers, pc[h] \notin ReadSteps, pc[h] # "idle"
  PROVE  Changing(h)
  BY CallTypes DEF TypeOK, HandlersOK, AtStep, Changing, Active, Mutations

LEMMA ReturnEffect ==
  ASSUME IInv, NEW h \in Handlers, Return(h)
  PROVE  /\ pc'[h] = "idle" /\ call'[h] = NoCall
         /\ CallInv(h)'
         /\ \A g \in Handlers \ {h} :
               /\ pc'[g] = pc[g] /\ call'[g] = call[g] /\ plan'[g] = plan[g]
               /\ todo'[g] = todo[g] /\ cur'[g] = cur[g] /\ held'[g] = held[g]
               /\ due'[g] = due[g] /\ clean'[g] = clean[g]
  <1>1. pc'[h] = "idle" /\ call'[h] = NoCall
    BY DEF Return, IInv, TypeOK, HandlersOK
  <1>2. CallInv(h)'
    BY <1>1, CallTypes DEF CallInv, PurgeInv, UploadInv, RenameInv
  <1>3. \A g \in Handlers \ {h} :
               /\ pc'[g] = pc[g] /\ call'[g] = call[g] /\ plan'[g] = plan[g]
               /\ todo'[g] = todo[g] /\ cur'[g] = cur[g] /\ held'[g] = held[g]
               /\ due'[g] = due[g] /\ clean'[g] = clean[g]
    BY DEF Return, IInv, TypeOK, HandlersOK, HistoryOK
  <1>. QED
    BY <1>1, <1>2, <1>3

(* A call that fails promises nothing, and nothing was promised.           *)
LEMMA PendingOwn ==
  ASSUME IInv, NEW h \in Handlers, Changing(h)
  PROVE  \A p \in Own(h) \ contended : acked[p] = None
  BY DEF IInv, Pending

LEMMA CheckSafe ==
  ASSUME IInv, TypeOK', NEW h \in Handlers, Check(h)
  PROVE  Changing(h) /\ Frame(h) /\ IInv'
  <1>0. Changing(h)
    BY ChangingStep DEF Check, ReadSteps, IInv
  <1>1. Frame(h)
    BY ChangingType, <1>0 DEF Check, Step, Frame, Own, Touches, IInv, TypeOK, StoreOK, CloudOK, Blobs, HandlersOK, HistoryOK,
       storeVars, cloudVars, localVars, readVars, excuses, promises
  <1>2. Local(h)
    <2>1. DeadEmpty'
      BY DEF Check, IInv, DeadEmpty, storeVars, cloudVars, localVars, readVars, excuses, promises
    <2>2. CallInv(h)'
      <3>1. call[h] \in Uploads /\ call[h].op = "write"
        BY CallTypes DEF Check, IInv, TypeOK, HandlersOK, AtStep, RenameSteps, PurgeSteps, ReadSteps
      <3>2. PurgeInv(h)'
        BY <3>1, CallTypes DEF Check, Step, PurgeInv, IInv, RowsHaveFile, TypeOK, HandlersOK, storeVars, cloudVars, localVars, readVars, excuses, promises
      <3>3. UploadInv(h)'
        BY <3>1 DEF Check, Step, CallInv, UploadInv, IInv, TypeOK, HandlersOK, storeVars, cloudVars, localVars, readVars, excuses, promises
      <3>. QED
        BY <3>1, <3>2, <3>3 DEF Check, CallInv, RenameInv, storeVars, cloudVars, localVars, readVars, excuses, promises
    <2>3. \A p \in Own(h) \ contended :
             /\ files'[p] = None => rows'[p] = NoRows
             /\ acked'[p] # None => Intact(p, acked[p])'
      BY <1>0, PendingOwn, ChangingType DEF Check, Own, Touches, IInv, RowsHaveFile, storeVars, cloudVars, localVars, readVars, excuses, promises
    <2>. QED
      BY <2>1, <2>2, <2>3 DEF Local
  <1>. QED
    BY <1>0, <1>1, <1>2, FrameKeeps

LEMMA ScanSafe ==
  ASSUME IInv, TypeOK', NEW h \in Handlers, Scan(h)
  PROVE  Changing(h) /\ Frame(h) /\ IInv'
  <1>0. Changing(h)
    BY ChangingStep DEF Scan, ReadSteps, IInv
  <1>1. Frame(h)
    BY ChangingType, <1>0 DEF Scan, Step, Frame, Own, Touches, IInv, TypeOK, StoreOK, CloudOK, Blobs, HandlersOK, HistoryOK,
       storeVars, cloudVars, localVars, readVars, excuses, promises
  <1>2. Local(h)
    <2>1. DeadEmpty'
      BY DEF Scan, IInv, DeadEmpty, storeVars, cloudVars, localVars, readVars, excuses, promises
    <2>2. CallInv(h)'
      <3>. DEFINE p == call[h].path
                  v == due[h]
                  some == {s \in Slots : rows[p][s] # None}
      <3>0. /\ plan'[h] = rows[p] /\ todo'[h] = some
            /\ pc'[h] = IF call[h].op = "rename" THEN IF some = {} THEN "retable" ELSE "get"
                        ELSE IF some = {} THEN "unrow" ELSE "purge"
            /\ call' = call /\ due' = due /\ clean' = clean /\ contended' = contended
            /\ files' = files /\ rows' = rows /\ blobs' = blobs /\ dead' = dead
            /\ pc[h] = "scan"
        BY DEF Scan, Step, IInv, TypeOK, HandlersOK, storeVars, cloudVars, localVars, readVars, excuses, promises
      <3>1. PurgeInv(h)'
        BY <3>0 DEF PurgeInv, IInv, CallInv
      <3>2. UploadInv(h)'
        BY <3>0 DEF CallInv, UploadInv, IInv
      <3>3. RenameInv(h)'
        <4>. SUFFICES ASSUME call[h].op = "rename", call[h].to \notin contended, v # None, clean[h]
                      PROVE  RenameInv(h)'
          BY <3>0 DEF RenameInv
        <4>1. p # call[h].to /\ Intact(p, v)
          BY <3>0 DEF IInv, CallInv, RenameInv
        <4>2. some = SlotsOf(v)
          BY <4>1 DEF Intact, Located, Spread, SlotsOf
        <4>. QED
          BY <3>0, <4>1, <4>2 DEF RenameInv, Intact, Located, Stored
      <3>. QED
        BY <3>1, <3>2, <3>3 DEF CallInv
    <2>3. \A p \in Own(h) \ contended :
             /\ files'[p] = None => rows'[p] = NoRows
             /\ acked'[p] # None => Intact(p, acked[p])'
      BY <1>0, PendingOwn, ChangingType DEF Scan, Own, Touches, IInv, RowsHaveFile, storeVars, cloudVars, localVars, readVars, excuses, promises
    <2>. QED
      BY <2>1, <2>2, <2>3 DEF Local
  <1>. QED
    BY <1>0, <1>1, <1>2, FrameKeeps

LEMMA UnrowSafe ==
  ASSUME IInv, TypeOK', NEW h \in Handlers, Unrow(h)
  PROVE  Changing(h) /\ Frame(h) /\ IInv'
  <1>0. Changing(h)
    BY ChangingStep DEF Unrow, ReadSteps, IInv
  <1>1. Frame(h)
    BY ChangingType, <1>0 DEF Unrow, Step, Frame, Own, Touches, IInv, TypeOK, StoreOK, CloudOK, Blobs, HandlersOK, HistoryOK,
       storeVars, cloudVars, localVars, readVars, excuses, promises
  <1>2. Local(h)
    <2>1. DeadEmpty'
      BY DEF Unrow, IInv, DeadEmpty, storeVars, cloudVars, localVars, readVars, excuses, promises
    <2>2. CallInv(h)'
      <3>0. /\ pc[h] \in {"unrow", "drop"} /\ pc'[h] \in {"drop", "unlink"}
            /\ rows'[call[h].path] = NoRows
            /\ call' = call /\ due' = due /\ contended' = contended
        BY <1>0, ChangingType DEF Unrow, Step, IInv, TypeOK, HandlersOK, StoreOK, storeVars, cloudVars, localVars, readVars, excuses, promises
      <3>1. call[h].op # "rename"
        BY <3>0, CallTypes DEF IInv, TypeOK, HandlersOK, AtStep, RenameSteps, ReadSteps
      <3>. QED
        BY <3>0, <3>1 DEF PurgeInv, UploadInv, RenameInv, IInv, CallInv
    <2>3. \A p \in Own(h) \ contended :
             /\ files'[p] = None => rows'[p] = NoRows
             /\ acked'[p] # None => Intact(p, acked[p])'
      BY <1>0, PendingOwn, ChangingType DEF Unrow, Own, Touches, IInv, RowsHaveFile, TypeOK, StoreOK, storeVars, cloudVars, localVars, readVars, excuses, promises
    <2>. QED
      BY <2>1, <2>2, <2>3 DEF Local
  <1>. QED
    BY <1>0, <1>1, <1>2, FrameKeeps

LEMMA UnlinkSafe ==
  ASSUME IInv, TypeOK', NEW h \in Handlers, Unlink(h)
  PROVE  Changing(h) /\ Frame(h) /\ IInv'
  <1>0. Changing(h)
    BY ChangingStep DEF Unlink, ReadSteps, IInv
  <1>1. Frame(h)
    BY ChangingType, <1>0 DEF Unlink, Step, Frame, Own, Touches, IInv, TypeOK, StoreOK, CloudOK, Blobs, HandlersOK, HistoryOK,
       storeVars, cloudVars, localVars, readVars, excuses, promises
  <1>2. Local(h)
    <2>1. DeadEmpty'
      BY DEF Unlink, IInv, DeadEmpty, storeVars, cloudVars, localVars, readVars, excuses, promises
    <2>2. CallInv(h)'
      <3>0. /\ pc[h] = "unlink" /\ pc'[h] = IF call[h].op = "write" THEN "create" ELSE "log"
            /\ files'[call[h].path] = None /\ rows' = rows
            /\ call' = call /\ due' = due /\ contended' = contended
        BY <1>0, ChangingType DEF Unlink, Step, IInv, TypeOK, HandlersOK, StoreOK, storeVars, cloudVars, localVars, readVars, excuses, promises
      <3>1. call[h].op # "rename"
        BY <3>0, CallTypes DEF IInv, TypeOK, HandlersOK, AtStep, RenameSteps, ReadSteps
      <3>. QED
        BY <3>0, <3>1 DEF PurgeInv, UploadInv, RenameInv, IInv, CallInv
    <2>3. \A p \in Own(h) \ contended :
             /\ files'[p] = None => rows'[p] = NoRows
             /\ acked'[p] # None => Intact(p, acked[p])'
      <3>1. call[h].op \in {"write", "delete"} /\ call[h].to = call[h].path
        BY <1>0, ChangingType, CallTypes DEF Unlink, IInv, TypeOK, HandlersOK, AtStep, RenameSteps, ReadSteps
      <3>2. call[h].path \notin contended => rows'[call[h].path] = NoRows
        BY <3>1 DEF Unlink, IInv, CallInv, PurgeInv, storeVars, cloudVars, localVars, readVars, excuses, promises
      <3>. QED
        BY <1>0, <3>1, <3>2, PendingOwn DEF Unlink, Own, Touches, storeVars, cloudVars, localVars, readVars, excuses, promises
    <2>. QED
      BY <2>1, <2>2, <2>3 DEF Local
  <1>. QED
    BY <1>0, <1>1, <1>2, FrameKeeps

LEMMA CreateFailsSafe ==
  ASSUME IInv, TypeOK', NEW h \in Handlers, CreateFails(h)
  PROVE  Changing(h) /\ Frame(h) /\ IInv'
  <1>0. Changing(h)
    BY ChangingStep DEF CreateFails, ReadSteps, IInv
  <1>1. Frame(h)
    BY <1>0, ReturnEffect, ChangingType DEF CreateFails, Abandon, Acknowledge, Frame, Own, Touches, IInv, TypeOK, StoreOK, CloudOK, Blobs, HistoryOK, storeVars, cloudVars, localVars, readVars, excuses, promises
  <1>2. Local(h)
    <2>1. DeadEmpty'
      BY DEF CreateFails, IInv, DeadEmpty, storeVars, cloudVars, localVars, readVars, excuses, promises
    <2>2. CallInv(h)'
      BY ReturnEffect DEF CreateFails, Abandon
    <2>3. \A p \in Own(h) \ contended :
             /\ files'[p] = None => rows'[p] = NoRows
             /\ acked'[p] # None => Intact(p, acked[p])'
      BY <1>0, PendingOwn, ChangingType DEF CreateFails, Abandon, Own, Touches, IInv, RowsHaveFile, storeVars, cloudVars, localVars, readVars, excuses, promises
    <2>. QED
      BY <2>1, <2>2, <2>3 DEF Local
  <1>. QED
    BY <1>0, <1>1, <1>2, FrameKeeps

LEMMA RetableFailsSafe ==
  ASSUME IInv, TypeOK', NEW h \in Handlers, RetableFails(h)
  PROVE  Changing(h) /\ Frame(h) /\ IInv'
  <1>0. Changing(h)
    BY ChangingStep DEF RetableFails, ReadSteps, IInv
  <1>1. Frame(h)
    BY <1>0, ReturnEffect, ChangingType DEF RetableFails, Abandon, Acknowledge, Frame, Own, Touches, IInv, TypeOK, StoreOK, CloudOK, Blobs, HistoryOK, storeVars, cloudVars, localVars, readVars, excuses, promises
  <1>2. Local(h)
    <2>1. DeadEmpty'
      BY DEF RetableFails, IInv, DeadEmpty, storeVars, cloudVars, localVars, readVars, excuses, promises
    <2>2. CallInv(h)'
      BY ReturnEffect DEF RetableFails, Abandon
    <2>3. \A p \in Own(h) \ contended :
             /\ files'[p] = None => rows'[p] = NoRows
             /\ acked'[p] # None => Intact(p, acked[p])'
      BY <1>0, PendingOwn, ChangingType DEF RetableFails, Abandon, Own, Touches, IInv, RowsHaveFile, storeVars, cloudVars, localVars, readVars, excuses, promises
    <2>. QED
      BY <2>1, <2>2, <2>3 DEF Local
  <1>. QED
    BY <1>0, <1>1, <1>2, FrameKeeps

LEMMA CreateEmptySafe ==
  ASSUME IInv, TypeOK', NEW h \in Handlers, CreateEmpty(h)
  PROVE  Changing(h) /\ Frame(h) /\ IInv'
  <1>0. Changing(h)
    BY ChangingStep DEF CreateEmpty, ReadSteps, IInv
  <1>1. Frame(h)
    BY <1>0, ReturnEffect, ChangingType DEF CreateEmpty, Abandon, Acknowledge, Frame, Own, Touches, IInv, TypeOK, StoreOK, CloudOK, Blobs, HistoryOK, storeVars, cloudVars, localVars, readVars, excuses, promises
  <1>2. Local(h)
    <2>1. DeadEmpty'
      BY DEF CreateEmpty, IInv, DeadEmpty, storeVars, cloudVars, localVars, readVars, excuses, promises
    <2>2. CallInv(h)'
      BY ReturnEffect DEF CreateEmpty, Acknowledge
    <2>3. \A p \in Own(h) \ contended :
             /\ files'[p] = None => rows'[p] = NoRows
             /\ acked'[p] # None => Intact(p, acked[p])'
      <3>. SUFFICES ASSUME NEW p \in Own(h) \ contended
                    PROVE  /\ files'[p] = None => rows'[p] = NoRows
                           /\ acked'[p] # None => Intact(p, acked[p])'
        OBVIOUS
      <3>. DEFINE v == call[h].ver
      <3>9. call[h].op = "write" /\ call[h].to = call[h].path /\ call[h].path \in Paths /\ v \in Versions
        BY CallTypes DEF CreateEmpty, IInv, TypeOK, HandlersOK, AtStep, RenameSteps, PurgeSteps, ReadSteps
      <3>0. call[h].path = p /\ call[h].op = "write" /\ call[h].to = p /\ p \in Paths /\ v \in Versions
        BY <3>9 DEF Own, Touches
      <3>1. files'[p] = 0 /\ Segs[v] = 0 /\ rows'[p] = NoRows
        BY <3>0 DEF CreateEmpty, IInv, CallInv, PurgeInv, TypeOK, StoreOK, storeVars, cloudVars, localVars, readVars, excuses, promises
      <3>2. acked'[p] # None => acked'[p] = v
        BY <3>0 DEF CreateEmpty, Acknowledge, IInv, CallInv, UploadInv, TypeOK, HistoryOK
      <3>3. SlotsOf(v) = {}
        BY <3>1 DEF SlotsOf, Slots
      <3>4. \A s \in Slots : NoRows[s] = None
        BY DEF NoRows
      <3>5. acked'[p] # None => files'[p] = Segs[acked'[p]] /\ SlotsOf(acked'[p]) = {}
        BY <3>1, <3>2, <3>3
      <3>. QED
        BY <3>0, <3>1, <3>4, <3>5 DEF Intact, Located, Spread, CreateEmpty
    <2>. QED
      BY <2>1, <2>2, <2>3 DEF Local
  <1>. QED
    BY <1>0, <1>1, <1>2, FrameKeeps

(***************************************************************************)
(* Two shards of one segment never share a provider, whatever the          *)
(* providers' tiers, limits and space.                                     *)
(***************************************************************************)
LEMMA PlaceInjective ==
  ASSUME NEW k \in Nat, NEW m \in Nat, NEW sizes, NEW room, NEW pm \in Place(k, m, sizes, room),
         NEW i \in 0 .. k + m - 1, NEW j \in 0 .. k + m - 1, pm[i] = pm[j]
  PROVE  i = j
  <1>1. \A n \in 0 .. k + m - 1 : \A l \in 0 .. n - 1 : pm[n] # pm[l]
    BY DEF Place, Pick, Forwards, Backwards, Free, Before
  <1>. QED
    BY <1>1

LEMMA PurgeSafe ==
  ASSUME IInv, TypeOK', NEW h \in Handlers, Purge(h)
  PROVE  Changing(h) /\ Frame(h) /\ IInv'
  <1>0. Changing(h)
    BY ChangingStep DEF Purge, ReadSteps, IInv
  <1>. DEFINE p == call[h].path
  <1>3. p \in Paths
    BY <1>0, ChangingType DEF IInv
  <1>4. PICK s \in todo[h] :
          \/ UNCHANGED blobs
          \/ blobs' = [blobs EXCEPT ![plan[h][s]][p][s] = None]
    BY Zenon DEF Purge
  <1>5. s \in Slots /\ plan[h][s] \in Providers /\ blobs \in Blobs
    BY DEF IInv, TypeOK, HandlersOK, CloudOK, Pointed
  <1>1. Frame(h)
    <2>1. \A f \in Paths \ {p} : \A x \in Providers : blobs'[x][f] = blobs[x][f]
      <3>1. CASE UNCHANGED blobs
        BY <3>1
      <3>2. CASE blobs' = [blobs EXCEPT ![plan[h][s]][p][s] = None]
        BY <1>3, <1>5, <3>2 DEF Blobs
      <3>. QED
        BY <1>4, <3>1, <3>2
    <2>. QED
      BY <2>1, <1>3 DEF Purge, Loop, Frame, Own, Touches, IInv, TypeOK, HandlersOK, HistoryOK, storeVars, cloudVars, localVars, readVars, excuses, promises
  <1>2. Local(h)
    <2>1. DeadEmpty'
      <3>1. dead' = dead /\ dead \subseteq Providers
        BY DEF Purge, IInv, TypeOK, CloudOK
      <3>2. CASE UNCHANGED blobs
        BY <3>1, <3>2 DEF IInv, DeadEmpty
      <3>3. CASE blobs' = [blobs EXCEPT ![plan[h][s]][p][s] = None]
        BY <1>3, <1>5, <3>1, <3>3 DEF IInv, DeadEmpty, Blobs
      <3>. QED
        BY <1>4, <3>2, <3>3
    <2>2. CallInv(h)'
      <3>1. call[h].op # "rename"
        BY CallTypes DEF Purge, IInv, TypeOK, HandlersOK, AtStep, RenameSteps, ReadSteps
      <3>2. /\ pc[h] = "purge" /\ pc'[h] \in {"purge", "unrow"}
            /\ call' = call /\ due' = due /\ contended' = contended
        BY DEF Purge, Loop, IInv, TypeOK, HandlersOK, storeVars, cloudVars, localVars, readVars, excuses, promises
      <3>. QED
        BY <3>1, <3>2 DEF PurgeInv, UploadInv, RenameInv, IInv, CallInv
    <2>3. \A f \in Own(h) \ contended :
             /\ files'[f] = None => rows'[f] = NoRows
             /\ acked'[f] # None => Intact(f, acked[f])'
      BY <1>0, PendingOwn, ChangingType DEF Purge, Own, Touches, IInv, RowsHaveFile, storeVars, cloudVars, localVars, readVars, excuses, promises
    <2>. QED
      BY <2>1, <2>2, <2>3 DEF Local
  <1>. QED
    BY <1>0, <1>1, <1>2, FrameKeeps

LEMMA CreateFileSafe ==
  ASSUME IInv, TypeOK', NEW h \in Handlers, CreateFile(h)
  PROVE  Changing(h) /\ Frame(h) /\ IInv'
  <1>0. Changing(h)
    BY ChangingStep DEF CreateFile, ReadSteps, IInv
  <1>1. Frame(h)
    BY ChangingType, <1>0 DEF CreateFile, Step, Frame, Own, Touches, IInv, TypeOK, StoreOK, CloudOK, Blobs, HandlersOK, HistoryOK,
       storeVars, cloudVars, localVars, readVars, excuses, promises
  <1>2. Local(h)
    <2>. DEFINE p == call[h].path
                v == call[h].ver
    <2>9. /\ call[h].op = "write" /\ call[h].to = p /\ p \in Paths /\ v \in Versions
      BY CallTypes DEF CreateFile, IInv, TypeOK, HandlersOK, AtStep, RenameSteps, PurgeSteps, ReadSteps
    <2>0. /\ call[h].op = "write" /\ call[h].to = p /\ p \in Paths /\ v \in Versions /\ Segs[v] \in Nat
      BY <2>9, ShapeAssumption
    <2>1. DeadEmpty'
      BY DEF CreateFile, IInv, DeadEmpty, storeVars, cloudVars, localVars, readVars, excuses, promises
    <2>2. CallInv(h)'
      <3>1. PICK pm \in Placements :
              plan' = [plan EXCEPT ![h] =
                         [s \in Slots |-> IF s[1] < Segs[v] THEN pm[s[2]] ELSE None]]
        BY DEF CreateFile
      <3>2. /\ pc'[h] = "put" /\ todo'[h] = SlotsOf(v) /\ files'[p] = Segs[v]
            /\ plan'[h] = [s \in Slots |-> IF s[1] < Segs[v] THEN pm[s[2]] ELSE None]
            /\ rows' = rows /\ blobs' = blobs /\ dead' = dead
            /\ call' = call /\ due' = due /\ contended' = contended
            /\ pc[h] = "create"
        BY <2>0, <3>1 DEF CreateFile, Step, IInv, TypeOK, HandlersOK, StoreOK, storeVars, cloudVars, localVars, readVars, excuses, promises
      <3>3. Spread(plan'[h], v)
        <4>1. \A i \in Shards : pm[i] \in Providers /\ pm[i] # None
          BY <3>1, PlacementsType, NoneAssumption
        <4>2. \A s \in Slots : plan'[h][s] # None <=> s \in SlotsOf(v)
          BY <3>2, <4>1 DEF SlotsOf, Slots
        <4>3. \A i, j \in Shards : pm[i] = pm[j] => i = j
          <5>1. K + M - 2 \in Nat /\ 2 \in Nat /\ 0 .. K + M - 2 + 2 - 1 = Shards
            BY ShapeAssumption DEF Shards
          <5>. QED
            BY <3>1, <5>1, PlaceInjective DEF Placements
        <4>4. \A s, t \in SlotsOf(v) : s[1] = t[1] /\ plan'[h][s] = plan'[h][t] => s = t
          BY <3>2, <4>3 DEF SlotsOf, Slots
        <4>. QED
          BY <4>2, <4>4 DEF Spread
      <3>4. PurgeInv(h)'
        BY <2>0, <3>2 DEF PurgeInv
      <3>5. UploadInv(h)'
        <4>1. p \notin contended => rows[p] = NoRows /\ due[h] = v
          BY <2>0, <3>2 DEF IInv, CallInv, PurgeInv, UploadInv
        <4>2. \A s \in Slots : s \notin SlotsOf(v) => plan'[h][s] = None
          BY <3>3 DEF Spread
        <4>. QED
          BY <2>0, <3>2, <3>3, <4>1, <4>2 DEF UploadInv, NoRows
      <3>6. RenameInv(h)'
        BY <2>0, <3>2 DEF RenameInv
      <3>. QED
        BY <3>4, <3>5, <3>6 DEF CallInv
    <2>3. \A f \in Own(h) \ contended :
             /\ files'[f] = None => rows'[f] = NoRows
             /\ acked'[f] # None => Intact(f, acked[f])'
      BY <1>0, <2>0, PendingOwn, NoneAssumption DEF CreateFile, Own, Touches, IInv, TypeOK, StoreOK, storeVars, cloudVars, localVars, readVars, excuses, promises
    <2>. QED
      BY <2>1, <2>2, <2>3 DEF Local
  <1>. QED
    BY <1>0, <1>1, <1>2, FrameKeeps

LEMMA PutSafe ==
  ASSUME IInv, TypeOK', NEW h \in Handlers, Put(h)
  PROVE  Changing(h) /\ Frame(h) /\ IInv'
  <1>0. Changing(h)
    BY ChangingStep DEF Put, ReadSteps, IInv
  <1>. DEFINE p == call[h].path
              v == call[h].ver
  <1>3. call[h].op = "write" /\ call[h].to = p /\ p \in Paths /\ v \in Versions
    BY CallTypes DEF Put, IInv, TypeOK, HandlersOK, AtStep, RenameSteps, PurgeSteps, ReadSteps
  <1>4. PICK s \in todo[h] :
          /\ plan[h][s] \notin dead
          /\ blobs' = [blobs EXCEPT ![plan[h][s]][p][s] = v]
          /\ cur'[h] = s /\ todo'[h] = todo[h] \ {s}
    BY DEF Put, First, IInv, TypeOK, HandlersOK
  <1>5. s \in Slots /\ plan[h][s] \in Providers
    BY DEF IInv, TypeOK, HandlersOK, Pointed
  <1>1. Frame(h)
    BY ChangingType, <1>0, <1>3, <1>4, <1>5 DEF Put, Step, Frame, Own, Touches, IInv, TypeOK, StoreOK, CloudOK, Blobs, HandlersOK, HistoryOK, storeVars, cloudVars, localVars, readVars, excuses, promises
  <1>2. Local(h)
    <2>0. /\ pc[h] = "put" /\ pc'[h] = "record" /\ plan' = plan /\ files' = files
          /\ rows' = rows /\ dead' = dead /\ call' = call /\ due' = due
          /\ contended' = contended /\ acked' = acked
      BY DEF Put, Step, IInv, TypeOK, HandlersOK, storeVars, cloudVars, localVars, readVars, excuses, promises
    <2>1. DeadEmpty'
      BY <1>3, <1>4, <1>5, <2>0 DEF IInv, DeadEmpty, TypeOK, CloudOK, Blobs
    <2>2. CallInv(h)'
      <3>1. PurgeInv(h)' /\ RenameInv(h)'
        BY <1>3, <2>0 DEF PurgeInv, RenameInv
      <3>2. UploadInv(h)'
        <4>. SUFFICES ASSUME p \notin contended PROVE UploadInv(h)'
          BY <2>0 DEF UploadInv
        <4>1. /\ due[h] = v /\ files[p] = Segs[v] /\ Spread(plan[h], v)
              /\ todo[h] \subseteq SlotsOf(v)
              /\ \A t \in SlotsOf(v) \ todo[h] : Stored(plan[h][t], p, t, v)
              /\ \A t \in Slots : rows[p][t] = IF t \in todo[h] THEN None ELSE plan[h][t]
          BY <1>3, <2>0 DEF IInv, CallInv, UploadInv
        <4>2. \A t \in SlotsOf(v) : t \in Slots /\ plan[h][t] \in Providers
          BY <4>1, SpreadProviders DEF IInv, TypeOK, HandlersOK
        <4>3. \A t \in SlotsOf(v) \ todo'[h] : Stored(plan[h][t], p, t, v)'
          <5>1. \A y \in Providers, t \in Slots :
                   blobs'[y][p][t] = IF y = plan[h][s] /\ t = s THEN v ELSE blobs[y][p][t]
            BY <1>3, <1>4, <1>5 DEF IInv, TypeOK, CloudOK, Blobs
          <5>2. ASSUME NEW t \in SlotsOf(v) \ todo'[h] PROVE Stored(plan[h][t], p, t, v)'
            <6>1. t \in Slots /\ plan[h][t] \in Providers
              BY <4>2
            <6>2. CASE t = s
              <7>1. blobs'[plan[h][t]][p][t] = v
                BY <5>1, <6>1, <6>2
              <7>. QED
                BY <2>0, <7>1 DEF Stored
            <6>3. CASE t # s
              <7>1. Stored(plan[h][t], p, t, v)
                BY <1>4, <4>1, <6>3
              <7>. QED
                BY <2>0, <5>1, <6>1, <6>3, <7>1 DEF Stored
            <6>. QED
              BY <6>2, <6>3
          <5>. QED
            BY <1>4, <5>2
        <4>. QED
          BY <1>4, <1>5, <2>0, <4>1, <4>3 DEF UploadInv
      <3>. QED
        BY <3>1, <3>2 DEF CallInv
    <2>3. \A f \in Own(h) \ contended :
             /\ files'[f] = None => rows'[f] = NoRows
             /\ acked'[f] # None => Intact(f, acked[f])'
      BY <1>0, <2>0, PendingOwn, ChangingType DEF Own, Touches, IInv, RowsHaveFile
    <2>. QED
      BY <2>1, <2>2, <2>3 DEF Local
  <1>. QED
    BY <1>0, <1>1, <1>2, FrameKeeps

LEMMA PutFailsSafe ==
  ASSUME IInv, TypeOK', NEW h \in Handlers, PutFails(h)
  PROVE  Changing(h) /\ Frame(h) /\ IInv'
  <1>0. Changing(h)
    BY ChangingStep DEF PutFails, ReadSteps, IInv
  <1>. DEFINE p == call[h].path
  <1>3. call[h].op = "write" /\ call[h].to = p /\ p \in Paths
    BY CallTypes DEF PutFails, IInv, TypeOK, HandlersOK, AtStep, RenameSteps, PurgeSteps, ReadSteps
  <1>4. PICK s \in todo[h] :
          \/ UNCHANGED blobs
          \/ /\ plan[h][s] \notin dead
             /\ \E b : blobs' = [blobs EXCEPT ![plan[h][s]][p][s] = b]
    BY Zenon DEF PutFails, First
  <1>5. s \in Slots /\ plan[h][s] \in Providers
    BY DEF IInv, TypeOK, HandlersOK, Pointed
  <1>6. Return(h) /\ acked' = acked /\ contended' = contended /\ UNCHANGED <<storeVars, dead>>
    BY DEF PutFails, Abandon
  <1>1. Frame(h)
    <2>1. \A f \in Paths \ {p} : \A x \in Providers : blobs'[x][f] = blobs[x][f]
      <3>1. CASE UNCHANGED blobs
        BY <3>1
      <3>2. ASSUME NEW b, blobs' = [blobs EXCEPT ![plan[h][s]][p][s] = b]
            PROVE  \A f \in Paths \ {p} : \A x \in Providers : blobs'[x][f] = blobs[x][f]
        BY <1>3, <1>5, <3>2 DEF Blobs
      <3>. QED
        BY <1>4, <3>1, <3>2
    <2>. QED
      BY <1>3, <1>6, <2>1, ReturnEffect DEF Frame, Own, Touches, storeVars, cloudVars, localVars, readVars, excuses, promises
  <1>2. Local(h)
    <2>1. DeadEmpty'
      <3>0. dead' = dead /\ dead \subseteq Providers
        BY <1>6 DEF IInv, TypeOK, CloudOK
      <3>1. CASE UNCHANGED blobs
        BY <3>0, <3>1 DEF IInv, DeadEmpty
      <3>2. ASSUME NEW b, plan[h][s] \notin dead, blobs' = [blobs EXCEPT ![plan[h][s]][p][s] = b]
            PROVE  DeadEmpty'
        BY <1>3, <1>5, <3>0, <3>2 DEF IInv, DeadEmpty, Blobs
      <3>. QED
        BY <1>4, <3>1, <3>2
    <2>2. CallInv(h)'
      BY <1>6, ReturnEffect
    <2>3. \A f \in Own(h) \ contended :
             /\ files'[f] = None => rows'[f] = NoRows
             /\ acked'[f] # None => Intact(f, acked[f])'
      BY <1>0, <1>6, PendingOwn, ChangingType DEF Own, Touches, IInv, RowsHaveFile, storeVars, cloudVars, localVars, readVars, excuses, promises
    <2>. QED
      BY <2>1, <2>2, <2>3 DEF Local
  <1>. QED
    BY <1>0, <1>1, <1>2, FrameKeeps

LEMMA RecordSafe ==
  ASSUME IInv, TypeOK', NEW h \in Handlers, Record(h)
  PROVE  Changing(h) /\ Frame(h) /\ IInv'
  <1>0. Changing(h)
    BY ChangingStep DEF Record, ReadSteps, IInv
  <1>. DEFINE p == call[h].path
              v == call[h].ver
  <1>9. /\ call[h].op = "write" /\ call[h].to = p /\ p \in Paths /\ v \in Versions
    BY CallTypes DEF Record, IInv, TypeOK, HandlersOK, AtStep, RenameSteps, PurgeSteps, ReadSteps
  <1>3. /\ call[h].op = "write" /\ call[h].to = p /\ p \in Paths /\ v \in Versions /\ Segs[v] \in Nat
    BY <1>9, ShapeAssumption
  <1>4. /\ rows' = [rows EXCEPT ![p][cur[h]] = IF @ = None THEN plan[h][cur[h]] ELSE @]
        /\ pc[h] = "record" /\ pc'[h] = IF todo[h] = {} THEN "log" ELSE "put"
        /\ files' = files /\ blobs' = blobs /\ dead' = dead /\ call' = call /\ due' = due
        /\ plan' = plan /\ todo' = todo /\ contended' = contended /\ acked' = acked
    BY DEF Record, Step, IInv, TypeOK, HandlersOK, storeVars, cloudVars, localVars, readVars, excuses, promises
  <1>5. cur[h] \in Slots /\ plan[h][cur[h]] \in Providers
    BY <1>4 DEF IInv, TypeOK, HandlersOK, Pointed
  <1>6. p \notin contended =>
          /\ due[h] = v /\ files[p] = Segs[v] /\ Spread(plan[h], v)
          /\ todo[h] \subseteq SlotsOf(v) /\ cur[h] \in SlotsOf(v) \ todo[h]
          /\ \A t \in SlotsOf(v) \ todo[h] : Stored(plan[h][t], p, t, v)
          /\ \A t \in Slots : rows[p][t] = IF t \in todo[h] \/ t = cur[h] THEN None ELSE plan[h][t]
    BY <1>3, <1>4 DEF IInv, CallInv, UploadInv
  <1>1. Frame(h)
    BY <1>3, <1>4 DEF Record, Step, Frame, Own, Touches, IInv, TypeOK, StoreOK, CloudOK, Blobs, HandlersOK, HistoryOK, storeVars, cloudVars, localVars, readVars, excuses, promises
  <1>2. Local(h)
    <2>1. DeadEmpty'
      BY <1>4 DEF IInv, DeadEmpty
    <2>2. CallInv(h)'
      <3>1. PurgeInv(h)' /\ RenameInv(h)'
        BY <1>3, <1>4 DEF PurgeInv, RenameInv
      <3>2. UploadInv(h)'
        <4>. SUFFICES ASSUME p \notin contended PROVE UploadInv(h)'
          BY <1>4 DEF UploadInv
        <4>1. \A t \in Slots : rows'[p][t] = IF t \in todo[h] THEN None ELSE plan[h][t]
          BY <1>3, <1>4, <1>5, <1>6 DEF IInv, TypeOK, StoreOK, ShardMaps
        <4>. QED
          BY <1>3, <1>4, <1>6, <4>1 DEF UploadInv, Stored
      <3>. QED
        BY <3>1, <3>2 DEF CallInv
    <2>3. \A f \in Own(h) \ contended :
             /\ files'[f] = None => rows'[f] = NoRows
             /\ acked'[f] # None => Intact(f, acked[f])'
      BY <1>0, <1>3, <1>4, <1>6, PendingOwn, NoneAssumption DEF Own, Touches
    <2>. QED
      BY <2>1, <2>2, <2>3 DEF Local
  <1>. QED
    BY <1>0, <1>1, <1>2, FrameKeeps

LEMMA LogSafe ==
  ASSUME IInv, TypeOK', NEW h \in Handlers, Log(h)
  PROVE  Changing(h) /\ Frame(h) /\ IInv'
  <1>0. Changing(h)
    BY ChangingStep DEF Log, ReadSteps, IInv
  <1>. DEFINE v == due[h]
  <1>1. Frame(h)
    BY <1>0, ReturnEffect, ChangingType DEF Log, Acknowledge, Frame, Own, Touches, IInv,
       TypeOK, HistoryOK, cloudVars, excuses
  <1>2. /\ pc[h] = "log" /\ todo[h] = {} /\ files' = files /\ rows' = rows
        /\ blobs' = blobs /\ dead' = dead
        /\ acked' = [acked EXCEPT ![call[h].to] = IF clean[h] THEN due[h] ELSE None]
    BY DEF Log, Acknowledge, cloudVars, IInv, TypeOK, HandlersOK, Pointed
  <1>3. ASSUME NEW p \in Own(h) \ contended, acked'[p] # None
        PROVE  p = call[h].to /\ acked'[p] = v /\ v # None /\ clean[h] /\ Intact(p, v)
    <2>1. p = call[h].to /\ acked'[p] = v /\ v # None /\ clean[h] /\ p \in Paths
      BY <1>0, <1>2, <1>3, PendingOwn, ChangingType DEF Own, Touches, IInv, TypeOK, HistoryOK
    <2>2. CASE call[h].op = "rename"
      BY <1>2, <1>3, <2>1, <2>2 DEF IInv, CallInv, RenameInv
    <2>3. CASE call[h].op = "delete"
      BY <1>0, <1>2, <1>3, <2>1, <2>3, ChangingType DEF IInv, CallInv, PurgeInv
    <2>4. CASE call[h].op = "write"
      <3>1. call[h].path = p /\ call[h].ver = v
        BY <1>0, <1>3, <2>1, <2>4, ChangingType DEF IInv, CallInv, UploadInv
      <3>2. /\ files[p] = Segs[v] /\ Spread(plan[h], v)
            /\ \A s \in SlotsOf(v) : Stored(plan[h][s], p, s, v)
            /\ \A s \in Slots : rows[p][s] = plan[h][s]
        BY <1>2, <1>3, <2>4, <3>1 DEF IInv, CallInv, UploadInv
      <3>3. \A s \in SlotsOf(v) : s \in Slots
        BY DEF SlotsOf
      <3>4. Spread(rows[p], v)
        BY <3>2, <3>3 DEF Spread
      <3>5. \A s \in SlotsOf(v) : Stored(rows[p][s], p, s, v)
        BY <3>2, <3>3
      <3>. QED
        BY <2>1, <3>2, <3>4, <3>5 DEF Intact, Located
    <2>. QED
      BY <1>0, <2>1, <2>2, <2>3, <2>4, ChangingType DEF IInv
  <1>4. Local(h)
    <2>1. DeadEmpty'
      BY <1>2 DEF IInv, DeadEmpty
    <2>2. CallInv(h)'
      BY ReturnEffect DEF Log, Acknowledge
    <2>3. \A p \in Own(h) \ contended : files'[p] = None => rows'[p] = NoRows
      BY <1>0, <1>2, ChangingType DEF Own, Touches, IInv, RowsHaveFile
    <2>4. \A p \in Own(h) \ contended : acked'[p] # None => Intact(p, acked[p])'
      BY <1>2, <1>3 DEF Intact, Located, Stored
    <2>. QED
      BY <2>1, <2>2, <2>3, <2>4 DEF Local
  <1>. QED
    BY <1>0, <1>1, <1>4, FrameKeeps

(* What a rename that may still succeed has to keep.                       *)
LEMMA RenameNow ==
  ASSUME IInv, NEW h \in Handlers, call[h].op = "rename", call[h].to \notin contended,
         due[h] # None, clean[h], pc[h] \in {"get", "copy", "erase", "retable"}
  PROVE  /\ call[h].path # call[h].to
         /\ Located(call[h].path, plan[h], due[h])
         /\ todo[h] \subseteq SlotsOf(due[h])
         /\ pc[h] \in {"copy", "erase"} => cur[h] \in SlotsOf(due[h]) \ todo[h]
         /\ \A s \in SlotsOf(due[h]) :
              IF s \in todo[h] THEN Stored(plan[h][s], call[h].path, s, due[h])
              ELSE IF pc[h] = "copy" /\ s = cur[h] THEN held[h] = due[h]
              ELSE Stored(plan[h][s], call[h].to, s, due[h])
         /\ \A s \in SlotsOf(due[h]) : s \in Slots /\ plan[h][s] \in Providers
  <1>1. Located(call[h].path, plan[h], due[h])
    BY DEF IInv, CallInv, RenameInv
  <1>2. \A s \in SlotsOf(due[h]) : s \in Slots /\ plan[h][s] \in Providers
    BY <1>1, SpreadProviders DEF Located, IInv, TypeOK, HandlersOK
  <1>. QED
    BY <1>1, <1>2 DEF IInv, CallInv, RenameInv

LEMMA RenameCall ==
  ASSUME IInv, NEW h \in Handlers, pc[h] \in {"get", "copy", "erase", "retable"}
  PROVE  /\ call[h].op = "rename" /\ call[h].path \in Paths /\ call[h].to \in Paths
         /\ Changing(h)
  <1>1. call[h].op = "rename" /\ call[h].path \in Paths /\ call[h].to \in Paths
    BY CallTypes DEF IInv, TypeOK, HandlersOK, AtStep, WriteSteps, PurgeSteps, ReadSteps
  <1>. QED
    BY <1>1, ChangingStep DEF ReadSteps, IInv

LEMMA GetSafe ==
  ASSUME IInv, TypeOK', NEW h \in Handlers, Get(h)
  PROVE  Changing(h) /\ Frame(h) /\ IInv'
  <1>. DEFINE p == call[h].path
              q == call[h].to
              v == due[h]
  <1>0. pc[h] = "get" /\ Changing(h) /\ call[h].op = "rename" /\ p \in Paths /\ q \in Paths
    BY RenameCall DEF Get
  <1>2. /\ files' = files /\ rows' = rows /\ blobs' = blobs /\ dead' = dead
        /\ call' = call /\ due' = due /\ plan' = plan /\ contended' = contended
        /\ acked' = acked
    BY DEF Get, storeVars, cloudVars
  <1>3. PICK s \in todo[h] :
          LET b == blobs[plan[h][s]][p][s]
          IN  \/ /\ b # None
                 /\ held' = [held EXCEPT ![h] = b]
                 /\ cur' = [cur EXCEPT ![h] = s]
                 /\ todo' = [todo EXCEPT ![h] = @ \ {s}]
                 /\ Step(h, "copy")
                 /\ UNCHANGED <<faults, soiled, clean>>
              \/ /\ b = None
                 /\ Loop(h, s, "retable")
                 /\ clean' = [clean EXCEPT ![h] = @ /\ plan[h][s] \in dead]
                 /\ UNCHANGED <<cur, held, faults, soiled>>
              \/ /\ b # None /\ Fault
                 /\ Loop(h, s, "retable")
                 /\ clean' = [clean EXCEPT ![h] = FALSE]
                 /\ soiled' = soiled \cup Touches(call[h])
                 /\ UNCHANGED <<cur, held>>
    BY Zenon DEF Get
  <1>4. /\ todo'[h] = todo[h] \ {s}
        /\ \/ /\ pc'[h] = "copy" /\ cur'[h] = s /\ clean' = clean
              /\ held'[h] = blobs[plan[h][s]][p][s] /\ held'[h] # None
           \/ /\ pc'[h] \in {"get", "retable"} /\ (clean'[h] => clean[h])
              /\ blobs[plan[h][s]][p][s] = None
           \/ clean'[h] = FALSE /\ pc'[h] \in {"get", "retable"}
        /\ \A g \in Handlers \ {h} :
              /\ pc'[g] = pc[g] /\ todo'[g] = todo[g] /\ cur'[g] = cur[g]
              /\ held'[g] = held[g] /\ clean'[g] = clean[g]
    BY <1>0, <1>3 DEF Step, Loop, IInv, TypeOK, HandlersOK, HistoryOK
  <1>1. Frame(h)
    BY <1>2, <1>4 DEF Frame
  <1>5. Local(h)
    <2>1. DeadEmpty'
      BY <1>2 DEF IInv, DeadEmpty
    <2>2. CallInv(h)'
      <3>1. PurgeInv(h)' /\ UploadInv(h)'
        BY <1>0, <1>2 DEF PurgeInv, UploadInv
      <3>2. RenameInv(h)'
        <4>. SUFFICES ASSUME q \notin contended, v # None, clean'[h]
                      PROVE  RenameInv(h)'
          BY <1>2 DEF RenameInv
        <4>1. /\ clean[h] /\ todo'[h] = todo[h] \ {s}
              /\ \/ /\ pc'[h] = "copy" /\ cur'[h] = s
                    /\ held'[h] = blobs[plan[h][s]][p][s] /\ held'[h] # None
                 \/ pc'[h] \in {"get", "retable"} /\ blobs[plan[h][s]][p][s] = None
          BY <1>4
        <4>2. /\ p # q /\ Located(p, plan[h], v) /\ todo[h] \subseteq SlotsOf(v)
              /\ \A t \in SlotsOf(v) :
                   IF t \in todo[h] THEN Stored(plan[h][t], p, t, v)
                   ELSE Stored(plan[h][t], q, t, v)
              /\ \A t \in SlotsOf(v) : t \in Slots /\ plan[h][t] \in Providers
          BY <1>0, <4>1, RenameNow
        <4>3. CASE pc'[h] = "copy"
          <5>1. held'[h] = v
            BY <1>0, <4>1, <4>2, <4>3 DEF Stored, IInv, DeadEmpty
          <5>. QED
            BY <1>0, <1>2, <4>1, <4>2, <4>3, <5>1 DEF RenameInv, Located, Stored
        <4>4. CASE pc'[h] \in {"get", "retable"}
          <5>1. plan[h][s] \in dead
            BY <4>1, <4>2, <4>4 DEF Stored
          <5>. QED
            BY <1>0, <1>2, <4>1, <4>2, <4>4, <5>1 DEF RenameInv, Located, Stored
        <4>. QED
          BY <4>1, <4>3, <4>4
      <3>. QED
        BY <3>1, <3>2 DEF CallInv
    <2>3. \A f \in Own(h) \ contended :
             /\ files'[f] = None => rows'[f] = NoRows
             /\ acked'[f] # None => Intact(f, acked[f])'
      BY <1>0, <1>2, PendingOwn DEF Own, Touches, IInv, RowsHaveFile
    <2>. QED
      BY <2>1, <2>2, <2>3 DEF Local
  <1>. QED
    BY <1>0, <1>1, <1>5, FrameKeeps

LEMMA CopySafe ==
  ASSUME IInv, TypeOK', NEW h \in Handlers, Copy(h)
  PROVE  Changing(h) /\ Frame(h) /\ IInv'
  <1>. DEFINE p == call[h].path
              q == call[h].to
              v == due[h]
              s == cur[h]
              x == plan[h][s]
  <1>0. pc[h] = "copy" /\ Changing(h) /\ call[h].op = "rename" /\ p \in Paths /\ q \in Paths
    BY RenameCall DEF Copy
  <1>2. /\ files' = files /\ rows' = rows /\ dead' = dead /\ call' = call /\ due' = due
        /\ plan' = plan /\ todo' = todo /\ contended' = contended /\ acked' = acked
        /\ cur' = cur /\ held' = held /\ pc' = [pc EXCEPT ![h] = "erase"]
    BY DEF Copy, Step, storeVars, localVars
  <1>3. s \in Slots /\ x \in Providers /\ blobs \in Blobs
    BY <1>0 DEF IInv, TypeOK, HandlersOK, CloudOK, Pointed
  <1>4. \/ /\ x \notin dead /\ blobs' = [blobs EXCEPT ![x][q][s] = held[h]] /\ clean' = clean
        \/ x \in dead /\ blobs' = blobs /\ clean' = clean
        \/ /\ x \notin dead /\ clean' = [clean EXCEPT ![h] = FALSE]
           /\ \E b : blobs' = [blobs EXCEPT ![x][q][s] = b]
    BY Zenon DEF Copy
  <1>5. /\ \A f \in Paths \ {q}, y \in Providers : blobs'[y][f] = blobs[y][f]
        /\ \A t \in Slots \ {s}, y \in Providers : blobs'[y][q][t] = blobs[y][q][t]
        /\ \A y \in Providers \ {x} : blobs'[y] = blobs[y]
    <2>1. ASSUME NEW b, blobs' = [blobs EXCEPT ![x][q][s] = b]
          PROVE  <1>5
      <3>1. \A f \in Paths \ {q}, y \in Providers : blobs'[y][f] = blobs[y][f]
        BY <1>0, <1>3, <2>1 DEF Blobs
      <3>2. \A t \in Slots \ {s}, y \in Providers : blobs'[y][q][t] = blobs[y][q][t]
        BY <1>0, <1>3, <2>1, SMTT(30) DEF Blobs
      <3>3. \A y \in Providers \ {x} : blobs'[y] = blobs[y]
        BY <1>0, <1>3, <2>1 DEF Blobs
      <3>. QED
        BY <3>1, <3>2, <3>3
    <2>. QED
      BY <1>4, <2>1
  <1>7. clean'[h] => clean[h] /\ (x \in dead \/ blobs'[x][q][s] = held[h])
    <2>1. CASE x \notin dead /\ blobs' = [blobs EXCEPT ![x][q][s] = held[h]] /\ clean' = clean
      <3>1. blobs'[x][q][s] = held[h]
        BY <1>0, <1>3, <2>1 DEF Blobs
      <3>. QED
        BY <2>1, <3>1
    <2>2. CASE x \in dead /\ clean' = clean
      BY <2>2
    <2>3. CASE clean' = [clean EXCEPT ![h] = FALSE]
      BY <2>3 DEF IInv, TypeOK, HistoryOK
    <2>. QED
      BY <1>4, <2>1, <2>2, <2>3
  <1>8. x \in dead => blobs' = blobs
    BY <1>4
  <1>9. \A g \in Handlers \ {h} : clean'[g] = clean[g]
    BY <1>4 DEF IInv, TypeOK, HistoryOK
  <1>1. Frame(h)
    BY <1>0, <1>2, <1>5, <1>9 DEF Frame, Own, Touches, IInv, TypeOK, HandlersOK
  <1>6. Local(h)
    <2>1. DeadEmpty'
      <3>1. \A y \in dead : blobs'[y] = blobs[y]
        BY <1>5, <1>8 DEF IInv, TypeOK, CloudOK
      <3>. QED
        BY <1>2, <3>1 DEF IInv, DeadEmpty
    <2>2. CallInv(h)'
      <3>1. PurgeInv(h)' /\ UploadInv(h)'
        BY <1>0, <1>2 DEF PurgeInv, UploadInv
      <3>2. RenameInv(h)'
        <4>. SUFFICES ASSUME q \notin contended, v # None, clean'[h]
                      PROVE  RenameInv(h)'
          BY <1>2 DEF RenameInv
        <4>2. /\ p # q /\ Located(p, plan[h], v) /\ todo[h] \subseteq SlotsOf(v)
              /\ s \in SlotsOf(v) \ todo[h]
              /\ \A t \in SlotsOf(v) :
                   IF t \in todo[h] THEN Stored(plan[h][t], p, t, v)
                   ELSE IF t = s THEN held[h] = v
                   ELSE Stored(plan[h][t], q, t, v)
              /\ \A t \in SlotsOf(v) : t \in Slots /\ plan[h][t] \in Providers
          BY <1>0, <1>7, RenameNow
        <4>3. \A t \in SlotsOf(v) :
                IF t \in todo[h] THEN plan[h][t] \in dead \/ blobs'[plan[h][t]][p][t] = v
                ELSE plan[h][t] \in dead \/ blobs'[plan[h][t]][q][t] = v
          <5>. SUFFICES ASSUME NEW t \in SlotsOf(v)
                        PROVE  IF t \in todo[h] THEN plan[h][t] \in dead \/ blobs'[plan[h][t]][p][t] = v
                               ELSE plan[h][t] \in dead \/ blobs'[plan[h][t]][q][t] = v
            OBVIOUS
          <5>1. CASE t \in todo[h]
            BY <1>0, <1>5, <4>2, <5>1 DEF Stored
          <5>2. CASE t \notin todo[h] /\ t = s
            BY <1>7, <4>2, <5>2
          <5>3. CASE t \notin todo[h] /\ t # s
            BY <1>0, <1>5, <4>2, <5>3 DEF Stored
          <5>. QED
            BY <5>1, <5>2, <5>3
        <4>4. pc'[h] = "erase"
          BY <1>2 DEF IInv, TypeOK, HandlersOK
        <4>. QED
          BY <1>0, <1>2, <4>2, <4>3, <4>4 DEF RenameInv, Located, Stored
      <3>. QED
        BY <3>1, <3>2 DEF CallInv
    <2>3. \A f \in Own(h) \ contended :
             /\ files'[f] = None => rows'[f] = NoRows
             /\ acked'[f] # None => Intact(f, acked[f])'
      BY <1>0, <1>2, PendingOwn DEF Own, Touches, IInv, RowsHaveFile
    <2>. QED
      BY <2>1, <2>2, <2>3 DEF Local
  <1>. QED
    BY <1>0, <1>1, <1>6, FrameKeeps

LEMMA EraseSafe ==
  ASSUME IInv, TypeOK', NEW h \in Handlers, Erase(h)
  PROVE  Changing(h) /\ Frame(h) /\ IInv'
  <1>. DEFINE p == call[h].path
              q == call[h].to
              v == due[h]
              s == cur[h]
              x == plan[h][s]
  <1>0. pc[h] = "erase" /\ Changing(h) /\ call[h].op = "rename" /\ p \in Paths /\ q \in Paths
    BY RenameCall DEF Erase
  <1>2. /\ files' = files /\ rows' = rows /\ dead' = dead /\ call' = call /\ due' = due
        /\ plan' = plan /\ todo' = todo /\ contended' = contended /\ acked' = acked
        /\ cur' = cur /\ held' = held /\ clean' = clean
        /\ pc' = [pc EXCEPT ![h] = IF todo[h] = {} THEN "retable" ELSE "get"]
    BY DEF Erase, Step, storeVars, localVars, promises
  <1>3. s \in Slots /\ x \in Providers /\ blobs \in Blobs
    BY <1>0 DEF IInv, TypeOK, HandlersOK, CloudOK, Pointed
  <1>4. blobs' = [blobs EXCEPT ![x][p][s] = None] \/ blobs' = blobs
    BY Zenon DEF Erase
  <1>5. /\ \A f \in Paths \ {p}, y \in Providers : blobs'[y][f] = blobs[y][f]
        /\ \A t \in Slots \ {s}, y \in Providers : blobs'[y][p][t] = blobs[y][p][t]
        /\ \A y \in Providers, f \in Paths, t \in Slots :
              blobs[y][f][t] = None => blobs'[y][f][t] = None
    <2>1. CASE blobs' = [blobs EXCEPT ![x][p][s] = None]
      BY <1>0, <1>3, <2>1 DEF Blobs
    <2>2. CASE blobs' = blobs
      BY <2>2
    <2>. QED
      BY <1>4, <2>1, <2>2
  <1>1. Frame(h)
    BY <1>0, <1>2, <1>5 DEF Frame, Own, Touches, IInv, TypeOK, HandlersOK
  <1>6. Local(h)
    <2>1. DeadEmpty'
      BY <1>2, <1>5 DEF IInv, DeadEmpty, TypeOK, CloudOK
    <2>2. CallInv(h)'
      <3>1. PurgeInv(h)' /\ UploadInv(h)'
        BY <1>0, <1>2 DEF PurgeInv, UploadInv
      <3>2. RenameInv(h)'
        <4>. SUFFICES ASSUME q \notin contended, v # None, clean[h]
                      PROVE  RenameInv(h)'
          BY <1>2 DEF RenameInv
        <4>2. /\ p # q /\ Located(p, plan[h], v) /\ todo[h] \subseteq SlotsOf(v)
              /\ s \in SlotsOf(v) \ todo[h]
              /\ \A t \in SlotsOf(v) :
                   IF t \in todo[h] THEN Stored(plan[h][t], p, t, v)
                   ELSE Stored(plan[h][t], q, t, v)
              /\ \A t \in SlotsOf(v) : t \in Slots /\ plan[h][t] \in Providers
          BY <1>0, RenameNow
        <4>3. \A t \in SlotsOf(v) :
                IF t \in todo[h] THEN plan[h][t] \in dead \/ blobs'[plan[h][t]][p][t] = v
                ELSE plan[h][t] \in dead \/ blobs'[plan[h][t]][q][t] = v
          BY <1>0, <1>3, <1>5, <4>2 DEF Stored
        <4>4. pc'[h] \in {"get", "retable"}
          BY <1>2 DEF IInv, TypeOK, HandlersOK
        <4>. QED
          BY <1>0, <1>2, <4>2, <4>3, <4>4 DEF RenameInv, Located, Stored
      <3>. QED
        BY <3>1, <3>2 DEF CallInv
    <2>3. \A f \in Own(h) \ contended :
             /\ files'[f] = None => rows'[f] = NoRows
             /\ acked'[f] # None => Intact(f, acked[f])'
      BY <1>0, <1>2, PendingOwn DEF Own, Touches, IInv, RowsHaveFile
    <2>. QED
      BY <2>1, <2>2, <2>3 DEF Local
  <1>. QED
    BY <1>0, <1>1, <1>6, FrameKeeps

LEMMA RetableSafe ==
  ASSUME IInv, TypeOK', NEW h \in Handlers, Retable(h)
  PROVE  Changing(h) /\ Frame(h) /\ IInv'
  <1>. DEFINE p == call[h].path
              q == call[h].to
              v == due[h]
              moved == [s \in Slots |-> IF rows[p][s] # None THEN rows[p][s] ELSE rows[q][s]]
  <1>0. pc[h] = "retable" /\ Changing(h) /\ call[h].op = "rename" /\ p \in Paths /\ q \in Paths
    BY RenameCall DEF Retable
  <1>2. /\ blobs' = blobs /\ dead' = dead /\ call' = call /\ due' = due /\ plan' = plan
        /\ todo' = todo /\ contended' = contended /\ acked' = acked /\ cur' = cur
        /\ held' = held /\ clean' = clean /\ pc' = [pc EXCEPT ![h] = "log"]
        /\ todo[h] = {}
    BY <1>0 DEF Retable, Step, cloudVars, localVars, promises, excuses, IInv, TypeOK, HandlersOK, Pointed
  <1>3. /\ ~Conflict(p, q)
        /\ \A f \in Paths :
             /\ files'[f] = IF f = q /\ files[p] # None THEN files[p]
                            ELSE IF f = p /\ p # q THEN None ELSE files[f]
             /\ rows'[f] = IF f = q THEN moved ELSE IF f = p THEN NoRows ELSE rows[f]
    BY DEF Retable
  <1>4. /\ \A f \in Paths : \A s \in Slots : NoRows[s] = None
        /\ rows \in [Paths -> ShardMaps] /\ NoRows \in ShardMaps
    BY NoRowsType DEF NoRows, IInv, TypeOK, StoreOK
  <1>1. Frame(h)
    BY <1>0, <1>2, <1>3 DEF Frame, Own, Touches, IInv, TypeOK, HandlersOK
  <1>6. Local(h)
    <2>1. DeadEmpty'
      BY <1>2 DEF IInv, DeadEmpty
    <2>2. CallInv(h)'
      <3>1. PurgeInv(h)' /\ UploadInv(h)'
        BY <1>0, <1>2 DEF PurgeInv, UploadInv
      <3>2. RenameInv(h)'
        <4>. SUFFICES ASSUME q \notin contended, v # None, clean[h]
                      PROVE  RenameInv(h)'
          BY <1>2 DEF RenameInv
        <4>2. /\ p # q /\ Located(p, plan[h], v)
              /\ \A t \in SlotsOf(v) : Stored(plan[h][t], q, t, v)
              /\ \A t \in SlotsOf(v) : t \in Slots /\ plan[h][t] \in Providers
          BY <1>0, <1>2, RenameNow
        <4>3. files[p] # None /\ files[q] = None /\ rows[q] = NoRows
          <5>1. v \in Versions
            BY DEF IInv, TypeOK, HistoryOK
          <5>2. Segs[v] # None
            BY <5>1, ShapeAssumption, NoneAssumption
          <5>. QED
            BY <1>0, <1>3, <4>2, <5>2 DEF Located, Conflict, IInv, RowsHaveFile
        <4>4. \A t \in Slots : rows'[q][t] = plan[h][t]
          <5>1. rows[p] = plan[h] /\ rows'[q] = moved /\ rows[q] = NoRows
            BY <1>0, <1>3, <4>2, <4>3 DEF Located
          <5>2. \A t \in Slots : moved[t] = IF rows[p][t] # None THEN rows[p][t] ELSE rows[q][t]
            OBVIOUS
          <5>3. \A t \in Slots : NoRows[t] = None
            BY DEF NoRows
          <5>. QED
            BY <5>1, <5>2, <5>3
        <4>5. Spread(rows'[q], v)
          BY <4>2, <4>4 DEF Spread, Located
        <4>6. files'[q] = Segs[v]
          BY <1>0, <1>3, <4>2, <4>3 DEF Located
        <4>7. \A t \in SlotsOf(v) : Stored(rows'[q][t], q, t, v)
          BY <4>2, <4>4
        <4>8. pc'[h] = "log"
          BY <1>2 DEF IInv, TypeOK, HandlersOK
        <4>. QED
          BY <1>2, <4>2, <4>5, <4>6, <4>7, <4>8 DEF RenameInv, Intact, Located, Stored
      <3>. QED
        BY <3>1, <3>2 DEF CallInv
    <2>3. \A f \in Own(h) \ contended : files'[f] = None => rows'[f] = NoRows
      <3>1. Own(h) \cap contended = {} \/ Own(h) \subseteq contended
        BY <1>0 DEF IInv, Separate
      <3>. SUFFICES ASSUME p \notin contended, q \notin contended, NEW f \in {p, q}, files'[f] = None
                    PROVE  rows'[f] = NoRows
        BY <3>1 DEF Own, Touches
      <3>2. CASE f = p /\ p # q
        BY <1>0, <1>3, <3>2
      <3>3. CASE f = q
        <4>1. files[p] = None /\ files[q] = None
          BY <1>0, <1>3, <3>3
        <4>2. rows[p] = NoRows /\ rows[q] = NoRows
          BY <1>0, <4>1 DEF IInv, RowsHaveFile
        <4>. QED
          BY <1>0, <1>3, <3>3, <4>2 DEF NoRows
      <3>. QED
        BY <3>2, <3>3
    <2>4. \A f \in Own(h) \ contended : acked'[f] # None => Intact(f, acked[f])'
      BY <1>0, <1>2, PendingOwn DEF Own, Touches
    <2>. QED
      BY <2>1, <2>2, <2>3, <2>4 DEF Local
  <1>. QED
    BY <1>0, <1>1, <1>6, FrameKeeps

(***************************************************************************)
(* A new call: the paths it shares with others become contended with all   *)
(* that those others touch.                                                *)
(***************************************************************************)
LEMMA TaintEffect ==
  ASSUME IInv, NEW T \in SUBSET Paths, contended' = contended \cup Taint(T)
  PROVE  /\ contended \subseteq contended'
         /\ T \cap contended # {} => T \subseteq contended'
         /\ \A g \in Handlers : Changing(g) =>
              /\ Own(g) \cap T # {} => T \subseteq contended' /\ Own(g) \subseteq contended'
              /\ Own(g) \cap contended' # {} => Own(g) \subseteq contended'
  <1>. DEFINE more == T \cup UNION {Touches(call[g]) : g \in Rivals(T)}
  <1>1. CASE Rivals(T) = {} /\ T \cap contended = {}
    <2>1. contended' = contended
      BY <1>1 DEF Taint
    <2>. QED
      BY <1>1, <2>1 DEF Rivals, Own, IInv, Separate
  <1>2. CASE ~(Rivals(T) = {} /\ T \cap contended = {})
    <2>1. contended' = contended \cup more
      BY <1>2 DEF Taint
    <2>2. ASSUME NEW g \in Handlers, Changing(g), Own(g) \cap T # {}
          PROVE  Own(g) \subseteq contended'
      BY <2>1, <2>2 DEF Rivals, Own
    <2>3. ASSUME NEW g \in Handlers, Changing(g), Own(g) \cap T = {}, Own(g) \cap contended' # {}
          PROVE  Own(g) \subseteq contended'
      <3>1. CASE Own(g) \cap contended # {}
        BY <2>1, <2>3, <3>1 DEF IInv, Separate
      <3>2. CASE Own(g) \cap contended = {}
        <4>1. PICK r \in Rivals(T) : Own(g) \cap Own(r) # {}
          BY <2>1, <2>3, <3>2 DEF Own
        <4>2. r \in Handlers /\ Changing(r) /\ r # g
          BY <2>3, <4>1 DEF Rivals, Own
        <4>. QED
          BY <2>1, <2>3, <4>1, <4>2 DEF IInv, Separate
      <3>. QED
        BY <3>1, <3>2
    <2>. QED
      BY <2>1, <2>2, <2>3
  <1>. QED
    BY <1>1, <1>2

LEMMA SameCall ==
  ASSUME IInv, NEW g \in Handlers,
         UNCHANGED <<rows, blobs, dead>>, contended \subseteq contended',
         files'[call[g].path] = files[call[g].path], files'[call[g].to] = files[call[g].to],
         pc'[g] = pc[g], call'[g] = call[g], plan'[g] = plan[g], todo'[g] = todo[g],
         cur'[g] = cur[g], held'[g] = held[g], due'[g] = due[g], clean'[g] = clean[g]
  PROVE  CallInv(g)'
  <1>0. PurgeInv(g) /\ UploadInv(g) /\ RenameInv(g)
    BY DEF IInv, CallInv
  <1>1. PurgeInv(g)'
    BY <1>0 DEF PurgeInv
  <1>2. UploadInv(g)'
    <2>1. \A x, f, t, v : Stored(x, f, t, v)' <=> Stored(x, f, t, v)
      BY DEF Stored
    <2>. QED
      BY <1>0, <2>1 DEF UploadInv
  <1>3. RenameInv(g)'
    <2>1. \A x, f, t, v : Stored(x, f, t, v)' <=> Stored(x, f, t, v)
      BY DEF Stored
    <2>. SUFFICES ASSUME call[g].op = "rename", call[g].to \notin contended', due[g] # None, clean[g]
                  PROVE  RenameInv(g)'
      BY DEF RenameInv
    <2>. QED
      BY <1>0, <2>1 DEF RenameInv, Intact, Located
  <1>. QED
    BY <1>1, <1>2, <1>3 DEF CallInv

LEMMA StartSafe ==
  ASSUME IInv, TypeOK', NEW h \in Handlers, NEW c \in Requests, Start(h, c)
  PROVE  IInv'
  <1>. DEFINE T == Touches(c)
  <1>1. /\ pc[h] = "idle" /\ ~Changing(h) /\ call' = [call EXCEPT ![h] = c] /\ call'[h] = c
        /\ files' = files /\ rows' = rows /\ blobs' = blobs /\ dead' = dead
        /\ plan' = plan /\ todo' = todo /\ cur' = cur /\ held' = held
    BY DEF Start, storeVars, cloudVars, Changing, Active, IInv, TypeOK, HandlersOK
  <1>2. DeadEmpty'
    BY <1>1 DEF IInv, DeadEmpty
  <1>3. \A g \in Handlers \ {h} : call'[g] = call[g]
    BY <1>1 DEF IInv, TypeOK, HandlersOK
  <1>4. CASE c.op = "read" /\ StartRead(h, c.path)
    <2>1. /\ acked' = acked /\ contended' = contended
          /\ \A g \in Handlers \ {h} : pc'[g] = pc[g] /\ due'[g] = due[g] /\ clean'[g] = clean[g]
      BY <1>4 DEF StartRead, IInv, TypeOK, HandlersOK, HistoryOK
    <2>2. ~Changing(h)'
      BY <1>1, <1>4 DEF Changing
    <2>3. \A g \in Handlers : Changing(g)' <=> Changing(g)
      BY <1>1, <1>3, <2>1, <2>2 DEF Changing, Active
    <2>4. Separate' /\ Pending'
      BY <1>1, <1>3, <2>1, <2>3 DEF IInv, Separate, Pending, Own
    <2>5. RowsHaveFile' /\ Kept'
      BY <1>1, <2>1 DEF IInv, RowsHaveFile, Kept, Intact, Located, Stored
    <2>6. ASSUME NEW g \in Handlers PROVE CallInv(g)'
      <3>1. CASE g = h
        BY <1>1, <1>4, <3>1 DEF CallInv, PurgeInv, UploadInv, RenameInv
      <3>2. CASE g # h
        BY <1>1, <1>3, <2>1, <3>2, SameCall
      <3>. QED
        BY <3>1, <3>2
    <2>. QED
      BY <1>2, <2>4, <2>5, <2>6 DEF IInv
  <1>5. CASE c.op # "read" /\ StartChange(h, c)
    <2>0. /\ c \in Mutations /\ c.path \in Paths /\ c.to \in Paths /\ T \in SUBSET Paths
          /\ c.op \in {"write", "delete", "rename"}
      BY <1>5, CallTypes DEF Requests, Mutations, Touches
    <2>1. /\ contended' = contended \cup Taint(T)
          /\ pc'[h] = IF c.op = "write" THEN "check" ELSE "scan"
          /\ due'[h] = IF c.op = "rename" THEN acked[c.path] ELSE c.ver
          /\ clean'[h] = (c.op = "rename" => c.path # c.to)
          /\ \A p \in Paths : acked'[p] = IF p \in T THEN None ELSE acked[p]
          /\ \A g \in Handlers \ {h} : pc'[g] = pc[g] /\ clean'[g] = clean[g]
          /\ \A g \in Handlers \ {h} : Changing(g) => due'[g] = due[g]
      BY <1>5 DEF StartChange, Reading, Changing, IInv, TypeOK, HandlersOK, HistoryOK
    <2>2. /\ contended \subseteq contended'
          /\ T \cap contended # {} => T \subseteq contended'
          /\ \A g \in Handlers : Changing(g) =>
               /\ Own(g) \cap T # {} => T \subseteq contended' /\ Own(g) \subseteq contended'
               /\ Own(g) \cap contended' # {} => Own(g) \subseteq contended'
      BY <2>0, <2>1, TaintEffect
    <2>3. T \cap contended' # {} => T \subseteq contended'
      BY <2>1 DEF Taint
    <2>4. \A g \in Handlers \ {h} : (Changing(g)' <=> Changing(g)) /\ Own(g)' = Own(g)
      BY <1>3, <2>1 DEF Changing, Active, Own
    <2>5. Own(h)' = T
      BY <1>1 DEF Own
    <2>6. Separate'
      BY <2>2, <2>3, <2>4, <2>5 DEF IInv, Separate
    <2>7. Pending'
      <3>1. ASSUME NEW g \in Handlers \ {h}, Changing(g), NEW p \in Own(g) \ contended'
            PROVE  acked'[p] = None
        BY <2>1, <2>2, <3>1, ChangingType DEF IInv, Pending, Own, Touches
      <3>2. \A p \in T : acked'[p] = None
        BY <2>0, <2>1
      <3>. QED
        BY <2>4, <2>5, <3>1, <3>2 DEF Pending
    <2>8. RowsHaveFile' /\ Kept'
      BY <1>1, <2>1, <2>2 DEF IInv, RowsHaveFile, Kept, Intact, Located, Stored
    <2>9. CallInv(h)'
      <3>1. PurgeInv(h)'
        <4>1. c.op = "delete" => c.ver = None
          BY <2>0, CallTypes DEF Mutations
        <4>. QED
          BY <1>1, <2>1, <4>1 DEF PurgeInv
      <3>2. UploadInv(h)'
        BY <1>1, <2>1 DEF UploadInv
      <3>3. RenameInv(h)'
        <4>. SUFFICES ASSUME c.op = "rename", c.to \notin contended', acked[c.path] # None,
                             c.path # c.to
                      PROVE  RenameInv(h)'
          BY <1>1, <2>1 DEF RenameInv
        <4>1. c.path \notin contended
          BY <2>0, <2>2 DEF Touches
        <4>2. Intact(c.path, acked[c.path])
          BY <2>0, <4>1 DEF IInv, Kept
        <4>. QED
          BY <1>1, <2>1, <4>2 DEF RenameInv, Intact, Located, Stored
      <3>. QED
        BY <3>1, <3>2, <3>3 DEF CallInv
    <2>10. ASSUME NEW g \in Handlers \ {h} PROVE CallInv(g)'
      <3>1. CASE ~Changing(g)
        BY <1>3, <3>1, IdleCall DEF IInv, CallInv, PurgeInv, UploadInv, RenameInv
      <3>2. CASE Changing(g)
        BY <1>1, <1>3, <2>1, <2>2, <3>2, SameCall
      <3>. QED
        BY <3>1, <3>2
    <2>. QED
      BY <1>2, <2>6, <2>7, <2>8, <2>9, <2>10 DEF IInv
  <1>. QED
    BY <1>4, <1>5 DEF Start

LEMMA MkdirSafe ==
  ASSUME IInv, TypeOK', NEW d \in Dirs, Mkdir(d)
  PROVE  IInv'
  <1>1. /\ d \in Paths /\ rows' = rows /\ blobs' = blobs /\ dead' = dead /\ pc' = pc
        /\ call' = call /\ plan' = plan /\ todo' = todo /\ cur' = cur /\ held' = held
        /\ due' = due /\ clean' = clean /\ acked' = acked
        /\ contended' = contended \cup Taint({d})
        /\ \A p \in Paths : files'[p] = IF p = d /\ files[p] = None THEN 0 ELSE files[p]
    BY EnvironmentAssumption
       DEF Mkdir, cloudVars, localVars, promises, IInv, TypeOK, StoreOK
  <1>2. /\ contended \subseteq contended'
        /\ \A g \in Handlers : Changing(g) =>
              /\ d \in Own(g) => Own(g) \subseteq contended'
              /\ Own(g) \cap contended' # {} => Own(g) \subseteq contended'
    BY <1>1, TaintEffect
  <1>3. Separate' /\ Pending' /\ DeadEmpty'
    BY <1>1, <1>2 DEF IInv, Separate, Pending, DeadEmpty, Changing, Active, Own
  <1>4. RowsHaveFile'
    BY <1>1, <1>2 DEF IInv, RowsHaveFile
  <1>5. Kept'
    <2>1. ASSUME NEW p \in Paths \ contended, acked[p] # None
          PROVE  files'[p] = files[p] /\ Intact(p, acked[p])
      <3>1. Intact(p, acked[p]) /\ acked[p] \in Versions
        BY <2>1 DEF IInv, Kept, TypeOK, HistoryOK
      <3>2. files[p] # None
        BY <3>1, ShapeAssumption, NoneAssumption DEF Intact, Located
      <3>. QED
        BY <1>1, <3>1, <3>2
    <2>. QED
      BY <1>1, <1>2, <2>1 DEF Kept, Intact, Located, Stored
  <1>6. ASSUME NEW g \in Handlers PROVE CallInv(g)'
    <2>1. CASE ~Changing(g)
      BY <1>1, <2>1, IdleCall DEF IInv, CallInv, PurgeInv, UploadInv, RenameInv
    <2>2. CASE Changing(g)
      <3>0. CASE Own(g) \subseteq contended'
        BY <1>1, <3>0 DEF CallInv, PurgeInv, UploadInv, RenameInv, Own, Touches
      <3>1. CASE d \notin Own(g)
        <4>1. call[g].path \in Paths /\ call[g].to \in Paths
          BY <2>2, ChangingType DEF IInv
        <4>2. files'[call[g].path] = files[call[g].path] /\ files'[call[g].to] = files[call[g].to]
          BY <1>1, <3>1, <4>1, <2>2 DEF Own, Touches, Changing
        <4>. QED
          BY <1>1, <1>2, <4>2, SameCall
      <3>. QED
        BY <1>2, <2>2, <3>0, <3>1
    <2>. QED
      BY <2>1, <2>2
  <1>. QED
    BY <1>3, <1>4, <1>5, <1>6 DEF IInv

LEMMA LoseSafe ==
  ASSUME IInv, TypeOK', NEW x \in Providers, Lose(x)
  PROVE  IInv'
  <1>1. /\ files' = files /\ rows' = rows /\ dead' = dead \cup {x} /\ pc' = pc
        /\ call' = call /\ plan' = plan /\ todo' = todo /\ cur' = cur /\ held' = held
        /\ due' = due /\ clean' = clean /\ acked' = acked /\ contended' = contended
        /\ \A y \in Providers : blobs'[y] = IF y = x THEN [p \in Paths |-> NoRows] ELSE blobs[y]
    BY DEF Lose, storeVars, localVars, promises, excuses, IInv, TypeOK, CloudOK, Blobs
  <1>2. Separate' /\ Pending' /\ RowsHaveFile'
    BY <1>1 DEF IInv, Separate, Pending, RowsHaveFile, Changing, Active, Own
  <1>3. DeadEmpty'
    <2>1. \A p \in Paths, s \in Slots : [f \in Paths |-> NoRows][p][s] = None
      BY DEF NoRows
    <2>. QED
      BY <1>1, <2>1 DEF IInv, DeadEmpty, TypeOK, CloudOK
  <1>4. \A y \in Providers, p \in Paths, s \in Slots, v \in Versions :
           Stored(y, p, s, v) => Stored(y, p, s, v)'
    BY <1>1 DEF Stored
  <1>5. \A p \in Paths, v \in Versions : Intact(p, v) => Intact(p, v)'
    <2>1. ASSUME NEW p \in Paths, NEW v \in Versions, Intact(p, v) PROVE Intact(p, v)'
      <3>1. \A s \in SlotsOf(v) : s \in Slots /\ rows[p][s] \in Providers
        BY <2>1, SpreadProviders DEF Intact, Located, IInv, TypeOK, StoreOK
      <3>. QED
        BY <1>1, <1>4, <2>1, <3>1 DEF Intact, Located
    <2>. QED
      BY <2>1
  <1>6. Kept'
    BY <1>1, <1>5 DEF IInv, Kept, TypeOK, HistoryOK
  <1>7. ASSUME NEW g \in Handlers PROVE CallInv(g)'
    <2>1. CASE ~Changing(g)
      BY <1>1, <2>1, IdleCall DEF IInv, CallInv, PurgeInv, UploadInv, RenameInv
    <2>2. CASE Changing(g)
      <3>. DEFINE p == call[g].path
                  q == call[g].to
      <3>0. CallInv(g) /\ p \in Paths /\ q \in Paths
        BY <2>2, ChangingType DEF IInv
      <3>1. PurgeInv(g)'
        BY <1>1, <3>0 DEF CallInv, PurgeInv
      <3>2. UploadInv(g)'
        <4>. SUFFICES ASSUME call[g].op = "write", p \notin contended, pc[g] \in {"put", "record", "log"}
                      PROVE  UploadInv(g)'
          BY <1>1, <3>0 DEF CallInv, UploadInv
        <4>1. \A s \in SlotsOf(call[g].ver) : s \in Slots /\ plan[g][s] \in Providers
          BY <3>0, SpreadProviders DEF CallInv, UploadInv, IInv, TypeOK, HandlersOK
        <4>. QED
          BY <1>1, <3>0, <4>1 DEF CallInv, UploadInv, Stored
      <3>3. RenameInv(g)'
        <4>. DEFINE v == due[g]
        <4>. SUFFICES ASSUME call[g].op = "rename", q \notin contended, v # None, clean[g]
                      PROVE  RenameInv(g)'
          BY <1>1 DEF RenameInv
        <4>0. v \in Versions
          BY DEF IInv, TypeOK, HistoryOK
        <4>1. CASE pc[g] \in {"scan", "log"}
          <5>1. \A f \in {p, q} : Intact(f, v) => Intact(f, v)'
            BY <1>1, <1>5, <3>0, <4>0
          <5>. QED
            BY <1>1, <3>0, <4>1, <5>1 DEF CallInv, RenameInv
        <4>2. CASE pc[g] \in {"get", "copy", "erase", "retable"}
          <5>1. \A s \in SlotsOf(v) : s \in Slots /\ plan[g][s] \in Providers
            BY <4>2, RenameNow
          <5>2. /\ p # q /\ Located(p, plan[g], v)
                /\ todo[g] \subseteq SlotsOf(v)
                /\ pc[g] \in {"copy", "erase"} => cur[g] \in SlotsOf(v) \ todo[g]
                /\ \A s \in SlotsOf(v) :
                     IF s \in todo[g] THEN Stored(plan[g][s], p, s, v)
                     ELSE IF pc[g] = "copy" /\ s = cur[g] THEN held[g] = v
                     ELSE Stored(plan[g][s], q, s, v)
            BY <4>2, RenameNow
          <5>. QED
            BY <1>1, <3>0, <4>0, <4>2, <5>1, <5>2 DEF RenameInv, Located, Stored
        <4>3. CASE pc[g] \notin {"scan", "log", "get", "copy", "erase", "retable"}
          BY <1>1, <3>0, <4>3 DEF CallInv, RenameInv
        <4>. QED
          BY <4>1, <4>2, <4>3
      <3>. QED
        BY <3>1, <3>2, <3>3 DEF CallInv
    <2>. QED
      BY <2>1, <2>2
  <1>. QED
    BY <1>2, <1>3, <1>6, <1>7 DEF IInv

LEMMA CrashSafe ==
  ASSUME IInv, TypeOK', Crash
  PROVE  IInv'
  <1>1. /\ files' = files /\ rows' = rows /\ blobs' = blobs /\ dead' = dead
        /\ acked' = acked /\ contended' = contended
        /\ \A g \in Handlers : pc'[g] = "idle" /\ call'[g] = NoCall
    BY DEF Crash, storeVars, cloudVars
  <1>2. \A g \in Handlers : ~Changing(g)' /\ CallInv(g)'
    BY <1>1, CallTypes DEF Changing, Active, CallInv, PurgeInv, UploadInv, RenameInv
  <1>. QED
    BY <1>1, <1>2 DEF IInv, Separate, Pending, DeadEmpty, RowsHaveFile, Kept, Intact, Located, Stored

(***************************************************************************)
(* A download changes nothing the invariant speaks of.                     *)
(***************************************************************************)
Quiet(h) ==
    /\ UNCHANGED <<files, rows, blobs, dead, acked, contended>>
    /\ call'[h] = call[h] \/ (pc'[h] = "idle" /\ call'[h] = NoCall)
    /\ \A g \in Handlers \ {h} :
          /\ pc'[g] = pc[g] /\ call'[g] = call[g] /\ plan'[g] = plan[g]
          /\ todo'[g] = todo[g] /\ cur'[g] = cur[g] /\ held'[g] = held[g]
          /\ due'[g] = due[g] /\ clean'[g] = clean[g]

LEMMA ReadStep ==
  ASSUME IInv, NEW h \in Handlers, Read(h)
  PROVE  Quiet(h) /\ call[h].op = "read"
  <1>1. call[h].op = "read"
    <2>1. pc[h] \in ReadSteps
      BY DEF Read, Stat, NotFound, ReadMap, Hit, Miss, Panic, Fetch, Decode, DecodeFails, Finish,
         Respond, More, ReadSteps
    <2>. QED
      BY <2>1, CallTypes DEF IInv, TypeOK, HandlersOK, AtStep, ReadSteps, WriteSteps,
         RenameSteps, PurgeSteps
  <1>. SUFFICES Quiet(h)
    BY <1>1
  <1>. USE DEF storeVars, cloudVars, readVars, localVars, excuses, promises
  <1>2. CASE Stat(h)
    BY <1>2 DEF Stat, Step, Quiet, IInv, TypeOK, HandlersOK
  <1>3. CASE NotFound(h)
    BY <1>3, ReturnEffect DEF NotFound, Quiet
  <1>4. CASE ReadMap(h)
    BY <1>4 DEF ReadMap, Step, Quiet, IInv, TypeOK, HandlersOK
  <1>5. CASE Hit(h)
    BY <1>5 DEF Hit, Quiet
  <1>6. CASE Miss(h)
    <2>1. /\ UNCHANGED <<files, rows, blobs, dead, acked, contended, call, plan, cur, held, due, clean>>
          /\ \E T : todo' = [todo EXCEPT ![h] = T]
          /\ \E next : pc' = [pc EXCEPT ![h] = next]
      BY <1>6, Zenon DEF Miss, Step
    <2>. QED
      BY <2>1 DEF Quiet, IInv, TypeOK, HandlersOK
  <1>7. CASE Panic(h)
    BY <1>7, ReturnEffect DEF Panic, Quiet
  <1>8. CASE Fetch(h)
    <2>1. /\ UNCHANGED <<files, rows, blobs, dead, acked, contended, call, plan, cur, held, due, clean>>
          /\ \E s : Loop(h, s, "decode")
      BY <1>8 DEF Fetch
    <2>. QED
      BY <2>1 DEF Quiet, Loop, IInv, TypeOK, HandlersOK
  <1>9. CASE Decode(h)
    BY <1>9 DEF Decode, Step, Quiet, IInv, TypeOK, HandlersOK
  <1>10. CASE DecodeFails(h)
    BY <1>10, ReturnEffect DEF DecodeFails, Quiet
  <1>11. CASE Finish(h)
    BY <1>11 DEF Finish, Step, Quiet, IInv, TypeOK, HandlersOK
  <1>12. CASE Respond(h)
    BY <1>12, ReturnEffect DEF Respond, Quiet
  <1>. QED
    BY <1>1, <1>2, <1>3, <1>4, <1>5, <1>6, <1>7, <1>8, <1>9, <1>10, <1>11, <1>12 DEF Read

LEMMA QuietSafe ==
  ASSUME IInv, TypeOK', NEW h \in Handlers, Quiet(h), call[h].op = "read"
  PROVE  IInv'
  <1>1. /\ UNCHANGED <<files, rows, blobs, dead, acked, contended>>
        /\ call'[h] = call[h] \/ (pc'[h] = "idle" /\ call'[h] = NoCall)
        /\ \A g \in Handlers \ {h} :
              /\ pc'[g] = pc[g] /\ call'[g] = call[g] /\ plan'[g] = plan[g]
              /\ todo'[g] = todo[g] /\ cur'[g] = cur[g] /\ held'[g] = held[g]
              /\ due'[g] = due[g] /\ clean'[g] = clean[g]
    BY DEF Quiet
  <1>2. call'[h].op \notin {"write", "delete", "rename"}
    BY <1>1, CallTypes
  <1>3. ~Changing(h)' /\ ~Changing(h)
    BY <1>1 DEF Changing, Active
  <1>4. CallInv(h)'
    BY <1>2 DEF CallInv, PurgeInv, UploadInv, RenameInv
  <1>5. ASSUME NEW g \in Handlers \ {h} PROVE CallInv(g)'
    BY <1>1, SameCall
  <1>6. \A g \in Handlers : Changing(g)' => Changing(g) /\ call'[g] = call[g]
    BY <1>1, <1>3 DEF Changing, Active
  <1>7. Separate' /\ Pending' /\ DeadEmpty'
    <2>1. Separate'
      BY <1>1, <1>6 DEF IInv, Separate, Own
    <2>2. Pending'
      BY <1>1, <1>6 DEF IInv, Pending, Own
    <2>3. DeadEmpty'
      BY <1>1 DEF IInv, DeadEmpty
    <2>. QED
      BY <2>1, <2>2, <2>3
  <1>8. RowsHaveFile' /\ Kept'
    BY <1>1 DEF IInv, RowsHaveFile, Kept, Intact, Located, Stored
  <1>. QED
    BY <1>4, <1>5, <1>7, <1>8 DEF IInv

(***************************************************************************)
(* The theorems.                                                           *)
(***************************************************************************)
LEMMA InitSafe == Init => IInv
  <1>. SUFFICES ASSUME Init PROVE IInv
    OBVIOUS
  <1>1. TypeOK
    BY InitType
  <1>2. \A h \in Handlers : ~Changing(h) /\ call[h] = NoCall
    BY DEF Init, Changing, Active
  <1>3. \A h \in Handlers : CallInv(h)
    BY <1>2, CallTypes DEF CallInv, PurgeInv, UploadInv, RenameInv
  <1>4. Separate /\ Pending
    BY <1>2 DEF Separate, Pending
  <1>5. DeadEmpty /\ RowsHaveFile /\ Kept
    BY DEF Init, DeadEmpty, RowsHaveFile, Kept
  <1>. QED
    BY <1>1, <1>3, <1>4, <1>5 DEF IInv

LEMMA ChangeSafe ==
  ASSUME IInv, TypeOK', NEW h \in Handlers, Change(h)
  PROVE  Changing(h) /\ Frame(h) /\ IInv'
  BY CheckSafe, ScanSafe, PurgeSafe, UnrowSafe, UnlinkSafe, CreateEmptySafe, CreateFileSafe,
     CreateFailsSafe, PutSafe, PutFailsSafe, RecordSafe, LogSafe, GetSafe, CopySafe, EraseSafe,
     RetableSafe, RetableFailsSafe DEF Change

LEMMA NextSafe == IInv /\ [Next]_vars => IInv'
  <1>. SUFFICES ASSUME IInv, [Next]_vars PROVE IInv'
    OBVIOUS
  <1>0. TypeOK'
    BY NextType DEF IInv
  <1>1. ASSUME NEW h \in Handlers, NEW c \in Requests, Start(h, c) PROVE IInv'
    BY <1>0, <1>1, StartSafe
  <1>2. ASSUME NEW h \in Handlers, Change(h) PROVE IInv'
    BY <1>0, <1>2, ChangeSafe
  <1>3. ASSUME NEW h \in Handlers, Read(h) PROVE IInv'
    BY <1>0, <1>3, ReadStep, QuietSafe
  <1>4. ASSUME NEW d \in Dirs, Mkdir(d) PROVE IInv'
    BY <1>0, <1>4, MkdirSafe
  <1>5. ASSUME NEW x \in Providers, Lose(x) PROVE IInv'
    BY <1>0, <1>5, LoseSafe
  <1>6. CASE Crash
    BY <1>0, <1>6, CrashSafe
  <1>7. CASE UNCHANGED vars
    <2>. USE <1>7 DEF vars, storeVars, cloudVars, localVars, readVars, excuses, promises
    <2>1. \A h \in Handlers : CallInv(h)'
      BY SameCall
    <2>2. Separate' /\ Pending' /\ DeadEmpty'
      BY DEF IInv, Separate, Pending, DeadEmpty, Changing, Active, Own
    <2>3. RowsHaveFile' /\ Kept'
      BY DEF IInv, RowsHaveFile, Kept, Intact, Located, Stored
    <2>. QED
      BY <1>0, <2>1, <2>2, <2>3 DEF IInv
  <1>. QED
    BY <1>1, <1>2, <1>3, <1>4, <1>5, <1>6, <1>7 DEF Next

(* The invariant behind the next two theorems.                             *)
THEOREM Inductive == Spec => []IInv
  BY InitSafe, NextSafe, PTL DEF Spec

(* No crash, of any number of handlers' calls on any paths, leaves rows of *)
(* the shards table that belong to no row of the files table, except at    *)
(* paths that overlapping calls have changed.                              *)
THEOREM RowsHaveFileAlways == Spec => []RowsHaveFile
  <1>1. IInv => RowsHaveFile
    BY DEF IInv
  <1>. QED
    BY <1>1, Inductive, PTL

(* Losing at most M providers costs a segment at most M of its shards,     *)
(* because no two of them are on one provider.                             *)
LEMMA EnoughGood ==
  ASSUME IInv, NEW p \in Paths, NEW v \in Versions, Intact(p, v), Cardinality(dead) <= M,
         NEW i \in 0 .. Segs[v] - 1
  PROVE  Cardinality(Good(p, i, v)) >= K
  <1>. DEFINE at(j) == rows[p][<<i, j>>]
              lost == {j \in Shards : at(j) \in dead}
  <1>1. \A j \in Shards : <<i, j>> \in SlotsOf(v) /\ at(j) \in Providers
    <2>1. Segs[v] \in 0 .. MaxSegs
      BY ShapeAssumption
    <2>2. \A j \in Shards : <<i, j>> \in SlotsOf(v)
      BY <2>1, ShapeAssumption DEF SlotsOf, Slots
    <2>. QED
      BY <2>2, SpreadProviders DEF Intact, Located, IInv, TypeOK, StoreOK
  <1>2. \A j, l \in Shards : at(j) = at(l) => j = l
    <2>1. \A s, t \in SlotsOf(v) : s[1] = t[1] /\ rows[p][s] = rows[p][t] => s = t
      BY DEF Intact, Located, Spread
    <2>2. ASSUME NEW j \in Shards, NEW l \in Shards, at(j) = at(l) PROVE j = l
      <3>1. <<i, j>>[1] = <<i, l>>[1] /\ <<i, j>> = <<i, l>>
        BY <1>1, <2>1, <2>2
      <3>. QED
        BY <3>1
    <2>. QED
      BY <2>2
  <1>3. \A j \in Shards \ lost : j \in Good(p, i, v)
    BY <1>1, NoneAssumption DEF Intact, Stored, Good
  <1>4. IsFiniteSet(Shards) /\ Cardinality(Shards) = K + M
    <2>1. K + M - 1 \in Int /\ 0 \in Int /\ (K + M - 1) - 0 + 1 = K + M /\ 0 <= K + M - 1
      BY ShapeAssumption
    <2>. QED
      BY <2>1, FS_Interval DEF Shards
  <1>5. IsFiniteSet(dead) /\ Cardinality(dead) \in Nat
    BY ProvidersAssumption, FS_Subset, FS_CardinalityType DEF IInv, TypeOK, CloudOK
  <1>6. IsFiniteSet(lost) /\ Cardinality(lost) \in Nat
    BY <1>4, FS_Subset, FS_CardinalityType
  <1>7. Cardinality(lost) <= Cardinality(dead)
    <2>. DEFINE f == [j \in lost |-> at(j)]
    <2>1. f \in Injection(lost, dead)
      <3>1. f \in [lost -> dead]
        OBVIOUS
      <3>2. \A j, l \in lost : f[j] = f[l] => j = l
        BY <1>2
      <3>. QED
        BY <3>1, <3>2 DEF Injection, IsInjective
    <2>. QED
      BY <1>5, <1>6, <2>1, FS_Injection
  <1>8. Cardinality(Shards \ lost) = K + M - Cardinality(lost)
    <2>1. Cardinality(Shards \ lost) = Cardinality(Shards) - Cardinality(Shards \cap lost)
      BY <1>4, FS_Difference
    <2>2. Shards \cap lost = lost
      OBVIOUS
    <2>. HIDE DEF lost
    <2>. QED
      BY <1>4, <1>6, <2>1, <2>2, ShapeAssumption
  <1>10. Good(p, i, v) \subseteq Shards /\ Shards \ lost \subseteq Good(p, i, v)
    BY <1>3 DEF Good
  <1>11. IsFiniteSet(Good(p, i, v)) /\ Cardinality(Good(p, i, v)) \in Nat
    BY <1>4, <1>10, FS_Subset, FS_CardinalityType
  <1>12. Cardinality(Shards \ lost) <= Cardinality(Good(p, i, v))
    BY <1>10, <1>11, FS_Subset
  <1>. QED
    <2>. DEFINE g == Cardinality(Good(p, i, v))
                d == Cardinality(dead)
                l == Cardinality(lost)
                n == Cardinality(Shards \ lost)
    <2>1. g \in Nat /\ d \in Nat /\ l \in Nat /\ K \in Nat /\ M \in Nat
      BY <1>5, <1>6, <1>11, ShapeAssumption
    <2>2. n = K + M - l /\ l <= d /\ d <= M /\ n <= g
      BY <1>7, <1>8, <1>12
    <2>. HIDE DEF g, d, l, n
    <2>3. g >= K
      BY <2>1, <2>2
    <2>. QED
      BY <2>3 DEF g

LEMMA IntactSegments ==
  ASSUME NEW p \in Paths, NEW v \in Versions, Intact(p, v)
  PROVE  Segments(rows[p]) = 0 .. Segs[v] - 1
  <1>1. \A s \in Slots : rows[p][s] # None <=> s[1] < Segs[v]
    BY DEF Intact, Located, Spread, SlotsOf
  <1>2. Segs[v] \in 0 .. MaxSegs
    BY ShapeAssumption
  <1>3. \A i \in 0 .. Segs[v] - 1 : <<i, 0>> \in Slots
    BY <1>2, ShapeAssumption DEF Slots, Shards
  <1>4. Segments(rows[p]) \subseteq 0 .. Segs[v] - 1
    BY <1>1, <1>2, ShapeAssumption DEF Segments, Slots
  <1>5. 0 .. Segs[v] - 1 \subseteq Segments(rows[p])
    <2>1. ASSUME NEW i \in 0 .. Segs[v] - 1 PROVE i \in Segments(rows[p])
      <3>1. <<i, 0>> \in {t \in Slots : rows[p][t] # None} /\ <<i, 0>>[1] = i
        BY <1>1, <1>2, <1>3
      <3>. QED
        BY <3>1 DEF Segments
    <2>. QED
      BY <2>1
  <1>. QED
    BY <1>4, <1>5

LEMMA DurableFollows == IInv => Durable
  <1>. SUFFICES ASSUME IInv, NEW p \in Paths \ contended, acked[p] # None
                PROVE  /\ files[p] = Segs[acked[p]]
                       /\ Segments(rows[p]) = 0 .. Segs[acked[p]] - 1
                       /\ Cardinality(dead) <= M =>
                            \A i \in 0 .. Segs[acked[p]] - 1 :
                                Cardinality(Good(p, i, acked[p])) >= K
    BY DEF Durable
  <1>. DEFINE v == acked[p]
  <1>1. v \in Versions /\ Intact(p, v)
    BY DEF IInv, Kept, TypeOK, HistoryOK
  <1>2. files[p] = Segs[v]
    BY <1>1 DEF Intact, Located
  <1>3. Segments(rows[p]) = 0 .. Segs[v] - 1
    BY <1>1, IntactSegments
  <1>. QED
    BY <1>1, <1>2, <1>3, EnoughGood

(* A file whose upload or rename was acknowledged, and that no overlapping *)
(* calls have changed, stays decodable while at most M providers are lost: *)
(* for any number of handlers, paths, versions, segments and providers,    *)
(* any code K, M, and any number of crashes and failed calls.              *)
THEOREM DurableAlways == Spec => []Durable
  BY DurableFollows, Inductive, PTL

-----------------------------------------------------------------------------
(***************************************************************************)
(* What readers get, what is left over, and what the log says.             *)
(***************************************************************************)

LEMMA ReaderAt ==
  ASSUME TypeOK, NEW h \in Handlers, NEW p, Reading(h, p)
  PROVE  /\ p \in Paths /\ call[h].path = p /\ call[h].op = "read"
         /\ pc[h] \in ReadSteps /\ ~Changing(h)
  <1>1. call[h] \in Downloads /\ pc[h] \in ReadSteps
    BY CallTypes DEF Reading, Active, TypeOK, HandlersOK, AtStep
  <1>. QED
    BY <1>1, CallTypes DEF Reading, Changing

LEMMA RivalOwn ==
  ASSUME NEW p, Rivals({p}) = {}, NEW h \in Handlers, Changing(h)
  PROVE  p \notin Own(h)
  <1>1. h \notin Rivals({p})
    OBVIOUS
  <1>. QED
    BY <1>1 DEF Rivals, Own

(* Any step but the start of a call leaves no more rivals of a path.       *)
LEMMA RivalsShrink ==
  ASSUME NEW p, Rivals({p}) = {},
         \A g \in Handlers : Changing(g)' => Changing(g) /\ call'[g] = call[g]
  PROVE  Rivals({p})' = {}
  BY DEF Rivals

(* A download goes on as it was when a step is not its own and leaves its  *)
(* path alone.                                                             *)
LEMMA DownloadKept ==
  ASSUME NEW g \in Handlers, DownloadInv(g),
         call'[g] = call[g], pc'[g] = pc[g], due'[g] = due[g], clean'[g] = clean[g],
         limit'[g] = limit[g], plan'[g] = plan[g], got'[g] = got[g], out'[g] = out[g],
         NEW p, p = call[g].path,
         Reading(g, p) /\ due[g] # None =>
            /\ p \notin contended' /\ acked'[p] = acked[p] /\ rows'[p] = rows[p]
            /\ Rivals({p})' = {}
            /\ clean[g] => FreshCache(p, due[g])'
  PROVE  DownloadInv(g)'
  BY DEF DownloadInv, Reading, Active

-----------------------------------------------------------------------------
(***************************************************************************)
(* Steps that change files.                                                *)
(***************************************************************************)
LEMMA ChangeReads ==
  ASSUME TypeOK, NEW h \in Handlers, Change(h)
  PROVE  /\ cache' = cache /\ out'[h] \in {out[h], << >>}
         /\ \A g \in Handlers \ {h} :
               limit'[g] = limit[g] /\ got'[g] = got[g] /\ out'[g] = out[g]
  <1>1. CASE UNCHANGED <<cache, readVars>>
    BY <1>1 DEF readVars
  <1>2. CASE Return(h) /\ UNCHANGED cache
    BY <1>2 DEF Return, TypeOK, HandlersOK
  <1>3. UNCHANGED <<cache, readVars>> \/ (Return(h) /\ UNCHANGED cache)
    BY Zenon DEF Change, Check, Scan, Purge, Unrow, Unlink, CreateEmpty, CreateFile, CreateFails,
       Put, PutFails, Record, Log, Get, Copy, Erase, Retable, RetableFails, Acknowledge, Abandon,
       localVars
  <1>. QED
    BY <1>1, <1>2, <1>3

LEMMA ChangeKeepsReads ==
  ASSUME IInv, TypeOK', ReadInv, NEW h \in Handlers, Change(h)
  PROVE  ReadInv'
  <1>1. Changing(h) /\ Frame(h)
    BY ChangeSafe
  <1>2. \A g \in Handlers : Changing(g)' => Changing(g) /\ call'[g] = call[g]
    BY <1>1 DEF Frame, Changing, Active
  <1>3. \A p : ~Reading(h, p)'
    BY <1>1, CallTypes DEF Frame, Changing, Reading
  <1>4. ASSUME NEW g \in Handlers \ {h}, NEW p, p = call[g].path
        PROVE  DownloadInv(g)'
    <2>1. /\ call'[g] = call[g] /\ pc'[g] = pc[g] /\ due'[g] = due[g] /\ clean'[g] = clean[g]
          /\ limit'[g] = limit[g] /\ plan'[g] = plan[g] /\ got'[g] = got[g] /\ out'[g] = out[g]
      BY <1>1, ChangeReads DEF Frame, IInv
    <2>2. ASSUME Reading(g, p), due[g] # None
          PROVE  /\ p \notin contended' /\ acked'[p] = acked[p] /\ rows'[p] = rows[p]
                 /\ Rivals({p})' = {}
                 /\ clean[g] => FreshCache(p, due[g])'
      <3>1. p \in Paths
        BY <2>2, ReaderAt DEF IInv
      <3>2. p \notin contended /\ Rivals({p}) = {} /\ (clean[g] => FreshCache(p, due[g]))
        BY <1>4, <2>2 DEF ReadInv, DownloadInv
      <3>3. p \notin Own(h)
        BY <1>1, <3>2, RivalOwn
      <3>4. Rivals({p})' = {}
        BY <1>2, <3>2, RivalsShrink
      <3>5. ASSUME clean[g] PROVE FreshCache(p, due[g])'
        <4>1. cache' = cache
          BY ChangeReads DEF IInv
        <4>2. ASSUME NEW k \in Handlers, Reading(k, p)' PROVE clean'[k] /\ due'[k] = due[g]
          <5>1. k # h
            BY <1>3, <4>2
          <5>2. Reading(k, p) /\ clean'[k] = clean[k] /\ due'[k] = due[k]
            BY <1>1, <4>2, <5>1 DEF Frame, Reading, Active
          <5>. QED
            BY <3>2, <3>5, <5>2 DEF FreshCache
        <4>. QED
          BY <2>1, <3>2, <3>5, <4>1, <4>2 DEF FreshCache
      <3>. QED
        BY <1>1, <3>1, <3>2, <3>3, <3>4, <3>5 DEF Frame
    <2>. QED
      BY <1>4, <2>1, <2>2, DownloadKept DEF ReadInv
  <1>5. DownloadInv(h)'
    BY <1>3 DEF DownloadInv
  <1>6. ASSUME NEW g \in Handlers, pc'[g] \notin SegmentSteps PROVE out'[g] = << >>
    <2>1. CASE g = h
      <3>1. pc[h] \notin SegmentSteps
        BY <1>1, ChangingType DEF IInv, WriteSteps, RenameSteps, PurgeSteps, SegmentSteps
      <3>. QED
        BY <2>1, <3>1, ChangeReads DEF ReadInv, IInv
    <2>2. CASE g # h
      BY <1>1, <1>6, <2>2, ChangeReads DEF Frame, ReadInv, IInv
    <2>. QED
      BY <2>1, <2>2
  <1>. QED
    BY <1>4, <1>5, <1>6 DEF ReadInv

-----------------------------------------------------------------------------
(***************************************************************************)
(* Steps of downloads.                                                     *)
(***************************************************************************)
LEMMA LeastExists ==
  ASSUME NEW S \in SUBSET Nat, S # {}
  PROVE  \E n \in S : \A m \in S : n <= m
  <1>1. S \subseteq Nat
    OBVIOUS
  <1>2. PICK n \in S : \A m \in S : ~ (<<m, n>> \in OpToRel(<, Nat))
    BY <1>1, NatLessThanWellFounded, WFMin
  <1>3. \A m \in S : ~(m < n)
    BY <1>2 DEF OpToRel
  <1>. QED
    BY <1>1, <1>3

(* K shards of one version give that version.                              *)
LEMMA DecodesVersion ==
  ASSUME NEW v \in Versions, NEW shards, \A j \in Shards : shards[j] \in {v, None},
         Cardinality(Present(shards)) >= K
  PROVE  Decoded(shards) = v
  <1>. DEFINE vs == {shards[i] : i \in Used(shards)}
  <1>1. Present(shards) # {} /\ Present(shards) \subseteq Shards /\ Shards \subseteq Nat
    BY FS_EmptySet, ShapeAssumption DEF Present, Shards
  <1>2. PICK n \in Present(shards) : \A m \in Present(shards) : n <= m
    <2>1. Present(shards) \in SUBSET Nat
      BY <1>1
    <2>. QED
      BY <1>1, <2>1, LeastExists
  <1>3. {j \in Present(shards) : j < n} = {}
    <2>1. \A j \in Present(shards) : j \in Nat /\ n \in Nat /\ n <= j
      BY <1>1, <1>2
    <2>2. \A j \in Present(shards) : ~(j < n)
      BY <2>1
    <2>. QED
      BY <2>2
  <1>4. n \in Used(shards)
    <2>1. Cardinality({j \in Present(shards) : j < n}) < K
      BY <1>3, FS_EmptySet, ShapeAssumption
    <2>. QED
      BY <2>1 DEF Used
  <1>5. vs = {v}
    <2>1. \A j \in Used(shards) : shards[j] = v
      BY DEF Used, Present
    <2>. QED
      BY <1>4, <2>1
  <1>6. Decoded(shards) = CHOOSE w \in {v} : TRUE
    BY <1>5, FS_Singleton DEF Decoded
  <1>. QED
    BY <1>6

(* The cache holds for p nothing but segments of v.                        *)
Entries(p, v) == {e \in CacheEntries : e.path = p => e.ver = v}

LEMMA FreshEntries ==
  ASSUME cache \in Seq(CacheEntries), NEW p, NEW v
  PROVE  (\A i \in 1 .. Len(cache) : cache[i].path = p => cache[i].ver = v)
            <=> cache \in Seq(Entries(p, v))
  BY DEF Entries

(* A step of a download leaves the cache as fresh as it was.               *)
LEMMA ReadKeepsCache ==
  ASSUME IInv, TypeOK', ReadInv, NEW h \in Handlers, Read(h), NEW p, NEW v \in Versions,
         FreshCache(p, v)
  PROVE  \A i \in 1 .. Len(cache') : cache'[i].path = p => cache'[i].ver = v
  <1>1. cache \in Seq(CacheEntries) /\ cache' \in Seq(CacheEntries)
    BY DEF IInv, TypeOK, ProcessOK
  <1>2. cache \in Seq(Entries(p, v))
    BY <1>1, FreshEntries DEF FreshCache
  <1>3. CASE UNCHANGED cache
    BY <1>3 DEF FreshCache
  <1>4. CASE Hit(h)
    <2>1. PICK e \in 1 .. Len(cache) : cache' = <<cache[e]>> \o Others(call[h].path, Len(out[h]))
      BY <1>4 DEF Hit, Cached
    <2>2. cache[e] \in Entries(p, v)
      BY <1>2
    <2>3. cache' \in Seq(Entries(p, v))
      <3>1. <<cache[e]>> \in Seq(Entries(p, v))
        BY <2>2
      <3>2. Others(call[h].path, Len(out[h])) \in Seq(Entries(p, v))
        BY <1>2, OthersType
      <3>. QED
        BY <2>1, <3>1, <3>2, ConcatProperties
    <2>. QED
      BY <2>3 DEF Entries
  <1>5. CASE Decode(h)
    <2>. DEFINE new == [path |-> call[h].path, seg |-> Len(out[h]), ver |-> Decoded(got[h])]
    <2>1. pc[h] = "decode" /\ cache' = CachePut(call[h].path, Len(out[h]), Decoded(got[h]))
          /\ Cardinality(Present(got[h])) >= K
      BY <1>5 DEF Decode
    <2>2. new \in CacheEntries
      BY <2>1, ReaderType, DecodedType DEF IInv, TypeOK, HandlersOK, CacheEntries
    <2>3. ASSUME call[h].path = p PROVE Decoded(got[h]) = v
      <3>1. Reading(h, p)
        BY <2>1, <2>3, ReaderType, CallTypes DEF Reading, Active, IInv
      <3>2. due[h] = v
        BY <3>1 DEF FreshCache
      <3>3. \A j \in Shards : got[h][j] \in {v, None}
        BY <2>1, <2>3, <3>1, <3>2, NoneAssumption DEF ReadInv, DownloadInv
      <3>. QED
        BY <2>1, <3>3, DecodesVersion
    <2>4. new \in Entries(p, v)
      BY <2>2, <2>3 DEF Entries
    <2>5. cache' \in Seq(Entries(p, v))
      <3>. HIDE DEF new
      <3>1. [path |-> call[h].path, seg |-> Len(out[h]), ver |-> Decoded(got[h])] \in Entries(p, v)
        BY <2>4 DEF new
      <3>. QED
        BY <1>2, <2>1, <3>1, CachePutType
    <2>. QED
      BY <2>5 DEF Entries
  <1>. QED
    BY <1>3, <1>4, <1>5 DEF Read, Stat, NotFound, ReadMap, Miss, Panic, Fetch, DecodeFails, Finish,
       Respond

LEMMA ReadLocal ==
  ASSUME IInv, NEW h \in Handlers, Read(h)
  PROVE  /\ \A g \in Handlers \ {h} :
               limit'[g] = limit[g] /\ got'[g] = got[g] /\ out'[g] = out[g]
         /\ \/ pc'[h] = "idle" /\ call'[h] = NoCall /\ out'[h] = << >>
            \/ call'[h] = call[h] /\ due'[h] = due[h] /\ clean'[h] = clean[h]
  <1>. USE DEF storeVars, cloudVars, readVars, localVars, excuses, promises, IInv, TypeOK, HandlersOK
  <1>1. CASE Return(h)
    BY <1>1 DEF Return, HistoryOK
  <1>2. CASE Stat(h)
    BY <1>2 DEF Stat
  <1>3. CASE ReadMap(h)
    BY <1>3 DEF ReadMap
  <1>4. CASE Hit(h)
    BY <1>4 DEF Hit
  <1>5. CASE Miss(h)
    <2>1. UNCHANGED <<limit, out, call, due, clean>> /\ got' = [got EXCEPT ![h] = NoneGot]
      BY <1>5, Zenon DEF Miss
    <2>. QED
      BY <2>1
  <1>6. CASE Fetch(h)
    <2>1. UNCHANGED <<limit, out, call, due, clean>>
      BY <1>6 DEF Fetch
    <2>2. UNCHANGED got \/ \E i, b : got' = [got EXCEPT ![h][i] = b]
      BY <1>6, Zenon DEF Fetch
    <2>. QED
      BY <2>1, <2>2
  <1>7. CASE Decode(h)
    BY <1>7 DEF Decode
  <1>8. CASE Finish(h)
    BY <1>8 DEF Finish
  <1>. QED
    BY <1>1, <1>2, <1>3, <1>4, <1>5, <1>6, <1>7, <1>8
       DEF Read, NotFound, Panic, DecodeFails, Respond

LEMMA FreshStays ==
  ASSUME IInv, TypeOK', ReadInv, NEW h \in Handlers, Read(h), NEW p, NEW v \in Versions,
         FreshCache(p, v)
  PROVE  FreshCache(p, v)'
  <1>1. \A i \in 1 .. Len(cache') : cache'[i].path = p => cache'[i].ver = v
    BY ReadKeepsCache
  <1>2. ASSUME NEW k \in Handlers, Reading(k, p)' PROVE clean'[k] /\ due'[k] = v
    <2>1. Reading(k, p) /\ clean'[k] = clean[k] /\ due'[k] = due[k]
      <3>1. CASE k = h
        <4>1. Reading(h, call[h].path)
          BY ReadStep DEF Reading, Active, Read, Stat, NotFound, ReadMap, Hit, Miss, Panic, Fetch,
             Decode, DecodeFails, Finish, Respond, More
        <4>2. call'[h] = call[h] /\ due'[h] = due[h] /\ clean'[h] = clean[h]
          BY <1>2, <3>1, ReadLocal DEF Reading, Active
        <4>. QED
          BY <1>2, <3>1, <4>1, <4>2 DEF Reading
      <3>2. CASE k # h
        BY <1>2, <3>2, ReadStep DEF Quiet, Reading, Active
      <3>. QED
        BY <3>1, <3>2
    <2>. QED
      BY <2>1 DEF FreshCache
  <1>. QED
    BY <1>1, <1>2 DEF FreshCache

(* What a download of an acknowledged version finds in the tables.         *)
LEMMA OwedFile ==
  ASSUME IInv, ReadInv, NEW h \in Handlers, NEW p, Reading(h, p), due[h] # None
  PROVE  /\ due[h] \in Versions /\ Intact(p, due[h]) /\ files[p] = Segs[due[h]]
         /\ Segs[due[h]] \in Nat /\ Cardinality(Segments(rows[p])) = Segs[due[h]]
         /\ \A s \in Slots, x \in Providers : rows[p][s] = x => blobs[x][p][s] \in {due[h], None}
  <1>. DEFINE v == due[h]
  <1>1. p \in Paths /\ p \notin contended /\ acked[p] = v /\ v \in Versions
    BY ReaderAt DEF ReadInv, DownloadInv, IInv, TypeOK, HistoryOK, Reading
  <1>2. Intact(p, v)
    BY <1>1 DEF IInv, Kept
  <1>3. Segs[v] \in Nat
    BY <1>1, ShapeAssumption
  <1>4. Cardinality(Segments(rows[p])) = Segs[v]
    <2>1. Segments(rows[p]) = 0 .. Segs[v] - 1
      BY <1>1, <1>2, IntactSegments
    <2>2. Cardinality(0 .. Segs[v] - 1) = Segs[v]
      BY <1>3, FS_Interval
    <2>. QED
      BY <2>1, <2>2
  <1>5. ASSUME NEW s \in Slots, NEW x \in Providers, rows[p][s] = x
        PROVE  blobs[x][p][s] \in {v, None}
    BY <1>1, <1>2, <1>5, NoneAssumption DEF Intact, Located, Spread, Stored, IInv, DeadEmpty
  <1>. QED
    BY <1>1, <1>2, <1>3, <1>4, <1>5 DEF Intact, Located

(* The download itself: what it reads is of the version it owes.           *)
LEMMA OwnDownload ==
  ASSUME IInv, TypeOK', ReadInv, NEW h \in Handlers, Read(h), NEW p, p = call[h].path,
         NEW v, v = due[h], v # None, pc'[h] # "idle"
  PROVE  DownloadInv(h)'
  <1>1. Reading(h, p) /\ pc[h] \in ReadSteps
    <2>1. pc[h] \in ReadSteps
      BY DEF Read, Stat, NotFound, ReadMap, Hit, Miss, Panic, Fetch, Decode, DecodeFails, Finish,
         Respond, More, ReadSteps
    <2>. QED
      BY <2>1, ReadStep DEF Reading, Active, ReadSteps
  <1>2. /\ v \in Versions /\ Segs[v] \in Nat /\ files[p] = Segs[v]
        /\ Cardinality(Segments(rows[p])) = Segs[v]
        /\ \A s \in Slots, x \in Providers : rows[p][s] = x => blobs[x][p][s] \in {v, None}
    BY <1>1, OwedFile
  <1>3. /\ call'[h] = call[h] /\ due'[h] = v /\ clean'[h] = clean[h] /\ Reading(h, p)'
        /\ contended' = contended /\ acked' = acked /\ rows' = rows
    BY <1>1, ReadLocal, ReadStep DEF Quiet, Reading, Active
  <1>4. /\ p \notin contended /\ acked[p] = v /\ Rivals({p}) = {}
        /\ clean[h] => FreshCache(p, v)
        /\ pc[h] # "info" => limit[h] = Segs[v]
        /\ pc[h] \in SegmentSteps => plan[h] = rows[p]
        /\ pc[h] \in {"fetch", "decode"} =>
              Len(out[h]) < Segs[v] /\ \A j \in Shards : got[h][j] \in {v, None}
        /\ Len(out[h]) <= Segs[v]
        /\ clean[h] => \A i \in 1 .. Len(out[h]) : out[h][i] = <<v, i - 1>>
    BY <1>1 DEF ReadInv, DownloadInv
  <1>5. Rivals({p})' = {}
    <2>1. \A g \in Handlers : Changing(g)' => Changing(g) /\ call'[g] = call[g]
      BY <1>1, <1>3, ReadStep DEF Quiet, Changing, Active
    <2>. QED
      BY <1>4, <2>1, RivalsShrink
  <1>6. clean[h] => FreshCache(p, v)'
    BY <1>2, <1>4, FreshStays
  <1>7. out[h] \in Seq(Content \X Nat) /\ Len(out[h]) \in Nat
    BY DEF IInv, TypeOK, HandlersOK
  <1>. SUFFICES /\ pc'[h] # "info" => limit'[h] = Segs[v]
                /\ pc'[h] \in SegmentSteps => plan'[h] = rows[p]
                /\ pc'[h] \in {"fetch", "decode"} =>
                      Len(out'[h]) < Segs[v] /\ \A j \in Shards : got'[h][j] \in {v, None}
                /\ Len(out'[h]) <= Segs[v]
                /\ pc'[h] = "done" => Len(out'[h]) = Segs[v]
                /\ clean[h] => \A i \in 1 .. Len(out'[h]) : out'[h][i] = <<v, i - 1>>
    BY <1>3, <1>4, <1>5, <1>6 DEF DownloadInv
  <1>. USE DEF SegmentSteps
  <1>8. CASE Stat(h)
    <2>1. /\ plan' = plan /\ got' = got /\ out' = out /\ pc[h] \in {"info", "stat"}
          /\ pc'[h] = IF pc[h] = "info" THEN "stat" ELSE "map"
          /\ limit'[h] = Segs[v]
      BY <1>2, <1>4, <1>8 DEF Stat, Step, IInv, TypeOK, HandlersOK, readVars
    <2>. QED
      BY <1>4, <2>1
  <1>9. CASE ReadMap(h)
    <2>1. /\ plan'[h] = rows[p] /\ UNCHANGED readVars /\ pc[h] = "map" /\ pc'[h] = "seg"
      BY <1>9 DEF ReadMap, Step, IInv, TypeOK, HandlersOK
    <2>. QED
      BY <1>4, <2>1 DEF readVars
  <1>10. CASE Hit(h)
    <2>1. PICK e \in 1 .. Len(cache) :
            /\ cache[e].path = p /\ cache[e].seg = Len(out[h])
            /\ out'[h] = Append(out[h], <<cache[e].ver, cache[e].seg>>)
      BY <1>10 DEF Hit, Cached, IInv, TypeOK, HandlersOK
    <2>2. /\ pc' = pc /\ plan' = plan /\ limit' = limit /\ got' = got /\ pc[h] = "seg"
          /\ Len(out[h]) < Segs[v]
      BY <1>2, <1>4, <1>10 DEF Hit, More
    <2>3. clean[h] => cache[e].ver = v
      BY <1>4, <2>1 DEF FreshCache
    <2>. QED
      BY <1>2, <1>4, <1>7, <2>1, <2>2, <2>3, SMTT(30)
  <1>11. CASE Miss(h)
    <2>1. /\ out' = out /\ plan' = plan /\ limit' = limit /\ pc[h] = "seg"
          /\ got' = [got EXCEPT ![h] = NoneGot] /\ pc'[h] \in {"fetch", "decode"}
      BY <1>11, Zenon DEF Miss, More, Step, IInv, TypeOK, HandlersOK
    <2>2. Len(out[h]) < Segs[v]
      BY <1>2, <1>4, <1>11 DEF Miss, More
    <2>3. \A j \in Shards : got'[h][j] = None
      BY <2>1 DEF NoneGot, IInv, TypeOK, HandlersOK
    <2>. QED
      BY <1>4, <2>1, <2>2, <2>3
  <1>12. CASE Fetch(h)
    <2>1. PICK s \in todo[h] :
            /\ pc'[h] \in {"fetch", "decode"}
            /\ \/ got' = [got EXCEPT ![h][s[2]] = blobs[plan[h][s]][p][s]]
               \/ UNCHANGED got
      BY <1>12 DEF Fetch, Loop, IInv, TypeOK, HandlersOK
    <2>2. /\ out' = out /\ plan' = plan /\ limit' = limit /\ pc[h] = "fetch"
      BY <1>12 DEF Fetch
    <2>3. s \in Slots /\ plan[h][s] \in Providers /\ plan[h] = rows[p]
      BY <1>4, <2>2 DEF IInv, TypeOK, HandlersOK, Pointed
    <2>4. blobs[plan[h][s]][p][s] \in {v, None}
      BY <1>2, <2>3
    <2>5. \A j \in Shards : got'[h][j] \in {v, None}
      <3>1. got[h] \in [Shards -> Versions \cup {None}] /\ got \in [Handlers -> [Shards -> Versions \cup {None}]]
        BY DEF IInv, TypeOK, HandlersOK
      <3>. QED
        BY <1>4, <2>1, <2>2, <2>4, <3>1
    <2>. QED
      BY <1>4, <2>1, <2>2, <2>5
  <1>13. CASE Decode(h)
    <2>1. /\ pc[h] = "decode" /\ pc'[h] = "seg" /\ plan' = plan /\ limit' = limit
          /\ Cardinality(Present(got[h])) >= K
          /\ out'[h] = Append(out[h], <<Decoded(got[h]), Len(out[h])>>)
      BY <1>13 DEF Decode, Step, IInv, TypeOK, HandlersOK
    <2>2. Decoded(got[h]) = v
      BY <1>2, <1>4, <2>1, DecodesVersion
    <2>. QED
      BY <1>2, <1>4, <1>7, <2>1, <2>2
  <1>14. CASE Finish(h)
    <2>1. /\ pc[h] = "seg" /\ pc'[h] = "done" /\ UNCHANGED localVars
          /\ Len(out[h]) >= Segs[v]
      BY <1>2, <1>4, <1>14 DEF Finish, Step, IInv, TypeOK, HandlersOK
    <2>. QED
      BY <1>2, <1>4, <1>7, <2>1 DEF localVars, readVars
  <1>15. CASE Return(h)
    BY <1>15 DEF Return, IInv, TypeOK, HandlersOK
  <1>. QED
    BY <1>8, <1>9, <1>10, <1>11, <1>12, <1>13, <1>14, <1>15
       DEF Read, NotFound, Panic, DecodeFails, Respond

LEMMA ReadKeepsReads ==
  ASSUME IInv, TypeOK', ReadInv, NEW h \in Handlers, Read(h)
  PROVE  ReadInv'
  <1>1. Quiet(h) /\ call[h].op = "read"
    BY ReadStep
  <1>2. \A g \in Handlers : Changing(g)' => Changing(g) /\ call'[g] = call[g]
    BY <1>1, CallTypes DEF Quiet, Changing, Active
  <1>3. DownloadInv(h)'
    <2>1. CASE pc'[h] = "idle"
      BY <2>1 DEF DownloadInv, Reading, Active
    <2>2. CASE pc'[h] # "idle" /\ due[h] # None
      BY <2>2, OwnDownload
    <2>3. CASE pc'[h] # "idle" /\ due[h] = None
      BY <2>3, ReadLocal DEF DownloadInv
    <2>. QED
      BY <2>1, <2>2, <2>3
  <1>4. ASSUME NEW g \in Handlers \ {h}, NEW p, p = call[g].path
        PROVE  DownloadInv(g)'
    <2>1. /\ call'[g] = call[g] /\ pc'[g] = pc[g] /\ due'[g] = due[g] /\ clean'[g] = clean[g]
          /\ limit'[g] = limit[g] /\ plan'[g] = plan[g] /\ got'[g] = got[g] /\ out'[g] = out[g]
      BY <1>1, ReadLocal DEF Quiet
    <2>2. ASSUME Reading(g, p), due[g] # None
          PROVE  /\ p \notin contended' /\ acked'[p] = acked[p] /\ rows'[p] = rows[p]
                 /\ Rivals({p})' = {}
                 /\ clean[g] => FreshCache(p, due[g])'
      <3>1. p \notin contended /\ Rivals({p}) = {} /\ (clean[g] => FreshCache(p, due[g]))
        BY <1>4, <2>2 DEF ReadInv, DownloadInv
      <3>2. due[g] \in Versions
        BY <2>2, OwedFile
      <3>3. Rivals({p})' = {}
        BY <1>2, <3>1, RivalsShrink
      <3>4. clean[g] => FreshCache(p, due[g])'
        <4>. DEFINE v == due[g]
        <4>1. ASSUME NEW w \in Versions, FreshCache(p, w) PROVE FreshCache(p, w)'
          BY <4>1, FreshStays
        <4>2. PICK w \in Versions : w = due[g]
          BY <3>2
        <4>. QED
          BY <2>1, <3>1, <4>1, <4>2 DEF FreshCache
      <3>. QED
        BY <1>1, <3>1, <3>3, <3>4 DEF Quiet
    <2>. QED
      BY <1>4, <2>1, <2>2, DownloadKept DEF ReadInv
  <1>5. ASSUME NEW g \in Handlers, pc'[g] \notin SegmentSteps PROVE out'[g] = << >>
    <2>1. CASE g # h
      BY <1>1, <1>5, <2>1, ReadLocal DEF Quiet, ReadInv
    <2>2. CASE g = h /\ pc'[h] = "idle"
      <3>1. call'[h] # call[h]
        BY <1>1, <2>2, CallTypes DEF TypeOK, HandlersOK, AtStep, WriteSteps, PurgeSteps,
           RenameSteps, ReadSteps
      <3>. QED
        BY <2>2, <3>1, ReadLocal
    <2>3. CASE g = h /\ pc'[h] # "idle"
      <3>1. Stat(h) /\ pc[h] \in {"info", "stat"} /\ out' = out
        BY <1>5, <2>3 DEF Read, Stat, NotFound, ReadMap, Hit, Miss, Panic, Fetch, Decode,
           DecodeFails, Finish, Respond, More, Step, Loop, Return, SegmentSteps, IInv, TypeOK,
           HandlersOK
      <3>. QED
        BY <2>3, <3>1 DEF ReadInv, SegmentSteps
    <2>. QED
      BY <2>1, <2>2, <2>3
  <1>. QED
    BY <1>3, <1>4, <1>5 DEF ReadInv

-----------------------------------------------------------------------------
(***************************************************************************)
(* Calls that begin, and steps that no handler takes.                      *)
(***************************************************************************)
LEMMA StartKeepsReads ==
  ASSUME IInv, TypeOK', ReadInv, NEW h \in Handlers, NEW c \in Requests, Start(h, c)
  PROVE  ReadInv'
  <1>1. /\ pc[h] = "idle" /\ call' = [call EXCEPT ![h] = c] /\ call'[h] = c
        /\ cache' = cache /\ rows' = rows /\ UNCHANGED readVars /\ plan' = plan
        /\ \A g \in Handlers \ {h} : call'[g] = call[g]
    BY DEF Start, storeVars, IInv, TypeOK, HandlersOK
  <1>2. \A g \in Handlers : limit'[g] = limit[g] /\ got'[g] = got[g] /\ out'[g] = out[g]
    BY <1>1 DEF readVars
  <1>3. out[h] = << >>
    BY <1>1 DEF ReadInv, SegmentSteps
  <1>4. ASSUME c.op = "read", StartRead(h, c.path), NEW p, p = c.path,
               NEW v, v = IF p \in contended \/ Rivals({p}) # {} THEN None ELSE acked[p]
        PROVE  ReadInv'
    <2>1. /\ pc'[h] = "info" /\ due'[h] = v /\ clean'[h] = FreshCache(p, v)
          /\ acked' = acked /\ contended' = contended
          /\ \A g \in Handlers \ {h} : pc'[g] = pc[g] /\ due'[g] = due[g] /\ clean'[g] = clean[g]
      BY <1>4 DEF StartRead, IInv, TypeOK, HandlersOK, HistoryOK
    <2>2. \A g \in Handlers : Changing(g)' => Changing(g) /\ call'[g] = call[g]
      BY <1>1, <1>4, <2>1 DEF Changing, Active
    <2>3. \A f : \A g \in Handlers \ {h} : Reading(g, f)' <=> Reading(g, f)
      BY <1>1, <2>1 DEF Reading, Active
    <2>4. ASSUME NEW g \in Handlers \ {h}, NEW f, f = call[g].path PROVE DownloadInv(g)'
      <3>1. ASSUME Reading(g, f), due[g] # None
            PROVE  /\ f \notin contended' /\ acked'[f] = acked[f] /\ rows'[f] = rows[f]
                   /\ Rivals({f})' = {}
                   /\ clean[g] => FreshCache(f, due[g])'
        <4>1. /\ f \notin contended /\ Rivals({f}) = {} /\ acked[f] = due[g]
              /\ clean[g] => FreshCache(f, due[g])
          BY <2>4, <3>1 DEF ReadInv, DownloadInv
        <4>2. Rivals({f})' = {}
          BY <2>2, <4>1, RivalsShrink
        <4>3. ASSUME clean[g] PROVE FreshCache(f, due[g])'
          <5>1. FreshCache(f, due[g])
            BY <4>1, <4>3
          <5>2. ASSUME f = p PROVE v = due[g] /\ FreshCache(f, v)
            BY <1>4, <4>1, <5>1, <5>2
          <5>3. ASSUME NEW k \in Handlers, Reading(k, f)' PROVE clean'[k] /\ due'[k] = due[g]
            <6>1. CASE k = h
              BY <1>1, <1>4, <2>1, <5>2, <5>3, <6>1 DEF Reading
            <6>2. CASE k # h
              BY <2>1, <2>3, <5>1, <5>3, <6>2 DEF FreshCache
            <6>. QED
              BY <6>1, <6>2
          <5>. QED
            BY <1>1, <2>1, <5>1, <5>3 DEF FreshCache
        <4>. QED
          BY <1>1, <2>1, <4>1, <4>2, <4>3
      <3>. QED
        BY <1>1, <1>2, <2>1, <2>4, <3>1, DownloadKept DEF ReadInv
    <2>5. DownloadInv(h)'
      <3>. SUFFICES ASSUME v # None PROVE DownloadInv(h)'
        BY <2>1 DEF DownloadInv
      <3>1. p \notin contended /\ Rivals({p}) = {} /\ acked[p] = v
        BY <1>4
      <3>2. Rivals({p})' = {}
        BY <2>2, <3>1, RivalsShrink
      <3>3. ASSUME FreshCache(p, v) PROVE FreshCache(p, v)'
        <4>1. ASSUME NEW k \in Handlers, Reading(k, p)' PROVE clean'[k] /\ due'[k] = v
          <5>1. CASE k = h
            <6>1. clean'[h] = FreshCache(p, v) /\ due'[h] = v
              BY <2>1
            <6>2. clean'[h] /\ due'[h] = v
              BY <3>3, <6>1, Zenon
            <6>. QED
              BY <5>1, <6>2
          <5>2. CASE k # h
            BY <2>1, <2>3, <3>3, <4>1, <5>2 DEF FreshCache
          <5>. QED
            BY <5>1, <5>2
        <4>. QED
          BY <1>1, <2>1, <3>3, <4>1 DEF FreshCache
      <3>4. v \in Versions /\ Segs[v] \in Nat
        <4>1. p \in Paths
          BY <1>4, CallTypes DEF Requests, Mutations
        <4>. QED
          BY <3>1, <4>1, ShapeAssumption DEF IInv, TypeOK, HistoryOK
      <3>5. clean'[h] => FreshCache(p, v)'
        <4>1. clean'[h] => FreshCache(p, v)
          BY <2>1, Zenon
        <4>. QED
          BY <3>3, <4>1
      <3>. QED
        <4>1. /\ call'[h].path = p /\ due'[h] = v /\ pc'[h] = "info" /\ out'[h] = << >>
              /\ p \notin contended' /\ acked'[p] = v
          BY <1>1, <1>2, <1>3, <1>4, <2>1, <3>1
        <4>2. Len(out'[h]) = 0 /\ Len(out'[h]) <= Segs[v]
          BY <3>4, <4>1
        <4>3. \A i \in 1 .. Len(out'[h]) : out'[h][i] = <<v, i - 1>>
          BY <4>2
        <4>. QED
          BY <3>2, <3>5, <4>1, <4>2, <4>3 DEF DownloadInv, SegmentSteps
    <2>6. \A g \in Handlers : pc'[g] \notin SegmentSteps => out'[g] = << >>
      BY <1>2, <1>3, <2>1 DEF ReadInv
    <2>. QED
      BY <2>4, <2>5, <2>6 DEF ReadInv
  <1>5. CASE c.op # "read" /\ StartChange(h, c)
    <2>1. /\ pc'[h] \in {"check", "scan"} /\ contended' = contended \cup Taint(Touches(c))
          /\ acked' = [p \in Paths |-> IF p \in Touches(c) THEN None ELSE acked[p]]
          /\ \A g \in Handlers \ {h} :
                /\ pc'[g] = pc[g] /\ clean'[g] = clean[g]
                /\ due'[g] = IF \E p \in Touches(c) : Reading(g, p) THEN None ELSE due[g]
      BY <1>5 DEF StartChange, IInv, TypeOK, HandlersOK, HistoryOK
    <2>2. \A f : ~Reading(h, f)'
      BY <1>1, <1>5 DEF Reading
    <2>3. ASSUME NEW g \in Handlers \ {h}, NEW f, f = call[g].path PROVE DownloadInv(g)'
      <3>1. CASE Reading(g, f) /\ due[g] # None /\ f \notin Touches(c)
        <4>1. /\ f \notin contended /\ Rivals({f}) = {}
              /\ clean[g] => FreshCache(f, due[g])
          BY <2>3, <3>1 DEF ReadInv, DownloadInv
        <4>2. f \in Paths
          BY <3>1, ReaderAt DEF IInv
        <4>3. f \notin contended'
          <5>1. \A k \in Rivals(Touches(c)) : f \notin Touches(call[k])
            BY <4>1 DEF Rivals
          <5>2. f \notin Taint(Touches(c))
            BY <3>1, <5>1 DEF Taint
          <5>. QED
            BY <2>1, <4>1, <5>2
        <4>4. Rivals({f})' = {}
          <5>1. ASSUME NEW k \in Handlers, k \in Rivals({f})' PROVE FALSE
            <6>1. CASE k = h
              BY <1>1, <3>1, <5>1, <6>1 DEF Rivals
            <6>2. CASE k # h
              BY <1>1, <2>1, <4>1, <5>1, <6>2 DEF Rivals, Changing, Active
            <6>. QED
              BY <6>1, <6>2
          <5>. QED
            BY <5>1 DEF Rivals
        <4>5. due'[g] = due[g]
          BY <2>1, <2>3, <3>1 DEF Reading
        <4>6. ASSUME clean[g] PROVE FreshCache(f, due[g])'
          <5>1. FreshCache(f, due[g])
            BY <4>1, <4>6
          <5>2. ASSUME NEW k \in Handlers, Reading(k, f)' PROVE clean'[k] /\ due'[k] = due[g]
            <6>1. k # h
              BY <2>2, <5>2
            <6>2. Reading(k, f) /\ call[k].path = f
              BY <1>1, <2>1, <5>2, <6>1 DEF Reading, Active
            <6>3. due'[k] = due[k] /\ clean'[k] = clean[k]
              BY <2>1, <3>1, <6>1, <6>2 DEF Reading
            <6>. QED
              BY <5>1, <6>2, <6>3 DEF FreshCache
          <5>. QED
            BY <1>1, <4>5, <5>1, <5>2 DEF FreshCache
        <4>. QED
          BY <1>1, <1>2, <2>1, <2>3, <3>1, <4>2, <4>3, <4>4, <4>5, <4>6, DownloadKept DEF ReadInv
      <3>2. CASE Reading(g, f) /\ (due[g] = None \/ f \in Touches(c))
        <4>1. due'[g] = None
          BY <2>1, <3>2
        <4>. QED
          BY <4>1 DEF DownloadInv
      <3>3. CASE ~Reading(g, f)
        BY <1>1, <2>1, <2>3, <3>3 DEF DownloadInv, Reading, Active
      <3>. QED
        BY <3>1, <3>2, <3>3
    <2>4. DownloadInv(h)'
      BY <2>2 DEF DownloadInv
    <2>5. \A g \in Handlers : pc'[g] \notin SegmentSteps => out'[g] = << >>
      BY <1>2, <1>3, <2>1 DEF ReadInv
    <2>. QED
      BY <2>3, <2>4, <2>5 DEF ReadInv
  <1>. QED
    BY <1>4, <1>5 DEF Start

LEMMA MkdirKeepsReads ==
  ASSUME IInv, TypeOK', ReadInv, NEW d \in Dirs, Mkdir(d)
  PROVE  ReadInv'
  <1>1. /\ contended' = contended \cup Taint({d})
        /\ UNCHANGED <<rows, cache, pc, localVars, promises>>
    BY DEF Mkdir
  <1>2. ASSUME NEW g \in Handlers, NEW f, f = call[g].path PROVE DownloadInv(g)'
    <2>1. ASSUME Reading(g, f), due[g] # None
          PROVE  f \notin contended' /\ Rivals({f})' = {} /\ (clean[g] => FreshCache(f, due[g])')
      <3>1. f \notin contended /\ Rivals({f}) = {} /\ (clean[g] => FreshCache(f, due[g]))
        BY <1>2, <2>1 DEF ReadInv, DownloadInv
      <3>2. f \notin Taint({d})
        <4>1. \A k \in Rivals({d}) : f \notin Touches(call[k])
          BY <3>1 DEF Rivals
        <4>2. f = d => Taint({d}) = {}
          BY <3>1 DEF Taint
        <4>. QED
          BY <4>1, <4>2 DEF Taint
      <3>3. Rivals({f})' = {}
        BY <1>1, <3>1, RivalsShrink DEF Changing, Active, localVars
      <3>. QED
        BY <1>1, <3>1, <3>2, <3>3 DEF FreshCache, Reading, Active, localVars, promises
    <2>. QED
      BY <1>1, <1>2, <2>1, DownloadKept DEF ReadInv, localVars, readVars, promises
  <1>. QED
    BY <1>1, <1>2 DEF ReadInv, localVars, readVars

LEMMA OthersKeepReads ==
  ASSUME IInv, TypeOK', ReadInv, (\E x \in Providers : Lose(x)) \/ Crash \/ UNCHANGED vars
  PROVE  ReadInv'
  <1>1. CASE UNCHANGED <<rows, cache, pc, localVars, promises, contended>>
    BY <1>1 DEF ReadInv, DownloadInv, FreshCache, Rivals, Reading, Changing, Active, localVars,
       readVars, promises
  <1>2. CASE Crash
    <2>1. \A g \in Handlers : pc'[g] = "idle" /\ out'[g] = << >>
      BY <1>2 DEF Crash
    <2>. QED
      BY <2>1 DEF ReadInv, DownloadInv, Reading, Active
  <1>. QED
    BY <1>1, <1>2 DEF Lose, vars, storeVars, excuses

LEMMA NextReads == IInv /\ IInv' /\ ReadInv /\ [Next]_vars => ReadInv'
  <1>. SUFFICES ASSUME IInv, TypeOK', ReadInv, [Next]_vars PROVE ReadInv'
    BY DEF IInv
  <1>. QED
    BY ChangeKeepsReads, ReadKeepsReads, StartKeepsReads, MkdirKeepsReads, OthersKeepReads DEF Next

LEMMA InitReads == Init => ReadInv
  BY DEF Init, ReadInv, DownloadInv, Reading, Active

LEMMA ReadBackFollows == IInv /\ ReadInv => ReadBack
  <1>. SUFFICES ASSUME IInv, ReadInv, NEW h \in Handlers, pc[h] = "done", due[h] # None, clean[h]
                PROVE  Answer(h) = [i \in 1 .. Segs[due[h]] |-> <<due[h], i - 1>>]
    BY DEF ReadBack
  <1>. DEFINE p == call[h].path
              v == due[h]
  <1>1. Reading(h, p)
    BY CallTypes DEF Reading, Active, IInv, TypeOK, HandlersOK, AtStep, WriteSteps, PurgeSteps,
       RenameSteps
  <1>2. /\ limit[h] = Segs[v] /\ Len(out[h]) = Segs[v]
        /\ \A i \in 1 .. Len(out[h]) : out[h][i] = <<v, i - 1>>
    BY <1>1 DEF ReadInv, DownloadInv
  <1>3. Segs[v] \in Nat /\ out[h] \in Seq(Content \X Nat)
    BY <1>1, OwedFile DEF IInv, TypeOK, HandlersOK
  <1>4. Answer(h) = SubSeq(out[h], 1, Segs[v])
    BY <1>2, <1>3 DEF Answer
  <1>. HIDE DEF v
  <1>5. SubSeq(out[h], 1, Segs[v]) = [i \in 1 .. Segs[v] |-> <<v, i - 1>>]
    <2>. DEFINE a == SubSeq(out[h], 1, Segs[v])
    <2>1. /\ a \in Seq(Content \X Nat) /\ Len(a) = Segs[v]
          /\ \A i \in 1 .. Segs[v] : a[i] = out[h][i]
      BY <1>2, <1>3, SubSeqProperties
    <2>. HIDE DEF a
    <2>2. a = [i \in 1 .. Segs[v] |-> a[i]]
      BY <2>1
    <2>3. \A i \in 1 .. Segs[v] : a[i] = <<v, i - 1>>
      BY <1>2, <2>1
    <2>. QED
      BY <2>2, <2>3 DEF a
  <1>. QED
    BY <1>4, <1>5 DEF v

(* A download of a path that no call changes meanwhile, begun when nothing *)
(* older is in the cache or on its way there, returns what was last        *)
(* acknowledged, piece by piece: for any number of downloads, any code,    *)
(* any cache, and whatever providers fail or are lost.                     *)
THEOREM ReadBackAlways == Spec => []ReadBack
  <1>1. Spec => []ReadInv
    BY Inductive, InitReads, NextReads, PTL DEF Spec
  <1>. QED
    BY <1>1, Inductive, ReadBackFollows, PTL

-----------------------------------------------------------------------------
(***************************************************************************)
(* The numbers of shards.                                                  *)
(***************************************************************************)
LEMMA NoPanic ==
  ASSUME NEW map, Gapless(map), NEW i \in Nat
  PROVE  ~Panics(map, i)
  <1>. SUFFICES ASSUME NEW j \in IndicesOf(map, i) PROVE j < Cardinality(IndicesOf(map, i))
    <2>1. \A j \in IndicesOf(map, i) : j \in Nat
      BY ShapeAssumption DEF IndicesOf, Shards
    <2>2. IsFiniteSet(IndicesOf(map, i))
      <3>1. 0 \in Int /\ K + M - 1 \in Int
        BY ShapeAssumption
      <3>2. IsFiniteSet(Shards)
        BY <3>1, FS_Interval DEF Shards
      <3>. QED
        BY <3>2, FS_Subset DEF IndicesOf
    <2>3. Cardinality(IndicesOf(map, i)) \in Nat
      BY <2>2, FS_CardinalityType
    <2>. QED
      BY <2>1, <2>3 DEF Panics
  <1>1. j \in Nat /\ j \in Shards /\ i < MaxSegs /\ map[<<i, j>>] # None /\ <<i, j>> \in Slots
    BY ShapeAssumption DEF IndicesOf, Shards, Slots
  <1>2. \A l \in 0 .. j - 1 : map[<<i, l>>] # None
    <2>1. \A l \in 0 .. <<i, j>>[2] - 1 : map[<<(<<i, j>>)[1], l>>] # None
      BY <1>1 DEF Gapless
    <2>. QED
      BY <2>1
  <1>3. 0 .. j \subseteq IndicesOf(map, i)
    <2>1. ASSUME NEW l \in 0 .. j PROVE l \in Shards /\ map[<<i, l>>] # None
      BY <1>1, <1>2, <2>1, ShapeAssumption DEF Shards
    <2>. QED
      BY <1>1, <2>1 DEF IndicesOf
  <1>4. IsFiniteSet(IndicesOf(map, i)) /\ IsFiniteSet(0 .. j) /\ Cardinality(0 .. j) = j + 1
    <2>1. IsFiniteSet(Shards)
      BY FS_Interval, ShapeAssumption DEF Shards
    <2>2. IsFiniteSet(IndicesOf(map, i))
      BY <2>1, FS_Subset DEF IndicesOf
    <2>3. IsFiniteSet(0 .. j) /\ Cardinality(0 .. j) = j + 1
      BY <1>1, FS_Interval
    <2>. QED
      BY <2>2, <2>3
  <1>5. Cardinality(0 .. j) <= Cardinality(IndicesOf(map, i))
    BY <1>3, <1>4, FS_Subset
  <1>6. Cardinality(IndicesOf(map, i)) \in Nat
    BY <1>4, FS_CardinalityType
  <1>. QED
    BY <1>1, <1>4, <1>5, <1>6

LEMMA NoRowsGapless == Gapless(NoRows)
  BY DEF Gapless, NoRows

(* A map of which an upper part of the slots is missing has no gap.        *)
LEMMA LowerGapless ==
  ASSUME NEW map \in ShardMaps, NEW v \in Versions, NEW part \in ShardMaps, NEW S,
         Spread(map, v), UpperPart(S, v),
         \A s \in Slots : part[s] = IF s \in S THEN None ELSE map[s]
  PROVE  Gapless(part)
  <1>. SUFFICES ASSUME NEW s \in Slots, part[s] # None, NEW j \in 0 .. s[2] - 1
                PROVE  part[<<s[1], j>>] # None
    BY DEF Gapless
  <1>1. s \notin S /\ s \in SlotsOf(v)
    BY DEF Spread
  <1>2. s[1] \in 0 .. MaxSegs - 1 /\ s[2] \in 0 .. K + M - 1 /\ s[1] < Segs[v]
    BY <1>1 DEF SlotsOf, Slots, Shards
  <1>3. j \in Nat /\ j < s[2] /\ j \in 0 .. K + M - 1
    BY <1>2, ShapeAssumption
  <1>. DEFINE t == <<s[1], j>>
  <1>4. t \in Slots /\ t[1] = s[1] /\ t[2] = j
    BY <1>2, <1>3 DEF Slots, Shards
  <1>5. t \in SlotsOf(v)
    BY <1>2, <1>4 DEF SlotsOf
  <1>. HIDE DEF t
  <1>6. t \notin S
    BY <1>1, <1>3, <1>4 DEF UpperPart
  <1>7. part[t] # None
    BY <1>4, <1>5, <1>6 DEF Spread
  <1>. QED
    BY <1>7 DEF t

LEMMA ChangeKeepsOrder ==
  ASSUME IInv, IInv', OrderInv, NEW h \in Handlers, Change(h)
  PROVE  OrderInv'
  <1>1. Changing(h) /\ Frame(h) /\ TypeOK' /\ TypeOK
    BY ChangeSafe DEF IInv
  <1>. DEFINE p == call[h].path
              q == call[h].to
  <1>2. /\ p \in Paths /\ q \in Paths /\ Own(h) = {p, q}
        /\ call[h].op \in {"write", "delete", "rename"}
    BY <1>1, ChangingType DEF Own, Touches
  <1>3. ASSUME NEW g \in Handlers \ {h} PROVE NumberInv(g)'
    BY <1>1 DEF Frame, OrderInv, NumberInv
  <1>4. ASSUME NEW f \in Paths \ Own(h), f \notin contended' PROVE Gapless(rows'[f])
    BY <1>1, <1>4 DEF Frame, OrderInv
  <1>5. NumberInv(h)'
    <2>. SUFFICES ASSUME call'[h].path \notin contended', call'[h].op = "write",
                         pc'[h] \in {"put", "record"}
                  PROVE  /\ UpperPart(todo'[h], call'[h].ver)
                         /\ pc'[h] = "record" => UpperPart(todo'[h] \cup {cur'[h]}, call'[h].ver)
      BY <1>1, <1>2, CallTypes DEF Frame, NumberInv, UpperPart, SlotsOf
    <2>0. call'[h] = call[h] /\ contended' = contended
      BY <1>1, CallTypes DEF Frame
    <2>. DEFINE v == call[h].ver
    <2>1. CASE CreateFile(h)
      <3>1. pc'[h] = "put" /\ todo'[h] = SlotsOf(v)
        BY <1>1, <2>1 DEF CreateFile, Step, TypeOK, HandlersOK
      <3>. QED
        BY <2>0, <3>1 DEF UpperPart
    <2>2. CASE Put(h)
      <3>1. PICK s \in First(todo[h]) :
              pc'[h] = "record" /\ cur'[h] = s /\ todo'[h] = todo[h] \ {s}
        BY <1>1, <2>2 DEF Put, Step, TypeOK, HandlersOK
      <3>2. UpperPart(todo[h], v)
        BY <2>0, <2>2 DEF Put, OrderInv, NumberInv
      <3>3. todo[h] \subseteq Slots /\ s \in todo[h]
        BY <1>1 DEF TypeOK, HandlersOK, First
      <3>4. UpperPart(todo[h] \ {s}, v)
        <4>. SUFFICES ASSUME NEW a \in todo[h] \ {s}, NEW t \in SlotsOf(v), a[1] = t[1], a[2] < t[2]
                      PROVE  t \in todo[h] \ {s}
          BY DEF UpperPart
        <4>1. t \in todo[h]
          BY <3>2 DEF UpperPart
        <4>2. s[1] < a[1] \/ (s[1] = a[1] /\ s[2] <= a[2])
          BY DEF First
        <4>3. /\ a[1] \in Int /\ a[2] \in Int /\ t[1] \in Int /\ t[2] \in Int
              /\ s[1] \in Int /\ s[2] \in Int
          BY <3>3, <4>1 DEF Slots, Shards
        <4>4. t # s
          BY <4>2, <4>3
        <4>. QED
          BY <4>1, <4>4
      <3>5. (todo[h] \ {s}) \cup {s} = todo[h]
        BY <3>3
      <3>. QED
        BY <2>0, <3>1, <3>2, <3>4, <3>5
    <2>3. CASE Record(h)
      BY <1>1, <2>0, <2>3 DEF Record, Step, OrderInv, NumberInv, TypeOK, HandlersOK, localVars
    <2>4. CASE Return(h)
      BY <1>1, <2>4 DEF Return, TypeOK, HandlersOK
    <2>5. pc'[h] \in {"put", "record"} => CreateFile(h) \/ Put(h) \/ Record(h) \/ Return(h)
      BY <1>1 DEF Change, Check, Scan, Purge, Unrow, Unlink, CreateEmpty, CreateFails, PutFails,
         Log, Get, Copy, Erase, Retable, RetableFails, Acknowledge, Abandon, Step, Loop, TypeOK,
         HandlersOK
    <2>. QED
      BY <2>1, <2>2, <2>3, <2>4, <2>5
  <1>6. ASSUME NEW f \in {p, q}, f \notin contended PROVE Gapless(rows'[f])
    <2>0. Gapless(rows[f])
      BY <1>2, <1>6 DEF OrderInv
    <2>1. CASE rows' = rows
      BY <2>0, <2>1
    <2>2. CASE Unrow(h)
      <3>1. rows'[f] = NoRows \/ rows'[f] = rows[f]
        BY <1>1, <1>2, <2>2 DEF Unrow, TypeOK, StoreOK
      <3>. QED
        BY <2>0, <3>1, NoRowsGapless
    <2>3. CASE Record(h)
      <3>1. /\ call[h].op = "write" /\ f = p /\ call[h].ver \in Versions
            /\ pc[h] = "record" /\ pc'[h] \in {"put", "log"} /\ call'[h] = call[h]
            /\ todo'[h] = todo[h] /\ contended' = contended
        BY <1>1, <2>3, CallTypes DEF Record, Step, TypeOK, HandlersOK, AtStep, PurgeSteps,
           RenameSteps, ReadSteps, localVars, excuses
      <3>2. /\ Spread(plan'[h], call[h].ver)
            /\ \A s \in Slots : rows'[f][s] = IF s \in todo[h] THEN None ELSE plan'[h][s]
        BY <1>6, <3>1 DEF IInv, CallInv, UploadInv
      <3>3. UpperPart(todo[h], call[h].ver)
        BY <1>6, <3>1 DEF OrderInv, NumberInv
      <3>4. plan'[h] \in ShardMaps /\ rows'[f] \in ShardMaps
        BY <1>1, <1>2 DEF TypeOK, HandlersOK, StoreOK
      <3>. QED
        BY <3>1, <3>2, <3>3, <3>4, LowerGapless
    <2>4. CASE Retable(h)
      <3>. DEFINE moved == [s \in Slots |-> IF rows[p][s] # None THEN rows[p][s] ELSE rows[q][s]]
      <3>1. /\ ~Conflict(p, q)
            /\ rows' = [e \in Paths |-> IF e = q THEN moved ELSE IF e = p THEN NoRows ELSE rows[e]]
        BY <2>4 DEF Retable
      <3>2. p \notin contended /\ q \notin contended
        BY <1>1, <1>2, <1>6 DEF IInv, Separate
      <3>3. rows[p] \in ShardMaps /\ rows[q] \in ShardMaps /\ \A s \in Slots : NoRows[s] = None
        BY <1>1, <1>2 DEF TypeOK, StoreOK, NoRows
      <3>4. moved = rows[p] \/ moved = rows[q]
        <4>1. CASE p = q
          <5>1. moved = rows[p]
            BY <3>3, <4>1 DEF ShardMaps
          <5>. QED
            BY <5>1
        <4>2. CASE files[q] = None
          <5>1. rows[q] = NoRows
            BY <1>2, <3>2, <4>2 DEF IInv, RowsHaveFile
          <5>2. moved = rows[p]
            BY <3>3, <5>1 DEF ShardMaps
          <5>. QED
            BY <5>2
        <4>3. CASE files[p] = None
          <5>1. rows[p] = NoRows
            BY <1>2, <3>2, <4>3 DEF IInv, RowsHaveFile
          <5>2. moved = rows[q]
            BY <3>3, <5>1 DEF ShardMaps
          <5>. QED
            BY <5>2
        <4>. QED
          BY <3>1, <4>1, <4>2, <4>3 DEF Conflict
      <3>5. Gapless(rows[p]) /\ Gapless(rows[q])
        BY <1>2, <3>2 DEF OrderInv
      <3>6. rows'[f] = moved \/ rows'[f] = NoRows
        BY <1>2, <3>1
      <3>. QED
        <4>. HIDE DEF moved
        <4>. QED
          BY <3>4, <3>5, <3>6, NoRowsGapless
    <2>5. rows' = rows \/ Unrow(h) \/ Record(h) \/ Retable(h)
      BY Zenon DEF Change, Check, Scan, Purge, Unlink, CreateEmpty, CreateFile, CreateFails, Put,
         PutFails, Log, Get, Copy, Erase, RetableFails, storeVars
    <2>. QED
      BY <2>1, <2>2, <2>3, <2>4, <2>5
  <1>. QED
    BY <1>1, <1>2, <1>3, <1>4, <1>5, <1>6 DEF OrderInv, Frame

LEMMA ReadKeepsOrder ==
  ASSUME IInv, OrderInv, NEW h \in Handlers, Read(h)
  PROVE  OrderInv'
  <1>1. Quiet(h) /\ call[h].op = "read"
    BY ReadStep
  <1>2. ASSUME NEW g \in Handlers \ {h} PROVE NumberInv(g)'
    BY <1>1 DEF Quiet, OrderInv, NumberInv
  <1>3. NumberInv(h)'
    <2>. SUFFICES ASSUME call[h].path \notin contended, call'[h] = call[h], pc'[h] \in SegmentSteps
                  PROVE  Gapless(plan'[h])
      BY <1>1, CallTypes DEF Quiet, NumberInv
    <2>1. CASE ReadMap(h)
      <3>1. plan'[h] = rows[call[h].path] /\ call[h].path \in Paths
        BY <2>1, CallTypes DEF ReadMap, IInv, TypeOK, HandlersOK, AtStep, WriteSteps, PurgeSteps,
           RenameSteps
      <3>. QED
        BY <3>1 DEF OrderInv
    <2>2. CASE pc[h] \in SegmentSteps /\ plan' = plan
      BY <1>1, <2>2 DEF OrderInv, NumberInv
    <2>3. ReadMap(h) \/ (pc[h] \in SegmentSteps /\ plan' = plan)
      BY DEF Read, Stat, NotFound, Hit, Miss, Panic, Fetch, Decode, DecodeFails, Finish, Respond,
         More, Step, Loop, Return, SegmentSteps, localVars, IInv, TypeOK, HandlersOK
    <2>. QED
      BY <2>1, <2>2, <2>3
  <1>. QED
    BY <1>1, <1>2, <1>3 DEF Quiet, OrderInv

LEMMA OthersKeepOrder ==
  ASSUME IInv, OrderInv,
         \/ \E h \in Handlers, c \in Requests : Start(h, c)
         \/ \E d \in Dirs : Mkdir(d)
         \/ \E x \in Providers : Lose(x)
         \/ Crash
         \/ UNCHANGED vars
  PROVE  OrderInv'
  <1>1. ASSUME NEW h \in Handlers, NEW c \in Requests, Start(h, c) PROVE OrderInv'
    <2>1. rows' = rows /\ plan' = plan /\ todo' = todo /\ cur' = cur /\ contended \subseteq contended'
      BY <1>1 DEF Start, StartChange, StartRead, storeVars
    <2>2. pc'[h] \in {"check", "scan", "info"}
      BY <1>1 DEF Start, StartChange, StartRead, IInv, TypeOK, HandlersOK
    <2>3. \A g \in Handlers \ {h} : pc'[g] = pc[g] /\ call'[g] = call[g]
      BY <1>1 DEF Start, StartChange, StartRead, IInv, TypeOK, HandlersOK
    <2>4. \A g \in Handlers : NumberInv(g)'
      BY <2>1, <2>2, <2>3 DEF OrderInv, NumberInv, SegmentSteps
    <2>. QED
      BY <2>1, <2>4 DEF OrderInv
  <1>2. CASE UNCHANGED <<rows, pc, localVars>> /\ contended \subseteq contended'
    BY <1>2 DEF OrderInv, NumberInv, localVars
  <1>3. CASE Crash
    <2>1. \A g \in Handlers : pc'[g] = "idle"
      BY <1>3 DEF Crash
    <2>. QED
      BY <1>3, <2>1 DEF Crash, OrderInv, NumberInv, SegmentSteps, storeVars
  <1>. QED
    BY <1>1, <1>2, <1>3 DEF Mkdir, Lose, vars, storeVars, excuses

LEMMA NextOrder == IInv /\ IInv' /\ OrderInv /\ [Next]_vars => OrderInv'
  BY ChangeKeepsOrder, ReadKeepsOrder, OthersKeepOrder DEF Next

LEMMA InitOrder == Init => OrderInv
  BY NoRowsGapless DEF Init, OrderInv, NumberInv, SegmentSteps

LEMMA NoReadPanicFollows == IInv /\ OrderInv => NoReadPanic
  <1>. SUFFICES ASSUME IInv, OrderInv, NEW h \in Handlers, More(h), call[h].path \notin contended
                PROVE  ~Panics(plan[h], Len(out[h]))
    BY DEF NoReadPanic
  <1>1. pc[h] = "seg" /\ call[h].op = "read"
    BY CallTypes DEF More, IInv, TypeOK, HandlersOK, AtStep, WriteSteps, PurgeSteps, RenameSteps
  <1>3. Len(out[h]) \in Nat
    BY DEF IInv, TypeOK, HandlersOK
  <1>2. Gapless(plan[h])
    BY <1>1 DEF OrderInv, NumberInv, SegmentSteps
  <1>. QED
    BY <1>2, <1>3, NoPanic

(* A download never reaches past the end of its shards, though the file is *)
(* uploaded, deleted, renamed or left half uploaded meanwhile: upload      *)
(* records a segment's shards in the order of their numbers, and nothing   *)
(* else takes away less than all of them.                                  *)
THEOREM NoReadPanicAlways == Spec => []NoReadPanic
  <1>1. Spec => []OrderInv
    BY Inductive, InitOrder, NextOrder, PTL DEF Spec
  <1>. QED
    BY <1>1, Inductive, NoReadPanicFollows, PTL

-----------------------------------------------------------------------------
(***************************************************************************)
(* What is stored where.                                                   *)
(***************************************************************************)
LEMMA BlobChange ==
  ASSUME TypeOK, NEW x \in Providers, NEW p \in Paths, NEW s \in Slots, NEW b,
         blobs' = [blobs EXCEPT ![x][p][s] = b]
  PROVE  /\ \A f \in Paths \ {p} : Placed(f)' = Placed(f)
         /\ Placed(p)' \subseteq Placed(p) \cup {<<x, s>>}
         /\ b = None => Placed(p)' \subseteq Placed(p) \ {<<x, s>>}
  <1>1. \A y \in Providers, f \in Paths, t \in Slots :
          blobs'[y][f][t] = IF y = x /\ f = p /\ t = s THEN b ELSE blobs[y][f][t]
    BY DEF TypeOK, CloudOK, Blobs
  <1>2. \A f \in Paths \ {p} : Placed(f)' = Placed(f)
    BY <1>1 DEF Placed
  <1>3. Placed(p)' \subseteq Placed(p) \cup {<<x, s>>}
    BY <1>1 DEF Placed
  <1>4. b = None => Placed(p)' \subseteq Placed(p) \ {<<x, s>>}
    BY <1>1 DEF Placed
  <1>. QED
    BY <1>2, <1>3, <1>4

LEMMA NothingNamed ==
  ASSUME NEW map, NEW S, \A s \in S : map[s] = None
  PROVE  Named(map, S) = {}
  BY NoneAssumption DEF Named

(* A change taints nothing that belongs to calls in progress elsewhere.    *)
LEMMA ChangeSoils ==
  ASSUME TypeOK, NEW h \in Handlers, Change(h)
  PROVE  soiled \subseteq soiled' /\ soiled' \subseteq soiled \cup Own(h)
  <1>1. CASE UNCHANGED soiled
    BY <1>1
  <1>2. CASE soiled' = soiled \cup {call[h].path} \/ soiled' = soiled \cup Own(h)
    BY <1>2 DEF Own, Touches
  <1>3. \/ UNCHANGED soiled
        \/ soiled' = soiled \cup {call[h].path}
        \/ soiled' = soiled \cup Own(h)
    BY Zenon DEF Change, Check, Scan, Purge, Unrow, Unlink, CreateEmpty, CreateFile, CreateFails,
       Put, PutFails, Record, Log, Get, Copy, Erase, Retable, RetableFails, Acknowledge, Abandon,
       excuses, Own
  <1>. QED
    BY <1>1, <1>2, <1>3

(* The rest of what a change of h has to establish itself.                 *)
LocalBlobs(h) ==
    /\ ClearInv(h)' /\ MoveInv(h)'
    /\ \A f \in Own(h) \ (contended \cup soiled') : pc'[h] = "idle" => Neat(f)'

LEMMA SamePlaced ==
  ASSUME NEW p, \A x \in Providers : blobs'[x][p] = blobs[x][p]
  PROVE  Placed(p)' = Placed(p)
  BY DEF Placed

LEMMA SameBlobCall ==
  ASSUME BlobInv, NEW g \in Handlers,
         contended \subseteq contended', soiled \subseteq soiled',
         Placed(call[g].path)' = Placed(call[g].path), Placed(call[g].to)' = Placed(call[g].to),
         rows'[call[g].path] = rows[call[g].path], rows'[call[g].to] = rows[call[g].to],
         pc'[g] = pc[g], call'[g] = call[g], plan'[g] = plan[g], todo'[g] = todo[g],
         cur'[g] = cur[g]
  PROVE  ClearInv(g)' /\ MoveInv(g)'
  <1>1. ClearInv(g) /\ MoveInv(g)
    BY DEF BlobInv
  <1>2. ClearInv(g)'
    BY <1>1 DEF ClearInv, Neat, Named
  <1>3. MoveInv(g)'
    BY <1>1 DEF MoveInv, Neat, Named
  <1>. QED
    BY <1>2, <1>3

LEMMA OthersBlobs ==
  ASSUME IInv, BlobInv, NEW h \in Handlers, Changing(h), Frame(h), soiled \subseteq soiled',
         NEW g \in Handlers \ {h}
  PROVE  ClearInv(g)' /\ MoveInv(g)'
  <1>. DEFINE p == call[g].path
              q == call[g].to
  <1>1. CASE ~Changing(g)
    <2>1. call[g].op \notin {"write", "delete", "rename"}
      BY <1>1, IdleCall DEF IInv
    <2>. QED
      BY <2>1 DEF ClearInv, MoveInv, Frame
  <1>2. CASE Changing(g) /\ Own(g) \subseteq contended
    BY <1>2 DEF ClearInv, MoveInv, Frame, Own, Touches
  <1>3. CASE Changing(g) /\ ~(Own(g) \subseteq contended)
    <2>1. Own(g) \cap Own(h) = {}
      BY <1>3 DEF IInv, Separate
    <2>2. p \in Paths \ Own(h) /\ q \in Paths \ Own(h)
      BY <1>3, <2>1, ChangingType DEF IInv, Own, Touches
    <2>3. /\ rows'[p] = rows[p] /\ rows'[q] = rows[q] /\ contended' = contended
          /\ pc'[g] = pc[g] /\ call'[g] = call[g] /\ plan'[g] = plan[g]
          /\ todo'[g] = todo[g] /\ cur'[g] = cur[g]
          /\ \A x \in Providers : blobs'[x][p] = blobs[x][p] /\ blobs'[x][q] = blobs[x][q]
      BY <2>2 DEF Frame
    <2>4. Placed(p)' = Placed(p) /\ Placed(q)' = Placed(q)
      BY <2>3, SamePlaced
    <2>. QED
      BY <2>3, <2>4, SameBlobCall
  <1>. QED
    BY <1>1, <1>2, <1>3

LEMMA FrameKeepsBlobs ==
  ASSUME IInv, BlobInv, TypeOK', NEW h \in Handlers, Changing(h), Frame(h),
         soiled \subseteq soiled', soiled' \subseteq soiled \cup Own(h), LocalBlobs(h)
  PROVE  BlobInv'
  <1>1. ASSUME NEW f \in Paths \ (contended' \cup soiled'), Undisturbed(f)' PROVE Neat(f)'
    <2>1. f \notin contended /\ f \notin soiled
      BY <1>1 DEF Frame
    <2>2. CASE f \in Own(h)
      <3>1. ~Changing(h)'
        <4>1. h \notin Rivals({f})'
          BY <1>1 DEF Undisturbed
        <4>2. Changing(h)' => call'[h] = call[h]
          BY DEF Frame, Changing, Active
        <4>. QED
          BY <2>2, <4>1, <4>2 DEF Rivals, Own
      <3>2. pc'[h] = "idle"
        BY <3>1 DEF Frame, Changing, Active
      <3>. QED
        BY <1>1, <2>1, <2>2, <3>2 DEF LocalBlobs
    <2>3. CASE f \notin Own(h)
      <3>1. Undisturbed(f)
        <4>. SUFFICES ASSUME NEW g \in Rivals({f}) PROVE FALSE
          BY DEF Undisturbed
        <4>1. g \in Handlers \ {h} /\ Changing(g) /\ Touches(call[g]) \cap {f} # {}
          BY <2>3 DEF Rivals, Own
        <4>2. g \in Rivals({f})'
          BY <4>1 DEF Rivals, Changing, Active, Frame
        <4>. QED
          BY <1>1, <4>2 DEF Undisturbed
      <3>2. Neat(f)
        BY <2>1, <3>1 DEF BlobInv
      <3>3. rows'[f] = rows[f] /\ \A x \in Providers : blobs'[x][f] = blobs[x][f]
        BY <2>3 DEF Frame
      <3>. QED
        BY <3>2, <3>3, SamePlaced DEF Neat, Named
    <2>. QED
      BY <2>2, <2>3
  <1>2. \A g \in Handlers : ClearInv(g)' /\ MoveInv(g)'
    BY OthersBlobs DEF LocalBlobs
  <1>. QED
    BY <1>1, <1>2 DEF BlobInv

-----------------------------------------------------------------------------
(***************************************************************************)
(* Steps of a Write or a Delete.                                           *)
(***************************************************************************)
LEMMA EndBlobs ==
  ASSUME IInv, NEW h \in Handlers, Return(h)
  PROVE  ClearInv(h)' /\ MoveInv(h)'
  <1>1. call'[h] = NoCall
    BY ReturnEffect
  <1>. QED
    BY <1>1, CallTypes DEF ClearInv, MoveInv

(* At a step of its own, a Write or a Delete has only ClearInv to keep.    *)
LEMMA ClearerStep ==
  ASSUME IInv, NEW h \in Handlers,
         pc[h] \in {"check", "purge", "unrow", "drop", "unlink", "create", "put", "record"}
  PROVE  /\ call[h].op \in {"write", "delete"} /\ call[h].path \in Paths
         /\ pc[h] \in {"check", "create", "put", "record"} => call[h].op = "write"
         /\ call[h].to = call[h].path /\ Own(h) = {call[h].path}
  BY CallTypes DEF IInv, TypeOK, HandlersOK, AtStep, WriteSteps, PurgeSteps, RenameSteps,
     ReadSteps, Own, Touches

LEMMA CheckBlobs ==
  ASSUME IInv, BlobInv, NEW h \in Handlers, Check(h)
  PROVE  LocalBlobs(h)
  <1>. DEFINE p == call[h].path
  <1>1. /\ pc[h] = "check"
        /\ pc'[h] = IF files[p] # None THEN "scan" ELSE "create"
        /\ call' = call /\ rows' = rows /\ blobs' = blobs
        /\ contended' = contended /\ soiled' = soiled
    BY DEF Check, Step, storeVars, cloudVars, excuses, IInv, TypeOK, HandlersOK
  <1>2. call[h].op = "write" /\ p \in Paths
    BY <1>1, ClearerStep
  <1>3. ClearInv(h)'
    <2>. SUFFICES ASSUME p \notin contended \cup soiled
                  PROVE  /\ pc'[h] = "scan" => Neat(p)'
                         /\ pc'[h] = "create" => Placed(p)' = {}
      BY <1>1 DEF ClearInv
    <2>1. Neat(p)
      BY <1>1, <1>2 DEF BlobInv, ClearInv
    <2>2. ASSUME files[p] = None PROVE Placed(p) = {}
      <3>1. \A s \in Slots : rows[p][s] = None
        BY <1>2, <2>2 DEF IInv, RowsHaveFile, NoRows
      <3>. QED
        BY <2>1, <3>1, NothingNamed DEF Neat
    <2>. QED
      BY <1>1, <2>1, <2>2 DEF Neat, Named, Placed
  <1>. QED
    BY <1>1, <1>2, <1>3 DEF LocalBlobs, MoveInv

LEMMA ScanBlobs ==
  ASSUME IInv, BlobInv, NEW h \in Handlers, Scan(h), Changing(h)
  PROVE  LocalBlobs(h)
  <1>. DEFINE p == call[h].path
              q == call[h].to
              some == {s \in Slots : rows[p][s] # None}
  <1>1. /\ pc[h] = "scan" /\ plan'[h] = rows[p] /\ todo'[h] = some
        /\ pc'[h] = IF call[h].op = "rename" THEN IF some = {} THEN "retable" ELSE "get"
                    ELSE IF some = {} THEN "unrow" ELSE "purge"
        /\ call' = call /\ rows' = rows /\ blobs' = blobs
        /\ contended' = contended /\ soiled' = soiled
    BY DEF Scan, Step, storeVars, cloudVars, excuses, IInv, TypeOK, HandlersOK
  <1>2. p \in Paths /\ q \in Paths
    BY ChangingType DEF IInv
  <1>3. Named(rows[p], Slots) \subseteq Named(rows[p], some)
    BY NoneAssumption DEF Named
  <1>4. some = {} => Named(rows[p], some) = {}
    BY DEF Named
  <1>5. /\ Placed(p)' = Placed(p) /\ Placed(q)' = Placed(q)
        /\ Named(rows[p], some)' = Named(rows[p], some)
        /\ Named(rows[q], Slots)' = Named(rows[q], Slots)
    BY <1>1 DEF Placed, Named
  <1>6. ClearInv(h)'
    <2>. SUFFICES ASSUME call[h].op \in {"write", "delete"}, p \notin contended \cup soiled
                  PROVE  /\ Placed(p) \subseteq Named(rows[p], some)
                         /\ some = {} => Placed(p) = {}
      BY <1>1, <1>5 DEF ClearInv, Named
    <2>. QED
      BY <1>1, <1>3, <1>4 DEF BlobInv, ClearInv, Neat
  <1>7. MoveInv(h)'
    <2>. SUFFICES ASSUME call[h].op = "rename", q \notin contended
                  PROVE  /\ p \notin soiled => Placed(p) \subseteq Named(rows[p], some)
                         /\ q \notin soiled => Placed(q) \subseteq Named(rows[q], Slots)
      BY <1>1, <1>5 DEF MoveInv, Named
    <2>1. \A f \in {p, q} \ soiled : Neat(f)
      BY <1>1 DEF BlobInv, MoveInv
    <2>. QED
      BY <1>3, <2>1 DEF Neat
  <1>. QED
    BY <1>1, <1>6, <1>7 DEF LocalBlobs

LEMMA PurgeBlobs ==
  ASSUME IInv, BlobInv, NEW h \in Handlers, Purge(h)
  PROVE  LocalBlobs(h)
  <1>. SUFFICES ASSUME NEW p, p = call[h].path PROVE LocalBlobs(h)
    OBVIOUS
  <1>1. /\ pc[h] = "purge" /\ call' = call /\ plan' = plan /\ rows' = rows
        /\ contended' = contended
    BY DEF Purge, storeVars
  <1>2. call[h].op \in {"write", "delete"} /\ p \in Paths
    BY <1>1, ClearerStep
  <1>3. PICK s \in todo[h] :
          /\ todo'[h] = todo[h] \ {s}
          /\ pc'[h] = IF todo[h] = {s} THEN "unrow" ELSE "purge"
          /\ \/ blobs' = [blobs EXCEPT ![plan[h][s]][p][s] = None] /\ soiled' = soiled
             \/ soiled' = soiled \cup {p}
    BY <1>1 DEF Purge, Loop, IInv, TypeOK, HandlersOK
  <1>4. s \in Slots /\ plan[h][s] \in Providers
    BY DEF IInv, TypeOK, HandlersOK, Pointed
  <1>5. ClearInv(h)'
    <2>. SUFFICES ASSUME p \notin contended \cup soiled'
                  PROVE  /\ pc'[h] = "purge" => /\ plan[h] = rows[p]
                                                /\ Placed(p)' \subseteq Named(plan[h], todo'[h])
                         /\ pc'[h] = "unrow" => Placed(p)' = {}
      BY <1>1, <1>3 DEF ClearInv, Named
    <2>1. p \notin soiled /\ blobs' = [blobs EXCEPT ![plan[h][s]][p][s] = None]
      BY <1>3
    <2>2. plan[h] = rows[p] /\ Placed(p) \subseteq Named(plan[h], todo[h])
      BY <1>1, <1>2, <2>1 DEF BlobInv, ClearInv
    <2>3. Placed(p)' \subseteq Placed(p) \ {<<plan[h][s], s>>}
      BY <1>2, <1>4, <2>1, BlobChange DEF IInv
    <2>4. Named(plan[h], todo[h]) \ {<<plan[h][s], s>>} \subseteq Named(plan[h], todo'[h])
      BY <1>3 DEF Named
    <2>5. todo[h] = {s} => Named(plan[h], todo'[h]) = {}
      BY <1>3 DEF Named
    <2>. QED
      BY <1>3, <2>2, <2>3, <2>4, <2>5
  <1>. QED
    BY <1>1, <1>2, <1>3, <1>5 DEF LocalBlobs, MoveInv

LEMMA UnrowBlobs ==
  ASSUME IInv, BlobInv, NEW h \in Handlers, Unrow(h)
  PROVE  LocalBlobs(h)
  <1>1. /\ pc[h] \in {"unrow", "drop"} /\ pc'[h] \in {"drop", "unlink"}
        /\ call' = call /\ blobs' = blobs /\ contended' = contended /\ soiled' = soiled
    BY DEF Unrow, Step, cloudVars, localVars, excuses, IInv, TypeOK, HandlersOK
  <1>2. call[h].op \in {"write", "delete"}
    BY <1>1, ClearerStep
  <1>. QED
    BY <1>1, <1>2 DEF LocalBlobs, MoveInv, ClearInv, BlobInv, Placed

LEMMA UnlinkBlobs ==
  ASSUME IInv, BlobInv, NEW h \in Handlers, Unlink(h)
  PROVE  LocalBlobs(h)
  <1>1. /\ pc[h] = "unlink" /\ pc'[h] \in {"create", "log"}
        /\ call' = call /\ blobs' = blobs /\ contended' = contended /\ soiled' = soiled
    BY DEF Unlink, Step, cloudVars, localVars, excuses, IInv, TypeOK, HandlersOK
  <1>2. call[h].op \in {"write", "delete"}
    BY <1>1, ClearerStep
  <1>3. call[h].path \notin contended \cup soiled => Placed(call[h].path)' = {}
    BY <1>1, <1>2 DEF BlobInv, ClearInv, Placed
  <1>. QED
    BY <1>1, <1>2, <1>3 DEF LocalBlobs, MoveInv, ClearInv, Neat

(* A Write that ends before its upload leaves nothing behind.              *)
LEMMA CreateEndBlobs ==
  ASSUME IInv, BlobInv, NEW h \in Handlers, CreateEmpty(h) \/ CreateFails(h)
  PROVE  LocalBlobs(h)
  <1>1. /\ pc[h] = "create" /\ Return(h) /\ rows' = rows /\ blobs' = blobs /\ soiled' = soiled
    BY DEF CreateEmpty, CreateFails, Acknowledge, Abandon, storeVars, cloudVars
  <1>2. call[h].op = "write" /\ Own(h) = {call[h].path}
    BY <1>1, ClearerStep
  <1>3. \A f \in Own(h) \ (contended \cup soiled) : Placed(f)' = {}
    BY <1>1, <1>2 DEF BlobInv, ClearInv, Placed
  <1>. QED
    BY <1>1, <1>3, EndBlobs DEF LocalBlobs, Neat

LEMMA CreateFileBlobs ==
  ASSUME IInv, BlobInv, NEW h \in Handlers, CreateFile(h)
  PROVE  LocalBlobs(h)
  <1>1. /\ pc[h] = "create" /\ pc'[h] = "put"
        /\ call' = call /\ blobs' = blobs /\ contended' = contended /\ soiled' = soiled
    BY DEF CreateFile, Step, cloudVars, excuses, IInv, TypeOK, HandlersOK
  <1>2. call[h].op = "write"
    BY <1>1, ClearerStep
  <1>3. call[h].path \notin contended \cup soiled => Placed(call[h].path)' = {}
    BY <1>1, <1>2 DEF BlobInv, ClearInv, Placed
  <1>. QED
    BY <1>1, <1>2, <1>3 DEF LocalBlobs, MoveInv, ClearInv

LEMMA PutBlobs ==
  ASSUME IInv, BlobInv, NEW h \in Handlers, Put(h)
  PROVE  LocalBlobs(h)
  <1>. SUFFICES ASSUME NEW p, p = call[h].path PROVE LocalBlobs(h)
    OBVIOUS
  <1>1. /\ pc[h] = "put" /\ pc'[h] = "record" /\ call' = call /\ plan' = plan
        /\ contended' = contended /\ soiled' = soiled
    BY DEF Put, Step, excuses, IInv, TypeOK, HandlersOK
  <1>2. call[h].op = "write" /\ p \in Paths
    BY <1>1, ClearerStep
  <1>3. PICK s \in todo[h] :
          /\ blobs' = [blobs EXCEPT ![plan[h][s]][p][s] = call[h].ver]
          /\ todo'[h] = todo[h] \ {s}
    BY DEF Put, First, IInv, TypeOK, HandlersOK
  <1>4. s \in Slots /\ plan[h][s] \in Providers
    BY DEF IInv, TypeOK, HandlersOK, Pointed
  <1>5. Placed(p)' \subseteq Placed(p) \cup {<<plan[h][s], s>>}
    <2>1. TypeOK
      BY DEF IInv
    <2>2. PICK x \in Providers : x = plan[h][s]
      BY <1>4
    <2>3. PICK b : b = call[h].ver
      OBVIOUS
    <2>4. blobs' = [blobs EXCEPT ![x][p][s] = b]
      BY <1>3, <2>2, <2>3
    <2>5. Placed(p)' \subseteq Placed(p) \cup {<<x, s>>}
      BY <1>2, <1>4, <2>1, <2>4, BlobChange
    <2>. QED
      BY <2>2, <2>5
  <1>6. /\ <<plan[h][s], s>> \in Named(plan[h], Slots \ todo'[h])
        /\ Named(plan[h], Slots \ todo[h]) \subseteq Named(plan[h], Slots \ todo'[h])
    BY <1>3, <1>4 DEF Named
  <1>7. p \notin contended \cup soiled => Placed(p)' \subseteq Named(plan[h], Slots \ todo'[h])
    BY <1>1, <1>2, <1>5, <1>6 DEF BlobInv, ClearInv
  <1>. QED
    BY <1>1, <1>2, <1>7 DEF LocalBlobs, MoveInv, ClearInv, Named

LEMMA PutFailsBlobs ==
  ASSUME IInv, NEW h \in Handlers, PutFails(h)
  PROVE  LocalBlobs(h)
  <1>1. pc[h] = "put" /\ Return(h) /\ soiled' = soiled \cup {call[h].path}
    BY DEF PutFails, Abandon
  <1>2. Own(h) = {call[h].path}
    BY <1>1, ClearerStep
  <1>. QED
    BY <1>1, <1>2, EndBlobs DEF LocalBlobs

LEMMA RecordBlobs ==
  ASSUME IInv, IInv', BlobInv, NEW h \in Handlers, Record(h)
  PROVE  LocalBlobs(h)
  <1>. DEFINE p == call[h].path
  <1>1. /\ pc[h] = "record" /\ pc'[h] = IF todo[h] = {} THEN "log" ELSE "put"
        /\ call' = call /\ plan' = plan /\ todo' = todo /\ blobs' = blobs
        /\ contended' = contended /\ soiled' = soiled
    BY DEF Record, Step, cloudVars, localVars, excuses, IInv, TypeOK, HandlersOK
  <1>2. call[h].op = "write" /\ p \in Paths
    BY <1>1, ClearerStep
  <1>3. p \notin contended \cup soiled => Placed(p)' \subseteq Named(plan[h], Slots \ todo[h])
    BY <1>1, <1>2 DEF BlobInv, ClearInv, Placed
  <1>4. p \notin contended /\ todo[h] = {} => \A s \in Slots : rows'[p][s] = plan[h][s]
    BY <1>1, <1>2 DEF IInv, CallInv, UploadInv
  <1>5. p \notin contended \cup soiled /\ todo[h] = {} => Neat(p)'
    BY <1>1, <1>3, <1>4 DEF Neat, Named
  <1>. QED
    BY <1>1, <1>2, <1>3, <1>5 DEF LocalBlobs, MoveInv, ClearInv, Named

LEMMA LogBlobs ==
  ASSUME IInv, BlobInv, NEW h \in Handlers, Log(h), Changing(h)
  PROVE  LocalBlobs(h)
  <1>1. pc[h] = "log" /\ Return(h) /\ rows' = rows /\ blobs' = blobs /\ soiled' = soiled
    BY DEF Log, Acknowledge, cloudVars, excuses
  <1>2. ASSUME NEW f \in Own(h) \ (contended \cup soiled) PROVE Neat(f)
    <2>1. call[h].to \notin contended
      BY <1>2 DEF IInv, Separate, Own, Touches
    <2>2. CASE call[h].op = "rename"
      BY <1>1, <1>2, <2>1, <2>2 DEF BlobInv, MoveInv, Own, Touches
    <2>3. CASE call[h].op \in {"write", "delete"}
      <3>1. call[h].path = f
        BY <1>2, <2>3, ChangingType DEF IInv, Own, Touches
      <3>. QED
        BY <1>1, <1>2, <2>3, <3>1 DEF BlobInv, ClearInv
    <2>. QED
      BY <2>2, <2>3, ChangingType DEF IInv
  <1>3. \A f \in Own(h) \ (contended \cup soiled) : Neat(f)'
    BY <1>1, <1>2 DEF Neat, Placed, Named
  <1>. QED
    BY <1>1, <1>3, EndBlobs DEF LocalBlobs

-----------------------------------------------------------------------------
(***************************************************************************)
(* Steps of a Rename.                                                      *)
(***************************************************************************)
LEMMA MoverStep ==
  ASSUME IInv, NEW h \in Handlers, pc[h] \in {"get", "copy", "erase", "retable"}
  PROVE  /\ call[h].op = "rename" /\ call[h].path \in Paths /\ call[h].to \in Paths
         /\ Own(h) = {call[h].path, call[h].to}
  BY CallTypes DEF IInv, TypeOK, HandlersOK, AtStep, WriteSteps, PurgeSteps, ReadSteps, Own,
     Touches

LEMMA GetBlobs ==
  ASSUME IInv, BlobInv, NEW h \in Handlers, Get(h)
  PROVE  LocalBlobs(h)
  <1>. SUFFICES ASSUME NEW p, p = call[h].path, NEW q, q = call[h].to PROVE LocalBlobs(h)
    OBVIOUS
  <1>1. /\ pc[h] = "get" /\ call' = call /\ plan' = plan /\ rows' = rows /\ blobs' = blobs
        /\ contended' = contended
    BY DEF Get, storeVars, cloudVars
  <1>2. call[h].op = "rename" /\ p \in Paths /\ q \in Paths /\ Own(h) = {p, q}
    BY <1>1, MoverStep
  <1>3. PICK s \in todo[h] :
          LET b == blobs[plan[h][s]][p][s]
              next == IF todo[h] = {s} THEN "retable" ELSE "get"
          IN  /\ todo'[h] = todo[h] \ {s}
              /\ \/ pc'[h] = "copy" /\ cur'[h] = s /\ soiled' = soiled
                 \/ b = None /\ pc'[h] = next /\ soiled' = soiled
                 \/ pc'[h] = next /\ soiled' = soiled \cup Own(h)
    BY <1>1 DEF Get, Loop, Step, IInv, TypeOK, HandlersOK, Own
  <1>4. s \in Slots /\ plan[h][s] \in Providers
    BY DEF IInv, TypeOK, HandlersOK, Pointed
  <1>5. Placed(p)' = Placed(p) /\ Placed(q)' = Placed(q)
    BY <1>1 DEF Placed
  <1>6. MoveInv(h)'
    <2>. DEFINE taken == IF pc'[h] = "copy" THEN {s} ELSE {}
    <2>. SUFFICES ASSUME q \notin contended
                  PROVE  /\ plan[h] = rows[p]
                         /\ todo'[h] \cap taken = {}
                         /\ p # q /\ p \notin soiled' => Placed(p) \subseteq Named(plan[h], todo'[h] \cup taken)
                         /\ q \notin soiled' =>
                              Placed(q) \subseteq Named(rows[q], Slots) \cup Named(plan[h], Slots \ todo'[h])
      BY <1>1, <1>2, <1>3, <1>5 DEF MoveInv, Named
    <2>1. /\ plan[h] = rows[p]
          /\ p # q /\ p \notin soiled => Placed(p) \subseteq Named(plan[h], todo[h])
          /\ q \notin soiled =>
               Placed(q) \subseteq Named(rows[q], Slots) \cup Named(plan[h], Slots \ todo[h])
      BY <1>1, <1>2 DEF BlobInv, MoveInv
    <2>2. Named(plan[h], Slots \ todo[h]) \subseteq Named(plan[h], Slots \ todo'[h])
      BY <1>3 DEF Named
    <2>3. ASSUME p # q, p \notin soiled'
          PROVE  Placed(p) \subseteq Named(plan[h], todo'[h] \cup taken)
      <3>1. p \notin soiled /\ Placed(p) \subseteq Named(plan[h], todo[h])
        BY <1>3, <2>1, <2>3
      <3>2. CASE pc'[h] = "copy"
        <4>1. todo'[h] \cup taken = todo[h]
          BY <1>3, <3>2
        <4>. QED
          BY <3>1, <4>1
      <3>3. CASE blobs[plan[h][s]][p][s] = None
        <4>1. <<plan[h][s], s>> \notin Placed(p)
          BY <3>3 DEF Placed
        <4>2. Named(plan[h], todo[h]) \ {<<plan[h][s], s>>} \subseteq Named(plan[h], todo'[h] \cup taken)
          BY <1>3 DEF Named
        <4>. QED
          BY <3>1, <4>1, <4>2
      <3>. QED
        BY <1>2, <1>3, <2>3, <3>2, <3>3
    <2>4. soiled \subseteq soiled' /\ todo'[h] \cap taken = {}
      BY <1>3
    <2>. QED
      BY <2>1, <2>2, <2>3, <2>4
  <1>. QED
    BY <1>1, <1>2, <1>3, <1>6 DEF LocalBlobs, ClearInv

LEMMA CopyBlobs ==
  ASSUME IInv, BlobInv, NEW h \in Handlers, Copy(h)
  PROVE  LocalBlobs(h)
  <1>. SUFFICES ASSUME NEW p, p = call[h].path, NEW q, q = call[h].to, NEW s, s = cur[h],
                       NEW x, x = plan[h][s]
                PROVE  LocalBlobs(h)
    OBVIOUS
  <1>1. /\ pc[h] = "copy" /\ pc'[h] = "erase" /\ call' = call /\ plan' = plan /\ rows' = rows
        /\ todo' = todo /\ cur' = cur /\ contended' = contended
    BY DEF Copy, Step, storeVars, localVars, IInv, TypeOK, HandlersOK
  <1>2. call[h].op = "rename" /\ p \in Paths /\ q \in Paths /\ Own(h) = {p, q}
    BY <1>1, MoverStep
  <1>3. \/ blobs' = [blobs EXCEPT ![x][q][s] = held[h]] /\ soiled' = soiled
        \/ blobs' = blobs /\ soiled' = soiled
        \/ soiled' = soiled \cup Own(h)
    BY DEF Copy, Own
  <1>4. s \in Slots /\ x \in Providers
    BY <1>1 DEF IInv, TypeOK, HandlersOK, Pointed
  <1>5. MoveInv(h)'
    <2>. SUFFICES ASSUME q \notin contended
                  PROVE  /\ plan[h] = rows[p]
                         /\ todo[h] \cap {s} = {}
                         /\ p # q /\ p \notin soiled' => Placed(p)' \subseteq Named(plan[h], todo[h] \cup {s})
                         /\ q \notin soiled' =>
                              Placed(q)' \subseteq Named(rows[q], Slots) \cup Named(plan[h], Slots \ todo[h])
      BY <1>1, <1>2 DEF MoveInv, Named
    <2>1. /\ plan[h] = rows[p]
          /\ todo[h] \cap {s} = {}
          /\ p # q /\ p \notin soiled => Placed(p) \subseteq Named(plan[h], todo[h] \cup {s})
          /\ q \notin soiled =>
               Placed(q) \subseteq Named(rows[q], Slots) \cup Named(plan[h], Slots \ todo[h])
      BY <1>1, <1>2 DEF BlobInv, MoveInv
    <2>2. CASE blobs' = [blobs EXCEPT ![x][q][s] = held[h]] /\ soiled' = soiled
      <3>1. /\ p # q => Placed(p)' = Placed(p)
            /\ Placed(q)' \subseteq Placed(q) \cup {<<x, s>>}
        BY <1>2, <1>4, <2>2, BlobChange DEF IInv
      <3>2. <<x, s>> \in Named(plan[h], Slots \ todo[h])
        BY <1>4, <2>1 DEF Named
      <3>. QED
        BY <2>1, <2>2, <3>1, <3>2
    <2>3. CASE blobs' = blobs /\ soiled' = soiled
      <3>1. Placed(p)' = Placed(p) /\ Placed(q)' = Placed(q)
        BY <2>3 DEF Placed
      <3>. QED
        BY <2>1, <2>3, <3>1
    <2>4. CASE soiled' = soiled \cup Own(h)
      BY <1>2, <2>1, <2>4
    <2>. QED
      BY <1>3, <2>2, <2>3, <2>4
  <1>. QED
    BY <1>1, <1>2, <1>5 DEF LocalBlobs, ClearInv

LEMMA EraseBlobs ==
  ASSUME IInv, BlobInv, NEW h \in Handlers, Erase(h)
  PROVE  LocalBlobs(h)
  <1>. SUFFICES ASSUME NEW p, p = call[h].path, NEW q, q = call[h].to, NEW s, s = cur[h],
                       NEW x, x = plan[h][s]
                PROVE  LocalBlobs(h)
    OBVIOUS
  <1>1. /\ pc[h] = "erase" /\ pc'[h] \in {"retable", "get"} /\ call' = call /\ plan' = plan
        /\ rows' = rows /\ todo' = todo /\ contended' = contended
    BY DEF Erase, Step, storeVars, localVars, IInv, TypeOK, HandlersOK
  <1>2. call[h].op = "rename" /\ p \in Paths /\ q \in Paths /\ Own(h) = {p, q}
    BY <1>1, MoverStep
  <1>3. \/ blobs' = [blobs EXCEPT ![x][p][s] = None] /\ soiled' = soiled
        \/ blobs' = blobs /\ soiled' = soiled \cup {p}
    BY DEF Erase
  <1>4. s \in Slots /\ x \in Providers
    BY <1>1 DEF IInv, TypeOK, HandlersOK, Pointed
  <1>5. MoveInv(h)'
    <2>. SUFFICES ASSUME q \notin contended
                  PROVE  /\ plan[h] = rows[p]
                         /\ p # q /\ p \notin soiled' => Placed(p)' \subseteq Named(plan[h], todo[h])
                         /\ q \notin soiled' =>
                              Placed(q)' \subseteq Named(rows[q], Slots) \cup Named(plan[h], Slots \ todo[h])
      BY <1>1, <1>2 DEF MoveInv, Named
    <2>1. /\ plan[h] = rows[p]
          /\ p # q /\ p \notin soiled => Placed(p) \subseteq Named(plan[h], todo[h] \cup {s})
          /\ q \notin soiled =>
               Placed(q) \subseteq Named(rows[q], Slots) \cup Named(plan[h], Slots \ todo[h])
      BY <1>1, <1>2 DEF BlobInv, MoveInv
    <2>2. CASE blobs' = [blobs EXCEPT ![x][p][s] = None] /\ soiled' = soiled
      <3>1. /\ Placed(p)' \subseteq Placed(p) \ {<<x, s>>}
            /\ Placed(q)' \subseteq Placed(q)
        BY <1>2, <1>4, <2>2, BlobChange DEF IInv
      <3>2. Named(plan[h], todo[h] \cup {s}) \ {<<x, s>>} \subseteq Named(plan[h], todo[h])
        BY DEF Named
      <3>. QED
        BY <2>1, <2>2, <3>1, <3>2
    <2>3. CASE blobs' = blobs /\ soiled' = soiled \cup {p}
      <3>1. Placed(q)' = Placed(q)
        BY <2>3 DEF Placed
      <3>. QED
        BY <2>1, <2>3, <3>1
    <2>. QED
      BY <1>3, <2>2, <2>3
  <1>. QED
    BY <1>1, <1>2, <1>5 DEF LocalBlobs, ClearInv

LEMMA RetableBlobs ==
  ASSUME IInv, BlobInv, NEW h \in Handlers, Retable(h)
  PROVE  LocalBlobs(h)
  <1>. SUFFICES ASSUME NEW p, p = call[h].path, NEW q, q = call[h].to PROVE LocalBlobs(h)
    OBVIOUS
  <1>. DEFINE moved == [s \in Slots |-> IF rows[p][s] # None THEN rows[p][s] ELSE rows[q][s]]
  <1>1. /\ pc[h] = "retable" /\ pc'[h] = "log" /\ todo[h] = {} /\ ~Conflict(p, q)
        /\ rows' = [f \in Paths |-> IF f = q THEN moved ELSE IF f = p THEN NoRows ELSE rows[f]]
        /\ call' = call /\ blobs' = blobs /\ contended' = contended /\ soiled' = soiled
    BY DEF Retable, Step, cloudVars, localVars, excuses, IInv, TypeOK, HandlersOK, Pointed
  <1>2. call[h].op = "rename" /\ p \in Paths /\ q \in Paths
    BY <1>1, MoverStep
  <1>3. Placed(p)' = Placed(p) /\ Placed(q)' = Placed(q)
    BY <1>1 DEF Placed
  <1>4. Named(rows[p], Slots) \cup Named(rows[q], Slots) \subseteq Named(moved, Slots)
    <2>1. \A s \in Slots : p # q => rows[p][s] = None \/ rows[q][s] = None
      BY <1>1 DEF Conflict
    <2>2. \A s \in Slots : moved[s] = IF rows[p][s] # None THEN rows[p][s] ELSE rows[q][s]
      OBVIOUS
    <2>. HIDE DEF moved
    <2>3. ASSUME NEW a \in Named(rows[p], Slots) \cup Named(rows[q], Slots)
          PROVE  a \in Providers \X Slots /\ moved[a[2]] = a[1]
      <3>1. a \in Providers \X Slots /\ a[2] \in Slots /\ a[1] # None
        BY NoneAssumption DEF Named
      <3>2. rows[p][a[2]] = a[1] \/ rows[q][a[2]] = a[1]
        BY DEF Named
      <3>. QED
        BY <2>1, <2>2, <3>1, <3>2
    <2>. QED
      BY <2>3 DEF Named
  <1>5. MoveInv(h)'
    <2>. SUFFICES ASSUME q \notin contended, NEW f \in {p, q} \ soiled
                  PROVE  Placed(f) \subseteq Named(rows'[f], Slots)
      BY <1>1, <1>2, <1>3, SMTT(30) DEF MoveInv, Neat, Named
    <2>1. /\ plan[h] = rows[p]
          /\ p # q /\ p \notin soiled => Placed(p) \subseteq Named(plan[h], {})
          /\ q \notin soiled =>
               Placed(q) \subseteq Named(rows[q], Slots) \cup Named(plan[h], Slots)
      BY <1>1, <1>2 DEF BlobInv, MoveInv
    <2>2. CASE f = q
      <3>1. rows'[f] = moved
        BY <1>1, <1>2, <2>2
      <3>. HIDE DEF moved
      <3>. QED
        BY <1>4, <2>1, <2>2, <3>1
    <2>3. CASE f # q
      BY <2>1, <2>3 DEF Named
    <2>. QED
      BY <2>2, <2>3
  <1>. QED
    BY <1>1, <1>2, <1>5 DEF LocalBlobs, ClearInv

LEMMA RetableFailsBlobs ==
  ASSUME IInv, NEW h \in Handlers, RetableFails(h)
  PROVE  LocalBlobs(h)
  <1>1. Return(h) /\ soiled' = soiled \cup Own(h)
    BY DEF RetableFails, Abandon, Own
  <1>. QED
    BY <1>1, EndBlobs DEF LocalBlobs

LEMMA ChangeKeepsBlobs ==
  ASSUME IInv, IInv', BlobInv, NEW h \in Handlers, Change(h)
  PROVE  BlobInv'
  <1>1. Changing(h) /\ Frame(h) /\ TypeOK'
    BY ChangeSafe DEF IInv
  <1>2. soiled \subseteq soiled' /\ soiled' \subseteq soiled \cup Own(h)
    BY ChangeSoils DEF IInv
  <1>3. LocalBlobs(h)
    BY <1>1, CheckBlobs, ScanBlobs, PurgeBlobs, UnrowBlobs, UnlinkBlobs, CreateEndBlobs,
       CreateFileBlobs, PutBlobs, PutFailsBlobs, RecordBlobs, LogBlobs, GetBlobs, CopyBlobs,
       EraseBlobs, RetableBlobs, RetableFailsBlobs DEF Change
  <1>. QED
    BY <1>1, <1>2, <1>3, FrameKeepsBlobs

-----------------------------------------------------------------------------
(***************************************************************************)
(* The other steps.                                                        *)
(***************************************************************************)
LEMMA ReadKeepsBlobs ==
  ASSUME IInv, BlobInv, NEW h \in Handlers, Read(h)
  PROVE  BlobInv'
  <1>1. Quiet(h) /\ call[h].op = "read"
    BY ReadStep
  <1>2. rows' = rows /\ blobs' = blobs /\ contended' = contended /\ soiled' = soiled
    <2>1. soiled' = soiled
      BY SMTT(30)
         DEF Read, Stat, NotFound, ReadMap, Hit, Miss, Panic, Fetch, Decode, DecodeFails, Finish,
             Respond, excuses
    <2>. QED
      BY <1>1, <2>1 DEF Quiet
  <1>3. \A g \in Handlers : Changing(g)' <=> Changing(g)
    BY <1>1, CallTypes DEF Quiet, Changing, Active
  <1>4. \A g \in Handlers : Changing(g) => call'[g] = call[g]
    BY <1>1 DEF Quiet, Changing
  <1>5. \A f \in Paths : Undisturbed(f)' <=> Undisturbed(f)
    BY <1>3, <1>4 DEF Undisturbed, Rivals
  <1>6. \A f \in Paths : Neat(f)' <=> Neat(f)
    BY <1>2 DEF Neat, Placed, Named
  <1>7. ASSUME NEW g \in Handlers \ {h} PROVE ClearInv(g)' /\ MoveInv(g)'
    <2>1. /\ pc'[g] = pc[g] /\ call'[g] = call[g] /\ plan'[g] = plan[g]
          /\ todo'[g] = todo[g] /\ cur'[g] = cur[g]
      BY <1>1, <1>7 DEF Quiet
    <2>2. \A f : Placed(f)' = Placed(f)
      BY <1>2 DEF Placed
    <2>. QED
      BY <1>2, <2>1, <2>2, SameBlobCall
  <1>8. ClearInv(h)' /\ MoveInv(h)'
    BY <1>1, CallTypes DEF Quiet, ClearInv, MoveInv
  <1>. QED
    BY <1>2, <1>5, <1>6, <1>7, <1>8 DEF BlobInv

LEMMA StartKeepsBlobs ==
  ASSUME IInv, BlobInv, NEW h \in Handlers, NEW c \in Requests, Start(h, c)
  PROVE  BlobInv'
  <1>1. /\ pc[h] = "idle" /\ call'[h] = c /\ \A g \in Handlers \ {h} : call'[g] = call[g]
        /\ rows' = rows /\ blobs' = blobs /\ soiled' = soiled
        /\ plan' = plan /\ todo' = todo /\ cur' = cur
    BY DEF Start, storeVars, cloudVars, IInv, TypeOK, HandlersOK
  <1>2. /\ \A g \in Handlers \ {h} : pc'[g] = pc[g]
        /\ pc'[h] \in {"check", "scan", "info"}
        /\ contended \subseteq contended'
    BY DEF Start, StartChange, StartRead, IInv, TypeOK, HandlersOK
  <1>3. \A f \in Paths : Neat(f)' <=> Neat(f)
    BY <1>1 DEF Neat, Placed, Named
  <1>4. ASSUME NEW f \in Paths \ (contended' \cup soiled'), Undisturbed(f)' PROVE Neat(f)'
    <2>1. Undisturbed(f)
      BY <1>1, <1>2, <1>4 DEF Undisturbed, Rivals, Changing, Active
    <2>. QED
      BY <1>1, <1>2, <1>3, <1>4, <2>1 DEF BlobInv
  <1>5. ASSUME NEW g \in Handlers \ {h} PROVE ClearInv(g)' /\ MoveInv(g)'
    <2>1. \A f : Placed(f)' = Placed(f)
      BY <1>1 DEF Placed
    <2>. QED
      BY <1>1, <1>2, <1>5, <2>1, SameBlobCall
  <1>6. ClearInv(h)' /\ MoveInv(h)'
    <2>1. CASE c.op = "read"
      BY <1>1, <2>1 DEF ClearInv, MoveInv
    <2>2. CASE c.op # "read"
      <3>1. /\ c \in Mutations /\ contended' = contended \cup Taint(Touches(c))
            /\ pc'[h] = IF c.op = "write" THEN "check" ELSE "scan"
        BY <2>2, CallTypes DEF Start, StartChange, Requests, IInv, TypeOK, HandlersOK
      <3>2. c.path \in Paths /\ c.to \in Paths /\ (c.op # "rename" => c.to = c.path)
        BY <3>1, CallTypes DEF Mutations
      <3>3. \A f \in Touches(c) : f \notin contended' =>
               \A e \in Touches(c) \ soiled : Neat(e)
        <4>1. ASSUME NEW f \in Touches(c), f \notin contended', NEW e \in Touches(c) \ soiled
              PROVE  Neat(e)
          <5>1. Rivals(Touches(c)) = {} /\ Touches(c) \cap contended = {}
            BY <3>1, <4>1 DEF Taint
          <5>2. Undisturbed(e) /\ e \in Paths
            BY <3>2, <5>1 DEF Undisturbed, Rivals, Touches
          <5>. QED
            BY <4>1, <5>1, <5>2 DEF BlobInv
        <4>. QED
          BY <4>1
      <3>4. ClearInv(h)'
        BY <1>1, <1>3, <3>1, <3>2, <3>3 DEF ClearInv, Touches
      <3>5. MoveInv(h)'
        BY <1>1, <1>3, <3>1, <3>2, <3>3 DEF MoveInv, Touches
      <3>. QED
        BY <3>4, <3>5
    <2>. QED
      BY <2>1, <2>2
  <1>. QED
    BY <1>4, <1>5, <1>6 DEF BlobInv

LEMMA OthersKeepBlobs ==
  ASSUME IInv, BlobInv,
         \/ \E d \in Dirs : Mkdir(d)
         \/ \E x \in Providers : Lose(x)
         \/ Crash
         \/ UNCHANGED vars
  PROVE  BlobInv'
  <1>1. CASE /\ UNCHANGED <<rows, pc, localVars, soiled>> /\ contended \subseteq contended'
             /\ \A f \in Paths : Placed(f)' \subseteq Placed(f)
    <2>. USE DEF localVars
    <2>1. \A f \in Paths : Undisturbed(f)' <=> Undisturbed(f)
      BY <1>1 DEF Undisturbed, Rivals, Changing, Active
    <2>2. \A f \in Paths : Neat(f) => Neat(f)'
      BY <1>1 DEF Neat, Named
    <2>3. ASSUME NEW h \in Handlers PROVE ClearInv(h)'
      <3>1. CASE Changing(h)
        <4>1. call[h].path \in Paths
          BY <3>1, ChangingType DEF IInv
        <4>. QED
          BY <1>1, <2>2, <4>1 DEF BlobInv, ClearInv, Named
      <3>2. CASE ~Changing(h)
        BY <1>1, <3>2, IdleCall DEF IInv, ClearInv
      <3>. QED
        BY <3>1, <3>2
    <2>4. ASSUME NEW h \in Handlers PROVE MoveInv(h)'
      <3>1. CASE Changing(h)
        <4>1. call[h].path \in Paths /\ call[h].to \in Paths
          BY <3>1, ChangingType DEF IInv
        <4>. QED
          BY <1>1, <2>2, <4>1 DEF BlobInv, MoveInv, Named
      <3>2. CASE ~Changing(h)
        BY <1>1, <3>2, IdleCall DEF IInv, MoveInv
      <3>. QED
        BY <3>1, <3>2
    <2>. QED
      BY <1>1, <2>1, <2>2, <2>3, <2>4 DEF BlobInv
  <1>2. CASE Crash
    <2>1. \A h \in Handlers : call'[h] = NoCall
      BY <1>2 DEF Crash
    <2>2. \A h \in Handlers : ClearInv(h)' /\ MoveInv(h)'
      BY <2>1, CallTypes DEF ClearInv, MoveInv
    <2>3. /\ rows' = rows /\ blobs' = blobs /\ contended' = contended
          /\ soiled' = soiled \cup UNION {Touches(call[h]) : h \in {g \in Handlers : Changing(g)}}
      BY <1>2 DEF Crash, storeVars, cloudVars
    <2>4. \A f \in Paths \ (contended \cup soiled') : Undisturbed(f) /\ f \notin soiled
      BY <2>3 DEF Undisturbed, Rivals
    <2>. QED
      BY <2>2, <2>3, <2>4 DEF BlobInv, Neat, Placed, Named
  <1>3. ASSUME NEW x \in Providers, Lose(x)
        PROVE  /\ UNCHANGED <<rows, pc, localVars, soiled, contended>>
               /\ \A f \in Paths : Placed(f)' \subseteq Placed(f)
    <2>1. /\ UNCHANGED <<rows, pc, localVars, soiled, contended>>
          /\ blobs' = [blobs EXCEPT ![x] = [p \in Paths |-> NoRows]]
      BY <1>3 DEF Lose, storeVars, excuses
    <2>2. \A y \in Providers, f \in Paths, s \in Slots :
             blobs'[y][f][s] = IF y = x THEN None ELSE blobs[y][f][s]
      BY <1>3, <2>1 DEF IInv, TypeOK, CloudOK, Blobs, NoRows
    <2>. QED
      BY <2>1, <2>2 DEF Placed
  <1>4. ASSUME NEW d \in Dirs, Mkdir(d)
        PROVE  /\ UNCHANGED <<rows, pc, localVars, soiled, blobs>> /\ contended \subseteq contended'
    BY <1>4 DEF Mkdir, cloudVars
  <1>5. UNCHANGED vars => UNCHANGED <<rows, pc, localVars, soiled, contended, blobs>>
    BY DEF vars, storeVars, cloudVars, excuses
  <1>6. UNCHANGED blobs => \A f \in Paths : Placed(f)' = Placed(f)
    BY DEF Placed
  <1>. QED
    BY <1>1, <1>2, <1>3, <1>4, <1>5, <1>6

LEMMA NextBlobs == IInv /\ IInv' /\ BlobInv /\ [Next]_vars => BlobInv'
  BY ChangeKeepsBlobs, ReadKeepsBlobs, StartKeepsBlobs, OthersKeepBlobs DEF Next

LEMMA InitBlobs == Init => BlobInv
  <1>. SUFFICES ASSUME Init PROVE BlobInv
    OBVIOUS
  <1>1. \A f \in Paths : Placed(f) = {}
    BY DEF Init, Placed, NoRows
  <1>2. \A h \in Handlers : ClearInv(h) /\ MoveInv(h)
    BY CallTypes DEF Init, ClearInv, MoveInv
  <1>. QED
    BY <1>1, <1>2 DEF BlobInv, Neat

(* When no call is changing a path, every shard stored under its keys is   *)
(* the one its row points to, unless a failed backend call or a crash left *)
(* it behind: deleteShards and Rename miss none of the shards they visit,  *)
(* and Write stores none that it does not record.                          *)
THEOREM NoLeakAlways == Spec => []NoLeak
  <1>1. Spec => []BlobInv
    BY Inductive, InitBlobs, NextBlobs, PTL DEF Spec
  <1>2. BlobInv => NoLeak
    <2>. SUFFICES ASSUME BlobInv, NEW p \in Paths \ (contended \cup soiled), Undisturbed(p),
                         NEW x \in Providers, NEW s \in Slots, blobs[x][p][s] # None
                  PROVE  rows[p][s] = x
      BY DEF NoLeak
    <2>1. <<x, s>> \in Placed(p)
      BY DEF Placed
    <2>2. <<x, s>> \in Named(rows[p], Slots)
      BY <2>1 DEF BlobInv, Neat
    <2>. QED
      BY <2>2 DEF Named
  <1>. QED
    BY <1>1, <1>2, PTL

-----------------------------------------------------------------------------
(***************************************************************************)
(* The replay of the log, record by record.  FoldLeft is a recursion on    *)
(* sets of positions: a function that satisfies its equation exists, any   *)
(* two agree on the positions they share, and so the replay of a longer    *)
(* log is that of the shorter one and a last step.                         *)
(***************************************************************************)
Absent == [p \in Paths |-> "absent"]

IsFold(g, s, D) ==
    g = [S \in SUBSET D |-> IF S = {} THEN Absent
                            ELSE Replayed(g[S \ {Max(S)}], s[Max(S)])]

LEMMA FoldIs ==
  ASSUME NEW s
  PROVE  FoldLeft(Replayed, Absent, s) = (CHOOSE g : IsFold(g, s, DOMAIN s))[DOMAIN s]
  BY Zenon DEF FoldLeft, MapThenFoldSet, IsFold

LEMMA MaxUpTo ==
  ASSUME NEW k \in Nat, NEW S \in SUBSET (1 .. k), S # {}
  PROVE  Max(S) \in S /\ \A i \in S : i <= Max(S)
  <1>. DEFINE B == {n \in Nat : \A i \in S : i <= n}
  <1>1. B # {}
    BY k \in B
  <1>2. PICK n \in B : \A m \in B : n <= m
    <2>. HIDE DEF B
    <2>. QED
      BY <1>1, LeastExists, B \subseteq Nat DEF B
  <1>3. n \in S
    <2>. SUFFICES ASSUME n \notin S PROVE FALSE
      OBVIOUS
    <2>1. n - 1 \in B
      <3>1. \A i \in S : i \in Nat /\ i >= 1 /\ i <= n /\ i # n
        OBVIOUS
      <3>2. PICK i \in S : TRUE
        OBVIOUS
      <3>3. n \in Nat /\ n >= 1
        BY <3>1, <3>2
      <3>4. n - 1 \in Nat /\ \A j \in S : j <= n - 1
        BY <3>1, <3>3
      <3>. QED
        BY <3>4
    <2>2. n <= n - 1
      BY <1>2, <2>1
    <2>. QED
      BY <2>2
  <1>4. \A i \in S : n >= i
    BY <1>2
  <1>5. \E m \in S : \A i \in S : m >= i
    BY <1>3, <1>4
  <1>6. Max(S) \in S /\ \A i \in S : Max(S) >= i
    BY <1>5 DEF Max
  <1>. QED
    BY <1>6

LEMMA UpTo ==
  ASSUME NEW k \in Nat, k > 0
  PROVE  /\ 1 .. k # {} /\ Max(1 .. k) = k /\ (1 .. k) \ {k} = 1 .. k - 1
  <1>. DEFINE S == 1 .. k
  <1>1. S \in SUBSET (1 .. k) /\ k \in S /\ S # {} /\ \A i \in S : i \in Nat /\ i <= k
    OBVIOUS
  <1>2. Max(S) \in S /\ \A i \in S : i <= Max(S)
    <2>. HIDE DEF S
    <2>. QED
      BY <1>1, MaxUpTo
  <1>3. Max(S) \in Nat /\ Max(S) <= k /\ k <= Max(S)
    <2>. HIDE DEF S
    <2>. QED
      BY <1>1, <1>2
  <1>4. Max(S) = k
    <2>. HIDE DEF S
    <2>. QED
      BY <1>3
  <1>5. (1 .. k) \ {k} = 1 .. k - 1
    OBVIOUS
  <1>. QED
    BY <1>1, <1>4, <1>5

FoldedAt(g, s, S) ==
    g[S] = IF S = {} THEN Absent ELSE Replayed(g[S \ {Max(S)}], s[Max(S)])

LEMMA FoldAt ==
  ASSUME NEW g, NEW s, NEW D, IsFold(g, s, D), NEW S \in SUBSET D
  PROVE  FoldedAt(g, s, S)
  <1>. DEFINE G == [T \in SUBSET D |-> IF T = {} THEN Absent
                                       ELSE Replayed(g[T \ {Max(T)}], s[Max(T)])]
  <1>1. g = G
    BY DEF IsFold
  <1>2. G[S] = IF S = {} THEN Absent ELSE Replayed(g[S \ {Max(S)}], s[Max(S)])
    OBVIOUS
  <1>. HIDE DEF G
  <1>. QED
    BY <1>1, <1>2, Zenon DEF FoldedAt

LEMMA FoldUpTo ==
  ASSUME NEW g, NEW s, NEW n \in Nat, IsFold(g, s, 1 .. n), NEW k \in 1 .. n
  PROVE  g[1 .. k] = Replayed(g[1 .. k - 1], s[k])
  <1>. DEFINE S == 1 .. k
  <1>1. S \in SUBSET (1 .. n)
    OBVIOUS
  <1>2. k \in Nat /\ k > 0
    OBVIOUS
  <1>3. S # {} /\ Max(S) = k /\ S \ {k} = 1 .. k - 1
    BY <1>2, UpTo
  <1>. HIDE DEF S
  <1>4. FoldedAt(g, s, S)
    BY <1>1, FoldAt
  <1>. QED
    BY <1>3, <1>4, Zenon DEF S, FoldedAt

LEMMA FoldExists ==
  ASSUME NEW s, NEW k \in Nat
  PROVE  \E g : IsFold(g, s, 1 .. k)
  <1>. DEFINE B == {n \in Nat : ~ \E g : IsFold(g, s, 1 .. n)}
  <1>. SUFFICES ASSUME B # {} PROVE FALSE
    OBVIOUS
  <1>1. PICK n \in B : \A m \in B : n <= m
    <2>. HIDE DEF B
    <2>. QED
      BY LeastExists, B \subseteq Nat DEF B
  <1>2. n \in Nat /\ ~ \E g : IsFold(g, s, 1 .. n)
    OBVIOUS
  <1>3. CASE n = 0
    <2>. DEFINE g == [S \in SUBSET {} |-> Absent]
    <2>1. 1 .. n = {}
      BY <1>3
    <2>2. IsFold(g, s, {})
      BY Zenon DEF IsFold
    <2>. QED
      BY <1>2, <2>1, <2>2
  <1>4. CASE n > 0
    <2>1. n - 1 \in Nat /\ n - 1 \notin B
      BY <1>1, <1>2, <1>4
    <2>2. PICK g : IsFold(g, s, 1 .. n - 1)
      BY <2>1
    <2>. DEFINE h == [S \in SUBSET (1 .. n) |-> IF n \in S THEN Replayed(g[S \ {n}], s[n])
                                                ELSE g[S]]
    <2>. HIDE DEF B
    <2>3. ASSUME NEW S \in SUBSET (1 .. n)
          PROVE  h[S] = IF S = {} THEN Absent ELSE Replayed(h[S \ {Max(S)}], s[Max(S)])
      <3>1. CASE n \in S
        <4>1. Max(S) = n
          <5>1. Max(S) \in S /\ n <= Max(S)
            <6>. HIDE DEF h
            <6>. QED
              BY <1>2, <3>1, MaxUpTo
          <5>2. Max(S) \in 1 .. n
            BY <5>1
          <5>. QED
            BY <1>2, <5>1, <5>2
        <4>2. S \ {n} \in SUBSET (1 .. n) /\ n \notin S \ {n}
          OBVIOUS
        <4>3. h[S \ {n}] = g[S \ {n}]
          BY <4>2
        <4>4. h[S] = Replayed(g[S \ {n}], s[n])
          BY <3>1
        <4>. HIDE DEF h
        <4>. QED
          BY <3>1, <4>1, <4>3, <4>4
      <3>2. CASE n \notin S
        <4>1. S \in SUBSET (1 .. n - 1)
          BY <1>2, <3>2
        <4>2. h[S] = g[S]
          BY <3>2
        <4>3. h[S \ {Max(S)}] = g[S \ {Max(S)}]
          <5>1. S \ {Max(S)} \in SUBSET (1 .. n) /\ n \notin S \ {Max(S)}
            BY <3>2
          <5>. QED
            BY <5>1
        <4>. HIDE DEF h
        <4>4. FoldedAt(g, s, S)
          BY <2>2, <4>1, FoldAt
        <4>. QED
          BY <4>2, <4>3, <4>4, Zenon DEF FoldedAt
      <3>. QED
        BY <3>1, <3>2
    <2>4. h = [S \in SUBSET (1 .. n) |-> h[S]]
      OBVIOUS
    <2>. HIDE DEF h
    <2>5. IsFold(h, s, 1 .. n)
      BY <2>3, <2>4, Zenon DEF IsFold
    <2>. QED
      BY <1>2, <2>5
  <1>. QED
    BY <1>2, <1>3, <1>4

LEMMA FoldsAgree ==
  ASSUME NEW s, NEW t, NEW g, NEW h, NEW n \in Nat, NEW m \in Nat, n <= m,
         IsFold(g, s, 1 .. n), IsFold(h, t, 1 .. m),
         \A i \in 1 .. n : s[i] = t[i]
  PROVE  g[1 .. n] = h[1 .. n]
  <1>. DEFINE B == {k \in Nat : k <= n /\ g[1 .. k] # h[1 .. k]}
  <1>. SUFFICES ASSUME B # {} PROVE FALSE
    OBVIOUS
  <1>1. PICK k \in B : \A j \in B : k <= j
    <2>. HIDE DEF B
    <2>. QED
      BY LeastExists, B \subseteq Nat DEF B
  <1>2. k \in Nat /\ k <= n /\ g[1 .. k] # h[1 .. k]
    OBVIOUS
  <1>3. CASE k = 0
    <2>1. 1 .. k = {} /\ {} \in SUBSET (1 .. n) /\ {} \in SUBSET (1 .. m)
      BY <1>3
    <2>2. g[{}] = Absent /\ h[{}] = Absent
      BY <2>1, FoldAt, Zenon DEF FoldedAt
    <2>. QED
      BY <1>2, <2>1, <2>2
  <1>4. CASE k > 0
    <2>1. g[1 .. k - 1] = h[1 .. k - 1]
      <3>1. k - 1 \in Nat /\ k - 1 <= n /\ ~(k <= k - 1)
        BY <1>2, <1>4
      <3>2. k - 1 \notin B
        BY <1>1, <3>1
      <3>. QED
        BY <3>1, <3>2
    <2>. HIDE DEF B
    <2>2. k \in 1 .. n /\ k \in 1 .. m /\ s[k] = t[k]
      BY <1>2, <1>4
    <2>3. g[1 .. k] = Replayed(g[1 .. k - 1], s[k])
      BY <2>2, FoldUpTo
    <2>4. h[1 .. k] = Replayed(h[1 .. k - 1], t[k])
      BY <2>2, FoldUpTo
    <2>. QED
      BY <1>2, <2>1, <2>2, <2>3, <2>4, Zenon
  <1>. QED
    BY <1>2, <1>3, <1>4

LEMMA FoldEmpty == FoldLeft(Replayed, Absent, << >>) = Absent
  <1>1. DOMAIN << >> = 1 .. 0 /\ 1 .. 0 = {}
    OBVIOUS
  <1>2. IsFold(CHOOSE g : IsFold(g, << >>, 1 .. 0), << >>, 1 .. 0)
    BY FoldExists, Zenon
  <1>. QED
    BY <1>1, <1>2, FoldIs, FoldAt DEF FoldedAt

LEMMA FoldAppend ==
  ASSUME NEW R, NEW s \in Seq(R), NEW r
  PROVE  FoldLeft(Replayed, Absent, Append(s, r))
            = Replayed(FoldLeft(Replayed, Absent, s), r)
  <1>. DEFINE n == Len(s)
              t == Append(s, r)
              g == CHOOSE f : IsFold(f, s, 1 .. n)
              h == CHOOSE f : IsFold(f, t, 1 .. n + 1)
  <1>1. /\ n \in Nat /\ n + 1 \in Nat
        /\ DOMAIN s = 1 .. n /\ DOMAIN t = 1 .. n + 1
        /\ t[n + 1] = r /\ \A i \in 1 .. n : s[i] = t[i]
    OBVIOUS
  <1>2. IsFold(g, s, 1 .. n)
    BY <1>1, FoldExists, Zenon
  <1>3. IsFold(h, t, 1 .. n + 1)
    BY <1>1, FoldExists, Zenon
  <1>4. FoldLeft(Replayed, Absent, s) = g[1 .. n]
    BY <1>1, FoldIs, Zenon
  <1>5. FoldLeft(Replayed, Absent, t) = h[1 .. n + 1]
    BY <1>1, FoldIs, Zenon
  <1>. HIDE DEF n, t, g, h
  <1>6. n <= n + 1
    BY <1>1
  <1>7. g[1 .. n] = h[1 .. n]
    BY <1>1, <1>2, <1>3, <1>6, FoldsAgree
  <1>8. n + 1 \in 1 .. n + 1 /\ (n + 1) - 1 = n
    BY <1>1
  <1>9. h[1 .. n + 1] = Replayed(h[1 .. (n + 1) - 1], t[n + 1])
    BY <1>1, <1>3, <1>8, FoldUpTo
  <1>10. h[1 .. n + 1] = Replayed(h[1 .. n], r)
    BY <1>1, <1>8, <1>9, Zenon
  <1>. QED
    BY <1>4, <1>5, <1>7, <1>10 DEF t

-----------------------------------------------------------------------------
(***************************************************************************)
(* What the log tells, in the middle of each call.                         *)
(***************************************************************************)
Marks == {"absent", "present", "confused"}

(* A record speaks of its own paths.                                       *)
LEMMA ReplayedEffect ==
  ASSUME NEW told \in [Paths -> Marks], NEW op \in LogRecords
  PROVE  /\ Replayed(told, op) \in [Paths -> Marks]
         /\ \A f \in Paths \ {op.path, op.to} : Replayed(told, op)[f] = told[f]
         /\ op.type = "OpFileCreate" /\ told[op.path] = "absent" =>
               Replayed(told, op)[op.path] = "present"
         /\ op.type = "OpFileUpdate" /\ told[op.path] = "present" =>
               Replayed(told, op)[op.path] = "present"
         /\ op.type = "OpFileDelete" => Replayed(told, op)[op.path] = "absent"
         /\ op.type = "OpFileRename" =>
               Replayed(told, op) = IF told[op.path] # "present" \/ op.path = op.to THEN told
                  ELSE [told EXCEPT ![op.path] = "absent",
                                    ![op.to] = IF @ = "absent" THEN "present" ELSE "confused"]
  <1>0. op.path \in Paths /\ op.to \in Paths
    BY DEF LogRecords
  <1>1. CASE op.type = "OpFileCreate"
    BY <1>0, <1>1 DEF Replayed, Marks
  <1>2. CASE op.type = "OpFileUpdate"
    BY <1>0, <1>2 DEF Replayed, Marks
  <1>3. CASE op.type = "OpFileDelete"
    BY <1>0, <1>3 DEF Replayed, Marks
  <1>4. CASE op.type = "OpFileRename"
    BY <1>0, <1>4 DEF Replayed, Marks
  <1>. QED
    BY <1>1, <1>2, <1>3, <1>4 DEF LogRecords

(* What it says of them depends on what was told of them.                  *)
LEMMA ReplayedSame ==
  ASSUME NEW told \in [Paths -> Marks], NEW told2 \in [Paths -> Marks],
         NEW op \in LogRecords,
         told[op.path] = told2[op.path], told[op.to] = told2[op.to],
         NEW f \in {op.path, op.to}
  PROVE  Replayed(told, op)[f] = Replayed(told2, op)[f]
  <1>0. op.path \in Paths /\ op.to \in Paths
    BY DEF LogRecords
  <1>1. CASE op.type = "OpFileCreate"
    BY <1>0, <1>1 DEF Replayed
  <1>2. CASE op.type = "OpFileUpdate"
    BY <1>0, <1>2 DEF Replayed
  <1>3. CASE op.type = "OpFileDelete"
    BY <1>0, <1>3 DEF Replayed
  <1>4. CASE op.type = "OpFileRename"
    BY <1>0, <1>4 DEF Replayed
  <1>. QED
    BY <1>1, <1>2, <1>3, <1>4 DEF LogRecords

LEMMA ToldSame == log' = log => Told' = Told
  BY DEF Told

LEMMA ToldMore ==
  ASSUME TypeOK, NEW r, log' = Append(log, r)
  PROVE  Told' = Replayed(Told, r)
  <1>1. Told = FoldLeft(Replayed, Absent, log)
    BY Zenon DEF Told, Absent
  <1>2. Told' = FoldLeft(Replayed, Absent, Append(log, r))
    BY Zenon DEF Told, Absent
  <1>3. log \in Seq(LogRecords)
    BY DEF TypeOK, StoreOK
  <1>. QED
    BY <1>1, <1>2, <1>3, FoldAppend, Zenon

LEMMA LogRecordType ==
  ASSUME TypeOK, NEW h \in Handlers, Changing(h)
  PROVE  /\ LogRecord(h) \in LogRecords
         /\ LogRecord(h).path = call[h].path /\ LogRecord(h).to = call[h].to
         /\ LogRecord(h).type = OpType(h)
  <1>1. call[h].path \in Paths /\ call[h].to \in Paths
    BY ChangingType
  <1>2. OpType(h) \in {"OpFileCreate", "OpFileUpdate", "OpFileDelete", "OpFileRename"}
    BY DEF OpType
  <1>. QED
    BY <1>1, <1>2 DEF LogRecord, LogRecords

(* A change logs nothing but its own record, adds only paths of its own to *)
(* unlogged, and existed is a variable of the handler's.                   *)
LEMMA ChangeLogs ==
  ASSUME TypeOK, NEW h \in Handlers, Change(h)
  PROVE  /\ log' = log \/ log' = Append(log, LogRecord(h))
         /\ unlogged \subseteq unlogged' /\ unlogged' \subseteq unlogged \cup Own(h)
         /\ \A g \in Handlers \ {h} : existed'[g] = existed[g]
  <1>1. \/ UNCHANGED unlogged
        \/ unlogged' = unlogged \cup {call[h].path}
        \/ unlogged' = unlogged \cup Own(h)
    BY Zenon DEF Change, Check, Scan, Purge, Unrow, Unlink, CreateEmpty, CreateFile, CreateFails,
       Put, PutFails, Record, Log, Get, Copy, Erase, Retable, RetableFails, Acknowledge, Abandon,
       excuses, Own
  <1>2. log' = log \/ log' = Append(log, LogRecord(h))
    BY Zenon DEF Change, Check, Scan, Purge, Unrow, Unlink, CreateEmpty, CreateFile, CreateFails,
       Put, PutFails, Record, Log, Get, Copy, Erase, Retable, RetableFails, storeVars, LogRecord
  <1>3. \/ UNCHANGED existed
        \/ Check(h)
        \/ Return(h)
    BY Zenon DEF Change, Scan, Purge, Unrow, Unlink, CreateEmpty, CreateFile, CreateFails,
       Put, PutFails, Record, Log, Get, Copy, Erase, Retable, RetableFails, Acknowledge, Abandon,
       localVars
  <1>4. \A g \in Handlers \ {h} : existed'[g] = existed[g]
    BY <1>3 DEF Check, Return, TypeOK, HandlersOK
  <1>. QED
    BY <1>1, <1>2, <1>4 DEF Own, Touches

(* The rest of what a change of h has to establish itself.                 *)
LocalLog(h) ==
    /\ RecordInv(h)'
    /\ \A f \in Own(h) \ (contended \cup unlogged') : pc'[h] = "idle" => Told'[f] = Status(f)'

LEMMA OthersLog ==
  ASSUME IInv, LogInv, NEW h \in Handlers, Changing(h), Frame(h),
         unlogged \subseteq unlogged', unlogged' \subseteq unlogged \cup Own(h),
         \A g \in Handlers \ {h} : existed'[g] = existed[g],
         Told' \in [Paths -> Marks],
         \A f \in Paths \ Own(h) : Told'[f] = Told[f],
         NEW g \in Handlers \ {h}
  PROVE  RecordInv(g)'
  <1>1. CASE ~Changing(g)
    BY <1>1 DEF RecordInv, Changing, Active, Frame
  <1>2. CASE Changing(g) /\ Own(g) \subseteq contended
    BY <1>2 DEF RecordInv, Frame, Own, Touches
  <1>3. CASE Changing(g) /\ ~(Own(g) \subseteq contended)
    <2>. SUFFICES ASSUME NEW p, p = call[g].path, NEW q, q = call[g].to PROVE RecordInv(g)'
      OBVIOUS
    <2>1. Own(g) \cap Own(h) = {}
      BY <1>3 DEF IInv, Separate
    <2>2. p \in Paths \ Own(h) /\ q \in Paths \ Own(h)
      BY <1>3, <2>1, ChangingType DEF IInv, Own, Touches
    <2>3. /\ contended' = contended /\ pc'[g] = pc[g] /\ call'[g] = call[g]
          /\ existed'[g] = existed[g] /\ Changing(g)'
          /\ files'[p] = files[p] /\ files'[q] = files[q]
      BY <1>3, <2>2 DEF Frame, Changing, Active
    <2>4. /\ Told'[p] = Told[p] /\ Told'[q] = Told[q]
          /\ Status(p)' = Status(p) /\ Status(q)' = Status(q)
          /\ p \in unlogged' <=> p \in unlogged
          /\ q \in unlogged' <=> q \in unlogged
      BY <2>2, <2>3 DEF Status
    <2>5. LogRecord(g)' = LogRecord(g)
      BY <2>3 DEF LogRecord, OpType
    <2>6. \A f \in {p, q} : Replayed(Told, LogRecord(g))'[f] = Replayed(Told, LogRecord(g))[f]
      <3>1. LogRecord(g) \in LogRecords /\ LogRecord(g).path = p /\ LogRecord(g).to = q
        BY <1>3, LogRecordType DEF IInv
      <3>2. Told \in [Paths -> Marks]
        BY DEF LogInv, Marks
      <3>3. Replayed(Told, LogRecord(g))' = Replayed(Told', LogRecord(g))
        BY <2>5 DEF Replayed
      <3>. QED
        BY <2>4, <3>1, <3>2, <3>3, ReplayedSame
    <2>7. RecordInv(g)
      BY DEF LogInv
    <2>. QED
      BY <1>3, <2>3, <2>4, <2>6, <2>7 DEF RecordInv
  <1>. QED
    BY <1>1, <1>2, <1>3

LEMMA FrameKeepsLog ==
  ASSUME IInv, LogInv, NEW h \in Handlers, Changing(h), Change(h), Frame(h), LocalLog(h)
  PROVE  LogInv'
  <1>1. /\ unlogged \subseteq unlogged' /\ unlogged' \subseteq unlogged \cup Own(h)
        /\ \A g \in Handlers \ {h} : existed'[g] = existed[g]
    BY ChangeLogs DEF IInv
  <1>2. Told' \in [Paths -> Marks] /\ \A f \in Paths \ Own(h) : Told'[f] = Told[f]
    <2>1. Told \in [Paths -> Marks]
      BY DEF LogInv, Marks
    <2>2. CASE log' = log
      BY <2>1, <2>2, ToldSame
    <2>3. CASE log' = Append(log, LogRecord(h))
      <3>1. Told' = Replayed(Told, LogRecord(h))
        BY <2>3, ToldMore DEF IInv
      <3>2. LogRecord(h) \in LogRecords /\ Own(h) = {LogRecord(h).path, LogRecord(h).to}
        BY LogRecordType DEF IInv, Own, Touches
      <3>. QED
        BY <2>1, <3>1, <3>2, ReplayedEffect
    <2>. QED
      BY <2>2, <2>3, ChangeLogs DEF IInv
  <1>3. ASSUME NEW f \in Paths \ (contended' \cup unlogged'), Undisturbed(f)'
        PROVE  Told'[f] = Status(f)'
    <2>1. f \notin contended /\ f \notin unlogged
      BY <1>1, <1>3 DEF Frame
    <2>2. CASE f \in Own(h)
      <3>1. ~Changing(h)'
        <4>1. h \notin Rivals({f})'
          BY <1>3 DEF Undisturbed
        <4>2. Changing(h)' => call'[h] = call[h]
          BY DEF Frame, Changing, Active
        <4>. QED
          BY <2>2, <4>1, <4>2 DEF Rivals, Own
      <3>2. pc'[h] = "idle"
        BY <3>1 DEF Frame, Changing, Active
      <3>. QED
        BY <1>3, <2>1, <2>2, <3>2 DEF LocalLog
    <2>3. CASE f \notin Own(h)
      <3>1. Undisturbed(f)
        <4>. SUFFICES ASSUME NEW g \in Rivals({f}) PROVE FALSE
          BY DEF Undisturbed
        <4>1. g \in Handlers \ {h} /\ Changing(g) /\ Touches(call[g]) \cap {f} # {}
          BY <2>3 DEF Rivals, Own
        <4>2. g \in Rivals({f})'
          BY <4>1 DEF Rivals, Changing, Active, Frame
        <4>. QED
          BY <1>3, <4>2 DEF Undisturbed
      <3>2. Told[f] = Status(f)
        BY <2>1, <3>1 DEF LogInv, LogMatchesStore, Status
      <3>3. files'[f] = files[f]
        BY <2>3 DEF Frame
      <3>. QED
        BY <1>2, <2>3, <3>2, <3>3 DEF Status
    <2>. QED
      BY <2>2, <2>3
  <1>4. \A g \in Handlers : RecordInv(g)'
    BY <1>1, <1>2, OthersLog DEF LocalLog
  <1>. QED
    BY <1>2, <1>3, <1>4 DEF LogInv, LogMatchesStore, Status, Marks

-----------------------------------------------------------------------------
LEMMA EndLog ==
  ASSUME NEW h \in Handlers, pc'[h] = "idle"
  PROVE  RecordInv(h)'
  BY DEF RecordInv, Changing, Active

(* A call that fails, or writes an empty file, leaves its paths unlogged.  *)
LEMMA UnloggedEnd ==
  ASSUME IInv, NEW h \in Handlers, Changing(h),
         CreateEmpty(h) \/ CreateFails(h) \/ PutFails(h) \/ RetableFails(h)
  PROVE  LocalLog(h)
  <1>1. Return(h) /\ unlogged' = unlogged \cup Own(h)
    <2>1. CASE CreateEmpty(h)
      <3>1. Return(h) /\ unlogged' = unlogged \cup {call[h].path} /\ pc[h] = "create"
        BY <2>1 DEF CreateEmpty, Acknowledge
      <3>. QED
        BY <3>1, ClearerStep
    <2>2. CASE CreateFails(h) \/ PutFails(h) \/ RetableFails(h)
      BY <2>2 DEF CreateFails, PutFails, RetableFails, Abandon, Own
    <2>. QED
      BY <2>1, <2>2
  <1>2. pc'[h] = "idle"
    BY <1>1, ReturnEffect
  <1>. QED
    BY <1>1, <1>2, EndLog DEF LocalLog

(* A step within the loops changes nothing that the record depends on.     *)
LEMMA InnerLog ==
  ASSUME IInv, LogInv, NEW h \in Handlers, Changing(h),
         UNCHANGED <<files, log, call, existed, contended, unlogged>>,
         pc[h] # "log", pc'[h] \notin {"check", "log", "idle"},
         pc[h] # "check"
  PROVE  LocalLog(h)
  <1>1. Told' = Told
    BY ToldSame
  <1>2. RecordInv(h) /\ Changing(h)'
    BY DEF LogInv, Changing, Active
  <1>3. \A f : Status(f)' = Status(f)
    BY DEF Status
  <1>. QED
    BY <1>1, <1>2, <1>3 DEF LocalLog, RecordInv

LEMMA CheckLog ==
  ASSUME IInv, LogInv, NEW h \in Handlers, Check(h)
  PROVE  LocalLog(h)
  <1>. SUFFICES ASSUME NEW p, p = call[h].path PROVE LocalLog(h)
    OBVIOUS
  <1>1. /\ pc[h] = "check" /\ pc'[h] \in {"scan", "create"}
        /\ existed'[h] = (files[p] # None)
        /\ UNCHANGED <<files, log, call, contended, unlogged>>
    BY DEF Check, Step, storeVars, excuses, IInv, TypeOK, HandlersOK
  <1>2. call[h].op = "write" /\ p \in Paths /\ call[h].to = p
    BY <1>1, ClearerStep
  <1>3. Told' = Told
    BY <1>1, ToldSame
  <1>4. Changing(h)
    BY <1>1, <1>2 DEF Changing, Active
  <1>5. p \notin contended /\ p \notin unlogged => Told[p] = Status(p)
    BY <1>1, <1>2, <1>4 DEF LogInv, RecordInv
  <1>. QED
    BY <1>1, <1>2, <1>3, <1>5 DEF LocalLog, RecordInv, Status

LEMMA UnlinkLog ==
  ASSUME IInv, LogInv, NEW h \in Handlers, Unlink(h), Changing(h)
  PROVE  LocalLog(h)
  <1>. SUFFICES ASSUME NEW p, p = call[h].path PROVE LocalLog(h)
    OBVIOUS
  <1>1. /\ pc[h] = "unlink" /\ files' = [files EXCEPT ![p] = None]
        /\ pc'[h] = IF call[h].op = "write" THEN "create" ELSE "log"
        /\ UNCHANGED <<log, call, existed, contended, unlogged>>
    BY DEF Unlink, Step, localVars, excuses, IInv, TypeOK, HandlersOK
  <1>2. call[h].op \in {"write", "delete"} /\ p \in Paths /\ call[h].to = p
    BY <1>1, ClearerStep
  <1>3. Told' = Told
    BY <1>1, ToldSame
  <1>4. RecordInv(h)
    BY DEF LogInv
  <1>5. CASE call[h].op = "write"
    BY <1>1, <1>2, <1>3, <1>4, <1>5 DEF LocalLog, RecordInv
  <1>6. CASE call[h].op = "delete"
    <2>1. Status(p)' = "absent"
      BY <1>1, <1>2 DEF Status, IInv, TypeOK, StoreOK
    <2>2. LogRecord(h)' = LogRecord(h)
      BY <1>1 DEF LogRecord, OpType
    <2>3. Replayed(Told, LogRecord(h))[p] = "absent"
      <3>1. LogRecord(h) \in LogRecords /\ LogRecord(h).path = p
            /\ LogRecord(h).type = "OpFileDelete"
        BY <1>6, LogRecordType DEF IInv, OpType
      <3>. QED
        BY <3>1, ReplayedEffect DEF LogInv, Marks
    <2>4. Replayed(Told, LogRecord(h))'[p] = "absent"
      BY <1>3, <2>2, <2>3 DEF Replayed
    <2>. QED
      BY <1>1, <1>2, <1>6, <2>1, <2>4 DEF LocalLog, RecordInv
  <1>. QED
    BY <1>2, <1>5, <1>6

LEMMA CreateFileLog ==
  ASSUME IInv, LogInv, NEW h \in Handlers, CreateFile(h), Changing(h)
  PROVE  LocalLog(h)
  <1>1. /\ pc[h] = "create" /\ pc'[h] = "put"
        /\ UNCHANGED <<log, call, existed, contended, unlogged>>
    BY DEF CreateFile, Step, excuses, IInv, TypeOK, HandlersOK
  <1>2. call[h].op = "write" /\ call[h].to = call[h].path
    BY <1>1, ClearerStep
  <1>3. Told' = Told
    BY <1>1, ToldSame
  <1>4. RecordInv(h)
    BY DEF LogInv
  <1>. QED
    BY <1>1, <1>2, <1>3, <1>4 DEF LocalLog, RecordInv

(* The last row of an upload: the file is there, and the record says so.   *)
LEMMA RecordLog ==
  ASSUME IInv, LogInv, NEW h \in Handlers, Record(h), Changing(h)
  PROVE  LocalLog(h)
  <1>. SUFFICES ASSUME NEW p, p = call[h].path PROVE LocalLog(h)
    OBVIOUS
  <1>1. /\ pc[h] = "record" /\ pc'[h] = IF todo[h] = {} THEN "log" ELSE "put"
        /\ UNCHANGED <<files, log, call, existed, contended, unlogged>>
    BY DEF Record, Step, localVars, excuses, IInv, TypeOK, HandlersOK
  <1>2. call[h].op = "write" /\ p \in Paths /\ call[h].to = p
    BY <1>1, ClearerStep
  <1>3. Told' = Told
    BY <1>1, ToldSame
  <1>4. p \notin contended /\ p \notin unlogged =>
           Told[p] = IF existed[h] THEN "present" ELSE "absent"
    BY <1>1, <1>2 DEF LogInv, RecordInv
  <1>5. p \notin contended => Status(p)' = "present"
    <2>. SUFFICES ASSUME p \notin contended PROVE files[p] # None
      BY <1>1 DEF Status
    <2>1. files[p] = Segs[call[h].ver] /\ call[h].ver \in Versions
      BY <1>1, <1>2, ChangingType, CallTypes DEF IInv, CallInv, UploadInv, Mutations
    <2>. QED
      BY <2>1, ShapeAssumption, NoneAssumption
  <1>6. LogRecord(h)' = LogRecord(h)
    BY <1>1 DEF LogRecord, OpType
  <1>7. p \notin contended /\ p \notin unlogged => Replayed(Told, LogRecord(h))[p] = "present"
    <2>1. LogRecord(h) \in LogRecords /\ LogRecord(h).path = p
          /\ LogRecord(h).type = IF existed[h] THEN "OpFileUpdate" ELSE "OpFileCreate"
      BY <1>2, LogRecordType DEF IInv, OpType
    <2>. QED
      BY <1>4, <2>1, ReplayedEffect DEF LogInv, Marks
  <1>8. Replayed(Told, LogRecord(h))' = Replayed(Told, LogRecord(h))
    BY <1>3, <1>6 DEF Replayed
  <1>. QED
    BY <1>1, <1>2, <1>3, <1>4, <1>5, <1>7, <1>8 DEF LocalLog, RecordInv

LEMMA LogLog ==
  ASSUME IInv, LogInv, NEW h \in Handlers, Log(h), Changing(h)
  PROVE  LocalLog(h)
  <1>1. /\ pc[h] = "log" /\ Return(h) /\ log' = Append(log, LogRecord(h))
        /\ UNCHANGED <<files, unlogged>>
    BY DEF Log, Acknowledge, excuses, LogRecord
  <1>2. pc'[h] = "idle"
    BY <1>1, ReturnEffect
  <1>3. Told' = Replayed(Told, LogRecord(h))
    BY <1>1, ToldMore DEF IInv
  <1>4. ASSUME NEW f \in Own(h) \ (contended \cup unlogged)
        PROVE  Replayed(Told, LogRecord(h))[f] = Status(f)
    <2>1. call[h].to \notin contended /\ f \in {call[h].path, call[h].to}
      BY <1>4 DEF IInv, Separate, Own, Touches
    <2>. QED
      BY <1>1, <1>4, <2>1 DEF LogInv, RecordInv
  <1>. QED
    BY <1>1, <1>2, <1>3, <1>4, EndLog DEF LocalLog, Status

(* The transaction of a Rename: the record tells the same of both paths.   *)
LEMMA RetableLog ==
  ASSUME IInv, LogInv, NEW h \in Handlers, Retable(h), Changing(h)
  PROVE  LocalLog(h)
  <1>. SUFFICES ASSUME NEW p, p = call[h].path, NEW q, q = call[h].to PROVE LocalLog(h)
    OBVIOUS
  <1>1. /\ pc[h] = "retable" /\ pc'[h] = "log" /\ ~Conflict(p, q)
        /\ files' = [f \in Paths |-> IF f = q /\ files[p] # None THEN files[p]
                                     ELSE IF f = p /\ p # q THEN None ELSE files[f]]
        /\ UNCHANGED <<log, call, existed, contended, unlogged>>
    BY DEF Retable, Step, localVars, excuses, IInv, TypeOK, HandlersOK
  <1>2. call[h].op = "rename" /\ p \in Paths /\ q \in Paths
    BY <1>1, MoverStep
  <1>3. Told' = Told
    BY <1>1, ToldSame
  <1>4. LogRecord(h)' = LogRecord(h)
    BY <1>1 DEF LogRecord, OpType
  <1>5. Replayed(Told, LogRecord(h))' = Replayed(Told, LogRecord(h))
    BY <1>3, <1>4 DEF Replayed
  <1>6. ASSUME q \notin contended, NEW f \in {p, q} \ unlogged
        PROVE  Replayed(Told, LogRecord(h))[f] = Status(f)'
    <2>1. /\ p \in unlogged => q \in unlogged
          /\ \A e \in {p, q} \ unlogged : Told[e] = Status(e)
      BY <1>1, <1>2, <1>6 DEF LogInv, RecordInv
    <2>2. Told \in [Paths -> Marks]
      BY DEF LogInv, Marks
    <2>3. /\ LogRecord(h) \in LogRecords /\ LogRecord(h).path = p /\ LogRecord(h).to = q
          /\ LogRecord(h).type = "OpFileRename"
      BY <1>2, LogRecordType DEF IInv, OpType
    <2>4. Replayed(Told, LogRecord(h)) =
             IF Told[p] # "present" \/ p = q THEN Told
             ELSE [Told EXCEPT ![p] = "absent",
                               ![q] = IF @ = "absent" THEN "present" ELSE "confused"]
      BY <2>2, <2>3, ReplayedEffect
    <2>5. p \notin unlogged
      BY <1>6, <2>1
    <2>6. CASE files[p] = None \/ p = q
      <3>1. Told[p] # "present" \/ p = q
        BY <2>1, <2>5, <2>6 DEF Status
      <3>2. files'[f] = files[f]
        BY <1>1, <1>2, <2>6
      <3>. QED
        BY <1>6, <2>1, <2>4, <3>1, <3>2 DEF Status
    <2>7. CASE files[p] # None /\ p # q
      <3>1. Told[p] = "present" /\ files[q] = None
        BY <1>1, <2>1, <2>5, <2>7 DEF Status, Conflict
      <3>2. files'[p] = None /\ files'[q] # None
        BY <1>1, <1>2, <2>7
      <3>3. q \notin unlogged => Told[q] = "absent"
        BY <2>1, <3>1 DEF Status
      <3>4. Status(p)' = "absent" /\ Status(q)' = "present"
        BY <3>2 DEF Status
      <3>. QED
        BY <1>2, <1>6, <2>2, <2>4, <2>7, <3>1, <3>3, <3>4
    <2>. QED
      BY <2>6, <2>7
  <1>7. RecordInv(h)
    BY DEF LogInv
  <1>. QED
    BY <1>1, <1>2, <1>5, <1>6, <1>7 DEF LocalLog, RecordInv

LEMMA ScanLog ==
  ASSUME IInv, LogInv, NEW h \in Handlers, Changing(h),
         Scan(h) \/ Purge(h) \/ Unrow(h) \/ Put(h) \/ Get(h) \/ Copy(h) \/ Erase(h)
  PROVE  LocalLog(h)
  <1>1. UNCHANGED <<files, log, call, existed, contended, unlogged>>
    BY Zenon DEF Scan, Purge, Unrow, Put, Get, Copy, Erase, storeVars, localVars, excuses
  <1>2. pc[h] \in {"scan", "purge", "unrow", "drop", "put", "get", "copy", "erase"}
    BY Zenon DEF Scan, Purge, Unrow, Put, Get, Copy, Erase
  <1>3. pc'[h] \notin {"check", "log", "idle"}
    <2>1. \E next \in {"purge", "unrow", "drop", "unlink", "record", "get", "copy", "erase",
                       "retable", pc[h]} : pc' = [pc EXCEPT ![h] = next]
      <3>1. CASE Scan(h)
        BY <3>1 DEF Scan, Step
      <3>2. CASE Purge(h)
        BY <3>2 DEF Purge, Loop
      <3>3. CASE Unrow(h)
        BY <3>3 DEF Unrow, Step
      <3>4. CASE Put(h)
        BY <3>4 DEF Put, Step
      <3>5. CASE Get(h)
        BY <3>5 DEF Get, Step, Loop
      <3>6. CASE Copy(h)
        BY <3>6 DEF Copy, Step
      <3>7. CASE Erase(h)
        BY <3>7 DEF Erase, Step
      <3>. QED
        BY <3>1, <3>2, <3>3, <3>4, <3>5, <3>6, <3>7
    <2>. QED
      BY <1>2, <2>1 DEF IInv, TypeOK, HandlersOK
  <1>. QED
    BY <1>1, <1>2, <1>3, InnerLog

LEMMA ChangeKeepsLog ==
  ASSUME IInv, LogInv, TypeOK', NEW h \in Handlers, Change(h)
  PROVE  LogInv'
  <1>1. Changing(h) /\ Frame(h)
    BY ChangeSafe
  <1>2. LocalLog(h)
    BY <1>1, CheckLog, ScanLog, UnlinkLog, UnloggedEnd, CreateFileLog, RecordLog, LogLog,
       RetableLog DEF Change
  <1>. QED
    BY <1>1, <1>2, FrameKeepsLog

-----------------------------------------------------------------------------
LEMMA SameLog ==
  ASSUME LogInv, NEW g \in Handlers,
         UNCHANGED <<files, log>>, contended \subseteq contended',
         existed'[g] = existed[g], pc'[g] = pc[g], call'[g] = call[g],
         call[g].to \notin contended' => unlogged' \cap Own(g) = unlogged \cap Own(g)
  PROVE  RecordInv(g)'
  <1>1. Told' = Told /\ LogRecord(g)' = LogRecord(g)
    BY ToldSame DEF LogRecord, OpType
  <1>2. Replayed(Told, LogRecord(g))' = Replayed(Told, LogRecord(g))
    BY <1>1 DEF Replayed
  <1>3. RecordInv(g) /\ (Changing(g)' <=> Changing(g))
    BY DEF LogInv, Changing, Active
  <1>4. \A f : Status(f)' = Status(f)
    BY DEF Status
  <1>. QED
    BY <1>1, <1>2, <1>3, <1>4 DEF RecordInv, Own, Touches

LEMMA ReadKeepsLog ==
  ASSUME IInv, LogInv, NEW h \in Handlers, Read(h)
  PROVE  LogInv'
  <1>1. Quiet(h) /\ call[h].op = "read"
    BY ReadStep
  <1>2. UNCHANGED <<files, log, contended, unlogged>>
    <2>1. UNCHANGED <<log, unlogged>>
      BY DEF Read, Stat, NotFound, ReadMap, Hit, Miss, Panic, Fetch, Decode, DecodeFails, Finish,
         Respond, storeVars, excuses
    <2>. QED
      BY <1>1, <2>1 DEF Quiet
  <1>3. \A g \in Handlers \ {h} : existed'[g] = existed[g]
    <2>1. UNCHANGED existed \/ Return(h)
      BY Zenon DEF Read, Stat, NotFound, ReadMap, Hit, Miss, Panic, Fetch, Decode, DecodeFails, Finish,
         Respond, localVars
    <2>. QED
      BY <2>1 DEF Return, IInv, TypeOK, HandlersOK
  <1>4. \A g \in Handlers \ {h} : RecordInv(g)'
    BY <1>1, <1>2, <1>3, SameLog DEF Quiet
  <1>5. ~Changing(h)'
    BY <1>1, CallTypes DEF Quiet, Changing, Active
  <1>6. RecordInv(h)'
    BY <1>5 DEF RecordInv
  <1>7. \A g \in Handlers : Changing(g)' <=> Changing(g)
    BY <1>1, CallTypes DEF Quiet, Changing, Active
  <1>8. \A g \in Handlers : Changing(g) => call'[g] = call[g]
    BY <1>1 DEF Quiet, Changing
  <1>9. \A f \in Paths : Undisturbed(f)' <=> Undisturbed(f)
    BY <1>7, <1>8 DEF Undisturbed, Rivals
  <1>10. Told' = Told
    BY <1>2, ToldSame
  <1>. QED
    BY <1>2, <1>4, <1>6, <1>9, <1>10 DEF LogInv, LogMatchesStore

LEMMA StartKeepsLog ==
  ASSUME IInv, LogInv, NEW h \in Handlers, NEW c \in Requests, Start(h, c)
  PROVE  LogInv'
  <1>1. /\ pc[h] = "idle" /\ call'[h] = c /\ \A g \in Handlers \ {h} : call'[g] = call[g]
        /\ UNCHANGED <<files, log, existed>>
    BY DEF Start, storeVars, IInv, TypeOK, HandlersOK
  <1>2. /\ \A g \in Handlers \ {h} : pc'[g] = pc[g]
        /\ pc'[h] \in {"check", "scan", "info"}
        /\ contended \subseteq contended' /\ unlogged \subseteq unlogged'
    BY DEF Start, StartChange, StartRead, IInv, TypeOK, HandlersOK
  <1>3. Told' = Told /\ \A f : Status(f)' = Status(f)
    BY <1>1, ToldSame DEF Status
  <1>4. ASSUME NEW f \in Paths \ (contended' \cup unlogged'), Undisturbed(f)'
        PROVE  Told'[f] = Status(f)'
    <2>1. Undisturbed(f)
      BY <1>1, <1>2, <1>4 DEF Undisturbed, Rivals, Changing, Active
    <2>. QED
      BY <1>2, <1>3, <1>4, <2>1 DEF LogInv, LogMatchesStore, Status
  <1>5. \A g \in Handlers : RecordInv(g)'
    <2>1. CASE c.op = "read"
      <3>1. UNCHANGED <<contended, unlogged>> /\ pc'[h] = "info"
        BY <2>1 DEF Start, StartRead, IInv, TypeOK, HandlersOK
      <3>2. RecordInv(h)'
        BY <1>1, <2>1 DEF RecordInv, Changing
      <3>. QED
        BY <1>1, <1>2, <3>1, <3>2, SameLog
    <2>2. CASE c.op # "read"
      <3>1. /\ c \in Mutations /\ contended' = contended \cup Taint(Touches(c))
            /\ unlogged' = IF c.path \in unlogged THEN unlogged \cup {c.to} ELSE unlogged
            /\ pc'[h] = IF c.op = "write" THEN "check" ELSE "scan"
        BY <2>2, CallTypes DEF Start, StartChange, Requests, IInv, TypeOK, HandlersOK
      <3>2. /\ c.path \in Paths /\ c.to \in Paths /\ (c.op # "rename" => c.to = c.path)
            /\ c.op \in {"write", "delete", "rename"}
        BY <3>1, CallTypes DEF Mutations
      <3>3. Touches(c) \in SUBSET Paths
        BY <3>2 DEF Touches
      <3>4. ASSUME NEW g \in Handlers \ {h} PROVE RecordInv(g)'
        <4>1. CASE Changing(g)
          <5>1. call[g].to \in Own(g)
            BY DEF Own, Touches
          <5>2. call[g].to \notin contended' => c.to \notin Own(g)
            BY <3>1, <3>3, <4>1, <5>1, TaintEffect DEF Touches
          <5>. QED
            BY <1>1, <1>2, <3>1, <5>2, SameLog
        <4>2. CASE ~Changing(g)
          BY <1>1, <1>2, <4>2 DEF RecordInv, Changing, Active
        <4>. QED
          BY <4>1, <4>2
      <3>5. c.to \notin contended' => \A e \in Touches(c) \ unlogged : Told[e] = Status(e)
        <4>1. ASSUME c.to \notin contended', NEW e \in Touches(c) \ unlogged
              PROVE  Told[e] = Status(e)
          <5>1. Rivals(Touches(c)) = {} /\ Touches(c) \cap contended = {}
            BY <3>1, <4>1 DEF Taint, Touches
          <5>2. Undisturbed(e) /\ e \in Paths
            BY <3>2, <5>1 DEF Undisturbed, Rivals, Touches
          <5>. QED
            BY <4>1, <5>1, <5>2 DEF LogInv, LogMatchesStore, Status
        <4>. QED
          BY <4>1
      <3>6. RecordInv(h)'
        BY <1>1, <1>2, <1>3, <3>1, <3>2, <3>5 DEF RecordInv, Touches
      <3>. QED
        BY <3>4, <3>6
    <2>. QED
      BY <2>1, <2>2
  <1>. QED
    BY <1>3, <1>4, <1>5 DEF LogInv, LogMatchesStore, Status

LEMMA MkdirKeepsLog ==
  ASSUME IInv, LogInv, NEW d \in Dirs, Mkdir(d)
  PROVE  LogInv'
  <1>1. /\ UNCHANGED <<log, pc, call, existed>> /\ unlogged' = unlogged \cup {d}
        /\ contended' = contended \cup Taint({d}) /\ d \in Paths
        /\ files' = [files EXCEPT ![d] = IF @ = None THEN 0 ELSE @]
    BY EnvironmentAssumption DEF Mkdir, localVars
  <1>2. Told' = Told /\ \A f : f # d => Status(f)' = Status(f)
    BY <1>1, ToldSame DEF Status, IInv, TypeOK, StoreOK
  <1>3. \A f \in Paths \ (contended' \cup unlogged') : Undisturbed(f)' => Told'[f] = Status(f)'
    BY <1>1, <1>2 DEF Undisturbed, Rivals, Changing, Active, LogInv, LogMatchesStore, Status
  <1>4. ASSUME NEW g \in Handlers PROVE RecordInv(g)'
    <2>1. CASE ~Changing(g)
      BY <1>1, <2>1 DEF RecordInv, Changing, Active
    <2>2. CASE Changing(g) /\ call[g].to \in contended'
      BY <1>1, <2>2 DEF RecordInv
    <2>3. CASE Changing(g) /\ call[g].to \notin contended'
      <3>1. d \notin Own(g)
        <4>1. call[g].to \in Own(g) /\ {d} \in SUBSET Paths
          BY <1>1 DEF Own, Touches
        <4>. QED
          BY <1>1, <2>3, <4>1, TaintEffect
      <3>2. RecordInv(g) /\ Changing(g)' /\ LogRecord(g)' = LogRecord(g)
            /\ call[g].to \notin contended
        BY <1>1, <2>3 DEF LogInv, Changing, Active, LogRecord, OpType
      <3>3. Replayed(Told, LogRecord(g))' = Replayed(Told, LogRecord(g))
        BY <1>2, <3>2 DEF Replayed
      <3>4. d # call[g].path /\ d # call[g].to
        BY <3>1 DEF Own, Touches
      <3>. QED
        BY <1>1, <1>2, <2>3, <3>2, <3>3, <3>4 DEF RecordInv
    <2>. QED
      BY <2>1, <2>2, <2>3
  <1>. QED
    BY <1>2, <1>3, <1>4 DEF LogInv, LogMatchesStore, Status

LEMMA OthersKeepLog ==
  ASSUME IInv, LogInv, (\E x \in Providers : Lose(x)) \/ Crash \/ UNCHANGED vars
  PROVE  LogInv'
  <1>1. CASE (\E x \in Providers : Lose(x)) \/ UNCHANGED vars
    <2>1. UNCHANGED <<files, log, pc, call, existed, contended, unlogged>>
      BY <1>1 DEF Lose, vars, storeVars, localVars, excuses
    <2>2. \A g \in Handlers : RecordInv(g)'
      BY <2>1, SameLog
    <2>3. Told' = Told
      BY <2>1, ToldSame
    <2>. QED
      BY <2>1, <2>2, <2>3 DEF LogInv, LogMatchesStore, Undisturbed, Rivals, Changing, Active
  <1>2. CASE Crash
    <2>1. /\ \A h \in Handlers : pc'[h] = "idle"
          /\ UNCHANGED <<files, log, contended>>
          /\ unlogged' = unlogged \cup UNION {Touches(call[h]) : h \in {g \in Handlers : Changing(g)}}
      BY <1>2 DEF Crash, storeVars
    <2>2. \A h \in Handlers : RecordInv(h)'
      BY <2>1, EndLog
    <2>3. \A f \in Paths \ (contended \cup unlogged') : Undisturbed(f) /\ f \notin unlogged
      BY <2>1 DEF Undisturbed, Rivals
    <2>4. Told' = Told
      BY <2>1, ToldSame
    <2>. QED
      BY <2>1, <2>2, <2>3, <2>4 DEF LogInv, LogMatchesStore
  <1>. QED
    BY <1>1, <1>2

LEMMA NextLog == IInv /\ IInv' /\ LogInv /\ [Next]_vars => LogInv'
  BY ChangeKeepsLog, ReadKeepsLog, StartKeepsLog, MkdirKeepsLog, OthersKeepLog DEF Next, IInv

LEMMA InitLog == Init => LogInv
  <1>. SUFFICES ASSUME Init PROVE LogInv
    OBVIOUS
  <1>1. Told = Absent
    BY FoldEmpty, Zenon DEF Init, Told, Absent
  <1>2. \A h \in Handlers : RecordInv(h)
    BY DEF Init, RecordInv, Changing, Active
  <1>. QED
    BY <1>1, <1>2 DEF Init, LogInv, LogMatchesStore, Absent

(* A device that replays the operations log gets the files there are, at   *)
(* every path that no call is changing and no failed, interrupted or       *)
(* unlogged call has touched: Write, Delete and Rename log one record each *)
(* of the kind that fits what the tables were, in the order of the changes *)
(* they stand for.                                                         *)
THEOREM LogMatchesStoreAlways == Spec => []LogMatchesStore
  <1>1. Spec => []LogInv
    BY Inductive, InitLog, NextLog, PTL DEF Spec
  <1>2. LogInv => LogMatchesStore
    BY DEF LogInv
  <1>. QED
    BY <1>1, <1>2, PTL
=============================================================================
