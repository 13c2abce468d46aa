-------------------------- MODULE MigrationProofs --------------------------
(***************************************************************************)
(* What holds in every reachable state of Migration, for every number of   *)
(* providers, handlers, paths, versions and segments: no shard is lost,    *)
(* a provider that Migrate has emptied is empty, and a download finds its  *)
(* shards while Migrate runs.                                              *)
(*                                                                         *)
(* The invariant IInv of Vfs does not hold here: Migrate may put two       *)
(* shards of a segment on one provider, and when it is cut short a row may *)
(* name a provider that no longer has the shard.  What is kept is weaker:  *)
(* the provider of the row has the shard or, once anything has failed,     *)
(* nothing, but never a shard of another version.  First the handlers:     *)
(* ServeInv is shown to be kept by their steps, along the lines of         *)
(* VfsProofs and with its lemmas about types.  Then the steps of Migrate,  *)
(* and what relates the two (MigrateInv).                                  *)
(***************************************************************************)
EXTENDS Migration, VfsProofs

(* The paths of which nothing is claimed.                                  *)
Tangled == contended \cup crossed

(* The path whose shard Migrate puts where it has it from is among them.   *)
Crossing == crossed \subseteq Paths /\ Onto \subseteq crossed

(* The shard s of p is between from.Delete and UpdateShardLocation.        *)
Moving(p, s) == mPc = "update" /\ mPath = p /\ mCur = s

(* x has the shard of v, or, if anything has failed or it is being moved,  *)
(* none: but not that of another version.                                  *)
There(x, p, s, v) ==
    blobs[x][p][s] = v \/ (blobs[x][p][s] = None /\ (faults # 0 \/ Moving(p, s)))

Covers(map, v) == \A s \in Slots : map[s] # None <=> s \in SlotsOf(v)
Filed(p, map, v) == files[p] = Segs[v] /\ rows[p] = map /\ Covers(map, v)
Safe(p, v) == Filed(p, rows[p], v) /\ \A s \in SlotsOf(v) : There(rows[p][s], p, s, v)

AckedSafe == \A p \in Paths \ Tangled : acked[p] # None => Safe(p, acked[p])
RowsFiled == \A p \in Paths \ Tangled : files[p] = None => rows[p] = NoRows
DeadFault == dead # {} => faults # 0

(* A call is tangled as a whole, with what it overlaps, or not at all; and *)
(* if Migrate is at one of its paths, it is.                               *)
Whole ==
    \A h \in Handlers : Changing(h) =>
        /\ mPath \in Own(h) => mPath \in Tangled
        /\ Own(h) \cap Tangled # {} => Own(h) \subseteq Tangled
        /\ \A g \in Handlers \ {h} :
              Changing(g) /\ Own(g) \cap Own(h) # {} => Own(h) \subseteq Tangled

Unpromised == \A h \in Handlers : Changing(h) =>
                 \A p \in Own(h) \ Tangled : acked[p] = None

(* What is true in the middle of each call (compare PurgeInv, UploadInv    *)
(* and RenameInv).                                                         *)
PurgePart(h) ==
    call[h].op \in {"write", "delete"} /\ call[h].path \notin Tangled =>
        /\ call[h].op = "delete" => due[h] = None
        /\ pc[h] \in {"drop", "unlink", "create"} => rows[call[h].path] = NoRows
        /\ pc[h] = "create" \/ (pc[h] = "log" /\ call[h].op = "delete") =>
              files[call[h].path] = None

UploadPart(h) ==
    LET p == call[h].path
        v == call[h].ver
    IN  call[h].op = "write" /\ p \notin Tangled =>
          /\ due[h] = v
          /\ pc[h] \in {"put", "record", "log"} =>
               /\ files[p] = Segs[v]
               /\ Covers(plan[h], v)
               /\ todo[h] \subseteq SlotsOf(v)
               /\ pc[h] = "record" => cur[h] \in SlotsOf(v) \ todo[h]
               /\ \A s \in SlotsOf(v) \ todo[h] : There(plan[h][s], p, s, v)
               /\ \A s \in Slots :
                    rows[p][s] = IF \/ s \in todo[h]
                                    \/ pc[h] = "record" /\ s = cur[h]
                                 THEN None ELSE plan[h][s]

RenamePart(h) ==
    LET p == call[h].path
        q == call[h].to
        v == due[h]
        atHand == pc[h] \in {"copy", "erase"}
    IN  call[h].op = "rename" /\ q \notin Tangled /\ v # None /\ clean[h] =>
          /\ p # q
          /\ pc[h] = "scan" => Safe(p, v)
          /\ pc[h] \in {"get", "copy", "erase", "retable"} =>
               /\ Filed(p, plan[h], v)
               /\ todo[h] \subseteq SlotsOf(v)
               /\ atHand => cur[h] \in SlotsOf(v) \ todo[h]
               /\ \A s \in SlotsOf(v) :
                    IF s \in todo[h] THEN There(plan[h][s], p, s, v)
                    ELSE IF pc[h] = "copy" /\ s = cur[h] THEN held[h] = v
                    ELSE There(plan[h][s], q, s, v)
          /\ pc[h] = "log" => Safe(q, v)

CallPart(h) == PurgePart(h) /\ UploadPart(h) /\ RenamePart(h)

ServeInv == /\ TypeOK /\ Crossing
            /\ Whole /\ Unpromised /\ DeadEmpty /\ DeadFault
            /\ RowsFiled /\ AckedSafe
            /\ \A h \in Handlers : CallPart(h)

-----------------------------------------------------------------------------
(***************************************************************************)
(* Steps of a handler.  None tangles a path anew but the start of a call.  *)
(***************************************************************************)
Steady == /\ Tangled' = Tangled /\ UNCHANGED <<mPc, mPath, mCur>> /\ Crossing'
          /\ faults # 0 => faults' # 0

(* What the step of a call has to establish itself (Frame is the rest).    *)
Within(h) ==
    /\ DeadEmpty'
    /\ CallPart(h)'
    /\ \A p \in Own(h) \ Tangled :
          /\ files'[p] = None => rows'[p] = NoRows
          /\ acked'[p] # None => Safe(p, acked[p])'

USE DEF Steady, Moving

LEMMA CoversProviders ==
  ASSUME NEW map \in ShardMaps, NEW v, Covers(map, v)
  PROVE  \A s \in SlotsOf(v) : s \in Slots /\ map[s] \in Providers
  BY DEF Covers, SlotsOf, ShardMaps

LEMMA SafeKept ==
  ASSUME TypeOK, NEW p \in Paths, NEW v, Safe(p, v), Steady,
         files'[p] = files[p], rows'[p] = rows[p],
         \A x \in Providers : blobs'[x][p] = blobs[x][p]
  PROVE  Safe(p, v)'
  <1>1. rows[p] \in ShardMaps
    BY DEF TypeOK, StoreOK
  <1>2. \A s \in SlotsOf(v) : rows[p][s] \in Providers
    BY <1>1, CoversProviders DEF Safe, Filed
  <1>. QED
    BY <1>2 DEF Safe, Filed, There

(* A call whose paths and variables a step leaves alone is where it was.   *)
LEMMA SamePart ==
  ASSUME ServeInv, NEW g \in Handlers, Tangled \subseteq Tangled',
         pc'[g] = pc[g], call'[g] = call[g], plan'[g] = plan[g], todo'[g] = todo[g],
         cur'[g] = cur[g], held'[g] = held[g], due'[g] = due[g], clean'[g] = clean[g],
         Changing(g) /\ ~(Own(g) \subseteq Tangled') =>
            \A f \in Own(g) :
               /\ files'[f] = files[f] /\ rows'[f] = rows[f]
               /\ \A x \in Providers, s \in Slots, v \in Versions :
                     There(x, f, s, v) => There(x, f, s, v)'
  PROVE  CallPart(g)'
  <1>. DEFINE p == call[g].path
              q == call[g].to
  <1>0. PurgePart(g) /\ UploadPart(g) /\ RenamePart(g)
    BY DEF ServeInv, CallPart
  <1>1. CASE ~Changing(g)
    <2>1. call[g].op \notin {"write", "delete", "rename"}
      BY <1>1, IdleCall DEF ServeInv
    <2>. QED
      BY <2>1 DEF CallPart, PurgePart, UploadPart, RenamePart
  <1>2. CASE Own(g) \subseteq Tangled'
    BY <1>2 DEF CallPart, PurgePart, UploadPart, RenamePart, Own, Touches
  <1>3. CASE Changing(g) /\ ~(Own(g) \subseteq Tangled')
    <2>1. /\ files'[p] = files[p] /\ rows'[p] = rows[p]
          /\ files'[q] = files[q] /\ rows'[q] = rows[q]
          /\ p \in Paths /\ q \in Paths /\ call[g] \in Mutations
      BY <1>3, ChangingType DEF Own, Touches, ServeInv
    <2>2. \A f \in {p, q}, x \in Providers, s \in Slots, v \in Versions :
             There(x, f, s, v) => There(x, f, s, v)'
      BY <1>3 DEF Own, Touches
    <2>3. PurgePart(g)'
      BY <1>0, <2>1 DEF PurgePart
    <2>4. UploadPart(g)'
      <3>. DEFINE v == call[g].ver
      <3>. SUFFICES ASSUME call[g].op = "write", p \notin Tangled, pc[g] \in {"put", "record", "log"}
                    PROVE  UploadPart(g)'
        BY <1>0 DEF UploadPart
      <3>1. v \in Versions
        BY <2>1, CallTypes DEF Mutations
      <3>2. \A s \in SlotsOf(v) : s \in Slots /\ plan[g][s] \in Providers
        BY <1>0, CoversProviders DEF UploadPart, ServeInv, TypeOK, HandlersOK
      <3>3. \A s \in SlotsOf(v) : There(plan[g][s], p, s, v) => There(plan[g][s], p, s, v)'
        BY <2>2, <3>1, <3>2
      <3>. QED
        BY <1>0, <2>1, <3>3 DEF UploadPart
    <2>5. RenamePart(g)'
      <3>. DEFINE v == due[g]
      <3>. SUFFICES ASSUME call[g].op = "rename", q \notin Tangled, q \notin Tangled', v # None, clean[g]
                    PROVE  RenamePart(g)'
        BY DEF RenamePart
      <3>1. v \in Versions
        BY DEF ServeInv, TypeOK, HistoryOK
      <3>2. ASSUME NEW f \in {p, q}, Safe(f, v) PROVE Safe(f, v)'
        <4>1. \A s \in SlotsOf(v) : s \in Slots /\ rows[f][s] \in Providers
          BY <2>1, <3>2, CoversProviders DEF Safe, Filed, ServeInv, TypeOK, StoreOK
        <4>. QED
          BY <2>1, <2>2, <3>1, <3>2, <4>1 DEF Safe, Filed
      <3>3. CASE pc[g] \in {"get", "copy", "erase", "retable"}
        <4>1. Filed(p, plan[g], v)
          BY <1>0, <3>3 DEF RenamePart
        <4>2. \A s \in SlotsOf(v) : s \in Slots /\ plan[g][s] \in Providers
          BY <4>1, CoversProviders DEF Filed, ServeInv, TypeOK, HandlersOK
        <4>3. \A f \in {p, q}, s \in SlotsOf(v) :
                 There(plan[g][s], f, s, v) => There(plan[g][s], f, s, v)'
          BY <2>2, <3>1, <4>2
        <4>. QED
          BY <1>0, <2>1, <3>3, <4>3 DEF RenamePart, Filed
      <3>4. CASE pc[g] \notin {"get", "copy", "erase", "retable"}
        BY <1>0, <3>2, <3>4 DEF RenamePart
      <3>. QED
        BY <3>3, <3>4
    <2>. QED
      BY <2>3, <2>4, <2>5 DEF CallPart
  <1>. QED
    BY <1>1, <1>2, <1>3

(* The step of one call keeps the invariant of the other calls.            *)
LEMMA OtherParts ==
  ASSUME ServeInv, Steady, NEW h \in Handlers, Changing(h), Frame(h), NEW g \in Handlers \ {h}
  PROVE  CallPart(g)'
  <1>1. ASSUME Changing(g), ~(Own(g) \subseteq Tangled'), NEW f \in Own(g)
        PROVE  /\ files'[f] = files[f] /\ rows'[f] = rows[f]
               /\ \A x \in Providers, s \in Slots, v \in Versions :
                     There(x, f, s, v) => There(x, f, s, v)'
    <2>1. f \in Paths \ Own(h)
      BY <1>1, ChangingType DEF ServeInv, Whole, Own, Touches
    <2>. QED
      BY <2>1 DEF Frame, There
  <1>. QED
    BY <1>1, SamePart DEF Frame

LEMMA FrameServes ==
  ASSUME ServeInv, TypeOK', Steady, NEW h \in Handlers, Changing(h), Frame(h), Within(h)
  PROVE  ServeInv'
  <1>1. \A g \in Handlers : Changing(g)' => Changing(g) /\ call'[g] = call[g]
    BY DEF Frame, Changing, Active
  <1>2. Whole'
    BY <1>1 DEF ServeInv, Whole, Frame, Own
  <1>3. Unpromised'
    <2>1. ASSUME NEW g \in Handlers, Changing(g)', NEW p \in Own(g) \ Tangled
          PROVE  acked'[p] = None
      <3>1. CASE g = h
        BY <1>1, <2>1, <3>1 DEF ServeInv, Unpromised, Frame, Changing, Active
      <3>2. CASE g # h
        <4>1. Changing(g) /\ call'[g] = call[g] /\ p \in Paths
          BY <1>1, <2>1, ChangingType DEF ServeInv, Own, Touches
        <4>2. p \notin Own(h)
          BY <2>1, <3>2, <4>1 DEF ServeInv, Whole
        <4>3. acked'[p] = acked[p]
          BY <4>1, <4>2 DEF Frame
        <4>. QED
          BY <2>1, <4>1, <4>3 DEF ServeInv, Unpromised
      <3>. QED
        BY <3>1, <3>2
    <2>. QED
      BY <1>1, <2>1 DEF Unpromised, Own, Frame
  <1>4. RowsFiled'
    BY DEF ServeInv, RowsFiled, Frame, Within
  <1>5. AckedSafe'
    <2>1. ASSUME NEW p \in Paths \ Tangled, acked'[p] # None PROVE Safe(p, acked[p])'
      <3>1. CASE p \in Own(h)
        BY <2>1, <3>1 DEF Within
      <3>2. CASE p \notin Own(h)
        <4>1. acked'[p] = acked[p] /\ Safe(p, acked[p])
          BY <2>1, <3>2 DEF Frame, ServeInv, AckedSafe
        <4>. QED
          BY <2>1, <3>2, <4>1, SafeKept DEF Frame, ServeInv
      <3>. QED
        BY <3>1, <3>2
    <2>. QED
      BY <2>1 DEF AckedSafe, Frame
  <1>6. \A g \in Handlers : CallPart(g)'
    BY OtherParts DEF Within
  <1>7. DeadFault' /\ Crossing'
    BY DEF ServeInv, DeadFault, Frame
  <1>. QED
    BY <1>2, <1>3, <1>4, <1>5, <1>6, <1>7 DEF ServeInv, Within

(***************************************************************************)
(* Steps of a call.                                                        *)
(***************************************************************************)
LEMMA ReturnServes ==
  ASSUME ServeInv, NEW h \in Handlers, Return(h)
  PROVE  /\ pc'[h] = "idle" /\ call'[h] = NoCall
         /\ CallPart(h)'
         /\ \A g \in Handlers \ {h} :
               /\ pc'[g] = pc[g] /\ call'[g] = call[g] /\ plan'[g] = plan[g]
               /\ todo'[g] = todo[g] /\ cur'[g] = cur[g] /\ held'[g] = held[g]
               /\ due'[g] = due[g] /\ clean'[g] = clean[g]
  <1>1. pc'[h] = "idle" /\ call'[h] = NoCall
    BY DEF Return, ServeInv, TypeOK, HandlersOK
  <1>2. CallPart(h)'
    BY <1>1, CallTypes DEF CallPart, PurgePart, UploadPart, RenamePart
  <1>3. \A g \in Handlers \ {h} :
               /\ pc'[g] = pc[g] /\ call'[g] = call[g] /\ plan'[g] = plan[g]
               /\ todo'[g] = todo[g] /\ cur'[g] = cur[g] /\ held'[g] = held[g]
               /\ due'[g] = due[g] /\ clean'[g] = clean[g]
    BY DEF Return, ServeInv, TypeOK, HandlersOK, HistoryOK
  <1>. QED
    BY <1>1, <1>2, <1>3

(* A call that fails promises nothing, and nothing was promised.           *)
LEMMA UnpromisedOwn ==
  ASSUME ServeInv, NEW h \in Handlers, Changing(h)
  PROVE  \A p \in Own(h) \ Tangled : acked[p] = None
  BY DEF ServeInv, Unpromised

LEMMA CheckServes ==
  ASSUME ServeInv, TypeOK', Steady, NEW h \in Handlers, Check(h)
  PROVE  Changing(h) /\ Frame(h) /\ ServeInv'
  <1>0. Changing(h)
    BY ChangingStep DEF Check, ReadSteps, ServeInv
  <1>1. Frame(h)
    BY ChangingType, <1>0 DEF Check, Step, Frame, Own, Touches, ServeInv, TypeOK, StoreOK, CloudOK, Blobs, HandlersOK, HistoryOK,
       storeVars, cloudVars, localVars, readVars, excuses, promises
  <1>2. Within(h)
    <2>1. DeadEmpty'
      BY DEF Check, ServeInv, DeadEmpty, storeVars, cloudVars, localVars, readVars, excuses, promises
    <2>2. CallPart(h)'
      <3>1. call[h] \in Uploads /\ call[h].op = "write"
        BY CallTypes DEF Check, ServeInv, TypeOK, HandlersOK, AtStep, RenameSteps, PurgeSteps, ReadSteps
      <3>2. PurgePart(h)'
        BY <3>1, CallTypes DEF Check, Step, PurgePart, ServeInv, RowsFiled, TypeOK, HandlersOK, storeVars, cloudVars, localVars, readVars, excuses, promises
      <3>3. UploadPart(h)'
        BY <3>1 DEF Check, Step, CallPart, UploadPart, ServeInv, TypeOK, HandlersOK, storeVars, cloudVars, localVars, readVars, excuses, promises
      <3>. QED
        BY <3>1, <3>2, <3>3 DEF Check, CallPart, RenamePart, storeVars, cloudVars, localVars, readVars, excuses, promises
    <2>3. \A p \in Own(h) \ Tangled :
             /\ files'[p] = None => rows'[p] = NoRows
             /\ acked'[p] # None => Safe(p, acked[p])'
      BY <1>0, UnpromisedOwn, ChangingType DEF Check, Own, Touches, ServeInv, RowsFiled, storeVars, cloudVars, localVars, readVars, excuses, promises
    <2>. QED
      BY <2>1, <2>2, <2>3 DEF Within
  <1>. QED
    BY <1>0, <1>1, <1>2, FrameServes

LEMMA ScanServes ==
  ASSUME ServeInv, TypeOK', Steady, NEW h \in Handlers, Scan(h)
  PROVE  Changing(h) /\ Frame(h) /\ ServeInv'
  <1>0. Changing(h)
    BY ChangingStep DEF Scan, ReadSteps, ServeInv
  <1>1. Frame(h)
    BY ChangingType, <1>0 DEF Scan, Step, Frame, Own, Touches, ServeInv, TypeOK, StoreOK, CloudOK, Blobs, HandlersOK, HistoryOK,
       storeVars, cloudVars, localVars, readVars, excuses, promises
  <1>2. Within(h)
    <2>1. DeadEmpty'
      BY DEF Scan, ServeInv, DeadEmpty, storeVars, cloudVars, localVars, readVars, excuses, promises
    <2>2. CallPart(h)'
      <3>. DEFINE p == call[h].path
                  v == due[h]
                  some == {s \in Slots : rows[p][s] # None}
      <3>0. /\ plan'[h] = rows[p] /\ todo'[h] = some
            /\ pc'[h] = IF call[h].op = "rename" THEN IF some = {} THEN "retable" ELSE "get"
                        ELSE IF some = {} THEN "unrow" ELSE "purge"
            /\ call' = call /\ due' = due /\ clean' = clean /\ Tangled' = Tangled
            /\ files' = files /\ rows' = rows /\ blobs' = blobs /\ dead' = dead
            /\ pc[h] = "scan"
        BY DEF Scan, Step, ServeInv, TypeOK, HandlersOK, storeVars, cloudVars, localVars, readVars, excuses, promises
      <3>1. PurgePart(h)'
        BY <3>0 DEF PurgePart, ServeInv, CallPart
      <3>2. UploadPart(h)'
        BY <3>0 DEF CallPart, UploadPart, ServeInv
      <3>3. RenamePart(h)'
        <4>. SUFFICES ASSUME call[h].op = "rename", call[h].to \notin Tangled, v # None, clean[h]
                      PROVE  RenamePart(h)'
          BY <3>0 DEF RenamePart
        <4>1. p # call[h].to /\ Safe(p, v)
          BY <3>0 DEF ServeInv, CallPart, RenamePart
        <4>2. some = SlotsOf(v)
          BY <4>1 DEF Safe, Filed, Covers, SlotsOf
        <4>. QED
          BY <3>0, <4>1, <4>2 DEF RenamePart, Safe, Filed, There
      <3>. QED
        BY <3>1, <3>2, <3>3 DEF CallPart
    <2>3. \A p \in Own(h) \ Tangled :
             /\ files'[p] = None => rows'[p] = NoRows
             /\ acked'[p] # None => Safe(p, acked[p])'
      BY <1>0, UnpromisedOwn, ChangingType DEF Scan, Own, Touches, ServeInv, RowsFiled, storeVars, cloudVars, localVars, readVars, excuses, promises
    <2>. QED
      BY <2>1, <2>2, <2>3 DEF Within
  <1>. QED
    BY <1>0, <1>1, <1>2, FrameServes

LEMMA UnrowServes ==
  ASSUME ServeInv, TypeOK', Steady, NEW h \in Handlers, Unrow(h)
  PROVE  Changing(h) /\ Frame(h) /\ ServeInv'
  <1>0. Changing(h)
    BY ChangingStep DEF Unrow, ReadSteps, ServeInv
  <1>1. Frame(h)
    BY ChangingType, <1>0 DEF Unrow, Step, Frame, Own, Touches, ServeInv, TypeOK, StoreOK, CloudOK, Blobs, HandlersOK, HistoryOK,
       storeVars, cloudVars, localVars, readVars, excuses, promises
  <1>2. Within(h)
    <2>1. DeadEmpty'
      BY DEF Unrow, ServeInv, DeadEmpty, storeVars, cloudVars, localVars, readVars, excuses, promises
    <2>2. CallPart(h)'
      <3>0. /\ pc[h] \in {"unrow", "drop"} /\ pc'[h] \in {"drop", "unlink"}
            /\ rows'[call[h].path] = NoRows
            /\ call' = call /\ due' = due /\ Tangled' = Tangled
        BY <1>0, ChangingType DEF Unrow, Step, ServeInv, TypeOK, HandlersOK, StoreOK, storeVars, cloudVars, localVars, readVars, excuses, promises
      <3>1. call[h].op # "rename"
        BY <3>0, CallTypes DEF ServeInv, TypeOK, HandlersOK, AtStep, RenameSteps, ReadSteps
      <3>. QED
        BY <3>0, <3>1 DEF PurgePart, UploadPart, RenamePart, ServeInv, CallPart
    <2>3. \A p \in Own(h) \ Tangled :
             /\ files'[p] = None => rows'[p] = NoRows
             /\ acked'[p] # None => Safe(p, acked[p])'
      BY <1>0, UnpromisedOwn, ChangingType DEF Unrow, Own, Touches, ServeInv, RowsFiled, TypeOK, StoreOK, storeVars, cloudVars, localVars, readVars, excuses, promises
    <2>. QED
      BY <2>1, <2>2, <2>3 DEF Within
  <1>. QED
    BY <1>0, <1>1, <1>2, FrameServes

LEMMA UnlinkServes ==
  ASSUME ServeInv, TypeOK', Steady, NEW h \in Handlers, Unlink(h)
  PROVE  Changing(h) /\ Frame(h) /\ ServeInv'
  <1>0. Changing(h)
    BY ChangingStep DEF Unlink, ReadSteps, ServeInv
  <1>1. Frame(h)
    BY ChangingType, <1>0 DEF Unlink, Step, Frame, Own, Touches, ServeInv, TypeOK, StoreOK, CloudOK, Blobs, HandlersOK, HistoryOK,
       storeVars, cloudVars, localVars, readVars, excuses, promises
  <1>2. Within(h)
    <2>1. DeadEmpty'
      BY DEF Unlink, ServeInv, DeadEmpty, storeVars, cloudVars, localVars, readVars, excuses, promises
    <2>2. CallPart(h)'
      <3>0. /\ pc[h] = "unlink" /\ pc'[h] = IF call[h].op = "write" THEN "create" ELSE "log"
            /\ files'[call[h].path] = None /\ rows' = rows
            /\ call' = call /\ due' = due /\ Tangled' = Tangled
        BY <1>0, ChangingType DEF Unlink, Step, ServeInv, TypeOK, HandlersOK, StoreOK, storeVars, cloudVars, localVars, readVars, excuses, promises
      <3>1. call[h].op # "rename"
        BY <3>0, CallTypes DEF ServeInv, TypeOK, HandlersOK, AtStep, RenameSteps, ReadSteps
      <3>. QED
        BY <3>0, <3>1 DEF PurgePart, UploadPart, RenamePart, ServeInv, CallPart
    <2>3. \A p \in Own(h) \ Tangled :
             /\ files'[p] = None => rows'[p] = NoRows
             /\ acked'[p] # None => Safe(p, acked[p])'
      <3>1. call[h].op \in {"write", "delete"} /\ call[h].to = call[h].path
        BY <1>0, ChangingType, CallTypes DEF Unlink, ServeInv, TypeOK, HandlersOK, AtStep, RenameSteps, ReadSteps
      <3>2. call[h].path \notin Tangled => rows'[call[h].path] = NoRows
        BY <3>1 DEF Unlink, ServeInv, CallPart, PurgePart, storeVars, cloudVars, localVars, readVars, excuses, promises
      <3>. QED
        BY <1>0, <3>1, <3>2, UnpromisedOwn DEF Unlink, Own, Touches, storeVars, cloudVars, localVars, readVars, excuses, promises
    <2>. QED
      BY <2>1, <2>2, <2>3 DEF Within
  <1>. QED
    BY <1>0, <1>1, <1>2, FrameServes

LEMMA CreateFailsServes ==
  ASSUME ServeInv, TypeOK', Steady, NEW h \in Handlers, CreateFails(h)
  PROVE  Changing(h) /\ Frame(h) /\ ServeInv'
  <1>0. Changing(h)
    BY ChangingStep DEF CreateFails, ReadSteps, ServeInv
  <1>1. Frame(h)
    BY <1>0, ReturnServes, ChangingType DEF CreateFails, Abandon, Acknowledge, Frame, Own, Touches, ServeInv, TypeOK, StoreOK, CloudOK, Blobs, HistoryOK, storeVars, cloudVars, localVars, readVars, excuses, promises
  <1>2. Within(h)
    <2>1. DeadEmpty'
      BY DEF CreateFails, ServeInv, DeadEmpty, storeVars, cloudVars, localVars, readVars, excuses, promises
    <2>2. CallPart(h)'
      BY ReturnServes DEF CreateFails, Abandon
    <2>3. \A p \in Own(h) \ Tangled :
             /\ files'[p] = None => rows'[p] = NoRows
             /\ acked'[p] # None => Safe(p, acked[p])'
      BY <1>0, UnpromisedOwn, ChangingType DEF CreateFails, Abandon, Own, Touches, ServeInv, RowsFiled, storeVars, cloudVars, localVars, readVars, excuses, promises
    <2>. QED
      BY <2>1, <2>2, <2>3 DEF Within
  <1>. QED
    BY <1>0, <1>1, <1>2, FrameServes

LEMMA RetableFailsServes ==
  ASSUME ServeInv, TypeOK', Steady, NEW h \in Handlers, RetableFails(h)
  PROVE  Changing(h) /\ Frame(h) /\ ServeInv'
  <1>0. Changing(h)
    BY ChangingStep DEF RetableFails, ReadSteps, ServeInv
  <1>1. Frame(h)
    BY <1>0, ReturnServes, ChangingType DEF RetableFails, Abandon, Acknowledge, Frame, Own, Touches, ServeInv, TypeOK, StoreOK, CloudOK, Blobs, HistoryOK, storeVars, cloudVars, localVars, readVars, excuses, promises
  <1>2. Within(h)
    <2>1. DeadEmpty'
      BY DEF RetableFails, ServeInv, DeadEmpty, storeVars, cloudVars, localVars, readVars, excuses, promises
    <2>2. CallPart(h)'
      BY ReturnServes DEF RetableFails, Abandon
    <2>3. \A p \in Own(h) \ Tangled :
             /\ files'[p] = None => rows'[p] = NoRows
             /\ acked'[p] # None => Safe(p, acked[p])'
      BY <1>0, UnpromisedOwn, ChangingType DEF RetableFails, Abandon, Own, Touches, ServeInv, RowsFiled, storeVars, cloudVars, localVars, readVars, excuses, promises
    <2>. QED
      BY <2>1, <2>2, <2>3 DEF Within
  <1>. QED
    BY <1>0, <1>1, <1>2, FrameServes

LEMMA CreateEmptyServes ==
  ASSUME ServeInv, TypeOK', Steady, NEW h \in Handlers, CreateEmpty(h)
  PROVE  Changing(h) /\ Frame(h) /\ ServeInv'
  <1>0. Changing(h)
    BY ChangingStep DEF CreateEmpty, ReadSteps, ServeInv
  <1>1. Frame(h)
    BY <1>0, ReturnServes, ChangingType DEF CreateEmpty, Abandon, Acknowledge, Frame, Own, Touches, ServeInv, TypeOK, StoreOK, CloudOK, Blobs, HistoryOK, storeVars, cloudVars, localVars, readVars, excuses, promises
  <1>2. Within(h)
    <2>1. DeadEmpty'
      BY DEF CreateEmpty, ServeInv, DeadEmpty, storeVars, cloudVars, localVars, readVars, excuses, promises
    <2>2. CallPart(h)'
      BY ReturnServes DEF CreateEmpty, Acknowledge
    <2>3. \A p \in Own(h) \ Tangled :
             /\ files'[p] = None => rows'[p] = NoRows
             /\ acked'[p] # None => Safe(p, acked[p])'
      <3>. SUFFICES ASSUME NEW p \in Own(h) \ Tangled
                    PROVE  /\ files'[p] = None => rows'[p] = NoRows
                           /\ acked'[p] # None => Safe(p, acked[p])'
        OBVIOUS
      <3>. DEFINE v == call[h].ver
      <3>9. call[h].op = "write" /\ call[h].to = call[h].path /\ call[h].path \in Paths /\ v \in Versions
        BY CallTypes DEF CreateEmpty, ServeInv, TypeOK, HandlersOK, AtStep, RenameSteps, PurgeSteps, ReadSteps
      <3>0. call[h].path = p /\ call[h].op = "write" /\ call[h].to = p /\ p \in Paths /\ v \in Versions
        BY <3>9 DEF Own, Touches
      <3>1. files'[p] = 0 /\ Segs[v] = 0 /\ rows'[p] = NoRows
        BY <3>0 DEF CreateEmpty, ServeInv, CallPart, PurgePart, TypeOK, StoreOK, storeVars, cloudVars, localVars, readVars, excuses, promises
      <3>2. acked'[p] # None => acked'[p] = v
        BY <3>0 DEF CreateEmpty, Acknowledge, ServeInv, CallPart, UploadPart, TypeOK, HistoryOK
      <3>3. SlotsOf(v) = {}
        BY <3>1 DEF SlotsOf, Slots
      <3>4. \A s \in Slots : NoRows[s] = None
        BY DEF NoRows
      <3>5. acked'[p] # None => files'[p] = Segs[acked'[p]] /\ SlotsOf(acked'[p]) = {}
        BY <3>1, <3>2, <3>3
      <3>. QED
        BY <3>0, <3>1, <3>4, <3>5 DEF Safe, Filed, Covers, CreateEmpty
    <2>. QED
      BY <2>1, <2>2, <2>3 DEF Within
  <1>. QED
    BY <1>0, <1>1, <1>2, FrameServes

LEMMA PurgeServes ==
  ASSUME ServeInv, TypeOK', Steady, NEW h \in Handlers, Purge(h)
  PROVE  Changing(h) /\ Frame(h) /\ ServeInv'
  <1>0. Changing(h)
    BY ChangingStep DEF Purge, ReadSteps, ServeInv
  <1>. DEFINE p == call[h].path
  <1>3. p \in Paths
    BY <1>0, ChangingType DEF ServeInv
  <1>4. PICK s \in todo[h] :
          \/ UNCHANGED blobs
          \/ blobs' = [blobs EXCEPT ![plan[h][s]][p][s] = None]
    BY Zenon DEF Purge
  <1>5. s \in Slots /\ plan[h][s] \in Providers /\ blobs \in Blobs
    BY DEF ServeInv, TypeOK, HandlersOK, CloudOK, Pointed
  <1>1. Frame(h)
    <2>1. \A f \in Paths \ {p} : \A x \in Providers : blobs'[x][f] = blobs[x][f]
      <3>1. CASE UNCHANGED blobs
        BY <3>1
      <3>2. CASE blobs' = [blobs EXCEPT ![plan[h][s]][p][s] = None]
        BY <1>3, <1>5, <3>2 DEF Blobs
      <3>. QED
        BY <1>4, <3>1, <3>2
    <2>. QED
      BY <2>1, <1>3 DEF Purge, Loop, Frame, Own, Touches, ServeInv, TypeOK, HandlersOK, HistoryOK, storeVars, cloudVars, localVars, readVars, excuses, promises
  <1>2. Within(h)
    <2>1. DeadEmpty'
      <3>1. dead' = dead /\ dead \subseteq Providers
        BY DEF Purge, ServeInv, TypeOK, CloudOK
      <3>2. CASE UNCHANGED blobs
        BY <3>1, <3>2 DEF ServeInv, DeadEmpty
      <3>3. CASE blobs' = [blobs EXCEPT ![plan[h][s]][p][s] = None]
        BY <1>3, <1>5, <3>1, <3>3 DEF ServeInv, DeadEmpty, Blobs
      <3>. QED
        BY <1>4, <3>2, <3>3
    <2>2. CallPart(h)'
      <3>1. call[h].op # "rename"
        BY CallTypes DEF Purge, ServeInv, TypeOK, HandlersOK, AtStep, RenameSteps, ReadSteps
      <3>2. /\ pc[h] = "purge" /\ pc'[h] \in {"purge", "unrow"}
            /\ call' = call /\ due' = due /\ Tangled' = Tangled
        BY DEF Purge, Loop, ServeInv, TypeOK, HandlersOK, storeVars, cloudVars, localVars, readVars, excuses, promises
      <3>. QED
        BY <3>1, <3>2 DEF PurgePart, UploadPart, RenamePart, ServeInv, CallPart
    <2>3. \A f \in Own(h) \ Tangled :
             /\ files'[f] = None => rows'[f] = NoRows
             /\ acked'[f] # None => Safe(f, acked[f])'
      BY <1>0, UnpromisedOwn, ChangingType DEF Purge, Own, Touches, ServeInv, RowsFiled, storeVars, cloudVars, localVars, readVars, excuses, promises
    <2>. QED
      BY <2>1, <2>2, <2>3 DEF Within
  <1>. QED
    BY <1>0, <1>1, <1>2, FrameServes

LEMMA CreateFileServes ==
  ASSUME ServeInv, TypeOK', Steady, NEW h \in Handlers, CreateFile(h)
  PROVE  Changing(h) /\ Frame(h) /\ ServeInv'
  <1>0. Changing(h)
    BY ChangingStep DEF CreateFile, ReadSteps, ServeInv
  <1>1. Frame(h)
    BY ChangingType, <1>0 DEF CreateFile, Step, Frame, Own, Touches, ServeInv, TypeOK, StoreOK, CloudOK, Blobs, HandlersOK, HistoryOK,
       storeVars, cloudVars, localVars, readVars, excuses, promises
  <1>2. Within(h)
    <2>. DEFINE p == call[h].path
                v == call[h].ver
    <2>9. /\ call[h].op = "write" /\ call[h].to = p /\ p \in Paths /\ v \in Versions
      BY CallTypes DEF CreateFile, ServeInv, TypeOK, HandlersOK, AtStep, RenameSteps, PurgeSteps, ReadSteps
    <2>0. /\ call[h].op = "write" /\ call[h].to = p /\ p \in Paths /\ v \in Versions /\ Segs[v] \in Nat
      BY <2>9, ShapeAssumption
    <2>1. DeadEmpty'
      BY DEF CreateFile, ServeInv, DeadEmpty, storeVars, cloudVars, localVars, readVars, excuses, promises
    <2>2. CallPart(h)'
      <3>1. PICK pm \in Placements :
              plan' = [plan EXCEPT ![h] =
                         [s \in Slots |-> IF s[1] < Segs[v] THEN pm[s[2]] ELSE None]]
        BY DEF CreateFile
      <3>2. /\ pc'[h] = "put" /\ todo'[h] = SlotsOf(v) /\ files'[p] = Segs[v]
            /\ plan'[h] = [s \in Slots |-> IF s[1] < Segs[v] THEN pm[s[2]] ELSE None]
            /\ rows' = rows /\ blobs' = blobs /\ dead' = dead
            /\ call' = call /\ due' = due /\ Tangled' = Tangled
            /\ pc[h] = "create"
        BY <2>0, <3>1 DEF CreateFile, Step, ServeInv, TypeOK, HandlersOK, StoreOK, storeVars, cloudVars, localVars, readVars, excuses, promises
      <3>3. Covers(plan'[h], v)
        <4>1. \A i \in Shards : pm[i] \in Providers /\ pm[i] # None
          BY <3>1, PlacementsType, NoneAssumption
        <4>2. \A s \in Slots : plan'[h][s] # None <=> s \in SlotsOf(v)
          BY <3>2, <4>1 DEF SlotsOf, Slots
        <4>. QED
          BY <4>2 DEF Covers
      <3>4. PurgePart(h)'
        BY <2>0, <3>2 DEF PurgePart
      <3>5. UploadPart(h)'
        <4>1. p \notin Tangled => rows[p] = NoRows /\ due[h] = v
          BY <2>0, <3>2 DEF ServeInv, CallPart, PurgePart, UploadPart
        <4>2. \A s \in Slots : s \notin SlotsOf(v) => plan'[h][s] = None
          BY <3>3 DEF Covers
        <4>. QED
          BY <2>0, <3>2, <3>3, <4>1, <4>2 DEF UploadPart, NoRows
      <3>6. RenamePart(h)'
        BY <2>0, <3>2 DEF RenamePart
      <3>. QED
        BY <3>4, <3>5, <3>6 DEF CallPart
    <2>3. \A f \in Own(h) \ Tangled :
             /\ files'[f] = None => rows'[f] = NoRows
             /\ acked'[f] # None => Safe(f, acked[f])'
      BY <1>0, <2>0, UnpromisedOwn, NoneAssumption DEF CreateFile, Own, Touches, ServeInv, TypeOK, StoreOK, storeVars, cloudVars, localVars, readVars, excuses, promises
    <2>. QED
      BY <2>1, <2>2, <2>3 DEF Within
  <1>. QED
    BY <1>0, <1>1, <1>2, FrameServes

LEMMA PutServes ==
  ASSUME ServeInv, TypeOK', Steady, NEW h \in Handlers, Put(h)
  PROVE  Changing(h) /\ Frame(h) /\ ServeInv'
  <1>0. Changing(h)
    BY ChangingStep DEF Put, ReadSteps, ServeInv
  <1>. DEFINE p == call[h].path
              v == call[h].ver
  <1>3. call[h].op = "write" /\ call[h].to = p /\ p \in Paths /\ v \in Versions
    BY CallTypes DEF Put, ServeInv, TypeOK, HandlersOK, AtStep, RenameSteps, PurgeSteps, ReadSteps
  <1>4. PICK s \in todo[h] :
          /\ plan[h][s] \notin dead
          /\ blobs' = [blobs EXCEPT ![plan[h][s]][p][s] = v]
          /\ cur'[h] = s /\ todo'[h] = todo[h] \ {s}
    BY DEF Put, First, ServeInv, TypeOK, HandlersOK
  <1>5. s \in Slots /\ plan[h][s] \in Providers
    BY DEF ServeInv, TypeOK, HandlersOK, Pointed
  <1>1. Frame(h)
    BY ChangingType, <1>0, <1>3, <1>4, <1>5 DEF Put, Step, Frame, Own, Touches, ServeInv, TypeOK, StoreOK, CloudOK, Blobs, HandlersOK, HistoryOK, storeVars, cloudVars, localVars, readVars, excuses, promises
  <1>2. Within(h)
    <2>0. /\ pc[h] = "put" /\ pc'[h] = "record" /\ plan' = plan /\ files' = files
          /\ rows' = rows /\ dead' = dead /\ call' = call /\ due' = due
          /\ Tangled' = Tangled /\ acked' = acked
      BY DEF Put, Step, ServeInv, TypeOK, HandlersOK, storeVars, cloudVars, localVars, readVars, excuses, promises
    <2>1. DeadEmpty'
      BY <1>3, <1>4, <1>5, <2>0 DEF ServeInv, DeadEmpty, TypeOK, CloudOK, Blobs
    <2>2. CallPart(h)'
      <3>1. PurgePart(h)' /\ RenamePart(h)'
        BY <1>3, <2>0 DEF PurgePart, RenamePart
      <3>2. UploadPart(h)'
        <4>. SUFFICES ASSUME p \notin Tangled PROVE UploadPart(h)'
          BY <2>0 DEF UploadPart
        <4>1. /\ due[h] = v /\ files[p] = Segs[v] /\ Covers(plan[h], v)
              /\ todo[h] \subseteq SlotsOf(v)
              /\ \A t \in SlotsOf(v) \ todo[h] : There(plan[h][t], p, t, v)
              /\ \A t \in Slots : rows[p][t] = IF t \in todo[h] THEN None ELSE plan[h][t]
          BY <1>3, <2>0 DEF ServeInv, CallPart, UploadPart
        <4>2. \A t \in SlotsOf(v) : t \in Slots /\ plan[h][t] \in Providers
          BY <4>1, CoversProviders DEF ServeInv, TypeOK, HandlersOK
        <4>3. \A t \in SlotsOf(v) \ todo'[h] : There(plan[h][t], p, t, v)'
          <5>1. \A y \in Providers, t \in Slots :
                   blobs'[y][p][t] = IF y = plan[h][s] /\ t = s THEN v ELSE blobs[y][p][t]
            BY <1>3, <1>4, <1>5 DEF ServeInv, TypeOK, CloudOK, Blobs
          <5>2. ASSUME NEW t \in SlotsOf(v) \ todo'[h] PROVE There(plan[h][t], p, t, v)'
            <6>1. t \in Slots /\ plan[h][t] \in Providers
              BY <4>2
            <6>2. CASE t = s
              <7>1. blobs'[plan[h][t]][p][t] = v
                BY <5>1, <6>1, <6>2
              <7>. QED
                BY <2>0, <7>1 DEF There
            <6>3. CASE t # s
              <7>1. There(plan[h][t], p, t, v)
                BY <1>4, <4>1, <6>3
              <7>. QED
                BY <2>0, <5>1, <6>1, <6>3, <7>1 DEF There
            <6>. QED
              BY <6>2, <6>3
          <5>. QED
            BY <1>4, <5>2
        <4>. QED
          BY <1>4, <1>5, <2>0, <4>1, <4>3 DEF UploadPart
      <3>. QED
        BY <3>1, <3>2 DEF CallPart
    <2>3. \A f \in Own(h) \ Tangled :
             /\ files'[f] = None => rows'[f] = NoRows
             /\ acked'[f] # None => Safe(f, acked[f])'
      BY <1>0, <2>0, UnpromisedOwn, ChangingType DEF Own, Touches, ServeInv, RowsFiled
    <2>. QED
      BY <2>1, <2>2, <2>3 DEF Within
  <1>. QED
    BY <1>0, <1>1, <1>2, FrameServes

LEMMA PutFailsServes ==
  ASSUME ServeInv, TypeOK', Steady, NEW h \in Handlers, PutFails(h)
  PROVE  Changing(h) /\ Frame(h) /\ ServeInv'
  <1>0. Changing(h)
    BY ChangingStep DEF PutFails, ReadSteps, ServeInv
  <1>. DEFINE p == call[h].path
  <1>3. call[h].op = "write" /\ call[h].to = p /\ p \in Paths
    BY CallTypes DEF PutFails, ServeInv, TypeOK, HandlersOK, AtStep, RenameSteps, PurgeSteps, ReadSteps
  <1>4. PICK s \in todo[h] :
          \/ UNCHANGED blobs
          \/ /\ plan[h][s] \notin dead
             /\ \E b : blobs' = [blobs EXCEPT ![plan[h][s]][p][s] = b]
    BY Zenon DEF PutFails, First
  <1>5. s \in Slots /\ plan[h][s] \in Providers
    BY DEF ServeInv, TypeOK, HandlersOK, Pointed
  <1>6. /\ Return(h) /\ acked' = acked /\ Tangled' = Tangled /\ contended' = contended
        /\ UNCHANGED <<storeVars, dead>>
    BY DEF PutFails, Abandon
  <1>1. Frame(h)
    <2>1. \A f \in Paths \ {p} : \A x \in Providers : blobs'[x][f] = blobs[x][f]
      <3>1. CASE UNCHANGED blobs
        BY <3>1
      <3>2. ASSUME NEW b, blobs' = [blobs EXCEPT ![plan[h][s]][p][s] = b]
            PROVE  \A f \in Paths \ {p} : \A x \in Providers : blobs'[x][f] = blobs[x][f]
        BY <1>3, <1>5, <3>2 DEF Blobs
      <3>. QED
        BY <1>4, <3>1, <3>2
    <2>. QED
      BY <1>3, <1>6, <2>1, ReturnServes DEF Frame, Own, Touches, storeVars, cloudVars, localVars, readVars, excuses, promises
  <1>2. Within(h)
    <2>1. DeadEmpty'
      <3>0. dead' = dead /\ dead \subseteq Providers
        BY <1>6 DEF ServeInv, TypeOK, CloudOK
      <3>1. CASE UNCHANGED blobs
        BY <3>0, <3>1 DEF ServeInv, DeadEmpty
      <3>2. ASSUME NEW b, plan[h][s] \notin dead, blobs' = [blobs EXCEPT ![plan[h][s]][p][s] = b]
            PROVE  DeadEmpty'
        BY <1>3, <1>5, <3>0, <3>2 DEF ServeInv, DeadEmpty, Blobs
      <3>. QED
        BY <1>4, <3>1, <3>2
    <2>2. CallPart(h)'
      BY <1>6, ReturnServes
    <2>3. \A f \in Own(h) \ Tangled :
             /\ files'[f] = None => rows'[f] = NoRows
             /\ acked'[f] # None => Safe(f, acked[f])'
      BY <1>0, <1>6, UnpromisedOwn, ChangingType DEF Own, Touches, ServeInv, RowsFiled, storeVars, cloudVars, localVars, readVars, excuses, promises
    <2>. QED
      BY <2>1, <2>2, <2>3 DEF Within
  <1>. QED
    BY <1>0, <1>1, <1>2, FrameServes

LEMMA RecordServes ==
  ASSUME ServeInv, TypeOK', Steady, NEW h \in Handlers, Record(h)
  PROVE  Changing(h) /\ Frame(h) /\ ServeInv'
  <1>0. Changing(h)
    BY ChangingStep DEF Record, ReadSteps, ServeInv
  <1>. DEFINE p == call[h].path
              v == call[h].ver
  <1>9. /\ call[h].op = "write" /\ call[h].to = p /\ p \in Paths /\ v \in Versions
    BY CallTypes DEF Record, ServeInv, TypeOK, HandlersOK, AtStep, RenameSteps, PurgeSteps, ReadSteps
  <1>3. /\ call[h].op = "write" /\ call[h].to = p /\ p \in Paths /\ v \in Versions /\ Segs[v] \in Nat
    BY <1>9, ShapeAssumption
  <1>4. /\ rows' = [rows EXCEPT ![p][cur[h]] = IF @ = None THEN plan[h][cur[h]] ELSE @]
        /\ pc[h] = "record" /\ pc'[h] = IF todo[h] = {} THEN "log" ELSE "put"
        /\ files' = files /\ blobs' = blobs /\ dead' = dead /\ call' = call /\ due' = due
        /\ plan' = plan /\ todo' = todo /\ Tangled' = Tangled /\ acked' = acked
    BY DEF Record, Step, ServeInv, TypeOK, HandlersOK, storeVars, cloudVars, localVars, readVars, excuses, promises
  <1>5. cur[h] \in Slots /\ plan[h][cur[h]] \in Providers
    BY <1>4 DEF ServeInv, TypeOK, HandlersOK, Pointed
  <1>6. p \notin Tangled =>
          /\ due[h] = v /\ files[p] = Segs[v] /\ Covers(plan[h], v)
          /\ todo[h] \subseteq SlotsOf(v) /\ cur[h] \in SlotsOf(v) \ todo[h]
          /\ \A t \in SlotsOf(v) \ todo[h] : There(plan[h][t], p, t, v)
          /\ \A t \in Slots : rows[p][t] = IF t \in todo[h] \/ t = cur[h] THEN None ELSE plan[h][t]
    BY <1>3, <1>4 DEF ServeInv, CallPart, UploadPart
  <1>1. Frame(h)
    BY <1>3, <1>4 DEF Record, Step, Frame, Own, Touches, ServeInv, TypeOK, StoreOK, CloudOK, Blobs, HandlersOK, HistoryOK, storeVars, cloudVars, localVars, readVars, excuses, promises
  <1>2. Within(h)
    <2>1. DeadEmpty'
      BY <1>4 DEF ServeInv, DeadEmpty
    <2>2. CallPart(h)'
      <3>1. PurgePart(h)' /\ RenamePart(h)'
        BY <1>3, <1>4 DEF PurgePart, RenamePart
      <3>2. UploadPart(h)'
        <4>. SUFFICES ASSUME p \notin Tangled PROVE UploadPart(h)'
          BY <1>4 DEF UploadPart
        <4>1. \A t \in Slots : rows'[p][t] = IF t \in todo[h] THEN None ELSE plan[h][t]
          BY <1>3, <1>4, <1>5, <1>6 DEF ServeInv, TypeOK, StoreOK, ShardMaps
        <4>. QED
          BY <1>3, <1>4, <1>6, <4>1 DEF UploadPart, There
      <3>. QED
        BY <3>1, <3>2 DEF CallPart
    <2>3. \A f \in Own(h) \ Tangled :
             /\ files'[f] = None => rows'[f] = NoRows
             /\ acked'[f] # None => Safe(f, acked[f])'
      BY <1>0, <1>3, <1>4, <1>6, UnpromisedOwn, NoneAssumption DEF Own, Touches
    <2>. QED
      BY <2>1, <2>2, <2>3 DEF Within
  <1>. QED
    BY <1>0, <1>1, <1>2, FrameServes

LEMMA LogServes ==
  ASSUME ServeInv, TypeOK', Steady, NEW h \in Handlers, Log(h)
  PROVE  Changing(h) /\ Frame(h) /\ ServeInv'
  <1>0. Changing(h)
    BY ChangingStep DEF Log, ReadSteps, ServeInv
  <1>. DEFINE v == due[h]
  <1>1. Frame(h)
    BY <1>0, ReturnServes, ChangingType DEF Log, Acknowledge, Frame, Own, Touches, ServeInv,
       TypeOK, HistoryOK, cloudVars, excuses
  <1>2. /\ pc[h] = "log" /\ todo[h] = {} /\ files' = files /\ rows' = rows
        /\ blobs' = blobs /\ dead' = dead
        /\ acked' = [acked EXCEPT ![call[h].to] = IF clean[h] THEN due[h] ELSE None]
    BY DEF Log, Acknowledge, cloudVars, ServeInv, TypeOK, HandlersOK, Pointed
  <1>3. ASSUME NEW p \in Own(h) \ Tangled, acked'[p] # None
        PROVE  p = call[h].to /\ acked'[p] = v /\ v # None /\ clean[h] /\ Safe(p, v)
    <2>1. p = call[h].to /\ acked'[p] = v /\ v # None /\ clean[h] /\ p \in Paths
      BY <1>0, <1>2, <1>3, UnpromisedOwn, ChangingType DEF Own, Touches, ServeInv, TypeOK, HistoryOK
    <2>2. CASE call[h].op = "rename"
      BY <1>2, <1>3, <2>1, <2>2 DEF ServeInv, CallPart, RenamePart
    <2>3. CASE call[h].op = "delete"
      BY <1>0, <1>2, <1>3, <2>1, <2>3, ChangingType DEF ServeInv, CallPart, PurgePart
    <2>4. CASE call[h].op = "write"
      <3>1. call[h].path = p /\ call[h].ver = v
        BY <1>0, <1>3, <2>1, <2>4, ChangingType DEF ServeInv, CallPart, UploadPart
      <3>2. /\ files[p] = Segs[v] /\ Covers(plan[h], v)
            /\ \A s \in SlotsOf(v) : There(plan[h][s], p, s, v)
            /\ \A s \in Slots : rows[p][s] = plan[h][s]
        BY <1>2, <1>3, <2>4, <3>1 DEF ServeInv, CallPart, UploadPart
      <3>3. \A s \in SlotsOf(v) : s \in Slots
        BY DEF SlotsOf
      <3>4. Covers(rows[p], v)
        BY <3>2, <3>3 DEF Covers
      <3>5. \A s \in SlotsOf(v) : There(rows[p][s], p, s, v)
        BY <3>2, <3>3
      <3>. QED
        BY <2>1, <3>2, <3>4, <3>5 DEF Safe, Filed
    <2>. QED
      BY <1>0, <2>1, <2>2, <2>3, <2>4, ChangingType DEF ServeInv
  <1>4. Within(h)
    <2>1. DeadEmpty'
      BY <1>2 DEF ServeInv, DeadEmpty
    <2>2. CallPart(h)'
      BY ReturnServes DEF Log, Acknowledge
    <2>3. \A p \in Own(h) \ Tangled : files'[p] = None => rows'[p] = NoRows
      BY <1>0, <1>2, ChangingType DEF Own, Touches, ServeInv, RowsFiled
    <2>4. \A p \in Own(h) \ Tangled : acked'[p] # None => Safe(p, acked[p])'
      BY <1>2, <1>3 DEF Safe, Filed, There
    <2>. QED
      BY <2>1, <2>2, <2>3, <2>4 DEF Within
  <1>. QED
    BY <1>0, <1>1, <1>4, FrameServes

(* What a rename that may still succeed has to keep.                       *)
LEMMA RenameStill ==
  ASSUME ServeInv, NEW h \in Handlers, call[h].op = "rename", call[h].to \notin Tangled,
         due[h] # None, clean[h], pc[h] \in {"get", "copy", "erase", "retable"}
  PROVE  /\ call[h].path # call[h].to
         /\ Filed(call[h].path, plan[h], due[h])
         /\ todo[h] \subseteq SlotsOf(due[h])
         /\ pc[h] \in {"copy", "erase"} => cur[h] \in SlotsOf(due[h]) \ todo[h]
         /\ \A s \in SlotsOf(due[h]) :
              IF s \in todo[h] THEN There(plan[h][s], call[h].path, s, due[h])
              ELSE IF pc[h] = "copy" /\ s = cur[h] THEN held[h] = due[h]
              ELSE There(plan[h][s], call[h].to, s, due[h])
         /\ \A s \in SlotsOf(due[h]) : s \in Slots /\ plan[h][s] \in Providers
  <1>1. Filed(call[h].path, plan[h], due[h])
    BY DEF ServeInv, CallPart, RenamePart
  <1>2. \A s \in SlotsOf(due[h]) : s \in Slots /\ plan[h][s] \in Providers
    BY <1>1, CoversProviders DEF Filed, ServeInv, TypeOK, HandlersOK
  <1>. QED
    BY <1>1, <1>2 DEF ServeInv, CallPart, RenamePart

LEMMA RenameHandler ==
  ASSUME ServeInv, NEW h \in Handlers, pc[h] \in {"get", "copy", "erase", "retable"}
  PROVE  /\ call[h].op = "rename" /\ call[h].path \in Paths /\ call[h].to \in Paths
         /\ Changing(h)
  <1>1. call[h].op = "rename" /\ call[h].path \in Paths /\ call[h].to \in Paths
    BY CallTypes DEF ServeInv, TypeOK, HandlersOK, AtStep, WriteSteps, PurgeSteps, ReadSteps
  <1>. QED
    BY <1>1, ChangingStep DEF ReadSteps, ServeInv

LEMMA GetServes ==
  ASSUME ServeInv, TypeOK', Steady, NEW h \in Handlers, Get(h)
  PROVE  Changing(h) /\ Frame(h) /\ ServeInv'
  <1>. DEFINE p == call[h].path
              q == call[h].to
              v == due[h]
  <1>0. pc[h] = "get" /\ Changing(h) /\ call[h].op = "rename" /\ p \in Paths /\ q \in Paths
    BY RenameHandler DEF Get
  <1>2. /\ files' = files /\ rows' = rows /\ blobs' = blobs /\ dead' = dead
        /\ call' = call /\ due' = due /\ plan' = plan /\ Tangled' = Tangled
        /\ acked' = acked /\ contended' = contended
    BY DEF Get, storeVars, cloudVars
  <1>3. PICK s \in todo[h] :
          LET b == blobs[plan[h][s]][p][s]
          IN  \/ /\ b # None
                 /\ held' = [held EXCEPT ![h] = b]
                 /\ cur' = [cur EXCEPT ![h] = s]
                 /\ todo' = [todo EXCEPT ![h] = @ \ {s}]
                 /\ Step(h, "copy")
                 /\ UNCHANGED <<faults, soiled, clean>>
              \/ /\ b = None
                 /\ Loop(h, s, "retable")
                 /\ clean' = [clean EXCEPT ![h] = @ /\ plan[h][s] \in dead]
                 /\ UNCHANGED <<cur, held, faults, soiled>>
              \/ /\ b # None /\ Fault
                 /\ Loop(h, s, "retable")
                 /\ clean' = [clean EXCEPT ![h] = FALSE]
                 /\ soiled' = soiled \cup Touches(call[h])
                 /\ UNCHANGED <<cur, held>>
    BY Zenon DEF Get
  <1>4. /\ todo'[h] = todo[h] \ {s}
        /\ \/ /\ pc'[h] = "copy" /\ cur'[h] = s /\ clean' = clean
              /\ held'[h] = blobs[plan[h][s]][p][s] /\ held'[h] # None
           \/ /\ pc'[h] \in {"get", "retable"} /\ blobs[plan[h][s]][p][s] = None
              /\ clean'[h] => clean[h] /\ plan[h][s] \in dead
           \/ clean'[h] = FALSE /\ pc'[h] \in {"get", "retable"}
        /\ \A g \in Handlers \ {h} :
              /\ pc'[g] = pc[g] /\ todo'[g] = todo[g] /\ cur'[g] = cur[g]
              /\ held'[g] = held[g] /\ clean'[g] = clean[g]
    BY <1>0, <1>3 DEF Step, Loop, ServeInv, TypeOK, HandlersOK, HistoryOK
  <1>1. Frame(h)
    BY <1>2, <1>4 DEF Frame
  <1>5. Within(h)
    <2>1. DeadEmpty'
      BY <1>2 DEF ServeInv, DeadEmpty
    <2>2. CallPart(h)'
      <3>1. PurgePart(h)' /\ UploadPart(h)'
        BY <1>0, <1>2 DEF PurgePart, UploadPart
      <3>2. RenamePart(h)'
        <4>. SUFFICES ASSUME q \notin Tangled, v # None, clean'[h]
                      PROVE  RenamePart(h)'
          BY <1>2 DEF RenamePart
        <4>1. /\ clean[h] /\ todo'[h] = todo[h] \ {s}
              /\ \/ /\ pc'[h] = "copy" /\ cur'[h] = s
                    /\ held'[h] = blobs[plan[h][s]][p][s] /\ held'[h] # None
                 \/ pc'[h] \in {"get", "retable"} /\ plan[h][s] \in dead
          BY <1>4
        <4>2. /\ p # q /\ Filed(p, plan[h], v) /\ todo[h] \subseteq SlotsOf(v)
              /\ \A t \in SlotsOf(v) :
                   IF t \in todo[h] THEN There(plan[h][t], p, t, v)
                   ELSE There(plan[h][t], q, t, v)
              /\ \A t \in SlotsOf(v) : t \in Slots /\ plan[h][t] \in Providers
          BY <1>0, <4>1, RenameStill
        <4>3. CASE pc'[h] = "copy"
          <5>1. held'[h] = v
            BY <1>0, <4>1, <4>2, <4>3 DEF There, ServeInv, DeadEmpty
          <5>. QED
            BY <1>0, <1>2, <4>1, <4>2, <4>3, <5>1 DEF RenamePart, Filed, There
        <4>4. CASE pc'[h] \in {"get", "retable"}
          <5>1. faults # 0 /\ \A t \in Slots : blobs[plan[h][s]][q][t] = None
            BY <1>0, <4>1, <4>4 DEF ServeInv, DeadEmpty, DeadFault
          <5>2. s \in SlotsOf(v)
            BY <4>2
          <5>. QED
            BY <1>0, <1>2, <4>1, <4>2, <4>4, <5>1, <5>2 DEF RenamePart, Filed, There
        <4>. QED
          BY <4>1, <4>3, <4>4
      <3>. QED
        BY <3>1, <3>2 DEF CallPart
    <2>3. \A f \in Own(h) \ Tangled :
             /\ files'[f] = None => rows'[f] = NoRows
             /\ acked'[f] # None => Safe(f, acked[f])'
      BY <1>0, <1>2, UnpromisedOwn DEF Own, Touches, ServeInv, RowsFiled
    <2>. QED
      BY <2>1, <2>2, <2>3 DEF Within
  <1>. QED
    BY <1>0, <1>1, <1>5, FrameServes

LEMMA CopyServes ==
  ASSUME ServeInv, TypeOK', Steady, NEW h \in Handlers, Copy(h)
  PROVE  Changing(h) /\ Frame(h) /\ ServeInv'
  <1>. DEFINE p == call[h].path
              q == call[h].to
              v == due[h]
              s == cur[h]
              x == plan[h][s]
              now(b, f, t) == b = v \/ (b = None /\ (faults # 0 \/ Moving(f, t)))
  <1>0. pc[h] = "copy" /\ Changing(h) /\ call[h].op = "rename" /\ p \in Paths /\ q \in Paths
    BY RenameHandler DEF Copy
  <1>2. /\ files' = files /\ rows' = rows /\ dead' = dead /\ call' = call /\ due' = due
        /\ plan' = plan /\ todo' = todo /\ Tangled' = Tangled /\ acked' = acked
        /\ cur' = cur /\ held' = held /\ pc' = [pc EXCEPT ![h] = "erase"]
        /\ contended' = contended
    BY DEF Copy, Step, storeVars, localVars, excuses
  <1>3. s \in Slots /\ x \in Providers /\ blobs \in Blobs
    BY <1>0 DEF ServeInv, TypeOK, HandlersOK, CloudOK, Pointed
  <1>4. \/ /\ x \notin dead /\ blobs' = [blobs EXCEPT ![x][q][s] = held[h]] /\ clean' = clean
        \/ x \in dead /\ blobs' = blobs /\ clean' = clean
        \/ /\ x \notin dead /\ clean' = [clean EXCEPT ![h] = FALSE]
           /\ \E b : blobs' = [blobs EXCEPT ![x][q][s] = b]
    BY Zenon DEF Copy
  <1>5. /\ \A f \in Paths \ {q}, y \in Providers : blobs'[y][f] = blobs[y][f]
        /\ \A t \in Slots \ {s}, y \in Providers : blobs'[y][q][t] = blobs[y][q][t]
        /\ \A y \in Providers \ {x} : blobs'[y] = blobs[y]
    <2>1. ASSUME NEW b, blobs' = [blobs EXCEPT ![x][q][s] = b]
          PROVE  <1>5
      <3>1. \A f \in Paths \ {q}, y \in Providers : blobs'[y][f] = blobs[y][f]
        BY <1>0, <1>3, <2>1 DEF Blobs
      <3>2. \A t \in Slots \ {s}, y \in Providers : blobs'[y][q][t] = blobs[y][q][t]
        BY <1>0, <1>3, <2>1, SMTT(30) DEF Blobs
      <3>3. \A y \in Providers \ {x} : blobs'[y] = blobs[y]
        BY <1>0, <1>3, <2>1 DEF Blobs
      <3>. QED
        BY <3>1, <3>2, <3>3
    <2>. QED
      BY <1>4, <2>1
  <1>7. clean'[h] => clean[h] /\ (x \in dead \/ blobs'[x][q][s] = held[h])
    <2>1. CASE x \notin dead /\ blobs' = [blobs EXCEPT ![x][q][s] = held[h]] /\ clean' = clean
      <3>1. blobs'[x][q][s] = held[h]
        BY <1>0, <1>3, <2>1 DEF Blobs
      <3>. QED
        BY <2>1, <3>1
    <2>2. CASE x \in dead /\ clean' = clean
      BY <2>2
    <2>3. CASE clean' = [clean EXCEPT ![h] = FALSE]
      BY <2>3 DEF ServeInv, TypeOK, HistoryOK
    <2>. QED
      BY <1>4, <2>1, <2>2, <2>3
  <1>8. x \in dead => blobs' = blobs
    BY <1>4
  <1>9. \A g \in Handlers \ {h} : clean'[g] = clean[g]
    BY <1>4 DEF ServeInv, TypeOK, HistoryOK
  <1>1. Frame(h)
    BY <1>0, <1>2, <1>5, <1>9 DEF Frame, Own, Touches, ServeInv, TypeOK, HandlersOK
  <1>6. Within(h)
    <2>1. DeadEmpty'
      <3>1. \A y \in dead : blobs'[y] = blobs[y]
        BY <1>5, <1>8 DEF ServeInv, TypeOK, CloudOK
      <3>. QED
        BY <1>2, <3>1 DEF ServeInv, DeadEmpty
    <2>2. CallPart(h)'
      <3>1. PurgePart(h)' /\ UploadPart(h)'
        BY <1>0, <1>2 DEF PurgePart, UploadPart
      <3>2. RenamePart(h)'
        <4>. SUFFICES ASSUME q \notin Tangled, v # None, clean'[h]
                      PROVE  RenamePart(h)'
          BY <1>2 DEF RenamePart
        <4>2. /\ p # q /\ Filed(p, plan[h], v) /\ todo[h] \subseteq SlotsOf(v)
              /\ s \in SlotsOf(v) \ todo[h]
              /\ \A t \in SlotsOf(v) :
                   IF t \in todo[h] THEN There(plan[h][t], p, t, v)
                   ELSE IF t = s THEN held[h] = v
                   ELSE There(plan[h][t], q, t, v)
              /\ \A t \in SlotsOf(v) : t \in Slots /\ plan[h][t] \in Providers
          BY <1>0, <1>7, RenameStill
        <4>3. \A t \in SlotsOf(v) :
                IF t \in todo[h] THEN now(blobs'[plan[h][t]][p][t], p, t)
                ELSE now(blobs'[plan[h][t]][q][t], q, t)
          <5>. SUFFICES ASSUME NEW t \in SlotsOf(v)
                        PROVE  IF t \in todo[h] THEN now(blobs'[plan[h][t]][p][t], p, t)
                               ELSE now(blobs'[plan[h][t]][q][t], q, t)
            OBVIOUS
          <5>1. CASE t \in todo[h]
            BY <1>0, <1>5, <4>2, <5>1 DEF There
          <5>2. CASE t \notin todo[h] /\ t = s
            <6>1. CASE blobs'[x][q][s] = held[h]
              BY <4>2, <5>2, <6>1
            <6>2. CASE x \in dead
              <7>1. blobs'[x][q][s] = None /\ faults # 0
                BY <1>0, <1>3, <1>8, <6>2 DEF ServeInv, DeadEmpty, DeadFault
              <7>. QED
                BY <5>2, <7>1
            <6>. QED
              BY <1>7, <6>1, <6>2
          <5>3. CASE t \notin todo[h] /\ t # s
            BY <1>0, <1>5, <4>2, <5>3 DEF There
          <5>. QED
            BY <5>1, <5>2, <5>3
        <4>4. pc'[h] = "erase"
          BY <1>2 DEF ServeInv, TypeOK, HandlersOK
        <4>. QED
          BY <1>0, <1>2, <4>2, <4>3, <4>4 DEF RenamePart, Filed, There
      <3>. QED
        BY <3>1, <3>2 DEF CallPart
    <2>3. \A f \in Own(h) \ Tangled :
             /\ files'[f] = None => rows'[f] = NoRows
             /\ acked'[f] # None => Safe(f, acked[f])'
      BY <1>0, <1>2, UnpromisedOwn DEF Own, Touches, ServeInv, RowsFiled
    <2>. QED
      BY <2>1, <2>2, <2>3 DEF Within
  <1>. QED
    BY <1>0, <1>1, <1>6, FrameServes

LEMMA EraseServes ==
  ASSUME ServeInv, TypeOK', Steady, NEW h \in Handlers, Erase(h)
  PROVE  Changing(h) /\ Frame(h) /\ ServeInv'
  <1>. DEFINE p == call[h].path
              q == call[h].to
              v == due[h]
              s == cur[h]
              x == plan[h][s]
              now(b, f, t) == b = v \/ (b = None /\ (faults # 0 \/ Moving(f, t)))
  <1>0. pc[h] = "erase" /\ Changing(h) /\ call[h].op = "rename" /\ p \in Paths /\ q \in Paths
    BY RenameHandler DEF Erase
  <1>2. /\ files' = files /\ rows' = rows /\ dead' = dead /\ call' = call /\ due' = due
        /\ plan' = plan /\ todo' = todo /\ Tangled' = Tangled /\ acked' = acked
        /\ cur' = cur /\ held' = held /\ clean' = clean
        /\ pc' = [pc EXCEPT ![h] = IF todo[h] = {} THEN "retable" ELSE "get"]
        /\ contended' = contended
    BY DEF Erase, Step, storeVars, localVars, promises, excuses
  <1>3. s \in Slots /\ x \in Providers /\ blobs \in Blobs
    BY <1>0 DEF ServeInv, TypeOK, HandlersOK, CloudOK, Pointed
  <1>4. blobs' = [blobs EXCEPT ![x][p][s] = None] \/ blobs' = blobs
    BY Zenon DEF Erase
  <1>5. /\ \A f \in Paths \ {p}, y \in Providers : blobs'[y][f] = blobs[y][f]
        /\ \A t \in Slots \ {s}, y \in Providers : blobs'[y][p][t] = blobs[y][p][t]
        /\ \A y \in Providers, f \in Paths, t \in Slots :
              blobs[y][f][t] = None => blobs'[y][f][t] = None
    <2>1. CASE blobs' = [blobs EXCEPT ![x][p][s] = None]
      BY <1>0, <1>3, <2>1 DEF Blobs
    <2>2. CASE blobs' = blobs
      BY <2>2
    <2>. QED
      BY <1>4, <2>1, <2>2
  <1>1. Frame(h)
    BY <1>0, <1>2, <1>5 DEF Frame, Own, Touches, ServeInv, TypeOK, HandlersOK
  <1>6. Within(h)
    <2>1. DeadEmpty'
      BY <1>2, <1>5 DEF ServeInv, DeadEmpty, TypeOK, CloudOK
    <2>2. CallPart(h)'
      <3>1. PurgePart(h)' /\ UploadPart(h)'
        BY <1>0, <1>2 DEF PurgePart, UploadPart
      <3>2. RenamePart(h)'
        <4>. SUFFICES ASSUME q \notin Tangled, v # None, clean[h]
                      PROVE  RenamePart(h)'
          BY <1>2 DEF RenamePart
        <4>2. /\ p # q /\ Filed(p, plan[h], v) /\ todo[h] \subseteq SlotsOf(v)
              /\ s \in SlotsOf(v) \ todo[h]
              /\ \A t \in SlotsOf(v) :
                   IF t \in todo[h] THEN There(plan[h][t], p, t, v)
                   ELSE There(plan[h][t], q, t, v)
              /\ \A t \in SlotsOf(v) : t \in Slots /\ plan[h][t] \in Providers
          BY <1>0, RenameStill
        <4>3. \A t \in SlotsOf(v) :
                IF t \in todo[h] THEN now(blobs'[plan[h][t]][p][t], p, t)
                ELSE now(blobs'[plan[h][t]][q][t], q, t)
          BY <1>0, <1>3, <1>5, <4>2 DEF There
        <4>4. pc'[h] \in {"get", "retable"}
          BY <1>2 DEF ServeInv, TypeOK, HandlersOK
        <4>. QED
          BY <1>0, <1>2, <4>2, <4>3, <4>4 DEF RenamePart, Filed, There
      <3>. QED
        BY <3>1, <3>2 DEF CallPart
    <2>3. \A f \in Own(h) \ Tangled :
             /\ files'[f] = None => rows'[f] = NoRows
             /\ acked'[f] # None => Safe(f, acked[f])'
      BY <1>0, <1>2, UnpromisedOwn DEF Own, Touches, ServeInv, RowsFiled
    <2>. QED
      BY <2>1, <2>2, <2>3 DEF Within
  <1>. QED
    BY <1>0, <1>1, <1>6, FrameServes

LEMMA RetableServes ==
  ASSUME ServeInv, TypeOK', Steady, NEW h \in Handlers, Retable(h)
  PROVE  Changing(h) /\ Frame(h) /\ ServeInv'
  <1>. DEFINE p == call[h].path
              q == call[h].to
              v == due[h]
              moved == [s \in Slots |-> IF rows[p][s] # None THEN rows[p][s] ELSE rows[q][s]]
  <1>0. pc[h] = "retable" /\ Changing(h) /\ call[h].op = "rename" /\ p \in Paths /\ q \in Paths
    BY RenameHandler DEF Retable
  <1>2. /\ blobs' = blobs /\ dead' = dead /\ call' = call /\ due' = due /\ plan' = plan
        /\ todo' = todo /\ Tangled' = Tangled /\ acked' = acked /\ cur' = cur
        /\ held' = held /\ clean' = clean /\ pc' = [pc EXCEPT ![h] = "log"]
        /\ todo[h] = {}
        /\ contended' = contended
    BY <1>0 DEF Retable, Step, cloudVars, localVars, promises, excuses, ServeInv, TypeOK, HandlersOK, Pointed
  <1>3. /\ ~Conflict(p, q)
        /\ \A f \in Paths :
             /\ files'[f] = IF f = q /\ files[p] # None THEN files[p]
                            ELSE IF f = p /\ p # q THEN None ELSE files[f]
             /\ rows'[f] = IF f = q THEN moved ELSE IF f = p THEN NoRows ELSE rows[f]
    BY DEF Retable
  <1>4. /\ \A f \in Paths : \A s \in Slots : NoRows[s] = None
        /\ rows \in [Paths -> ShardMaps] /\ NoRows \in ShardMaps
    BY NoRowsType DEF NoRows, ServeInv, TypeOK, StoreOK
  <1>1. Frame(h)
    BY <1>0, <1>2, <1>3 DEF Frame, Own, Touches, ServeInv, TypeOK, HandlersOK
  <1>6. Within(h)
    <2>1. DeadEmpty'
      BY <1>2 DEF ServeInv, DeadEmpty
    <2>2. CallPart(h)'
      <3>1. PurgePart(h)' /\ UploadPart(h)'
        BY <1>0, <1>2 DEF PurgePart, UploadPart
      <3>2. RenamePart(h)'
        <4>. SUFFICES ASSUME q \notin Tangled, v # None, clean[h]
                      PROVE  RenamePart(h)'
          BY <1>2 DEF RenamePart
        <4>2. /\ p # q /\ Filed(p, plan[h], v)
              /\ \A t \in SlotsOf(v) : There(plan[h][t], q, t, v)
              /\ \A t \in SlotsOf(v) : t \in Slots /\ plan[h][t] \in Providers
          BY <1>0, <1>2, RenameStill
        <4>3. files[p] # None /\ files[q] = None /\ rows[q] = NoRows
          <5>1. v \in Versions
            BY DEF ServeInv, TypeOK, HistoryOK
          <5>2. Segs[v] # None
            BY <5>1, ShapeAssumption, NoneAssumption
          <5>. QED
            BY <1>0, <1>3, <4>2, <5>2 DEF Filed, Conflict, ServeInv, RowsFiled
        <4>4. \A t \in Slots : rows'[q][t] = plan[h][t]
          <5>1. rows[p] = plan[h] /\ rows'[q] = moved /\ rows[q] = NoRows
            BY <1>0, <1>3, <4>2, <4>3 DEF Filed
          <5>2. \A t \in Slots : moved[t] = IF rows[p][t] # None THEN rows[p][t] ELSE rows[q][t]
            OBVIOUS
          <5>3. \A t \in Slots : NoRows[t] = None
            BY DEF NoRows
          <5>. QED
            BY <5>1, <5>2, <5>3
        <4>5. Covers(rows'[q], v)
          BY <4>2, <4>4 DEF Covers, Filed
        <4>6. files'[q] = Segs[v]
          BY <1>0, <1>3, <4>2, <4>3 DEF Filed
        <4>7. \A t \in SlotsOf(v) : There(rows'[q][t], q, t, v)
          BY <4>2, <4>4
        <4>8. pc'[h] = "log"
          BY <1>2 DEF ServeInv, TypeOK, HandlersOK
        <4>. QED
          BY <1>2, <4>2, <4>5, <4>6, <4>7, <4>8 DEF RenamePart, Safe, Filed, There
      <3>. QED
        BY <3>1, <3>2 DEF CallPart
    <2>3. \A f \in Own(h) \ Tangled : files'[f] = None => rows'[f] = NoRows
      <3>1. Own(h) \cap Tangled = {} \/ Own(h) \subseteq Tangled
        BY <1>0 DEF ServeInv, Whole
      <3>. SUFFICES ASSUME p \notin Tangled, q \notin Tangled, NEW f \in {p, q}, files'[f] = None
                    PROVE  rows'[f] = NoRows
        BY <3>1 DEF Own, Touches
      <3>2. CASE f = p /\ p # q
        BY <1>0, <1>3, <3>2
      <3>3. CASE f = q
        <4>1. files[p] = None /\ files[q] = None
          BY <1>0, <1>3, <3>3
        <4>2. rows[p] = NoRows /\ rows[q] = NoRows
          BY <1>0, <4>1 DEF ServeInv, RowsFiled
        <4>. QED
          BY <1>0, <1>3, <3>3, <4>2 DEF NoRows
      <3>. QED
        BY <3>2, <3>3
    <2>4. \A f \in Own(h) \ Tangled : acked'[f] # None => Safe(f, acked[f])'
      BY <1>0, <1>2, UnpromisedOwn DEF Own, Touches
    <2>. QED
      BY <2>1, <2>2, <2>3, <2>4 DEF Within
  <1>. QED
    BY <1>0, <1>1, <1>6, FrameServes

(***************************************************************************)
(* A new call, and Migrate at its next file: the paths that a call shares  *)
(* with others, or with Migrate, become tangled with all that those others *)
(* touch.                                                                  *)
(***************************************************************************)
LEMMA ChronicleEffect ==
  ASSUME Chronicle
  PROVE  /\ crossed \subseteq crossed'
         /\ \A h \in Handlers : Changing(h)' /\ mPath' \in Own(h)' => Own(h)' \subseteq crossed'
         /\ \A h \in Handlers : Own(h)' \cap crossed # {} => Own(h)' \subseteq crossed'
         /\ Onto' \subseteq crossed' /\ Onto' \subseteq {mPath'}
         /\ \A x \in crossed' \ (crossed \cup Onto') : \E h \in Handlers :
               /\ x \in Own(h)'
               /\ \/ Own(h)' \cap crossed # {}
                  \/ /\ mPath' \in Own(h)'
                     /\ \/ mPath' \in Onto'
                        \/ \E g \in Handlers : Changing(g)' /\ mPath' \in Own(g)'
  <1>. DEFINE hit == crossed \cup ({mPath} \cap BeingChanged)' \cup Onto'
  <1>0. Onto' \subseteq {mPath'}
    BY DEF Onto
  <1>1. crossed' = hit \cup UNION {T \in {Touches(call'[h]) : h \in Handlers} : T \cap hit # {}}
    BY DEF Chronicle
  <1>2. \A h \in Handlers : Own(h)' = Touches(call'[h])
    BY DEF Own
  <1>3. \A x : x \in hit <=>
                \/ x \in crossed
                \/ x = mPath' /\ \E g \in Handlers : Changing(g)' /\ x \in Own(g)'
                \/ x \in Onto'
    BY DEF BeingChanged, Own
  <1>. HIDE DEF hit
  <1>4. \A h \in Handlers : Own(h)' \cap hit # {} => Own(h)' \subseteq crossed'
    BY <1>1, <1>2
  <1>5. \A x \in crossed' \ hit : \E h \in Handlers : x \in Own(h)' /\ Own(h)' \cap hit # {}
    BY <1>1, <1>2
  <1>6. hit \subseteq crossed'
    BY <1>1
  <1>7. ASSUME NEW h \in Handlers, Changing(h)', mPath' \in Own(h)' PROVE Own(h)' \subseteq crossed'
    BY <1>3, <1>4, <1>7
  <1>8. ASSUME NEW h \in Handlers, Own(h)' \cap crossed # {} PROVE Own(h)' \subseteq crossed'
    BY <1>3, <1>4, <1>8
  <1>9. ASSUME NEW x \in crossed' \ (crossed \cup Onto')
        PROVE  \E h \in Handlers :
               /\ x \in Own(h)'
               /\ \/ Own(h)' \cap crossed # {}
                  \/ /\ mPath' \in Own(h)'
                     /\ \/ mPath' \in Onto'
                        \/ \E g \in Handlers : Changing(g)' /\ mPath' \in Own(g)'
    <2>1. CASE x \in hit
      BY <1>3, <1>9, <2>1
    <2>2. CASE x \notin hit
      <3>1. PICK h \in Handlers : x \in Own(h)' /\ Own(h)' \cap hit # {}
        BY <1>5, <1>9, <2>2
      <3>2. PICK y \in Own(h)' : y \in hit
        BY <3>1
      <3>. QED
        BY <1>0, <1>3, <3>1, <3>2
    <2>. QED
      BY <2>1, <2>2
  <1>. QED
    BY <1>0, <1>3, <1>6, <1>7, <1>8, <1>9

LEMMA Singletons ==
  ASSUME TypeOK', NEW h \in Handlers, ~Changing(h)'
  PROVE  \E p : Own(h)' = {p}
  <1>1. AtStep(h)'
    BY DEF TypeOK, HandlersOK
  <1>2. call'[h] = NoCall \/ call'[h] \in Downloads
    BY <1>1, CallTypes DEF AtStep, Changing, Active, PurgeSteps, WriteSteps, RenameSteps
  <1>3. call'[h].to = call'[h].path
    BY <1>2, CallTypes DEF NoCall, Request
  <1>. QED
    BY <1>3 DEF Own, Touches

(* The step that begins no call, and finds Migrate where it was.           *)
LEMMA StaysTangled ==
  ASSUME TypeOK, TypeOK', Crossing, Whole, Chronicle, contended' = contended,
         UNCHANGED <<mPc, mPath, from, to>>,
         \A g \in Handlers : Changing(g)' => Changing(g) /\ call'[g] = call[g]
  PROVE  Tangled' = Tangled /\ Crossing'
  <1>0. Onto' \subseteq crossed
    BY DEF Crossing, Onto
  <1>1. Tangled \subseteq Paths
    BY DEF Tangled, Crossing, TypeOK, HistoryOK
  <1>2. \A g \in Handlers : Changing(g)' => Own(g)' = Own(g)
    BY DEF Own
  <1>3. \A g \in Handlers : Changing(g)' /\ mPath' \in Own(g)' => mPath \in Tangled
    BY <1>2 DEF Whole
  <1>4. ASSUME NEW x \in crossed' \ crossed PROVE x \in Tangled
    <2>1. PICK h \in Handlers :
               /\ x \in Own(h)'
               /\ \/ Own(h)' \cap crossed # {}
                  \/ /\ mPath' \in Own(h)'
                     /\ \E g \in Handlers : Changing(g)' /\ mPath' \in Own(g)'
      BY <1>0, <1>4, ChronicleEffect
    <2>2. Own(h)' \cap Tangled # {}
      BY <1>3, <2>1 DEF Tangled
    <2>3. CASE Changing(h)'
      BY <1>2, <2>1, <2>2, <2>3 DEF Whole
    <2>4. CASE ~Changing(h)'
      <3>1. PICK p : Own(h)' = {p}
        BY <2>4, Singletons
      <3>. QED
        BY <2>1, <2>2, <3>1
    <2>. QED
      BY <2>3, <2>4
  <1>5. crossed \subseteq crossed'
    BY ChronicleEffect
  <1>. QED
    BY <1>0, <1>1, <1>4, <1>5 DEF Tangled, Crossing

(* The step that may begin a change of the paths T.                        *)
LEMMA StaysWhole ==
  ASSUME TypeOK, TypeOK', Crossing, Whole, Chronicle, Onto' \subseteq Paths,
         NEW T \in SUBSET Paths,
         contended' = contended \/ contended' = contended \cup Taint(T),
         \A g \in Handlers : Changing(g)' =>
            \/ Changing(g) /\ Own(g)' = Own(g)
            \/ /\ Own(g)' = T /\ contended' = contended \cup Taint(T)
               /\ \A f \in Handlers \ {g} : Changing(f)' => Changing(f) /\ Own(f)' = Own(f)
  PROVE  Whole' /\ Tangled \subseteq Tangled' /\ Crossing'
  <1>. DEFINE Old(g) == Changing(g) /\ Own(g)' = Own(g)
              New(g) == /\ Own(g)' = T /\ contended' = contended \cup Taint(T)
                        /\ \A f \in Handlers \ {g} : Changing(f)' => Old(f)
  <1>0. \A g \in Handlers : Changing(g)' => Old(g) \/ New(g)
    OBVIOUS
  <1>1. crossed \subseteq crossed' /\ contended \subseteq contended'
    BY ChronicleEffect
  <1>2. Tangled \subseteq Tangled'
    BY <1>1 DEF Tangled
  <1>3. \A g \in Handlers : Changing(g)' /\ mPath' \in Own(g)' => Own(g)' \subseteq Tangled'
    BY ChronicleEffect DEF Tangled
  <1>4. \A g \in Handlers : Own(g)' \cap crossed # {} => Own(g)' \subseteq Tangled'
    BY ChronicleEffect DEF Tangled
  (* Two that overlap are tangled both. *)
  <1>5. ASSUME NEW g \in Handlers, NEW r \in Handlers \ {g}, Changing(g)', Changing(r)',
               Own(g)' \cap Own(r)' # {}
        PROVE  Own(g)' \subseteq Tangled'
    <2>1. CASE Old(g) /\ Old(r)
      BY <1>2, <1>5, <2>1 DEF Whole
    <2>2. CASE New(g) /\ Old(r)
      <3>1. r \in Rivals(T)
        BY <1>5, <2>2 DEF Rivals, Own
      <3>2. T \subseteq Taint(T)
        BY <3>1 DEF Taint
      <3>. QED
        BY <2>2, <3>2 DEF Tangled
    <2>3. CASE Old(g) /\ New(r)
      <3>1. g \in Rivals(T)
        BY <1>5, <2>3 DEF Rivals, Own
      <3>2. Own(g) \subseteq Taint(T)
        BY <3>1 DEF Taint, Own
      <3>. QED
        BY <2>3, <3>2 DEF Tangled
    <2>. HIDE DEF Old
    <2>. QED
      BY <1>0, <1>5, <2>1, <2>2, <2>3
  <1>6. ASSUME NEW g \in Handlers, Changing(g)', Own(g)' \cap Tangled' # {}
        PROVE  Own(g)' \subseteq Tangled'
    <2>1. PICK y \in Own(g)' : y \in Tangled'
      BY <1>6
    <2>2. CASE y \in crossed
      BY <1>4, <1>6, <2>1, <2>2
    <2>5. CASE y \in Onto'
      BY <1>3, <1>6, <2>1, <2>5, ChronicleEffect
    <2>3. CASE y \in crossed' \ (crossed \cup Onto')
      <3>1. PICK h \in Handlers :
                 /\ y \in Own(h)'
                 /\ Own(h)' \cap crossed # {} \/ mPath' \in Own(h)'
        BY <2>3, ChronicleEffect
      <3>2. CASE h = g
        BY <1>3, <1>4, <1>6, <3>1, <3>2
      <3>3. CASE h # g /\ Changing(h)'
        BY <1>5, <1>6, <2>1, <3>1, <3>3
      <3>4. CASE ~Changing(h)'
        <4>1. PICK p : Own(h)' = {p}
          BY <3>4, Singletons
        <4>2. y = mPath'
          BY <2>3, <3>1, <4>1
        <4>. QED
          BY <1>3, <1>6, <2>1, <4>2
      <3>. QED
        BY <3>2, <3>3, <3>4
    <2>4. CASE y \in contended'
      <3>1. CASE Old(g)
        <4>1. CASE y \in contended
          BY <1>2, <2>1, <3>1, <4>1, <1>6 DEF Whole, Tangled
        <4>2. CASE y \in Taint(T) /\ contended' = contended \cup Taint(T)
          <5>1. CASE Own(g) \cap T # {}
            <6>1. g \in Rivals(T)
              BY <3>1, <5>1 DEF Rivals, Own
            <6>2. Own(g) \subseteq Taint(T)
              BY <6>1 DEF Taint, Own
            <6>. QED
              BY <3>1, <4>2, <6>2 DEF Tangled
          <5>2. CASE Own(g) \cap T = {}
            <6>1. PICK r \in Rivals(T) : y \in Own(r)
              BY <2>1, <3>1, <4>2, <5>2 DEF Taint, Own
            <6>2. r \in Handlers /\ Changing(r) /\ r # g
              BY <3>1, <5>2, <6>1 DEF Rivals, Own
            <6>3. Own(g) \subseteq Tangled
              BY <2>1, <3>1, <6>1, <6>2 DEF Whole
            <6>. QED
              BY <1>2, <3>1, <6>3
          <5>. QED
            BY <5>1, <5>2
        <4>. QED
          BY <2>4, <4>1, <4>2
      <3>2. CASE New(g)
        <4>1. Taint(T) = {} => T \cap contended = {}
          BY DEF Taint
        <4>2. Taint(T) # {} => T \subseteq Taint(T)
          BY DEF Taint
        <4>. QED
          BY <2>1, <2>4, <3>2, <4>1, <4>2 DEF Tangled
      <3>. QED
        BY <1>0, <1>6, <3>1, <3>2
    <2>. QED
      BY <2>1, <2>2, <2>3, <2>4, <2>5 DEF Tangled
  <1>7. Crossing'
    <2>1. ASSUME NEW y \in crossed' \ (crossed \cup Onto') PROVE y \in Paths
      <3>1. PICK h \in Handlers :
                 /\ y \in Own(h)'
                 /\ \/ Own(h)' \cap crossed # {}
                    \/ /\ mPath' \in Own(h)'
                       /\ \/ mPath' \in Onto'
                          \/ \E f \in Handlers : Changing(f)' /\ mPath' \in Own(f)'
        BY <2>1, ChronicleEffect
      <3>2. \A f \in Handlers : Changing(f)' => Own(f)' \subseteq Paths
        <4>1. \A f \in Handlers : Changing(f) => Own(f) \subseteq Paths
          BY ChangingType DEF Own, Touches
        <4>2. \A f \in Handlers : Changing(f)' /\ Own(f)' = Own(f) /\ Changing(f) => Own(f)' \subseteq Paths
          BY <4>1
        <4>. QED
          BY <1>0, <4>2
      <3>3. CASE Changing(h)'
        BY <3>1, <3>2, <3>3
      <3>4. CASE ~Changing(h)'
        <4>1. PICK p : Own(h)' = {p}
          BY <3>4, Singletons
        <4>. QED
          BY <2>1, <3>1, <3>2, <4>1
      <3>. QED
        BY <3>3, <3>4
    <2>. QED
      BY <2>1, ChronicleEffect DEF Crossing
  <1>8. Whole'
    BY <1>3, <1>5, <1>6 DEF Whole
  <1>. QED
    BY <1>2, <1>7, <1>8

LEMMA StartServes ==
  ASSUME ServeInv, TypeOK', Chronicle, UNCHANGED <<mPc, mPath, mCur, from, to>>,
         NEW h \in Handlers, NEW c \in Requests, Start(h, c)
  PROVE  ServeInv'
  <1>. DEFINE T == Touches(c)
  <1>1. /\ pc[h] = "idle" /\ ~Changing(h) /\ call' = [call EXCEPT ![h] = c] /\ call'[h] = c
        /\ files' = files /\ rows' = rows /\ blobs' = blobs /\ dead' = dead
        /\ plan' = plan /\ todo' = todo /\ cur' = cur /\ held' = held /\ faults' = faults
    BY DEF Start, storeVars, cloudVars, Changing, Active, ServeInv, TypeOK, HandlersOK
  <1>2. DeadEmpty' /\ DeadFault'
    BY <1>1 DEF ServeInv, DeadEmpty, DeadFault
  <1>6. \A x, f, s, v : There(x, f, s, v) => There(x, f, s, v)'
    BY <1>1 DEF There
  <1>3. \A g \in Handlers \ {h} : call'[g] = call[g]
    BY <1>1 DEF ServeInv, TypeOK, HandlersOK
  <1>4. CASE c.op = "read" /\ StartRead(h, c.path)
    <2>1. /\ acked' = acked /\ contended' = contended
          /\ \A g \in Handlers \ {h} : pc'[g] = pc[g] /\ due'[g] = due[g] /\ clean'[g] = clean[g]
      BY <1>4 DEF StartRead, ServeInv, TypeOK, HandlersOK, HistoryOK
    <2>2. ~Changing(h)'
      BY <1>1, <1>4 DEF Changing
    <2>3. \A g \in Handlers : Changing(g)' <=> Changing(g)
      BY <1>1, <1>3, <2>1, <2>2 DEF Changing, Active
    <2>9. Tangled' = Tangled /\ Crossing'
      BY <1>3, <2>1, <2>2, <2>3, StaysTangled DEF ServeInv
    <2>4. Whole' /\ Unpromised'
      BY <1>1, <1>3, <2>1, <2>3, <2>9 DEF ServeInv, Whole, Unpromised, Own
    <2>5. RowsFiled' /\ AckedSafe'
      BY <1>1, <2>1, <2>9 DEF ServeInv, RowsFiled, AckedSafe, Safe, Filed, There
    <2>6. ASSUME NEW g \in Handlers PROVE CallPart(g)'
      <3>1. CASE g = h
        BY <1>1, <1>4, <3>1 DEF CallPart, PurgePart, UploadPart, RenamePart
      <3>2. CASE g # h
        BY <1>1, <1>3, <1>6, <2>1, <2>9, <3>2, SamePart
      <3>. QED
        BY <3>1, <3>2
    <2>. QED
      BY <1>2, <2>4, <2>5, <2>6, <2>9 DEF ServeInv
  <1>5. CASE c.op # "read" /\ StartChange(h, c)
    <2>0. /\ c \in Mutations /\ c.path \in Paths /\ c.to \in Paths /\ T \in SUBSET Paths
          /\ c.op \in {"write", "delete", "rename"}
      BY <1>5, CallTypes DEF Requests, Mutations, Touches
    <2>1. /\ contended' = contended \cup Taint(T)
          /\ pc'[h] = IF c.op = "write" THEN "check" ELSE "scan"
          /\ due'[h] = IF c.op = "rename" THEN acked[c.path] ELSE c.ver
          /\ clean'[h] = (c.op = "rename" => c.path # c.to)
          /\ \A p \in Paths : acked'[p] = IF p \in T THEN None ELSE acked[p]
          /\ \A g \in Handlers \ {h} : pc'[g] = pc[g] /\ clean'[g] = clean[g]
          /\ \A g \in Handlers \ {h} : Changing(g) => due'[g] = due[g]
      BY <1>5 DEF StartChange, Reading, Changing, ServeInv, TypeOK, HandlersOK, HistoryOK
    <2>4. \A g \in Handlers \ {h} : (Changing(g)' <=> Changing(g)) /\ Own(g)' = Own(g)
      BY <1>3, <2>1 DEF Changing, Active, Own
    <2>5. Own(h)' = T /\ Changing(h)'
      BY <1>1, <1>5, <2>1 DEF Own, Changing, Active
    <2>3. Onto' \subseteq Paths
      BY DEF ServeInv, Crossing, Onto
    <2>6. Whole' /\ Tangled \subseteq Tangled' /\ Crossing'
      BY <2>0, <2>1, <2>3, <2>4, <2>5, StaysWhole DEF ServeInv
    <2>2. Tangled \subseteq Tangled' /\ (T \cap Tangled' # {} => T \subseteq Tangled')
      BY <2>5, <2>6 DEF Whole
    <2>7. Unpromised'
      <3>1. ASSUME NEW g \in Handlers \ {h}, Changing(g), NEW p \in Own(g) \ Tangled'
            PROVE  acked'[p] = None
        BY <2>1, <2>2, <3>1, ChangingType DEF ServeInv, Unpromised, Own, Touches
      <3>2. \A p \in T : acked'[p] = None
        BY <2>0, <2>1
      <3>. QED
        BY <2>4, <2>5, <3>1, <3>2 DEF Unpromised
    <2>8. RowsFiled' /\ AckedSafe'
      BY <1>1, <2>1, <2>2 DEF ServeInv, RowsFiled, AckedSafe, Safe, Filed, There
    <2>9. CallPart(h)'
      <3>1. PurgePart(h)'
        <4>1. c.op = "delete" => c.ver = None
          BY <2>0, CallTypes DEF Mutations
        <4>. QED
          BY <1>1, <2>1, <4>1 DEF PurgePart
      <3>2. UploadPart(h)'
        BY <1>1, <2>1 DEF UploadPart
      <3>3. RenamePart(h)'
        <4>. SUFFICES ASSUME c.op = "rename", c.to \notin Tangled', acked[c.path] # None,
                             c.path # c.to
                      PROVE  RenamePart(h)'
          BY <1>1, <2>1 DEF RenamePart
        <4>1. c.path \notin Tangled
          BY <2>0, <2>2 DEF Touches
        <4>2. Safe(c.path, acked[c.path])
          BY <2>0, <4>1 DEF ServeInv, AckedSafe
        <4>. QED
          BY <1>1, <2>1, <4>2 DEF RenamePart, Safe, Filed, There
      <3>. QED
        BY <3>1, <3>2, <3>3 DEF CallPart
    <2>10. ASSUME NEW g \in Handlers \ {h} PROVE CallPart(g)'
      <3>1. CASE ~Changing(g)
        BY <1>3, <3>1, IdleCall DEF ServeInv, CallPart, PurgePart, UploadPart, RenamePart
      <3>2. CASE Changing(g)
        BY <1>1, <1>3, <1>6, <2>1, <2>2, <3>2, SamePart
      <3>. QED
        BY <3>1, <3>2
    <2>. QED
      BY <1>2, <2>6, <2>7, <2>8, <2>9, <2>10 DEF ServeInv
  <1>. QED
    BY <1>4, <1>5 DEF Start

LEMMA MkdirServes ==
  ASSUME ServeInv, TypeOK', Chronicle, UNCHANGED <<mPc, mPath, mCur, from, to>>, NEW d \in Dirs, Mkdir(d)
  PROVE  ServeInv'
  <1>1. /\ d \in Paths /\ rows' = rows /\ blobs' = blobs /\ dead' = dead /\ pc' = pc
        /\ call' = call /\ plan' = plan /\ todo' = todo /\ cur' = cur /\ held' = held
        /\ due' = due /\ clean' = clean /\ acked' = acked /\ faults' = faults
        /\ contended' = contended \cup Taint({d})
        /\ \A p \in Paths : files'[p] = IF p = d /\ files[p] = None THEN 0 ELSE files[p]
    BY EnvironmentAssumption
       DEF Mkdir, cloudVars, localVars, promises, ServeInv, TypeOK, StoreOK
  <1>8. Onto' \subseteq Paths
    BY DEF ServeInv, Crossing, Onto
  <1>2. Whole' /\ Tangled \subseteq Tangled' /\ Crossing'
    BY <1>1, <1>8, StaysWhole DEF ServeInv, Changing, Active, Own
  <1>7. \A g \in Handlers : Changing(g) /\ d \in Own(g) => Own(g) \subseteq Tangled'
    <2>1. ASSUME NEW g \in Handlers, Changing(g), d \in Own(g) PROVE Own(g) \subseteq Tangled'
      <3>1. g \in Rivals({d})
        BY <2>1 DEF Rivals, Own
      <3>2. Own(g) \subseteq Taint({d})
        BY <3>1 DEF Taint, Own
      <3>. QED
        BY <1>1, <3>2 DEF Tangled
    <2>. QED
      BY <2>1
  <1>3. Unpromised' /\ DeadEmpty' /\ DeadFault'
    BY <1>1, <1>2 DEF ServeInv, Unpromised, DeadEmpty, DeadFault, Changing, Active, Own
  <1>4. RowsFiled'
    BY <1>1, <1>2 DEF ServeInv, RowsFiled
  <1>5. AckedSafe'
    <2>1. ASSUME NEW p \in Paths \ Tangled, acked[p] # None
          PROVE  files'[p] = files[p] /\ Safe(p, acked[p])
      <3>1. Safe(p, acked[p]) /\ acked[p] \in Versions
        BY <2>1 DEF ServeInv, AckedSafe, TypeOK, HistoryOK
      <3>2. files[p] # None
        BY <3>1, ShapeAssumption, NoneAssumption DEF Safe, Filed
      <3>. QED
        BY <1>1, <3>1, <3>2
    <2>. QED
      BY <1>1, <1>2, <2>1 DEF AckedSafe, Safe, Filed, There
  <1>6. ASSUME NEW g \in Handlers PROVE CallPart(g)'
    <2>1. \A x, f, s, v : There(x, f, s, v) => There(x, f, s, v)'
      BY <1>1 DEF There
    <2>2. ASSUME Changing(g), ~(Own(g) \subseteq Tangled'), NEW f \in Own(g)
          PROVE  files'[f] = files[f] /\ rows'[f] = rows[f]
      BY <1>1, <1>7, <2>2, ChangingType DEF Own, Touches, ServeInv
    <2>. QED
      BY <1>1, <1>2, <2>1, <2>2, SamePart
  <1>. QED
    BY <1>2, <1>3, <1>4, <1>5, <1>6 DEF ServeInv

LEMMA LoseServes ==
  ASSUME ServeInv, TypeOK', Steady, NEW x \in Providers, Lose(x)
  PROVE  ServeInv'
  <1>1. /\ files' = files /\ rows' = rows /\ dead' = dead \cup {x} /\ pc' = pc
        /\ call' = call /\ plan' = plan /\ todo' = todo /\ cur' = cur /\ held' = held
        /\ due' = due /\ clean' = clean /\ acked' = acked /\ faults' # 0
        /\ \A y \in Providers : blobs'[y] = IF y = x THEN [p \in Paths |-> NoRows] ELSE blobs[y]
    BY DEF Lose, Fault, storeVars, localVars, promises, excuses, ServeInv, TypeOK, CloudOK, Blobs,
           ProcessOK
  <1>2. Whole' /\ Unpromised' /\ RowsFiled' /\ DeadFault'
    BY <1>1 DEF ServeInv, Whole, Unpromised, RowsFiled, DeadFault, Changing, Active, Own
  <1>3. DeadEmpty'
    <2>1. \A p \in Paths, s \in Slots : [f \in Paths |-> NoRows][p][s] = None
      BY DEF NoRows
    <2>. QED
      BY <1>1, <2>1 DEF ServeInv, DeadEmpty, TypeOK, CloudOK
  <1>4. \A y \in Providers, p \in Paths, s \in Slots, v \in Versions :
           There(y, p, s, v) => There(y, p, s, v)'
    <2>1. \A p \in Paths, s \in Slots : [f \in Paths |-> NoRows][p][s] = None
      BY DEF NoRows
    <2>. QED
      BY <1>1, <2>1 DEF There
  <1>5. \A p \in Paths, v \in Versions : Safe(p, v) => Safe(p, v)'
    <2>1. ASSUME NEW p \in Paths, NEW v \in Versions, Safe(p, v) PROVE Safe(p, v)'
      <3>1. \A s \in SlotsOf(v) : s \in Slots /\ rows[p][s] \in Providers
        BY <2>1, CoversProviders DEF Safe, Filed, ServeInv, TypeOK, StoreOK
      <3>. QED
        BY <1>1, <1>4, <2>1, <3>1 DEF Safe, Filed
    <2>. QED
      BY <2>1
  <1>6. AckedSafe'
    BY <1>1, <1>5 DEF ServeInv, AckedSafe, TypeOK, HistoryOK
  <1>7. \A g \in Handlers : CallPart(g)'
    <2>1. \A g \in Handlers : Changing(g) => Own(g) \subseteq Paths
      BY ChangingType DEF Own, Touches, ServeInv
    <2>. QED
      BY <1>1, <1>4, <2>1, SamePart
  <1>. QED
    BY <1>2, <1>3, <1>6, <1>7 DEF ServeInv

LEMMA CrashServes ==
  ASSUME ServeInv, TypeOK', Chronicle, Crash, Stop
  PROVE  ServeInv'
  <1>1. /\ files' = files /\ rows' = rows /\ blobs' = blobs /\ dead' = dead
        /\ acked' = acked /\ contended' = contended /\ faults' # 0
        /\ \A g \in Handlers : pc'[g] = "idle" /\ call'[g] = NoCall
    BY DEF Crash, Fault, storeVars, cloudVars, ServeInv, TypeOK, ProcessOK
  <1>2. \A g \in Handlers : ~Changing(g)' /\ CallPart(g)'
    BY <1>1, CallTypes DEF Changing, Active, CallPart, PurgePart, UploadPart, RenamePart
  <1>3. Whole' /\ Tangled \subseteq Tangled' /\ Crossing'
    <2>1. Onto' \subseteq Paths
      BY DEF Onto, Stop
    <2>. QED
      BY <1>1, <1>2, <2>1, StaysWhole DEF ServeInv
  <1>4. \A x, p, s, v : There(x, p, s, v) => There(x, p, s, v)'
    BY <1>1 DEF There
  <1>5. RowsFiled' /\ AckedSafe'
    BY <1>1, <1>3, <1>4 DEF ServeInv, RowsFiled, AckedSafe, Safe, Filed
  <1>. QED
    BY <1>1, <1>2, <1>3, <1>5 DEF ServeInv, Unpromised, DeadEmpty, DeadFault

(***************************************************************************)
(* A download changes nothing the invariant speaks of.                     *)
(***************************************************************************)
LEMMA ReadQuiet ==
  ASSUME ServeInv, NEW h \in Handlers, Read(h)
  PROVE  Quiet(h) /\ call[h].op = "read"
  <1>1. call[h].op = "read"
    <2>1. pc[h] \in ReadSteps
      BY DEF Read, Stat, NotFound, ReadMap, Hit, Miss, Panic, Fetch, Decode, DecodeFails, Finish,
         Respond, More, ReadSteps
    <2>. QED
      BY <2>1, CallTypes DEF ServeInv, TypeOK, HandlersOK, AtStep, ReadSteps, WriteSteps,
         RenameSteps, PurgeSteps
  <1>. SUFFICES Quiet(h)
    BY <1>1
  <1>. USE DEF storeVars, cloudVars, readVars, localVars, excuses, promises
  <1>2. CASE Stat(h)
    BY <1>2 DEF Stat, Step, Quiet, ServeInv, TypeOK, HandlersOK
  <1>3. CASE NotFound(h)
    BY <1>3, ReturnServes DEF NotFound, Quiet
  <1>4. CASE ReadMap(h)
    BY <1>4 DEF ReadMap, Step, Quiet, ServeInv, TypeOK, HandlersOK
  <1>5. CASE Hit(h)
    BY <1>5 DEF Hit, Quiet
  <1>6. CASE Miss(h)
    <2>1. /\ UNCHANGED <<files, rows, blobs, dead, acked, contended, call, plan, cur, held, due, clean>>
          /\ \E T : todo' = [todo EXCEPT ![h] = T]
          /\ \E next : pc' = [pc EXCEPT ![h] = next]
      BY <1>6, Zenon DEF Miss, Step
    <2>. QED
      BY <2>1 DEF Quiet, ServeInv, TypeOK, HandlersOK
  <1>7. CASE Panic(h)
    BY <1>7, ReturnServes DEF Panic, Quiet
  <1>8. CASE Fetch(h)
    <2>1. /\ UNCHANGED <<files, rows, blobs, dead, acked, contended, call, plan, cur, held, due, clean>>
          /\ \E s : Loop(h, s, "decode")
      BY <1>8 DEF Fetch
    <2>. QED
      BY <2>1 DEF Quiet, Loop, ServeInv, TypeOK, HandlersOK
  <1>9. CASE Decode(h)
    BY <1>9 DEF Decode, Step, Quiet, ServeInv, TypeOK, HandlersOK
  <1>10. CASE DecodeFails(h)
    BY <1>10, ReturnServes DEF DecodeFails, Quiet
  <1>11. CASE Finish(h)
    BY <1>11 DEF Finish, Step, Quiet, ServeInv, TypeOK, HandlersOK
  <1>12. CASE Respond(h)
    BY <1>12, ReturnServes DEF Respond, Quiet
  <1>. QED
    BY <1>1, <1>2, <1>3, <1>4, <1>5, <1>6, <1>7, <1>8, <1>9, <1>10, <1>11, <1>12 DEF Read

LEMMA QuietServes ==
  ASSUME ServeInv, TypeOK', Steady, NEW h \in Handlers, Quiet(h), call[h].op = "read"
  PROVE  ServeInv'
  <1>1. /\ UNCHANGED <<files, rows, blobs, dead, acked, Tangled>>
        /\ call'[h] = call[h] \/ (pc'[h] = "idle" /\ call'[h] = NoCall)
        /\ \A g \in Handlers \ {h} :
              /\ pc'[g] = pc[g] /\ call'[g] = call[g] /\ plan'[g] = plan[g]
              /\ todo'[g] = todo[g] /\ cur'[g] = cur[g] /\ held'[g] = held[g]
              /\ due'[g] = due[g] /\ clean'[g] = clean[g]
    BY DEF Quiet
  <1>2. call'[h].op \notin {"write", "delete", "rename"}
    BY <1>1, CallTypes
  <1>3. ~Changing(h)' /\ ~Changing(h)
    BY <1>1 DEF Changing, Active
  <1>4. CallPart(h)'
    BY <1>2 DEF CallPart, PurgePart, UploadPart, RenamePart
  <1>5. ASSUME NEW g \in Handlers \ {h} PROVE CallPart(g)'
    BY <1>1, SamePart DEF There
  <1>6. \A g \in Handlers : Changing(g)' => Changing(g) /\ call'[g] = call[g]
    BY <1>1, <1>3 DEF Changing, Active
  <1>7. Whole' /\ Unpromised' /\ DeadEmpty' /\ DeadFault'
    <2>1. Whole'
      BY <1>1, <1>6 DEF ServeInv, Whole, Own
    <2>2. Unpromised'
      BY <1>1, <1>6 DEF ServeInv, Unpromised, Own
    <2>3. DeadEmpty' /\ DeadFault'
      BY <1>1 DEF ServeInv, DeadEmpty, DeadFault
    <2>. QED
      BY <2>1, <2>2, <2>3
  <1>8. RowsFiled' /\ AckedSafe'
    BY <1>1 DEF ServeInv, RowsFiled, AckedSafe, Safe, Filed, There
  <1>. QED
    BY <1>4, <1>5, <1>7, <1>8 DEF ServeInv

LEMMA ChangeServes ==
  ASSUME ServeInv, TypeOK', Steady, NEW h \in Handlers, Change(h)
  PROVE  Changing(h) /\ Frame(h) /\ ServeInv'
  BY CheckServes, ScanServes, PurgeServes, UnrowServes, UnlinkServes, CreateEmptyServes,
     CreateFileServes, CreateFailsServes, PutServes, PutFailsServes, RecordServes, LogServes,
     GetServes, CopyServes, EraseServes, RetableServes, RetableFailsServes DEF Change

-----------------------------------------------------------------------------
(***************************************************************************)
(* Migrate: what it has at hand, what it has left to do, and what a        *)
(* download that it overtakes still finds.                                 *)
(***************************************************************************)
MoveSteps == {"put", "delete", "update"}
AtHand == IF mPc \in MoveSteps THEN {mCur} ELSE {}

MigrateOK ==
    /\ mPc \in {"idle", "map", "get", "done"} \cup MoveSteps
    /\ mPc # "idle" => from \in Providers /\ to \in Providers
    /\ mPc \in MoveSteps /\ from = to => mPath \in crossed
    /\ mFiles \subseteq Paths /\ mTodo \subseteq Slots
    /\ mPc \in {"get"} \cup MoveSteps => mPath \in Paths
    /\ mPc \in {"idle", "map", "done"} => mTodo = {} /\ mPath = None
    /\ mPc \in {"idle", "done"} => mFiles = {}
    /\ mPc \in MoveSteps => mCur \in Slots \ mTodo /\ mHeld \in Versions
    /\ away \in [Handlers -> SUBSET Providers]

(* The rows that Migrate still has to change name the old provider; the    *)
(* shard it holds is the acknowledged one, and is stored at one of the two *)
(* providers at all times.                                                 *)
Hands ==
    mPath \in Paths \ Tangled =>
        /\ \A s \in mTodo \cup AtHand : rows[mPath][s] = from
        /\ mPc \in MoveSteps /\ acked[mPath] # None => mHeld = acked[mPath]
        /\ mPc = "put" => Stored(from, mPath, mCur, mHeld)
        /\ mPc \in {"delete", "update"} => Stored(to, mPath, mCur, mHeld)

(* Only what is still to be visited names the old provider.                *)
Leaving ==
    mPc # "idle" =>
        /\ BeingChanged \subseteq changed
        /\ ~skipped => \A p \in Paths \ (Tangled \cup changed \cup mFiles), s \in Slots :
              rows[p][s] = from => p = mPath /\ s \in mTodo \cup AtHand

(* The map of a download that Migrate overtakes is as the rows were, and   *)
(* what they no longer say is at a provider that is being left.            *)
Attended == \A h \in Handlers : mPc # "idle" /\ Mapped(h) => from \in away[h]

DownloadPart(h) ==
    LET p == call[h].path
        v == due[h]
        i == Len(out[h])
    IN  Reading(h, p) /\ v # None /\ p \notin Tangled =>
          /\ acked[p] = v /\ Rivals({p}) = {}
          /\ pc[h] \in SegmentSteps =>
                /\ Covers(plan[h], v)
                /\ \A s \in SlotsOf(v) : plan[h][s] = rows[p][s] \/ plan[h][s] \in away[h]
          /\ pc[h] \in {"fetch", "decode"} =>
                /\ i < Segs[v] /\ \A s \in todo[h] : s[1] = i
                /\ \A j \in Shards : \/ <<i, j>> \in todo[h]
                                     \/ got[h][j] # None
                                     \/ plan[h][<<i, j>>] \in away[h]
                                     \/ faults # 0

MigrateInv == /\ ServeInv /\ MigrateOK /\ Hands /\ Leaving /\ Attended
              /\ \A h \in Handlers : DownloadPart(h)

-----------------------------------------------------------------------------
(***************************************************************************)
(* The steps of handlers, seen from Migrate.                               *)
(***************************************************************************)
(* A change adds nothing to contended, and goes on or ends.                *)
LEMMA ChangeGoesOn ==
  ASSUME TypeOK, NEW h \in Handlers, Change(h)
  PROVE  /\ contended' = contended
         /\ \A g \in Handlers \ {h} : pc'[g] = pc[g] /\ call'[g] = call[g]
         /\ (pc'[h] = "idle" /\ call'[h] = NoCall) \/ call'[h] = call[h]
         /\ faults # 0 => faults' # 0
  <1>1. contended' = contended /\ (faults' = faults \/ Fault)
    BY Zenon DEF Change, Check, Scan, Purge, Unrow, Unlink, CreateEmpty, CreateFile, CreateFails,
       Put, PutFails, Record, Log, Get, Copy, Erase, Retable, RetableFails, Acknowledge, Abandon,
       excuses
  <1>2. Return(h) \/ (UNCHANGED call /\ \E next : pc' = [pc EXCEPT ![h] = next])
    BY Zenon DEF Change, Check, Scan, Purge, Unrow, Unlink, CreateEmpty, CreateFile, CreateFails,
       Put, PutFails, Record, Log, Get, Copy, Erase, Retable, RetableFails, Acknowledge, Abandon,
       Step, Loop, localVars
  <1>3. faults # 0 => faults' # 0
    BY <1>1 DEF Fault, TypeOK, ProcessOK
  <1>4. CASE Return(h)
    BY <1>1, <1>3, <1>4 DEF Return, TypeOK, HandlersOK
  <1>5. CASE UNCHANGED call /\ \E next : pc' = [pc EXCEPT ![h] = next]
    BY <1>1, <1>3, <1>5 DEF TypeOK, HandlersOK
  <1>. QED
    BY <1>2, <1>4, <1>5

LEMMA ReadGoesOn ==
  ASSUME ServeInv, NEW h \in Handlers, Read(h)
  PROVE  faults # 0 => faults' # 0
  <1>1. faults' = faults \/ Fault
    BY Zenon DEF Read, Stat, NotFound, ReadMap, Hit, Miss, Panic, Fetch, Decode, DecodeFails,
       Finish, Respond
  <1>. QED
    BY <1>1 DEF Fault, ServeInv, TypeOK, ProcessOK

(* What a step of the handlers keeps, and which paths it leaves alone.     *)
Served ==
    /\ ServeInv' /\ Tangled \subseteq Tangled' /\ dead \subseteq dead'
    /\ faults # 0 => faults' # 0
    /\ \A p \in Paths \ BeingChanged :
          /\ rows'[p] = rows[p] /\ acked'[p] \in {acked[p], None}
          /\ \A x \in Providers \ dead' : blobs'[x][p] = blobs[x][p]

LEMMA NotBeingChanged ==
  ASSUME NEW p \in Paths \ BeingChanged, NEW h \in Handlers, Changing(h)
  PROVE  p \notin Own(h)
  BY DEF BeingChanged, Own

LEMMA ChangeServed ==
  ASSUME ServeInv, TypeOK', Chronicle, UNCHANGED <<mPc, mPath, mCur, from, to>>,
         NEW h \in Handlers, Change(h)
  PROVE  Served /\ Changing(h) /\ Frame(h) /\ Steady
  <1>1. \A g \in Handlers : Changing(g)' => Changing(g) /\ call'[g] = call[g]
    <2>1. pc[h] # "idle"
      BY DEF Change, Check, Scan, Purge, Unrow, Unlink, CreateEmpty, CreateFile, CreateFails,
         Put, PutFails, Record, Log, Get, Copy, Erase, Retable, RetableFails
    <2>. QED
      BY <2>1, ChangeGoesOn DEF Changing, Active, ServeInv
  <1>2. Steady
    <2>1. contended' = contended /\ TypeOK /\ Crossing /\ Whole
      BY ChangeGoesOn DEF ServeInv
    <2>2. Tangled' = Tangled /\ Crossing'
      BY <1>1, <2>1, StaysTangled
    <2>. QED
      BY <2>2, ChangeGoesOn DEF ServeInv
  <1>3. Changing(h) /\ Frame(h) /\ ServeInv'
    BY <1>2, ChangeServes
  <1>4. \A p \in Paths \ BeingChanged : p \notin Own(h)
    BY <1>3, NotBeingChanged
  <1>. QED
    BY <1>2, <1>3, <1>4 DEF Served, Frame

LEMMA ReadServed ==
  ASSUME ServeInv, TypeOK', Chronicle, UNCHANGED <<mPc, mPath, mCur, from, to>>,
         NEW h \in Handlers, Read(h)
  PROVE  Served /\ Quiet(h) /\ call[h].op = "read" /\ Steady
  <1>1. Quiet(h) /\ call[h].op = "read"
    BY ReadQuiet
  <1>2. \A g \in Handlers : Changing(g)' => Changing(g) /\ call'[g] = call[g]
    BY <1>1 DEF Quiet, Changing, Active
  <1>3. Steady
    <2>1. contended' = contended /\ TypeOK /\ Crossing /\ Whole
      BY <1>1 DEF ServeInv, Quiet
    <2>2. Tangled' = Tangled /\ Crossing'
      BY <1>2, <2>1, StaysTangled
    <2>. QED
      BY <2>2, ReadGoesOn
  <1>4. ServeInv'
    BY <1>1, <1>3, QuietServes
  <1>. QED
    BY <1>1, <1>3, <1>4 DEF Served, Quiet

LEMMA StartServed ==
  ASSUME ServeInv, TypeOK', Chronicle, UNCHANGED <<mPc, mPath, mCur, from, to>>,
         NEW h \in Handlers, NEW c \in Requests, Start(h, c)
  PROVE  Served
  <1>1. ServeInv'
    BY StartServes
  <1>2. /\ rows' = rows /\ blobs' = blobs /\ dead' = dead /\ faults' = faults
        /\ contended \subseteq contended'
        /\ \A p \in Paths : acked'[p] \in {acked[p], None}
    BY DEF Start, StartChange, StartRead, storeVars, cloudVars
  <1>3. Tangled \subseteq Tangled'
    BY <1>2, ChronicleEffect DEF Tangled
  <1>. QED
    BY <1>1, <1>2, <1>3 DEF Served

LEMMA MkdirServed ==
  ASSUME ServeInv, TypeOK', Chronicle, UNCHANGED <<mPc, mPath, mCur, from, to>>, NEW d \in Dirs, Mkdir(d)
  PROVE  Served
  <1>1. ServeInv'
    BY MkdirServes
  <1>2. /\ rows' = rows /\ blobs' = blobs /\ dead' = dead /\ faults' = faults
        /\ contended \subseteq contended' /\ acked' = acked
    BY DEF Mkdir, cloudVars, promises
  <1>3. Tangled \subseteq Tangled'
    BY <1>2, ChronicleEffect DEF Tangled
  <1>. QED
    BY <1>1, <1>2, <1>3 DEF Served

LEMMA LoseServed ==
  ASSUME ServeInv, TypeOK', Chronicle, UNCHANGED <<mPc, mPath, mCur, from, to>>, NEW x \in Providers, Lose(x)
  PROVE  Served
  <1>1. /\ rows' = rows /\ dead' = dead \cup {x} /\ acked' = acked /\ contended' = contended
        /\ pc' = pc /\ call' = call /\ faults' # 0
        /\ \A y \in Providers \ dead' : blobs'[y] = blobs[y]
    BY DEF Lose, Fault, storeVars, localVars, promises, excuses, ServeInv, TypeOK, CloudOK, Blobs,
           ProcessOK
  <1>2. Steady
    <2>1. contended' = contended /\ TypeOK /\ Crossing /\ Whole
      BY <1>1 DEF ServeInv
    <2>2. Tangled' = Tangled /\ Crossing'
      BY <1>1, <2>1, StaysTangled DEF Changing, Active
    <2>. QED
      BY <1>1, <2>2
  <1>3. ServeInv'
    BY <1>2, LoseServes
  <1>. QED
    BY <1>1, <1>2, <1>3 DEF Served

LEMMA CrashServed ==
  ASSUME ServeInv, TypeOK', Chronicle, Crash, Stop
  PROVE  Served
  <1>1. ServeInv'
    BY CrashServes
  <1>2. /\ rows' = rows /\ blobs' = blobs /\ dead' = dead /\ acked' = acked
        /\ contended' = contended /\ faults' # 0
    BY DEF Crash, Fault, storeVars, cloudVars, ServeInv, TypeOK, ProcessOK
  <1>3. Tangled \subseteq Tangled'
    BY <1>2, ChronicleEffect DEF Tangled
  <1>. QED
    BY <1>1, <1>2, <1>3 DEF Served

LEMMA ServeServed ==
  ASSUME ServeInv, TypeOK', Chronicle, UNCHANGED <<mPc, mPath, mCur, from, to>>, Serve
  PROVE  Served
  BY ChangeServed, ReadServed, StartServed, MkdirServed, LoseServed DEF Serve

(* Migrate does not notice, but for the paths that are tangled.            *)
LEMMA HandsKept ==
  ASSUME ServeInv, Hands, MigrateOK, Served, UNCHANGED migration
  PROVE  Hands'
  <1>. SUFFICES ASSUME mPath \in Paths \ Tangled'
                PROVE  /\ \A s \in mTodo \cup AtHand : rows'[mPath][s] = from
                       /\ mPc \in MoveSteps /\ acked'[mPath] # None => mHeld = acked'[mPath]
                       /\ mPc = "put" => Stored(from, mPath, mCur, mHeld)'
                       /\ mPc \in {"delete", "update"} => Stored(to, mPath, mCur, mHeld)'
    BY DEF Hands, migration, AtHand, Stored
  <1>1. mPath \notin Tangled /\ mPath \in Paths
    BY DEF Served
  <1>2. mPath \notin BeingChanged
    BY <1>1 DEF BeingChanged, Own, ServeInv, Whole
  <1>3. /\ rows'[mPath] = rows[mPath] /\ acked'[mPath] \in {acked[mPath], None}
        /\ \A x \in Providers \ dead' : blobs'[x][mPath] = blobs[x][mPath]
        /\ dead \subseteq dead'
    BY <1>1, <1>2 DEF Served
  <1>4. \A x \in Providers : Stored(x, mPath, mCur, mHeld) => Stored(x, mPath, mCur, mHeld)'
    BY <1>3 DEF Stored, migration
  <1>5. /\ mPc \in MoveSteps => from \in Providers /\ to \in Providers
        /\ from' = from /\ to' = to
    BY DEF MigrateOK, MoveSteps, migration
  <1>6. /\ \A s \in mTodo \cup AtHand : rows[mPath][s] = from
        /\ mPc \in MoveSteps /\ acked[mPath] # None => mHeld = acked[mPath]
        /\ mPc = "put" => Stored(from, mPath, mCur, mHeld)
        /\ mPc \in {"delete", "update"} => Stored(to, mPath, mCur, mHeld)
    BY <1>1 DEF Hands
  <1>7. mPc = "put" => Stored(from, mPath, mCur, mHeld)'
    BY <1>4, <1>5, <1>6 DEF MoveSteps
  <1>8. mPc \in {"delete", "update"} => Stored(to, mPath, mCur, mHeld)'
    BY <1>4, <1>5, <1>6 DEF MoveSteps
  <1>. QED
    BY <1>3, <1>6, <1>7, <1>8

LEMMA LeavingKept ==
  ASSUME ServeInv, Leaving, Served, UNCHANGED migration, Chronicle
  PROVE  Leaving'
  <1>. SUFFICES ASSUME mPc # "idle"
                PROVE  /\ BeingChanged' \subseteq changed'
                       /\ ~skipped =>
                             \A p \in Paths \ (Tangled' \cup changed' \cup mFiles), s \in Slots :
                                rows'[p][s] = from => p = mPath /\ s \in mTodo \cup AtHand
    BY DEF Leaving, migration, AtHand
  <1>1. changed' = changed \cup BeingChanged'
    BY DEF Chronicle, migration
  <1>2. BeingChanged \subseteq changed
    BY DEF Leaving
  <1>3. \A p \in Paths \ changed' : rows'[p] = rows[p]
    BY <1>1, <1>2 DEF Served
  <1>4. Tangled \subseteq Tangled'
    BY DEF Served
  <1>. QED
    BY <1>1, <1>3, <1>4 DEF Leaving

-----------------------------------------------------------------------------
(***************************************************************************)
(* Downloads.                                                              *)
(***************************************************************************)
LEMMA AttendedAlways ==
  ASSUME Chronicle
  PROVE  Attended'
  BY DEF Chronicle, Attended

(* While a download works from its map, providers are only added to those  *)
(* it may be overtaken at.                                                 *)
LEMMA AwayGrows ==
  ASSUME Chronicle, NEW h \in Handlers, Mapped(h)'
  PROVE  away[h] \subseteq away'[h]
  BY DEF Chronicle

(* A download goes on as it was when a step is not its own and leaves its  *)
(* path alone but for rows that Migrate moves.                             *)
LEMMA OvertakenKept ==
  ASSUME TypeOK, Chronicle, Tangled \subseteq Tangled', faults # 0 => faults' # 0,
         NEW g \in Handlers, DownloadPart(g),
         call'[g] = call[g], pc'[g] = pc[g], due'[g] = due[g], plan'[g] = plan[g],
         todo'[g] = todo[g], got'[g] = got[g], out'[g] = out[g],
         NEW p, p = call[g].path,
         Reading(g, p) /\ due[g] # None /\ p \notin Tangled' =>
            /\ acked'[p] = acked[p] /\ Rivals({p})' = {}
            /\ pc[g] \in SegmentSteps =>
                  \A s \in SlotsOf(due[g]) : rows'[p][s] = rows[p][s] \/ rows[p][s] \in away'[g]
  PROVE  DownloadPart(g)'
  <1>. DEFINE v == due[g]
              i == Len(out[g])
  <1>. SUFFICES ASSUME Reading(g, p), v # None, p \notin Tangled'
                PROVE  DownloadPart(g)'
    BY DEF DownloadPart, Reading, Active
  <1>1. /\ acked[p] = v
        /\ pc[g] \in SegmentSteps =>
              /\ Covers(plan[g], v)
              /\ \A s \in SlotsOf(v) : plan[g][s] = rows[p][s] \/ plan[g][s] \in away[g]
        /\ pc[g] \in {"fetch", "decode"} =>
              /\ i < Segs[v] /\ \A s \in todo[g] : s[1] = i
              /\ \A j \in Shards : \/ <<i, j>> \in todo[g]
                                   \/ got[g][j] # None
                                   \/ plan[g][<<i, j>>] \in away[g]
                                   \/ faults # 0
    BY DEF DownloadPart
  <1>2. pc[g] \in SegmentSteps => away[g] \subseteq away'[g]
    BY AwayGrows DEF Mapped, SegmentSteps, Reading
  <1>3. pc[g] \in SegmentSteps => Covers(plan[g], v)'
    BY <1>1 DEF Covers
  <1>4. pc[g] \in SegmentSteps =>
           \A s \in SlotsOf(v) : plan[g][s] = rows'[p][s] \/ plan[g][s] \in away'[g]
    BY <1>1, <1>2
  <1>5. pc[g] \in {"fetch", "decode"} =>
              \A j \in Shards : \/ <<i, j>> \in todo[g]
                                \/ got[g][j] # None
                                \/ plan[g][<<i, j>>] \in away'[g]
                                \/ faults' # 0
    BY <1>1, <1>2 DEF SegmentSteps
  <1>. QED
    BY <1>1, <1>3, <1>4, <1>5 DEF DownloadPart

LEMMA ChangeKeepsDownloads ==
  ASSUME MigrateInv, TypeOK', Chronicle, UNCHANGED migration, NEW h \in Handlers, Change(h)
  PROVE  \A g \in Handlers : DownloadPart(g)'
  <1>1. Served /\ Changing(h) /\ Frame(h)
    BY ChangeServed DEF MigrateInv, migration
  <1>2. \A g \in Handlers : Changing(g)' => Changing(g) /\ call'[g] = call[g]
    BY <1>1 DEF Frame, Changing, Active
  <1>3. ASSUME NEW g \in Handlers \ {h}, NEW p, p = call[g].path
        PROVE  DownloadPart(g)'
    <2>1. /\ call'[g] = call[g] /\ pc'[g] = pc[g] /\ due'[g] = due[g] /\ plan'[g] = plan[g]
          /\ todo'[g] = todo[g] /\ got'[g] = got[g] /\ out'[g] = out[g]
      BY <1>1, ChangeReads DEF Frame, MigrateInv, ServeInv
    <2>2. ASSUME Reading(g, p), due[g] # None, p \notin Tangled'
          PROVE  acked'[p] = acked[p] /\ Rivals({p})' = {} /\ rows'[p] = rows[p]
      <3>1. p \in Paths
        BY <2>2, ReaderAt DEF MigrateInv, ServeInv
      <3>2. Rivals({p}) = {}
        BY <1>1, <1>3, <2>2 DEF MigrateInv, DownloadPart, Served
      <3>3. p \notin Own(h)
        BY <1>1, <3>2, RivalOwn
      <3>4. Rivals({p})' = {}
        BY <1>2, <3>2, RivalsShrink
      <3>. QED
        BY <1>1, <3>1, <3>3, <3>4 DEF Frame
    <2>3. /\ TypeOK /\ Tangled \subseteq Tangled' /\ (faults # 0 => faults' # 0) /\ DownloadPart(g)
          /\ g \in Handlers
      BY <1>1 DEF Served, MigrateInv, ServeInv
    <2>. QED
      BY <1>3, <2>1, <2>2, <2>3, OvertakenKept
  <1>4. DownloadPart(h)'
    <2>1. \A p : ~Reading(h, p)'
      BY <1>1, CallTypes DEF Frame, Changing, Reading
    <2>. QED
      BY <2>1 DEF DownloadPart
  <1>. QED
    BY <1>3, <1>4

LEMMA StartKeepsDownloads ==
  ASSUME MigrateInv, TypeOK', Chronicle, UNCHANGED migration,
         NEW h \in Handlers, NEW c \in Requests, Start(h, c)
  PROVE  \A g \in Handlers : DownloadPart(g)'
  <1>1. Served
    BY StartServed DEF MigrateInv, migration
  <1>2. /\ pc[h] = "idle" /\ call' = [call EXCEPT ![h] = c] /\ call'[h] = c
        /\ rows' = rows /\ plan' = plan /\ todo' = todo /\ got' = got /\ out' = out
    BY DEF Start, storeVars, readVars, MigrateInv, ServeInv, TypeOK, HandlersOK
  <1>3. \A g \in Handlers \ {h} : pc'[g] = pc[g] /\ call'[g] = call[g]
    BY <1>2 DEF Start, StartChange, StartRead, MigrateInv, ServeInv, TypeOK, HandlersOK
  <1>4. CASE c.op = "read" /\ StartRead(h, c.path)
    <2>1. /\ acked' = acked /\ contended' = contended /\ pc'[h] = "info"
          /\ due'[h] = IF c.path \in contended \/ Rivals({c.path}) # {} THEN None
                       ELSE acked[c.path]
          /\ \A g \in Handlers \ {h} : due'[g] = due[g]
      BY <1>4 DEF StartRead, MigrateInv, ServeInv, TypeOK, HandlersOK, HistoryOK
    <2>2. \A g \in Handlers : Changing(g)' => Changing(g) /\ call'[g] = call[g]
      BY <1>2, <1>3, <1>4, <2>1 DEF Changing, Active
    <2>3. \A p : Rivals({p}) = {} => Rivals({p})' = {}
      BY <2>2, RivalsShrink
    <2>4. DownloadPart(h)'
      BY <1>2, <2>1, <2>3 DEF DownloadPart, SegmentSteps
    <2>5. ASSUME NEW g \in Handlers \ {h}, NEW p, p = call[g].path PROVE DownloadPart(g)'
      <3>1. Reading(g, p) /\ due[g] # None /\ p \notin Tangled' => Rivals({p})' = {}
        BY <1>1, <2>3, <2>5 DEF MigrateInv, DownloadPart, Served
      <3>2. /\ TypeOK /\ Tangled \subseteq Tangled' /\ (faults # 0 => faults' # 0)
            /\ DownloadPart(g) /\ g \in Handlers
        BY <1>1 DEF Served, MigrateInv, ServeInv
      <3>. QED
        BY <1>2, <1>3, <2>1, <2>5, <3>1, <3>2, OvertakenKept
    <2>. QED
      BY <2>4, <2>5
  <1>5. CASE c.op # "read" /\ StartChange(h, c)
    <2>0. c.path \in Paths /\ c.to \in Paths
      BY <1>5, CallTypes DEF Requests, Mutations
    <2>1. /\ \A p \in Paths : acked'[p] = IF p \in Touches(c) THEN None ELSE acked[p]
          /\ \A g \in Handlers \ {h} :
                due'[g] = IF \E p \in Touches(c) : Reading(g, p) THEN None ELSE due[g]
      BY <1>5 DEF StartChange
    <2>2. DownloadPart(h)'
      BY <1>2, <1>5 DEF DownloadPart, Reading
    <2>3. ASSUME NEW g \in Handlers \ {h}, NEW p, p = call[g].path PROVE DownloadPart(g)'
      <3>1. CASE Reading(g, p) /\ p \in Touches(c)
        <4>1. due'[g] = None
          BY <2>1, <3>1
        <4>. QED
          BY <4>1 DEF DownloadPart
      <3>2. CASE ~Reading(g, p)
        <4>1. ~Reading(g, call[g].path)'
          BY <1>3, <2>3, <3>2 DEF Reading, Active
        <4>. QED
          BY <1>3, <4>1 DEF DownloadPart
      <3>3. CASE Reading(g, p) /\ p \notin Touches(c)
        <4>1. p \in Paths /\ due'[g] = due[g] /\ acked'[p] = acked[p]
          <5>1. p \in Paths
            BY <3>3, ReaderAt DEF MigrateInv, ServeInv
          <5>2. \A f : Reading(g, f) => f = p
            BY <2>3 DEF Reading
          <5>. QED
            BY <2>1, <3>3, <5>1, <5>2
        <4>2. ASSUME Rivals({p}) = {} PROVE Rivals({p})' = {}
          <5>1. ASSUME NEW k \in Handlers, Changing(k)' PROVE p \notin Touches(call'[k])
            <6>1. CASE k = h
              BY <1>2, <3>3, <6>1
            <6>2. CASE k # h
              <7>1. Changing(k) /\ call'[k] = call[k]
                BY <1>3, <5>1, <6>2 DEF Changing, Active
              <7>. QED
                BY <4>2, <7>1, RivalOwn DEF Own
            <6>. QED
              BY <6>1, <6>2
          <5>. QED
            BY <5>1 DEF Rivals
        <4>3. due[g] # None /\ p \notin Tangled' => Rivals({p})' = {}
          BY <1>1, <2>3, <3>3, <4>2 DEF MigrateInv, DownloadPart, Served
        <4>4. /\ TypeOK /\ Tangled \subseteq Tangled' /\ (faults # 0 => faults' # 0)
              /\ DownloadPart(g) /\ g \in Handlers
          BY <1>1 DEF Served, MigrateInv, ServeInv
        <4>. QED
          BY <1>2, <1>3, <2>3, <4>1, <4>3, <4>4, OvertakenKept
      <3>. QED
        BY <3>1, <3>2, <3>3
    <2>. QED
      BY <2>2, <2>3
  <1>. QED
    BY <1>4, <1>5 DEF Start

(* The steps that no handler takes, but Crash.                             *)
LEMMA OthersKeepDownloads ==
  ASSUME MigrateInv, Chronicle, Served,
         UNCHANGED <<pc, call, due, plan, todo, got, out, acked, rows>>
  PROVE  \A g \in Handlers : DownloadPart(g)'
  <1>1. ASSUME NEW g \in Handlers, NEW p, p = call[g].path PROVE DownloadPart(g)'
    <2>1. Rivals({p})' = Rivals({p})
      BY DEF Rivals, Changing, Active
    <2>2. Reading(g, p) /\ due[g] # None /\ p \notin Tangled' => Rivals({p})' = {}
      BY <1>1, <2>1 DEF MigrateInv, DownloadPart, Served
    <2>3. /\ TypeOK /\ Tangled \subseteq Tangled' /\ (faults # 0 => faults' # 0)
          /\ DownloadPart(g)
      BY DEF Served, MigrateInv, ServeInv
    <2>. QED
      BY <1>1, <2>2, <2>3, OvertakenKept
  <1>. QED
    BY <1>1

LEMMA ReadOthers ==
  ASSUME TypeOK, NEW h \in Handlers, Read(h), NEW g \in Handlers \ {h}
  PROVE  got'[g] = got[g] /\ out'[g] = out[g]
  <1>1. got' = got \/ (\E a : got' = [got EXCEPT ![h] = a]) \/ (\E i, b : got' = [got EXCEPT ![h][i] = b])
    BY Zenon DEF Read, Stat, NotFound, ReadMap, Hit, Miss, Panic, Fetch, Decode, DecodeFails,
       Finish, Respond, Return, localVars, readVars
  <1>2. out' = out \/ (\E a : out' = [out EXCEPT ![h] = a])
    BY Zenon DEF Read, Stat, NotFound, ReadMap, Hit, Miss, Panic, Fetch, Decode, DecodeFails,
       Finish, Respond, Return, localVars, readVars
  <1>3. got'[g] = got[g]
    BY <1>1 DEF TypeOK, HandlersOK
  <1>4. out'[g] = out[g]
    BY <1>2 DEF TypeOK, HandlersOK
  <1>. QED
    BY <1>3, <1>4

LEMMA CoversSegments ==
  ASSUME NEW v \in Versions, NEW map, Covers(map, v)
  PROVE  Cardinality(Segments(map)) = Segs[v]
  <1>1. \A s \in Slots : map[s] # None <=> s[1] < Segs[v]
    BY DEF Covers, SlotsOf
  <1>2. Segs[v] \in 0 .. MaxSegs /\ MaxSegs \in Nat
    BY ShapeAssumption
  <1>3. \A i \in 0 .. Segs[v] - 1 : <<i, 0>> \in Slots
    BY <1>2, ShapeAssumption DEF Slots, Shards
  <1>4. Segments(map) \subseteq 0 .. Segs[v] - 1
    BY <1>1, <1>2, ShapeAssumption DEF Segments, Slots
  <1>5. 0 .. Segs[v] - 1 \subseteq Segments(map)
    <2>1. ASSUME NEW i \in 0 .. Segs[v] - 1 PROVE i \in Segments(map)
      <3>1. <<i, 0>> \in {t \in Slots : map[t] # None} /\ <<i, 0>>[1] = i
        BY <1>1, <1>2, <1>3, <2>1
      <3>. QED
        BY <3>1 DEF Segments
    <2>. QED
      BY <2>1
  <1>6. Segments(map) = 0 .. Segs[v] - 1
    BY <1>4, <1>5
  <1>7. Cardinality(0 .. Segs[v] - 1) = Segs[v]
    <2>. DEFINE n == Segs[v]
    <2>1. n \in Nat /\ 0 \in Int /\ n - 1 \in Int
      BY <1>2
    <2>2. Cardinality(0 .. n - 1) = IF 0 > n - 1 THEN 0 ELSE (n - 1) - 0 + 1
      <3>. HIDE DEF n
      <3>. QED
        BY <2>1, FS_Interval
    <2>3. (IF 0 > n - 1 THEN 0 ELSE (n - 1) - 0 + 1) = n
      <3>. HIDE DEF n
      <3>. QED
        BY <2>1
    <2>. QED
      BY <2>2, <2>3
  <1>. QED
    BY <1>6, <1>7

(* The map of a download names a provider for every shard of a segment.    *)
LEMMA CoversIndices ==
  ASSUME NEW v \in Versions, NEW map, Covers(map, v), NEW i \in Nat, i < Segs[v]
  PROVE  /\ IndicesOf(map, i) = Shards
         /\ \A j \in Shards : <<i, j>> \in SlotsOf(v) /\ map[<<i, j>>] # None
  <1>1. Segs[v] \in 0 .. MaxSegs /\ MaxSegs \in Nat
    BY ShapeAssumption
  <1>2. \A j \in Shards : <<i, j>> \in SlotsOf(v)
    BY <1>1 DEF SlotsOf, Slots
  <1>3. \A j \in Shards : map[<<i, j>>] # None
    BY <1>2 DEF Covers, SlotsOf
  <1>4. i < MaxSegs
    BY <1>1
  <1>. QED
    BY <1>2, <1>3, <1>4 DEF IndicesOf

LEMMA OwnReadKeepsDownload ==
  ASSUME MigrateInv, TypeOK', Chronicle, UNCHANGED migration, NEW h \in Handlers, Read(h)
  PROVE  DownloadPart(h)'
  <1>. DEFINE p == call[h].path
              v == due[h]
              i == Len(out[h])
  <1>0. TypeOK /\ ServeInv /\ DownloadPart(h) /\ MigrateOK
    BY DEF MigrateInv, ServeInv
  <1>1. Served /\ Quiet(h) /\ call[h].op = "read" /\ Steady
    BY <1>0, ReadServed DEF migration
  <1>2. /\ UNCHANGED <<rows, blobs, acked, Tangled>> /\ (faults # 0 => faults' # 0)
        /\ \A g \in Handlers : Changing(g)' => Changing(g) /\ call'[g] = call[g]
    BY <1>1 DEF Quiet, Changing, Active
  <1>3. \/ pc'[h] = "idle"
        \/ /\ call'[h] = call[h] /\ due'[h] = due[h] /\ pc[h] # "idle"
           /\ Stat(h) \/ ReadMap(h) \/ Hit(h) \/ Miss(h) \/ Fetch(h) \/ Decode(h) \/ Finish(h)
    <2>1. CASE Return(h)
      BY <1>0, <2>1 DEF Return, TypeOK, HandlersOK
    <2>2. CASE /\ call' = call /\ due' = due /\ pc[h] # "idle"
               /\ Stat(h) \/ ReadMap(h) \/ Hit(h) \/ Miss(h) \/ Fetch(h) \/ Decode(h) \/ Finish(h)
      BY <2>2
    <2>3. \/ Return(h)
          \/ Stat(h) \/ ReadMap(h) \/ Hit(h) \/ Miss(h) \/ Fetch(h) \/ Decode(h) \/ Finish(h)
      BY DEF Read, NotFound, Panic, DecodeFails, Respond
    <2>4. Stat(h) \/ ReadMap(h) \/ Hit(h) \/ Miss(h) \/ Fetch(h) \/ Decode(h) \/ Finish(h)
             => call' = call /\ due' = due /\ pc[h] # "idle"
      BY Zenon DEF Stat, ReadMap, Hit, Miss, Fetch, Decode, Finish, More, localVars, promises
    <2>. QED
      BY <2>1, <2>2, <2>3, <2>4
  <1>4. CASE pc'[h] = "idle"
    BY <1>4 DEF DownloadPart, Reading, Active
  <1>5. CASE /\ call'[h] = call[h] /\ due'[h] = due[h] /\ pc[h] # "idle"
             /\ Stat(h) \/ ReadMap(h) \/ Hit(h) \/ Miss(h) \/ Fetch(h) \/ Decode(h) \/ Finish(h)
    <2>. SUFFICES ASSUME v # None, p \notin Tangled PROVE DownloadPart(h)'
      BY <1>2, <1>5 DEF DownloadPart
    <2>0. Reading(h, p) /\ v \in Versions /\ p \in Paths
      <3>1. Reading(h, p)
        BY <1>1, <1>5 DEF Reading, Active
      <3>. QED
        BY <1>0, <3>1, ReaderAt DEF TypeOK, HistoryOK
    <2>1. acked[p] = v /\ Rivals({p}) = {}
      BY <1>0, <2>0 DEF DownloadPart
    <2>2. acked'[p] = v /\ Rivals({p})' = {}
      <3>1. \A g \in Handlers : Changing(g)' => Changing(g) /\ call'[g] = call[g]
        BY <1>2
      <3>2. ASSUME NEW f, Rivals({f}) = {} PROVE Rivals({f})' = {}
        BY <3>1, <3>2, RivalsShrink
      <3>3. Rivals({p})' = {}
        BY <1>5, <2>1, <3>2
      <3>. QED
        BY <1>2, <2>1, <3>3
    <2>3. pc[h] \in SegmentSteps =>
             Covers(plan[h], v) /\ \A s \in SlotsOf(v) : plan[h][s] = rows[p][s] \/ plan[h][s] \in away[h]
      BY <1>0, <2>0 DEF DownloadPart
    <2>4. pc'[h] \in SegmentSteps => away[h] \subseteq away'[h]
      BY <1>1, <1>5, AwayGrows DEF Mapped, SegmentSteps
    <2>5. out[h] \in Seq(Content \X Nat) /\ i \in Nat
      BY <1>0 DEF TypeOK, HandlersOK
    <2>6. CASE Stat(h)
      <3>1. pc'[h] \notin SegmentSteps
        BY <1>0, <2>6 DEF Stat, Step, TypeOK, HandlersOK, SegmentSteps
      <3>. QED
        BY <1>5, <2>2, <3>1 DEF DownloadPart, SegmentSteps
    <2>7. CASE ReadMap(h)
      <3>1. pc'[h] = "seg" /\ plan'[h] = rows[p]
        BY <1>0, <2>7 DEF ReadMap, Step, TypeOK, HandlersOK
      <3>2. Safe(p, v)
        BY <1>0, <2>0, <2>1 DEF ServeInv, AckedSafe
      <3>3. Covers(rows[p], v)
        BY <3>2 DEF Safe, Filed
      <3>4. Covers(plan[h], v)'
        BY <1>5, <3>1, <3>3 DEF Covers
      <3>. QED
        BY <1>2, <1>5, <2>2, <3>1, <3>4 DEF DownloadPart
    <2>8. CASE pc'[h] \in {"seg", "done"} /\ plan'[h] = plan[h] /\ pc[h] \in SegmentSteps
      <3>1. Covers(plan[h], v)'
        BY <1>5, <2>3, <2>8 DEF Covers
      <3>2. \A s \in SlotsOf(v) : plan'[h][s] = rows'[p][s] \/ plan'[h][s] \in away'[h]
        BY <1>2, <2>3, <2>4, <2>8 DEF SegmentSteps
      <3>. QED
        BY <1>5, <2>2, <2>8, <3>1, <3>2 DEF DownloadPart
    <2>9. CASE Hit(h)
      BY <2>8, <2>9 DEF Hit, More, SegmentSteps
    <2>10. CASE Decode(h)
      BY <1>0, <2>8, <2>10 DEF Decode, Step, SegmentSteps, TypeOK, HandlersOK
    <2>11. CASE Finish(h)
      BY <1>0, <2>8, <2>11 DEF Finish, Step, SegmentSteps, TypeOK, HandlersOK, localVars
    <2>12. CASE Miss(h)
      <3>1. /\ pc[h] = "seg" /\ i < Cardinality(Segments(plan[h]))
            /\ todo'[h] = {<<i, j>> : j \in IndicesOf(plan[h], i)}
            /\ pc'[h] \in {"fetch", "decode"}
        <4>1. /\ More(h)
              /\ todo' = [todo EXCEPT ![h] = {<<i, j>> : j \in IndicesOf(plan[h], i)}]
              /\ Step(h, IF IndicesOf(plan[h], i) = {} THEN "decode" ELSE "fetch")
          BY <2>12, Zenon DEF Miss
        <4>. QED
          BY <1>0, <4>1 DEF More, Step, TypeOK, HandlersOK
      <3>2. plan' = plan /\ out' = out
        BY <2>12, Zenon DEF Miss
      <3>3. Covers(plan[h], v)
        BY <2>3, <3>1 DEF SegmentSteps
      <3>4. i < Segs[v]
        BY <2>0, <3>1, <3>3, CoversSegments
      <3>5. IndicesOf(plan[h], i) = Shards
        BY <2>0, <2>5, <3>3, <3>4, CoversIndices
      <3>6. (\A s \in todo'[h] : s[1] = i) /\ \A j \in Shards : <<i, j>> \in todo'[h]
        BY <3>1, <3>5
      <3>7. Covers(plan[h], v)'
        BY <1>5, <3>2, <3>3 DEF Covers
      <3>8. \A s \in SlotsOf(v) : plan'[h][s] = rows'[p][s] \/ plan'[h][s] \in away'[h]
        BY <1>2, <2>3, <2>4, <3>1, <3>2 DEF SegmentSteps
      <3>. QED
        BY <1>5, <2>2, <3>1, <3>2, <3>4, <3>6, <3>7, <3>8 DEF DownloadPart
    <2>13. CASE Fetch(h)
      <3>0. pc[h] = "fetch" /\ plan' = plan /\ out' = out
        BY <2>13, Zenon DEF Fetch
      <3>1. PICK s \in todo[h] :
               /\ Loop(h, s, "decode")
               /\ \/ got' = [got EXCEPT ![h][s[2]] = blobs[plan[h][s]][p][s]]
                  \/ Fault /\ got' = got
        BY <2>13, Zenon DEF Fetch
      <3>2. todo'[h] = todo[h] \ {s} /\ pc'[h] \in {"fetch", "decode"} /\ s \in Slots
        BY <1>0, <3>0, <3>1 DEF Loop, TypeOK, HandlersOK
      <3>3. /\ Covers(plan[h], v) /\ i < Segs[v] /\ \A t \in todo[h] : t[1] = i
            /\ \A j \in Shards : \/ <<i, j>> \in todo[h]
                                 \/ got[h][j] # None
                                 \/ plan[h][<<i, j>>] \in away[h]
                                 \/ faults # 0
        BY <1>0, <2>0, <3>0 DEF DownloadPart, SegmentSteps
      <3>4. s = <<i, s[2]>> /\ s[2] \in Shards
        BY <3>2, <3>3 DEF Slots
      <3>5. got'[h][s[2]] # None \/ plan[h][s] \in away[h] \/ faults' # 0
        <4>1. CASE Fault
          BY <1>0, <4>1 DEF Fault, TypeOK, ProcessOK
        <4>2. CASE got' = [got EXCEPT ![h][s[2]] = blobs[plan[h][s]][p][s]]
          <5>1. got'[h][s[2]] = blobs[plan[h][s]][p][s]
            BY <1>0, <3>4, <4>2 DEF TypeOK, HandlersOK
          <5>2. s \in SlotsOf(v)
            BY <2>0, <2>5, <3>3, <3>4, CoversIndices
          <5>3. CASE plan[h][s] = rows[p][s]
            <6>1. There(rows[p][s], p, s, v)
              BY <1>0, <2>0, <2>1, <5>2 DEF ServeInv, AckedSafe, Safe
            <6>2. CASE Moving(p, s)
              <7>1. rows[p][s] = from
                BY <2>0, <6>2 DEF MigrateInv, Hands, AtHand, MoveSteps
              <7>2. from \in away[h]
                BY <1>1, <3>0, <6>2 DEF MigrateInv, Attended, Mapped
              <7>. QED
                BY <5>3, <7>1, <7>2
            <6>3. CASE ~Moving(p, s)
              BY <1>2, <2>0, <5>1, <5>3, <6>1, <6>3, NoneAssumption DEF There
            <6>. QED
              BY <6>2, <6>3
          <5>4. CASE plan[h][s] # rows[p][s]
            BY <2>3, <3>0, <5>2, <5>4 DEF SegmentSteps
          <5>. QED
            BY <5>3, <5>4
        <4>. QED
          BY <3>1, <4>1, <4>2
      <3>6. \A j \in Shards \ {s[2]} : got'[h][j] = got[h][j] /\ <<i, j>> # s
        BY <1>0, <3>1, <3>4 DEF TypeOK, HandlersOK
      <3>7. \A j \in Shards : \/ <<i, j>> \in todo'[h]
                              \/ got'[h][j] # None
                              \/ plan[h][<<i, j>>] \in away'[h]
                              \/ faults' # 0
        BY <1>2, <2>4, <3>2, <3>3, <3>4, <3>5, <3>6 DEF SegmentSteps
      <3>8. Covers(plan[h], v)'
        BY <1>5, <3>0, <3>3 DEF Covers
      <3>9. \A t \in SlotsOf(v) : plan'[h][t] = rows'[p][t] \/ plan'[h][t] \in away'[h]
        BY <1>2, <2>3, <2>4, <3>0, <3>2 DEF SegmentSteps
      <3>. QED
        BY <1>5, <2>2, <3>0, <3>2, <3>3, <3>7, <3>8, <3>9 DEF DownloadPart
    <2>. QED
      BY <1>5, <2>6, <2>7, <2>9, <2>10, <2>11, <2>12, <2>13
  <1>. QED
    BY <1>3, <1>4, <1>5

LEMMA ReadKeepsDownloads ==
  ASSUME MigrateInv, TypeOK', Chronicle, UNCHANGED migration, NEW h \in Handlers, Read(h)
  PROVE  \A g \in Handlers : DownloadPart(g)'
  <1>1. Served /\ Quiet(h)
    BY ReadServed DEF MigrateInv, migration
  <1>2. \A g \in Handlers : Changing(g)' => Changing(g) /\ call'[g] = call[g]
    BY <1>1, ReadServed DEF Quiet, Changing, Active, MigrateInv, migration
  <1>3. ASSUME NEW g \in Handlers \ {h}, NEW p, p = call[g].path
        PROVE  DownloadPart(g)'
    <2>1. /\ call'[g] = call[g] /\ pc'[g] = pc[g] /\ due'[g] = due[g] /\ plan'[g] = plan[g]
          /\ todo'[g] = todo[g] /\ got'[g] = got[g] /\ out'[g] = out[g]
      BY <1>1, ReadOthers DEF Quiet, MigrateInv, ServeInv
    <2>2. Reading(g, p) /\ due[g] # None /\ p \notin Tangled' => Rivals({p})' = {}
      <3>1. Rivals({p}) = {} => Rivals({p})' = {}
        BY <1>2, RivalsShrink
      <3>. QED
        BY <1>1, <1>3, <3>1 DEF MigrateInv, DownloadPart, Served
    <2>3. /\ TypeOK /\ Tangled \subseteq Tangled' /\ (faults # 0 => faults' # 0)
          /\ DownloadPart(g) /\ g \in Handlers /\ rows' = rows /\ acked' = acked
      BY <1>1 DEF Served, MigrateInv, ServeInv, Quiet
    <2>. QED
      BY <1>3, <2>1, <2>2, <2>3, OvertakenKept
  <1>. QED
    BY <1>3, OwnReadKeepsDownload

-----------------------------------------------------------------------------
(***************************************************************************)
(* The steps of Migrate.                                                   *)
(***************************************************************************)
LEMMA MoveTypes ==
  ASSUME TypeOK, Still, rows' \in [Paths -> ShardMaps], blobs' \in Blobs, faults' \in Nat,
         soiled' \subseteq Paths
  PROVE  TypeOK'
  <1>. USE DEF Still, localVars, readVars, promises
  <1>1. StoreOK' /\ CloudOK'
    BY DEF TypeOK, StoreOK, CloudOK
  <1>2. ProcessOK' /\ HistoryOK'
    BY DEF TypeOK, ProcessOK, HistoryOK
  <1>3. HandlersOK'
    BY DEF TypeOK, HandlersOK, AtStep, Pointed
  <1>. QED
    BY <1>1, <1>2, <1>3 DEF TypeOK

LEMMA AwayType ==
  ASSUME MigrateOK, Chronicle, mPc' # "idle" => from' \in Providers
  PROVE  away' \in [Handlers -> SUBSET Providers]
  BY DEF Chronicle, MigrateOK

(* A step of Migrate has to show that the path it is at stays safe.        *)
LEMMA MoveServes ==
  ASSUME MigrateInv, TypeOK', Chronicle, Onto' \subseteq Paths,
         Still, faults # 0 => faults' # 0, DeadEmpty',
         NEW f, f = mPath,
         \A p \in Paths \ {f} :
            rows'[p] = rows[p] /\ \A x \in Providers : blobs'[x][p] = blobs[x][p],
         f \in Paths \ Tangled =>
            /\ files[f] = None => rows'[f] = NoRows
            /\ acked[f] # None => Safe(f, acked[f])'
  PROVE  ServeInv' /\ Tangled \subseteq Tangled'
  <1>1. /\ files' = files /\ dead' = dead /\ pc' = pc /\ call' = call /\ plan' = plan
        /\ todo' = todo /\ cur' = cur /\ held' = held /\ due' = due /\ clean' = clean
        /\ acked' = acked /\ contended' = contended
    BY DEF Still, localVars, promises
  <1>2. Whole' /\ Tangled \subseteq Tangled' /\ Crossing'
    <2>1. \A g \in Handlers : Changing(g)' => Changing(g) /\ Own(g)' = Own(g)
      BY <1>1 DEF Changing, Active, Own
    <2>2. TypeOK /\ Crossing /\ Whole
      BY DEF MigrateInv, ServeInv
    <2>. QED
      BY <1>1, <2>1, <2>2, StaysWhole
  <1>3. \A p \in Paths \ {f}, x \in Providers, s \in Slots, v \in Versions :
           There(x, p, s, v) => There(x, p, s, v)'
    BY DEF There
  <1>4. Unpromised' /\ DeadFault'
    BY <1>1, <1>2 DEF MigrateInv, ServeInv, Unpromised, DeadFault, Changing, Active, Own
  <1>5. RowsFiled'
    BY <1>1, <1>2 DEF MigrateInv, ServeInv, RowsFiled
  <1>6. AckedSafe'
    <2>1. ASSUME NEW p \in Paths \ Tangled, p # f, acked[p] # None
          PROVE  Safe(p, acked[p])'
      <3>. DEFINE v == acked[p]
      <3>1. Safe(p, v) /\ v \in Versions
        BY <2>1 DEF MigrateInv, ServeInv, AckedSafe, TypeOK, HistoryOK
      <3>2. \A s \in SlotsOf(v) : s \in Slots /\ rows[p][s] \in Providers
        BY <3>1, CoversProviders DEF Safe, Filed, MigrateInv, ServeInv, TypeOK, StoreOK
      <3>. QED
        BY <1>1, <1>3, <2>1, <3>1, <3>2 DEF Safe, Filed
    <2>. QED
      BY <1>1, <1>2, <2>1 DEF AckedSafe
  <1>7. ASSUME NEW g \in Handlers PROVE CallPart(g)'
    <2>1. ASSUME Changing(g), ~(Own(g) \subseteq Tangled'), NEW p \in Own(g)
          PROVE  p \in Paths \ {f}
      <3>1. p \in Paths
        BY <2>1, ChangingType DEF Own, Touches, MigrateInv, ServeInv
      <3>2. f \notin Own(g)
        BY <1>2, <2>1 DEF MigrateInv, ServeInv, Whole
      <3>. QED
        BY <2>1, <3>1, <3>2
    <2>2. ServeInv
      BY DEF MigrateInv
    <2>. QED
      BY <1>1, <1>2, <1>3, <2>1, <2>2, SamePart
  <1>. QED
    BY <1>1, <1>2, <1>4, <1>5, <1>6, <1>7 DEF ServeInv

(* It does when it leaves the tables and the providers as they are.        *)
LEMMA IdleMoveServes ==
  ASSUME MigrateInv, Chronicle, Onto' \subseteq Paths, Still, UNCHANGED <<rows, blobs>>,
         faults' \in Nat, faults # 0 => faults' # 0, soiled' \subseteq Paths, mPc # "update"
  PROVE  TypeOK' /\ ServeInv' /\ Tangled \subseteq Tangled'
  <1>1. TypeOK /\ ServeInv
    BY DEF MigrateInv, ServeInv
  <1>2. TypeOK'
    BY <1>1, MoveTypes DEF TypeOK, StoreOK, CloudOK
  <1>3. DeadEmpty'
    BY <1>1 DEF ServeInv, DeadEmpty, Still
  <1>4. PICK f : f = mPath
    OBVIOUS
  <1>5. ASSUME f \in Paths \ Tangled
        PROVE  /\ files[f] = None => rows'[f] = NoRows
               /\ acked[f] # None => Safe(f, acked[f])'
    BY <1>1, <1>5 DEF ServeInv, RowsFiled, AckedSafe, Safe, Filed, There, Still, promises
  <1>. QED
    BY <1>1, <1>2, <1>3, <1>4, <1>5, MoveServes

LEMMA MoveKeepsDownloads ==
  ASSUME MigrateInv, Chronicle, Still, Tangled \subseteq Tangled', faults # 0 => faults' # 0,
         \A p \in Paths \ Tangled, s \in Slots :
            rows'[p][s] = rows[p][s] \/ (rows[p][s] = from /\ mPc # "idle")
  PROVE  \A g \in Handlers : DownloadPart(g)'
  <1>1. /\ pc' = pc /\ call' = call /\ plan' = plan /\ todo' = todo /\ due' = due
        /\ got' = got /\ out' = out /\ acked' = acked /\ TypeOK
    BY DEF Still, localVars, readVars, promises, MigrateInv, ServeInv
  <1>2. ASSUME NEW g \in Handlers, NEW p, p = call[g].path PROVE DownloadPart(g)'
    <2>1. DownloadPart(g)
      BY DEF MigrateInv
    <2>2. ASSUME Reading(g, p), due[g] # None, p \notin Tangled'
          PROVE  /\ Rivals({p})' = {}
                 /\ pc[g] \in SegmentSteps =>
                       \A s \in SlotsOf(due[g]) : rows'[p][s] = rows[p][s] \/ rows[p][s] \in away'[g]
      <3>1. p \in Paths \ Tangled
        BY <1>1, <2>2, ReaderAt
      <3>2. Rivals({p}) = {}
        BY <1>2, <2>1, <2>2, <3>1 DEF DownloadPart
      <3>3. Rivals({p})' = {}
        BY <1>1, <3>2 DEF Rivals, Changing, Active
      <3>4. ASSUME pc[g] \in SegmentSteps, mPc # "idle" PROVE from \in away'[g]
        <4>1. Mapped(g) /\ Mapped(g)'
          BY <1>1, <2>2, <3>4 DEF Mapped, SegmentSteps, Reading
        <4>2. from \in away[g]
          BY <3>4, <4>1 DEF MigrateInv, Attended
        <4>. QED
          BY <4>1, <4>2, AwayGrows
      <3>. QED
        BY <3>1, <3>3, <3>4 DEF SlotsOf
    <2>. QED
      BY <1>1, <1>2, <2>1, <2>2, OvertakenKept
  <1>. QED
    BY <1>2

(* Whatever Migrate does, the calls it meets are in changed.               *)
LEMMA MoveMeets ==
  ASSUME Chronicle, mPc' # "idle"
  PROVE  BeingChanged' \subseteq changed' /\ changed \subseteq changed'
  BY DEF Chronicle

LEMMA StartMigrateMoves ==
  ASSUME MigrateInv, Chronicle, NEW x \in Providers, NEW y \in Providers, StartMigrate(x, y)
  PROVE  MigrateInv'
  <1>1. /\ mPc = "idle" /\ from' = x /\ to' = y /\ ~skipped'
        /\ mFiles' = {p \in Paths : files[p] # None}
        /\ mPc' = IF mFiles' = {} THEN "done" ELSE "map"
        /\ UNCHANGED <<mPath, mTodo, mCur, mHeld, rows, blobs, faults, soiled>> /\ Still
    BY DEF StartMigrate
  <1>2. TypeOK /\ ServeInv /\ MigrateOK /\ faults \in Nat /\ soiled \subseteq Paths
    BY DEF MigrateInv, ServeInv, TypeOK, ProcessOK, HistoryOK
  <1>3. ServeInv' /\ Tangled \subseteq Tangled'
    BY <1>1, <1>2, IdleMoveServes DEF Onto
  <1>4. MigrateOK'
    <2>1. away' \in [Handlers -> SUBSET Providers]
      BY <1>1, <1>2, AwayType
    <2>. QED
      BY <1>1, <1>2, <2>1 DEF MigrateOK, MoveSteps
  <1>5. Hands'
    BY <1>1, <1>2 DEF Hands, MigrateOK, AtHand, MoveSteps
  <1>6. Leaving'
    <2>1. BeingChanged' \subseteq changed'
      BY <1>1, MoveMeets
    <2>2. ASSUME NEW p \in Paths \ (Tangled \cup mFiles'), NEW s \in Slots PROVE rows[p][s] # x
      <3>1. files[p] = None
        BY <1>1, <2>2
      <3>2. rows[p] = NoRows
        BY <1>2, <2>2, <3>1 DEF ServeInv, RowsFiled
      <3>. QED
        BY <3>2, NoneAssumption DEF NoRows
    <2>. QED
      BY <1>1, <1>3, <2>1, <2>2 DEF Leaving
  <1>7. \A g \in Handlers : DownloadPart(g)'
    BY <1>1, <1>3, MoveKeepsDownloads
  <1>. QED
    BY <1>3, <1>4, <1>5, <1>6, <1>7, AttendedAlways DEF MigrateInv

LEMMA MigrateFileMoves ==
  ASSUME MigrateInv, Chronicle, MigrateFile
  PROVE  MigrateInv'
  <1>1. PICK p \in mFiles : /\ mFiles' = mFiles \ {p}
                            /\ AfterShard(p, {s \in Slots : rows[p][s] = from})
    BY DEF MigrateFile
  <1>2. /\ mPc = "map" /\ UNCHANGED <<from, to, mCur, mHeld, skipped, rows, blobs, faults, soiled>>
        /\ Still
    BY DEF MigrateFile
  <1>3. PICK T : T = {s \in Slots : rows[p][s] = from}
    OBVIOUS
  <1>4. /\ mTodo' = T
        /\ mPath' = IF T # {} THEN p ELSE None
        /\ mPc' = IF T # {} THEN "get" ELSE IF mFiles' = {} THEN "done" ELSE "map"
    BY <1>1, <1>3 DEF AfterShard
  <1>5. TypeOK /\ ServeInv /\ MigrateOK /\ faults \in Nat /\ soiled \subseteq Paths
    BY DEF MigrateInv, ServeInv, TypeOK, ProcessOK, HistoryOK
  <1>6. ServeInv' /\ Tangled \subseteq Tangled'
    BY <1>2, <1>4, <1>5, IdleMoveServes DEF Onto
  <1>7. MigrateOK'
    <2>1. away' \in [Handlers -> SUBSET Providers]
      BY <1>2, <1>5, AwayType DEF MigrateOK
    <2>. QED
      BY <1>1, <1>2, <1>3, <1>4, <1>5, <2>1 DEF MigrateOK, MoveSteps
  <1>8. Hands'
    BY <1>2, <1>3, <1>4, <1>5 DEF Hands, MigrateOK, AtHand, MoveSteps
  <1>9. Leaving'
    <2>1. BeingChanged' \subseteq changed' /\ changed \subseteq changed'
      BY <1>4, MoveMeets
    <2>2. ASSUME ~skipped, NEW q \in Paths \ (Tangled \cup changed \cup mFiles'), NEW s \in Slots,
                 rows[q][s] = from
          PROVE  q = mPath' /\ s \in mTodo'
      <3>1. mTodo \cup AtHand = {}
        BY <1>2, <1>5 DEF MigrateOK, AtHand, MoveSteps
      <3>2. q = p
        BY <1>1, <1>2, <2>2, <3>1 DEF MigrateInv, Leaving
      <3>. QED
        BY <1>3, <1>4, <2>2, <3>2
    <2>. QED
      BY <1>2, <1>6, <2>1, <2>2 DEF Leaving
  <1>10. \A g \in Handlers : DownloadPart(g)'
    BY <1>2, <1>6, MoveKeepsDownloads
  <1>. QED
    BY <1>6, <1>7, <1>8, <1>9, <1>10, AttendedAlways DEF MigrateInv

LEMMA MoveGetMoves ==
  ASSUME MigrateInv, Chronicle, MoveGet
  PROVE  MigrateInv'
  <1>1. PICK s \in mTodo :
          LET b == blobs[from][mPath][s]
          IN  \/ /\ b # None
                 /\ mHeld' = b /\ mCur' = s /\ mTodo' = mTodo \ {s} /\ mPc' = "put"
                 /\ UNCHANGED <<mPath, skipped, faults>>
              \/ /\ \/ b = None /\ UNCHANGED faults
                    \/ b # None /\ Fault
                 /\ skipped' = TRUE
                 /\ AfterShard(mPath, mTodo \ {s})
                 /\ UNCHANGED <<mHeld, mCur>>
    BY Zenon DEF MoveGet
  <1>2. mPc = "get" /\ UNCHANGED <<mFiles, from, to, rows, blobs, soiled>> /\ Still
    BY Zenon DEF MoveGet
  <1>3. TypeOK /\ ServeInv /\ MigrateOK /\ faults \in Nat /\ soiled \subseteq Paths
    BY DEF MigrateInv, ServeInv, TypeOK, ProcessOK, HistoryOK
  <1>4. /\ from \in Providers /\ to \in Providers /\ mPath \in Paths
        /\ s \in Slots /\ s \in mTodo /\ mTodo \subseteq Slots
    BY <1>2, <1>3 DEF MigrateOK
  <1>5. faults' \in Nat /\ (faults # 0 => faults' # 0)
    BY <1>1, <1>3 DEF Fault
  <1>6. ServeInv' /\ Tangled \subseteq Tangled'
    <2>1. Onto' \subseteq Paths
      BY <1>1, <1>4 DEF Onto, AfterShard
    <2>. QED
      BY <1>2, <1>3, <1>5, <2>1, IdleMoveServes
  <1>7. mPc' # "idle"
    BY <1>1 DEF AfterShard
  <1>8. BeingChanged' \subseteq changed' /\ changed \subseteq changed'
    BY <1>7, MoveMeets
  <1>9. away' \in [Handlers -> SUBSET Providers]
    BY <1>2, <1>3, <1>4, AwayType
  <1>10. \A g \in Handlers : DownloadPart(g)'
    BY <1>2, <1>5, <1>6, MoveKeepsDownloads
  <1>11. CASE /\ blobs[from][mPath][s] # None
              /\ mHeld' = blobs[from][mPath][s] /\ mCur' = s /\ mTodo' = mTodo \ {s} /\ mPc' = "put"
              /\ UNCHANGED <<mPath, skipped>>
    <2>1. mHeld' \in Versions
      BY <1>3, <1>4, <1>11 DEF TypeOK, CloudOK, Blobs
    <2>2. MigrateOK'
      <3>1. from' = to' => mPath' \in crossed'
        BY <1>11, ChronicleEffect DEF Onto
      <3>. QED
        BY <1>2, <1>3, <1>4, <1>9, <1>11, <2>1, <3>1 DEF MigrateOK, MoveSteps
    <2>3. mTodo' \cup AtHand' = mTodo \cup AtHand
      BY <1>2, <1>4, <1>11 DEF AtHand, MoveSteps
    <2>4. Hands'
      <3>. SUFFICES ASSUME mPath \notin Tangled, mPath \in Paths
                    PROVE  /\ \A t \in mTodo \cup AtHand : rows[mPath][t] = from
                           /\ acked[mPath] # None => mHeld' = acked[mPath]
        BY <1>2, <1>6, <1>11, <2>3 DEF Hands, Stored, Still, promises
      <3>1. \A t \in mTodo \cup AtHand : rows[mPath][t] = from
        BY DEF MigrateInv, Hands
      <3>2. ASSUME acked[mPath] # None PROVE mHeld' = acked[mPath]
        <4>1. Safe(mPath, acked[mPath])
          BY <1>3, <3>2 DEF ServeInv, AckedSafe
        <4>2. s \in SlotsOf(acked[mPath])
          BY <1>4, <3>1, <4>1, NoneAssumption DEF Safe, Filed, Covers
        <4>3. There(from, mPath, s, acked[mPath])
          BY <1>4, <3>1, <4>1, <4>2 DEF Safe
        <4>. QED
          BY <1>11, <4>3 DEF There
      <3>. QED
        BY <3>1, <3>2
    <2>5. Leaving'
      BY <1>2, <1>6, <1>8, <1>11, <2>3 DEF MigrateInv, Leaving
    <2>. QED
      BY <1>6, <1>10, <2>2, <2>4, <2>5, AttendedAlways DEF MigrateInv
  <1>12. CASE skipped' = TRUE /\ AfterShard(mPath, mTodo \ {s}) /\ UNCHANGED <<mHeld, mCur>>
    <2>1. /\ mTodo' = mTodo \ {s}
          /\ mPath' = IF mTodo \ {s} # {} THEN mPath ELSE None
          /\ mPc' = IF mTodo \ {s} # {} THEN "get" ELSE IF mFiles' = {} THEN "done" ELSE "map"
      BY <1>12 DEF AfterShard
    <2>2. MigrateOK'
      BY <1>2, <1>3, <1>4, <1>9, <1>12, <2>1 DEF MigrateOK, MoveSteps
    <2>3. Hands'
      BY <1>2, <1>6, <2>1 DEF MigrateInv, Hands, AtHand, MoveSteps
    <2>4. Leaving'
      BY <1>8, <1>12 DEF Leaving
    <2>. QED
      BY <1>6, <1>10, <2>2, <2>3, <2>4, AttendedAlways DEF MigrateInv
  <1>. QED
    BY <1>1, <1>11, <1>12

(* The shard that Migrate moves, while it moves it.                        *)
LEMMA Holding ==
  ASSUME MigrateInv, mPc \in MoveSteps
  PROVE  /\ from \in Providers /\ to \in Providers /\ mPath \in Paths
         /\ mCur \in Slots \ mTodo /\ mHeld \in Versions /\ AtHand = {mCur}
         /\ mPath \notin Tangled => rows[mPath][mCur] = from /\ from # to
  BY DEF MigrateInv, MigrateOK, MoveSteps, AtHand, Hands, Tangled

LEMMA MovePutMoves ==
  ASSUME MigrateInv, Chronicle, MovePut
  PROVE  MigrateInv'
  <1>. DEFINE f == mPath
  <1>1. /\ mPc = "put" /\ mPc' = "delete" /\ to \notin dead /\ Still
        /\ blobs' = [blobs EXCEPT ![to][mPath][mCur] = mHeld]
        /\ UNCHANGED <<from, to, mFiles, mPath, mTodo, mCur, mHeld, skipped, rows, faults, soiled>>
    BY DEF MovePut
  <1>2. TypeOK /\ ServeInv /\ MigrateOK /\ dead' = dead /\ files' = files /\ acked' = acked
    BY <1>1 DEF MigrateInv, ServeInv, Still, promises
  <1>3. /\ from \in Providers /\ to \in Providers /\ mPath \in Paths
        /\ mCur \in Slots \ mTodo /\ mHeld \in Versions /\ AtHand = {mCur}
        /\ mPath \notin Tangled => rows[mPath][mCur] = from /\ from # to
    BY <1>1, Holding DEF MoveSteps
  <1>4. \A x \in Providers, p \in Paths, s \in Slots :
           blobs'[x][p][s] = IF x = to /\ p = mPath /\ s = mCur THEN mHeld ELSE blobs[x][p][s]
    BY <1>1, <1>2, <1>3 DEF TypeOK, CloudOK, Blobs
  <1>5. \A p \in Paths \ {mPath}, x \in Providers : blobs'[x][p] = blobs[x][p]
    BY <1>1, <1>2, <1>3 DEF TypeOK, CloudOK, Blobs
  <1>6. TypeOK'
    BY <1>1, <1>2, <1>3, BlobsType, MoveTypes
       DEF TypeOK, StoreOK, CloudOK, ProcessOK, HistoryOK
  <1>7. DeadEmpty'
    BY <1>1, <1>2, <1>3, <1>4 DEF ServeInv, DeadEmpty, TypeOK, CloudOK
  <1>8. ASSUME NEW p, p = mPath, p \notin Tangled
        PROVE  /\ files[p] = None => rows'[p] = NoRows
               /\ acked[p] # None => Safe(p, acked[p])'
    <2>1. files[p] = None => rows'[p] = NoRows
      BY <1>1, <1>2, <1>3, <1>8 DEF ServeInv, RowsFiled
    <2>2. ASSUME acked[p] # None PROVE Safe(p, acked[p])'
      <3>1. Safe(p, acked[p])
        BY <1>2, <1>3, <1>8, <2>2 DEF ServeInv, AckedSafe
      <3>2. \A s \in SlotsOf(acked[p]) : s \in Slots /\ rows[p][s] \in Providers
        BY <1>2, <1>3, <1>8, <3>1, CoversProviders DEF Safe, Filed, TypeOK, StoreOK
      <3>3. \A s \in SlotsOf(acked[p]) : blobs'[rows[p][s]][p][s] = blobs[rows[p][s]][p][s]
        BY <1>3, <1>4, <1>8, <3>2
      <3>. QED
        BY <1>1, <1>2, <3>1, <3>3 DEF Safe, Filed, There
    <2>. QED
      BY <2>1, <2>2
  <1>9. ServeInv' /\ Tangled \subseteq Tangled'
    BY <1>1, <1>5, <1>6, <1>7, <1>8, MoveServes DEF Onto
  <1>10. MigrateOK'
    <2>1. away' \in [Handlers -> SUBSET Providers]
      BY <1>1, <1>2, <1>3, AwayType
    <2>. QED
      BY <1>1, <1>2, <1>3, <2>1, ChronicleEffect DEF MigrateOK, MoveSteps
  <1>11. AtHand' = AtHand
    BY <1>1 DEF AtHand, MoveSteps
  <1>12. Hands'
    <2>1. blobs'[to][mPath][mCur] = mHeld
      BY <1>3, <1>4
    <2>. QED
      BY <1>1, <1>2, <1>9, <1>11, <2>1 DEF MigrateInv, Hands, Stored, MoveSteps
  <1>13. Leaving'
    <2>1. BeingChanged' \subseteq changed' /\ changed \subseteq changed'
      BY <1>1, MoveMeets
    <2>. QED
      BY <1>1, <1>9, <1>11, <2>1 DEF MigrateInv, Leaving
  <1>14. \A g \in Handlers : DownloadPart(g)'
    BY <1>1, <1>9, MoveKeepsDownloads
  <1>. QED
    BY <1>9, <1>10, <1>12, <1>13, <1>14, AttendedAlways DEF MigrateInv

LEMMA MovePutFailsMoves ==
  ASSUME MigrateInv, Chronicle, MovePutFails
  PROVE  MigrateInv'
  <1>1. mPc = "put" /\ soiled' = soiled \cup {mPath} /\ Stop /\ UNCHANGED rows /\ Still
    BY DEF MovePutFails
  <1>2. TypeOK /\ ServeInv /\ MigrateOK /\ dead' = dead /\ files' = files /\ acked' = acked
        /\ faults \in Nat
    BY <1>1 DEF MigrateInv, ServeInv, Still, promises, TypeOK, ProcessOK
  <1>3. /\ from \in Providers /\ to \in Providers /\ mPath \in Paths
        /\ mCur \in Slots \ mTodo /\ mHeld \in Versions
        /\ mPath \notin Tangled => rows[mPath][mCur] = from /\ from # to
    BY <1>1, Holding DEF MoveSteps
  <1>4. faults' \in Nat /\ faults' # 0
    BY <1>2 DEF MovePutFails, Fault, ServeInv, DeadFault
  <1>5. \/ blobs' = blobs
        \/ /\ to \notin dead
           /\ \E b \in Versions \cup {None} : blobs' = [blobs EXCEPT ![to][mPath][mCur] = b]
    <2>1. blobs[to][mPath][mCur] \in Versions \cup {None}
      BY <1>2, <1>3 DEF TypeOK, CloudOK, Blobs
    <2>. QED
      BY <1>3, <2>1 DEF MovePutFails
  <1>6. /\ blobs' \in Blobs /\ DeadEmpty'
        /\ \A p \in Paths \ {mPath}, x \in Providers : blobs'[x][p] = blobs[x][p]
        /\ \A x \in Providers, s \in Slots :
              x # to \/ s # mCur => blobs'[x][mPath][s] = blobs[x][mPath][s]
    <2>1. CASE blobs' = blobs
      BY <1>2, <2>1 DEF ServeInv, DeadEmpty, TypeOK, CloudOK
    <2>2. ASSUME NEW b \in Versions \cup {None}, to \notin dead,
                 blobs' = [blobs EXCEPT ![to][mPath][mCur] = b]
          PROVE  /\ blobs' \in Blobs /\ DeadEmpty'
                 /\ \A p \in Paths \ {mPath}, x \in Providers : blobs'[x][p] = blobs[x][p]
                 /\ \A x \in Providers, s \in Slots :
                       x # to \/ s # mCur => blobs'[x][mPath][s] = blobs[x][mPath][s]
      <3>1. blobs' \in Blobs
        BY <1>2, <1>3, <2>2, BlobsType DEF TypeOK, CloudOK
      <3>2. DeadEmpty'
        BY <1>2, <1>3, <2>2 DEF ServeInv, DeadEmpty, TypeOK, CloudOK, Blobs
      <3>. QED
        BY <1>2, <1>3, <2>2, <3>1, <3>2 DEF TypeOK, CloudOK, Blobs
    <2>. QED
      BY <1>5, <2>1, <2>2
  <1>7. TypeOK'
    <2>1. soiled' \subseteq Paths
      BY <1>1, <1>2, <1>3 DEF TypeOK, HistoryOK
    <2>. QED
      BY <1>1, <1>2, <1>4, <1>6, <2>1, MoveTypes DEF TypeOK, StoreOK
  <1>8. ASSUME NEW p, p = mPath, p \notin Tangled
        PROVE  /\ files[p] = None => rows'[p] = NoRows
               /\ acked[p] # None => Safe(p, acked[p])'
    <2>1. files[p] = None => rows'[p] = NoRows
      BY <1>1, <1>2, <1>3, <1>8 DEF ServeInv, RowsFiled
    <2>2. ASSUME acked[p] # None PROVE Safe(p, acked[p])'
      <3>1. Safe(p, acked[p])
        BY <1>2, <1>3, <1>8, <2>2 DEF ServeInv, AckedSafe
      <3>2. \A s \in SlotsOf(acked[p]) : s \in Slots /\ rows[p][s] \in Providers
        BY <1>2, <1>3, <1>8, <3>1, CoversProviders DEF Safe, Filed, TypeOK, StoreOK
      <3>3. \A s \in SlotsOf(acked[p]) : blobs'[rows[p][s]][p][s] = blobs[rows[p][s]][p][s]
        BY <1>3, <1>6, <1>8, <3>2
      <3>. QED
        BY <1>1, <1>2, <1>4, <3>1, <3>3 DEF Safe, Filed, There
    <2>. QED
      BY <2>1, <2>2
  <1>9. ServeInv' /\ Tangled \subseteq Tangled'
    BY <1>1, <1>4, <1>6, <1>7, <1>8, MoveServes DEF Onto, Stop
  <1>10. MigrateOK'
    <2>1. away' \in [Handlers -> SUBSET Providers]
      BY <1>1, <1>2, AwayType DEF Stop
    <2>. QED
      BY <1>1, <1>2, <2>1 DEF MigrateOK, MoveSteps, Stop
  <1>11. Hands' /\ Leaving'
    BY <1>1 DEF Hands, Leaving, AtHand, Stop, MoveSteps
  <1>12. \A g \in Handlers : DownloadPart(g)'
    BY <1>1, <1>4, <1>9, MoveKeepsDownloads
  <1>. QED
    BY <1>9, <1>10, <1>11, <1>12, AttendedAlways DEF MigrateInv

LEMMA MoveDeleteMoves ==
  ASSUME MigrateInv, Chronicle, MoveDelete
  PROVE  MigrateInv'
  <1>1. /\ mPc = "delete" /\ mPc' = "update" /\ Still
        /\ UNCHANGED <<from, to, mFiles, mPath, mTodo, mCur, mHeld, skipped, rows>>
    BY DEF MoveDelete
  <1>2. TypeOK /\ ServeInv /\ MigrateOK /\ dead' = dead /\ files' = files /\ acked' = acked
        /\ faults \in Nat
    BY <1>1 DEF MigrateInv, ServeInv, Still, promises, TypeOK, ProcessOK
  <1>3. /\ from \in Providers /\ to \in Providers /\ mPath \in Paths
        /\ mCur \in Slots \ mTodo /\ mHeld \in Versions /\ AtHand = {mCur}
        /\ mPath \notin Tangled => rows[mPath][mCur] = from /\ from # to
    BY <1>1, Holding DEF MoveSteps
  <1>4. /\ faults' \in Nat /\ (faults # 0 => faults' # 0) /\ soiled' \subseteq Paths
        /\ blobs' = blobs \/ blobs' = [blobs EXCEPT ![from][mPath][mCur] = None]
    BY <1>2, <1>3 DEF MoveDelete, Fault, TypeOK, HistoryOK
  <1>5. /\ blobs' \in Blobs
        /\ \A p \in Paths \ {mPath}, x \in Providers : blobs'[x][p] = blobs[x][p]
        /\ \A x \in Providers, s \in Slots :
              IF x = from /\ s = mCur THEN blobs'[x][mPath][s] \in {blobs[x][mPath][s], None}
              ELSE blobs'[x][mPath][s] = blobs[x][mPath][s]
    <2>1. CASE blobs' = blobs
      BY <1>2, <2>1 DEF TypeOK, CloudOK
    <2>2. CASE blobs' = [blobs EXCEPT ![from][mPath][mCur] = None]
      <3>1. blobs' \in Blobs
        BY <1>2, <1>3, <2>2, BlobsType DEF TypeOK, CloudOK
      <3>. QED
        BY <1>2, <1>3, <2>2, <3>1 DEF TypeOK, CloudOK, Blobs
    <2>. QED
      BY <1>4, <2>1, <2>2
  <1>6. TypeOK'
    BY <1>1, <1>2, <1>4, <1>5, MoveTypes DEF TypeOK, StoreOK
  <1>7. DeadEmpty'
    <2>1. \A x \in Providers, p \in Paths, s \in Slots : blobs[x][p][s] = None => blobs'[x][p][s] = None
      BY <1>5
    <2>. QED
      BY <1>2, <2>1 DEF ServeInv, DeadEmpty, TypeOK, CloudOK
  <1>8. ASSUME NEW p, p = mPath, p \notin Tangled
        PROVE  /\ files[p] = None => rows'[p] = NoRows
               /\ acked[p] # None => Safe(p, acked[p])'
    <2>1. files[p] = None => rows'[p] = NoRows
      BY <1>1, <1>2, <1>3, <1>8 DEF ServeInv, RowsFiled
    <2>2. ASSUME acked[p] # None PROVE Safe(p, acked[p])'
      <3>1. Safe(p, acked[p])
        BY <1>2, <1>3, <1>8, <2>2 DEF ServeInv, AckedSafe
      <3>2. \A s \in SlotsOf(acked[p]) : s \in Slots /\ rows[p][s] \in Providers
        BY <1>2, <1>3, <1>8, <3>1, CoversProviders DEF Safe, Filed, TypeOK, StoreOK
      <3>3. ASSUME NEW s \in SlotsOf(acked[p]) PROVE There(rows[p][s], p, s, acked[p])'
        <4>1. There(rows[p][s], p, s, acked[p]) /\ ~Moving(p, s)
          BY <1>1, <3>1, <3>3 DEF Safe
        <4>2. CASE s = mCur
          <5>1. blobs'[rows[p][s]][p][s] \in {blobs[rows[p][s]][p][s], None}
            BY <1>5, <1>8, <3>2, <4>2
          <5>. QED
            BY <1>1, <1>2, <1>4, <1>8, <4>1, <4>2, <5>1 DEF There
        <4>3. CASE s # mCur
          <5>1. blobs'[rows[p][s]][p][s] = blobs[rows[p][s]][p][s]
            BY <1>5, <1>8, <3>2, <4>3
          <5>. QED
            BY <1>1, <1>2, <1>4, <4>1, <5>1 DEF There
        <4>. QED
          BY <4>2, <4>3
      <3>. QED
        BY <1>1, <1>2, <3>1, <3>3 DEF Safe, Filed
    <2>. QED
      BY <2>1, <2>2
  <1>9. ServeInv' /\ Tangled \subseteq Tangled'
    BY <1>1, <1>4, <1>5, <1>6, <1>7, <1>8, MoveServes DEF Onto
  <1>10. MigrateOK'
    <2>1. away' \in [Handlers -> SUBSET Providers]
      BY <1>1, <1>2, <1>3, AwayType
    <2>. QED
      BY <1>1, <1>2, <1>3, <2>1, ChronicleEffect DEF MigrateOK, MoveSteps
  <1>11. AtHand' = AtHand
    BY <1>1 DEF AtHand, MoveSteps
  <1>12. Hands'
    <2>1. mPath \notin Tangled => blobs'[to][mPath][mCur] = blobs[to][mPath][mCur]
      BY <1>3, <1>5
    <2>. QED
      BY <1>1, <1>2, <1>9, <1>11, <2>1 DEF MigrateInv, Hands, Stored, MoveSteps
  <1>13. Leaving'
    <2>1. BeingChanged' \subseteq changed' /\ changed \subseteq changed'
      BY <1>1, MoveMeets
    <2>. QED
      BY <1>1, <1>9, <1>11, <2>1 DEF MigrateInv, Leaving
  <1>14. \A g \in Handlers : DownloadPart(g)'
    BY <1>1, <1>4, <1>9, MoveKeepsDownloads
  <1>. QED
    BY <1>9, <1>10, <1>12, <1>13, <1>14, AttendedAlways DEF MigrateInv

LEMMA MoveUpdateMoves ==
  ASSUME MigrateInv, Chronicle, MoveUpdate
  PROVE  MigrateInv'
  <1>1. /\ mPc = "update" /\ Still /\ AfterShard(mPath, mTodo) /\ mCur' = <<0, 0>> /\ mHeld' = None
        /\ rows' = [rows EXCEPT ![mPath][mCur] = IF @ = None THEN None ELSE to]
        /\ UNCHANGED <<mFiles, from, to, skipped, blobs, faults, soiled>>
    BY DEF MoveUpdate, UpdateShardLocation
  <1>2. TypeOK /\ ServeInv /\ MigrateOK /\ dead' = dead /\ files' = files /\ acked' = acked
    BY <1>1 DEF MigrateInv, ServeInv, Still, promises
  <1>3. /\ from \in Providers /\ to \in Providers /\ mPath \in Paths
        /\ mCur \in Slots \ mTodo /\ mHeld \in Versions /\ AtHand = {mCur}
        /\ mPath \notin Tangled => rows[mPath][mCur] = from /\ from # to
    BY <1>1, Holding DEF MoveSteps
  <1>4. /\ mTodo' = mTodo
        /\ mPath' = IF mTodo # {} THEN mPath ELSE None
        /\ mPc' = IF mTodo # {} THEN "get" ELSE IF mFiles' = {} THEN "done" ELSE "map"
    BY <1>1 DEF AfterShard
  <1>5. /\ rows' \in [Paths -> ShardMaps]
        /\ \A p \in Paths \ {mPath} : rows'[p] = rows[p]
        /\ \A s \in Slots \ {mCur} : rows'[mPath][s] = rows[mPath][s]
        /\ rows'[mPath][mCur] \in {to, None}
        /\ rows[mPath][mCur] # None => rows'[mPath][mCur] = to
    BY <1>1, <1>2, <1>3 DEF TypeOK, StoreOK, ShardMaps
  <1>6. TypeOK' /\ DeadEmpty'
    <2>1. TypeOK'
      BY <1>1, <1>2, <1>5, MoveTypes DEF TypeOK, CloudOK, ProcessOK, HistoryOK
    <2>. QED
      BY <1>1, <1>2, <2>1 DEF ServeInv, DeadEmpty
  <1>7. ASSUME NEW p, p = mPath, p \notin Tangled
        PROVE  /\ files[p] = None => rows'[p] = NoRows
               /\ acked[p] # None => Safe(p, acked[p])'
    <2>1. files[p] # None
      <3>1. rows[p] # NoRows
        BY <1>3, <1>7, NoneAssumption DEF NoRows
      <3>. QED
        BY <1>2, <1>3, <1>7, <3>1 DEF ServeInv, RowsFiled
    <2>2. ASSUME NEW v, v = acked[p], v # None PROVE Safe(p, acked[p])'
      <3>1. Safe(p, v)
        BY <1>2, <1>3, <1>7, <2>2 DEF ServeInv, AckedSafe
      <3>2. \A s \in SlotsOf(v) : s \in Slots /\ rows[p][s] \in Providers
        BY <1>2, <1>3, <1>7, <3>1, CoversProviders DEF Safe, Filed, TypeOK, StoreOK
      <3>3. rows[p][mCur] # None /\ rows'[p][mCur] = to /\ to # None
        BY <1>3, <1>5, <1>7, NoneAssumption
      <3>4. mHeld = v /\ Stored(to, p, mCur, mHeld)
        BY <1>1, <1>3, <1>7, <2>2 DEF MigrateInv, Hands, MoveSteps
      <3>5. \A s \in Slots : rows'[p][s] # None <=> rows[p][s] # None
        BY <1>5, <1>7, <3>3
      <3>6. ASSUME NEW s \in SlotsOf(v) PROVE There(rows[p][s], p, s, v)'
        <4>1. CASE s = mCur
          <5>1. blobs'[to][p][s] = v \/ (blobs'[to][p][s] = None /\ faults' # 0)
            BY <1>1, <1>2, <1>3, <1>7, <3>4, <4>1 DEF Stored, ServeInv, DeadEmpty, DeadFault
          <5>. QED
            BY <1>2, <3>3, <4>1, <5>1 DEF There
        <4>2. CASE s # mCur
          <5>1. rows'[p][s] = rows[p][s] /\ ~Moving(p, s) /\ There(rows[p][s], p, s, v)
            BY <1>5, <1>7, <3>1, <3>2, <3>6, <4>2 DEF Safe
          <5>. QED
            BY <1>1, <1>2, <5>1 DEF There
        <4>. QED
          BY <4>1, <4>2
      <3>. QED
        BY <1>2, <2>2, <3>1, <3>5, <3>6 DEF Safe, Filed, Covers
    <2>. QED
      BY <2>1, <2>2
  <1>8. ServeInv' /\ Tangled \subseteq Tangled'
    BY <1>1, <1>4, <1>5, <1>6, <1>7, MoveServes DEF Onto
  <1>9. MigrateOK'
    <2>1. away' \in [Handlers -> SUBSET Providers]
      BY <1>1, <1>2, <1>3, AwayType
    <2>. QED
      BY <1>1, <1>2, <1>3, <1>4, <2>1 DEF MigrateOK, MoveSteps
  <1>10. Hands'
    BY <1>1, <1>3, <1>4, <1>5, <1>8 DEF MigrateInv, Hands, AtHand, MoveSteps, MigrateOK
  <1>11. Leaving'
    <2>1. BeingChanged' \subseteq changed' /\ changed \subseteq changed'
      BY <1>4, MoveMeets
    <2>2. ASSUME ~skipped, NEW p \in Paths \ (Tangled \cup changed \cup mFiles), NEW s \in Slots,
                 rows'[p][s] = from
          PROVE  p = mPath' /\ s \in mTodo
      <3>1. p = mPath => s # mCur
        BY <1>3, <1>5, <2>2, NoneAssumption
      <3>2. rows[p][s] = from
        BY <1>5, <2>2, <3>1
      <3>3. p = mPath /\ s \in mTodo \cup AtHand
        BY <1>1, <2>2, <3>2 DEF MigrateInv, Leaving
      <3>. QED
        BY <1>3, <1>4, <3>1, <3>3
    <2>. QED
      BY <1>1, <1>4, <1>8, <2>1, <2>2 DEF Leaving
  <1>12. \A g \in Handlers : DownloadPart(g)'
    <2>1. \A p \in Paths \ Tangled, s \in Slots :
             rows'[p][s] = rows[p][s] \/ (rows[p][s] = from /\ mPc # "idle")
      BY <1>1, <1>3, <1>5
    <2>. QED
      BY <1>1, <1>8, <2>1, MoveKeepsDownloads
  <1>. QED
    BY <1>8, <1>9, <1>10, <1>11, <1>12, AttendedAlways DEF MigrateInv

LEMMA CompleteMoves ==
  ASSUME MigrateInv, Chronicle, Complete
  PROVE  MigrateInv'
  <1>1. mPc = "done" /\ Stop /\ Still /\ UNCHANGED <<rows, blobs, faults, soiled>>
    BY DEF Complete
  <1>2. TypeOK /\ ServeInv /\ MigrateOK /\ faults \in Nat /\ soiled \subseteq Paths
    BY DEF MigrateInv, ServeInv, TypeOK, ProcessOK, HistoryOK
  <1>3. ServeInv' /\ Tangled \subseteq Tangled'
    BY <1>1, <1>2, IdleMoveServes DEF Onto, Stop
  <1>4. MigrateOK'
    <2>1. away' \in [Handlers -> SUBSET Providers]
      BY <1>1, <1>2, AwayType DEF Stop
    <2>. QED
      BY <1>1, <1>2, <2>1 DEF MigrateOK, MoveSteps, Stop
  <1>5. Hands' /\ Leaving'
    BY <1>1 DEF Hands, Leaving, AtHand, Stop, MoveSteps
  <1>6. \A g \in Handlers : DownloadPart(g)'
    BY <1>1, <1>3, MoveKeepsDownloads
  <1>. QED
    BY <1>3, <1>4, <1>5, <1>6, AttendedAlways DEF MigrateInv

LEMMA MigrateMoves ==
  ASSUME MigrateInv, Chronicle, Migrate
  PROVE  MigrateInv'
  BY StartMigrateMoves, MigrateFileMoves, MoveGetMoves, MovePutMoves, MovePutFailsMoves,
     MoveDeleteMoves, MoveUpdateMoves, CompleteMoves DEF Migrate

-----------------------------------------------------------------------------
(***************************************************************************)
(* The invariant is inductive.                                             *)
(***************************************************************************)
LEMMA InitMigrate == MInit => MigrateInv
  <1>. SUFFICES ASSUME MInit PROVE MigrateInv
    OBVIOUS
  <1>1. TypeOK
    BY InitType DEF MInit
  <1>2. /\ crossed = {} /\ dead = {} /\ rows = [p \in Paths |-> NoRows]
        /\ \A h \in Handlers : pc[h] = "idle" /\ call[h] = NoCall /\ away[h] = {}
        /\ \A p \in Paths : acked[p] = None
        /\ away = [h \in Handlers |-> {}]
    BY DEF MInit, Init
  <1>3. \A h \in Handlers : ~Changing(h) /\ CallPart(h) /\ DownloadPart(h)
    BY <1>2, CallTypes DEF Changing, Active, CallPart, PurgePart, UploadPart, RenamePart,
       DownloadPart, Reading
  <1>4. ServeInv
    <2>1. Crossing
      BY <1>2 DEF Crossing, Onto, MInit, Idle
    <2>. QED
      BY <1>1, <1>2, <1>3, <2>1
         DEF ServeInv, Whole, Unpromised, DeadEmpty, DeadFault, RowsFiled, AckedSafe
  <1>5. MigrateOK /\ Hands /\ Leaving /\ Attended
    BY <1>2 DEF MInit, Idle, MigrateOK, MoveSteps, Hands, AtHand, Leaving, Attended
  <1>. QED
    BY <1>3, <1>4, <1>5 DEF MigrateInv

LEMMA ServeTypes ==
  ASSUME TypeOK, Serve \/ Crash
  PROVE  TypeOK'
  BY NextType DEF Serve, Next

LEMMA ServeKeeps ==
  ASSUME MigrateInv, Chronicle, Serve, UNCHANGED migration
  PROVE  MigrateInv'
  <1>1. TypeOK' /\ ServeInv /\ MigrateOK
    BY ServeTypes DEF MigrateInv, ServeInv
  <1>2. Served
    BY <1>1, ServeServed DEF migration
  <1>3. MigrateOK'
    <2>1. away' \in [Handlers -> SUBSET Providers]
      BY <1>1, AwayType DEF migration, MigrateOK
    <2>. QED
      BY <1>1, <2>1, ChronicleEffect DEF MigrateOK, migration
  <1>4. Hands' /\ Leaving'
    BY <1>1, <1>2, HandsKept, LeavingKept DEF MigrateInv
  <1>5. \A g \in Handlers : DownloadPart(g)'
    <2>1. ASSUME NEW h \in Handlers, NEW c \in Requests, Start(h, c)
          PROVE  \A g \in Handlers : DownloadPart(g)'
      BY <1>1, <2>1, StartKeepsDownloads
    <2>2. ASSUME NEW h \in Handlers, Change(h) PROVE \A g \in Handlers : DownloadPart(g)'
      BY <1>1, <2>2, ChangeKeepsDownloads
    <2>3. ASSUME NEW h \in Handlers, Read(h) PROVE \A g \in Handlers : DownloadPart(g)'
      BY <1>1, <2>3, ReadKeepsDownloads
    <2>4. ASSUME NEW d \in Dirs, Mkdir(d) PROVE \A g \in Handlers : DownloadPart(g)'
      <3>1. UNCHANGED <<pc, call, due, plan, todo, got, out, acked, rows>>
        BY <2>4 DEF Mkdir, localVars, readVars, promises
      <3>. QED
        BY <1>2, <3>1, OthersKeepDownloads
    <2>5. ASSUME NEW x \in Providers, Lose(x) PROVE \A g \in Handlers : DownloadPart(g)'
      <3>1. UNCHANGED <<pc, call, due, plan, todo, got, out, acked, rows>>
        BY <2>5 DEF Lose, localVars, readVars, promises, storeVars
      <3>. QED
        BY <1>2, <3>1, OthersKeepDownloads
    <2>. QED
      BY <2>1, <2>2, <2>3, <2>4, <2>5 DEF Serve
  <1>. QED
    BY <1>2, <1>3, <1>4, <1>5, AttendedAlways DEF MigrateInv, Served

LEMMA CrashKeeps ==
  ASSUME MigrateInv, Chronicle, Crash, Stop
  PROVE  MigrateInv'
  <1>1. TypeOK' /\ ServeInv /\ MigrateOK
    BY ServeTypes DEF MigrateInv, ServeInv
  <1>2. ServeInv'
    BY <1>1, CrashServes
  <1>3. MigrateOK'
    <2>1. away' \in [Handlers -> SUBSET Providers]
      BY <1>1, AwayType DEF Stop
    <2>. QED
      BY <2>1 DEF MigrateOK, MoveSteps, Stop
  <1>4. Hands' /\ Leaving'
    BY DEF Hands, Leaving, AtHand, Stop, MoveSteps
  <1>5. \A g \in Handlers : DownloadPart(g)'
    BY DEF Crash, DownloadPart, Reading, Active
  <1>. QED
    BY <1>2, <1>3, <1>4, <1>5, AttendedAlways DEF MigrateInv

LEMMA StillMigrate ==
  ASSUME MigrateInv, UNCHANGED mVars
  PROVE  MigrateInv'
  <1>. USE DEF mVars, migration, vars, storeVars, cloudVars, readVars, localVars, excuses, promises
  <1>1. TypeOK'
    BY NextType DEF MigrateInv, ServeInv
  <1>2. /\ UNCHANGED <<files, rows, blobs, dead, faults, acked, contended, crossed>>
        /\ UNCHANGED <<pc, call, plan, todo, cur, held, due, clean, got, out>>
        /\ UNCHANGED <<mPc, from, to, mFiles, mPath, mTodo, mCur, mHeld, skipped, changed, away>>
    OBVIOUS
  <1>. HIDE DEF mVars, migration, vars, storeVars, cloudVars, readVars, localVars, excuses, promises
  <1>3. ServeInv'
    <2>1. Whole' /\ Unpromised' /\ DeadEmpty' /\ DeadFault' /\ RowsFiled' /\ Crossing'
      BY <1>2 DEF MigrateInv, ServeInv, Crossing, Onto, Whole, Unpromised, DeadEmpty, DeadFault, RowsFiled,
                  Tangled, Changing, Active, Own
    <2>2. AckedSafe'
      BY <1>2 DEF MigrateInv, ServeInv, AckedSafe, Safe, Filed, Covers, There, Tangled
    <2>3. ASSUME NEW h \in Handlers PROVE CallPart(h)'
      <3>1. PurgePart(h)'
        BY <1>2 DEF MigrateInv, ServeInv, CallPart, PurgePart, Tangled
      <3>2. UploadPart(h)'
        BY <1>2 DEF MigrateInv, ServeInv, CallPart, UploadPart, Covers, There, Tangled
      <3>3. RenamePart(h)'
        <4>1. /\ Safe(call[h].path, due[h])' <=> Safe(call[h].path, due[h])
              /\ Safe(call[h].to, due[h])' <=> Safe(call[h].to, due[h])
              /\ Filed(call[h].path, plan[h], due[h])' <=> Filed(call[h].path, plan[h], due[h])
          BY <1>2 DEF Safe, Filed, Covers, There
        <4>2. \A s \in SlotsOf(due[h]) :
                /\ There(plan[h][s], call[h].path, s, due[h])'
                     <=> There(plan[h][s], call[h].path, s, due[h])
                /\ There(plan[h][s], call[h].to, s, due[h])'
                     <=> There(plan[h][s], call[h].to, s, due[h])
          BY <1>2 DEF There
        <4>. QED
          BY <1>2, <4>1, <4>2 DEF MigrateInv, ServeInv, CallPart, RenamePart, Tangled
      <3>. QED
        BY <3>1, <3>2, <3>3 DEF CallPart
    <2>. QED
      BY <1>1, <1>2, <2>1, <2>2, <2>3 DEF MigrateInv, ServeInv
  <1>4. MigrateOK' /\ Hands'
    BY <1>2 DEF MigrateInv, MigrateOK, Hands, AtHand, Stored, Tangled
  <1>5. Leaving' /\ Attended'
    BY <1>2 DEF MigrateInv, Leaving, Attended, Mapped, AtHand, BeingChanged, Tangled, Changing, Active
  <1>6. \A h \in Handlers : DownloadPart(h)'
    BY <1>2 DEF MigrateInv, DownloadPart, Reading, Rivals, Changing, Active, Covers, Tangled
  <1>. QED
    BY <1>3, <1>4, <1>5, <1>6 DEF MigrateInv

LEMMA NextMigrate == MigrateInv /\ [MNext]_mVars => MigrateInv'
  <1>. SUFFICES ASSUME MigrateInv, [MNext]_mVars PROVE MigrateInv'
    OBVIOUS
  <1>. QED
    BY MigrateMoves, ServeKeeps, CrashKeeps, StillMigrate DEF MNext

(* At every step of a Migrate, under any load and after any failure, what  *)
(* it has at hand is stored at one of its two providers, and every file    *)
(* that was acknowledged has at each provider its rows name the right      *)
(* shard or, if anything has failed, none: for any number of handlers,     *)
(* paths, versions, segments and providers, and whatever two providers a   *)
(* call names.  When it names one twice (migration.go:23-28 does not ask), *)
(* this is said of the files of which it has moved no shard.               *)
THEOREM MigrateInductive == MSpec => []MigrateInv
  BY InitMigrate, NextMigrate, PTL DEF MSpec

-----------------------------------------------------------------------------
(***************************************************************************)
(* What it is for.                                                         *)
(***************************************************************************)
(* A step that is not of Migrate takes nothing from a path that promises.  *)
LEMMA ServedKeepsShards ==
  ASSUME MigrateInv, Served, NEW p \in Paths \ Tangled', acked[p] # None, dead' = {}
  PROVE  \A x \in Providers : blobs'[x][p] = blobs[x][p]
  <1>1. p \notin BeingChanged
    BY DEF Served, BeingChanged, Own, MigrateInv, ServeInv, Unpromised
  <1>. QED
    BY <1>1 DEF Served

LEMMA MigrateKeepsShards ==
  ASSUME MigrateInv, Migrate, NEW p \in Paths \ Tangled, acked[p] # None, dead' = {},
         NEW s \in SlotsOf(acked[p]), Somewhere(p, s, acked[p])
  PROVE  \E x \in Providers : blobs'[x][p][s] = acked[p]
  <1>. DEFINE v == acked[p]
  <1>1. dead = {} /\ blobs \in Blobs /\ s \in Slots /\ v \in Versions
    BY DEF Migrate, StartMigrate, MigrateFile, MoveGet, MovePut, MovePutFails, MoveDelete,
       MoveUpdate, Complete, Still, MigrateInv, ServeInv, TypeOK, CloudOK, HistoryOK, SlotsOf
  <1>2. PICK y \in Providers : blobs[y][p][s] = v
    BY DEF Somewhere
  <1>3. CASE blobs' = blobs
    BY <1>2, <1>3
  <1>4. CASE MovePut \/ MovePutFails \/ MoveDelete
    <2>1. mPc \in {"put", "delete"}
      BY <1>4 DEF MovePut, MovePutFails, MoveDelete
    <2>2. /\ from \in Providers /\ to \in Providers /\ mPath \in Paths /\ mCur \in Slots
          /\ p = mPath => from # to
      BY <2>1, Holding DEF MoveSteps
    <2>3. ASSUME p = mPath
          PROVE  /\ mHeld = v
                 /\ mPc = "put" => blobs[from][p][mCur] = v
                 /\ mPc = "delete" => blobs[to][p][mCur] = v
      BY <1>1, <2>1, <2>3 DEF MigrateInv, Hands, MoveSteps, Stored
    <2>4. CASE p # mPath \/ s # mCur
      <3>1. \/ blobs' = blobs
            \/ \E x \in {from, to} : \E b : blobs' = [blobs EXCEPT ![x][mPath][mCur] = b]
        BY <1>4 DEF MovePut, MovePutFails, MoveDelete
      <3>2. ASSUME NEW x \in Providers, NEW b, blobs' = [blobs EXCEPT ![x][mPath][mCur] = b]
            PROVE  blobs'[y][p][s] = blobs[y][p][s]
        <4>1. CASE p # mPath
          BY <1>1, <2>2, <3>2, <4>1 DEF Blobs
        <4>2. CASE p = mPath /\ s # mCur
          BY <1>1, <2>2, <3>2, <4>2 DEF Blobs
        <4>. QED
          BY <2>4, <4>1, <4>2
      <3>3. blobs'[y][p][s] = blobs[y][p][s]
        BY <2>2, <3>1, <3>2
      <3>. QED
        BY <1>2, <3>3
    <2>5. CASE p = mPath /\ s = mCur
      <3>1. CASE MovePut
        BY <1>1, <2>2, <2>3, <2>5, <3>1 DEF MovePut, Blobs
      <3>2. CASE MovePutFails
        <4>1. blobs'[from][p][s] = blobs[from][p][s] /\ mPc = "put"
          BY <1>1, <2>2, <2>5, <3>2 DEF MovePutFails, Blobs
        <4>. QED
          BY <2>2, <2>3, <2>5, <4>1
      <3>3. CASE MoveDelete
        <4>1. blobs'[to][p][s] = blobs[to][p][s] /\ mPc = "delete"
          BY <1>1, <2>2, <2>5, <3>3 DEF MoveDelete, Blobs
        <4>. QED
          BY <2>2, <2>3, <2>5, <4>1
      <3>. QED
        BY <1>4, <3>1, <3>2, <3>3
    <2>. QED
      BY <2>4, <2>5
  <1>5. blobs' = blobs \/ MovePut \/ MovePutFails \/ MoveDelete
    BY DEF Migrate, StartMigrate, MigrateFile, MoveGet, MoveUpdate, Complete
  <1>. QED
    BY <1>3, <1>4, <1>5

(* Wherever a shard of an acknowledged file is, no step takes away its     *)
(* last copy: of a call, of a Migrate that fails or is repeated, or of a   *)
(* crash, unless a provider is lost with it, or a Migrate from a provider  *)
(* to that same one has put a shard of the file.                           *)
THEOREM NoShardLostAlways == MSpec => NoShardLost
  <1>. DEFINE Keeps ==
                \A p \in Paths \ (contended' \cup crossed') :
                  acked[p] # None /\ acked'[p] = acked[p] /\ dead' = {} =>
                    \A s \in SlotsOf(acked[p]) :
                      Somewhere(p, s, acked[p]) =>
                        \E x \in Providers : blobs'[x][p][s] = acked[p]
  <1>1. MigrateInv /\ [MNext]_mVars => [Keeps]_mVars
    <2>. SUFFICES ASSUME MigrateInv, MNext PROVE Keeps
      OBVIOUS
    <2>1. Chronicle
      BY DEF MNext
    <2>2. Tangled' = contended' \cup crossed'
      BY DEF Tangled
    <2>3. ASSUME Served PROVE Keeps
      <3>1. ASSUME NEW p \in Paths \ Tangled', acked[p] # None, dead' = {}, NEW s \in SlotsOf(acked[p]),
                   Somewhere(p, s, acked[p])
            PROVE  \E x \in Providers : blobs'[x][p][s] = acked[p]
        BY <2>3, <3>1, ServedKeepsShards DEF Somewhere
      <3>. QED
        BY <2>2, <3>1
    <2>4. CASE Serve /\ UNCHANGED migration
      <3>1. TypeOK' /\ ServeInv /\ UNCHANGED <<mPc, mPath, mCur, from, to>>
        BY <2>4, ServeTypes DEF MigrateInv, ServeInv, migration
      <3>. QED
        BY <2>1, <2>3, <2>4, <3>1, ServeServed
    <2>5. CASE Crash /\ Stop
      <3>1. TypeOK' /\ ServeInv
        BY <2>5, ServeTypes DEF MigrateInv, ServeInv
      <3>. QED
        BY <2>1, <2>3, <2>5, <3>1, CrashServed
    <2>6. CASE Migrate
      <3>1. contended' = contended
        BY <2>6 DEF Migrate, StartMigrate, MigrateFile, MoveGet, MovePut, MovePutFails, MoveDelete,
           MoveUpdate, Complete, Still
      <3>2. Tangled \subseteq Tangled'
        BY <2>1, <3>1, ChronicleEffect DEF Tangled
      <3>. QED
        BY <2>2, <2>6, <3>2, MigrateKeepsShards
    <2>. QED
      BY <2>4, <2>5, <2>6 DEF MNext
  <1>. QED
    BY <1>1, MigrateInductive, PTL DEF MSpec, NoShardLost

LEMMA EmptiedFollows == MigrateInv => Emptied
  <1>. SUFFICES ASSUME MigrateInv, mPc = "done", ~skipped,
                       NEW p \in Paths \ (contended \cup crossed \cup changed)
                PROVE  /\ \A s \in Slots : rows[p][s] # from
                       /\ faults = 0 /\ acked[p] # None =>
                             \A s \in SlotsOf(acked[p]) : blobs[rows[p][s]][p][s] = acked[p]
    BY DEF Emptied
  <1>1. p \in Paths \ (Tangled \cup changed \cup mFiles) /\ mTodo \cup AtHand = {}
    BY DEF Tangled, MigrateInv, MigrateOK, AtHand, MoveSteps
  <1>2. \A s \in Slots : rows[p][s] # from
    BY <1>1 DEF MigrateInv, Leaving
  <1>3. ASSUME faults = 0, acked[p] # None, NEW s \in SlotsOf(acked[p])
        PROVE  blobs[rows[p][s]][p][s] = acked[p]
    BY <1>1, <1>3 DEF MigrateInv, ServeInv, AckedSafe, Safe, There
  <1>. QED
    BY <1>2, <1>3

(* When Migrate returns nil without having skipped a shard, the provider   *)
(* that it has emptied holds no shard of any file but those that calls     *)
(* were changing meanwhile, and can be removed.  A file moved from a       *)
(* provider to that same one is left out: its rows name it still, although *)
(* its shards are gone.                                                    *)
THEOREM EmptiedAlways == MSpec => []Emptied
  BY EmptiedFollows, MigrateInductive, PTL

LEMMA ReadsThroughFollows == MigrateInv => ReadsThrough
  <1>. SUFFICES ASSUME MigrateInv, NEW h \in Handlers, pc[h] = "decode", due[h] # None,
                       call[h].path \notin Tangled, faults = 0, Apart(plan[h]),
                       Cardinality(away[h]) <= M
                PROVE  Cardinality(Present(got[h])) >= K
    BY DEF ReadsThrough, Tangled
  <1>. DEFINE v == due[h]
              i == Len(out[h])
              at(j) == plan[h][<<i, j>>]
              has == Present(got[h])
              lost == Shards \ has
  <1>1. TypeOK /\ Reading(h, call[h].path) /\ v \in Versions /\ i \in Nat /\ todo[h] = {}
    <2>1. TypeOK
      BY DEF MigrateInv, ServeInv
    <2>2. AtStep(h) /\ Pointed(h)
      BY <2>1 DEF TypeOK, HandlersOK
    <2>3. call[h].op = "read"
      BY <2>2, CallTypes DEF AtStep, WriteSteps, PurgeSteps, RenameSteps
    <2>. QED
      BY <2>1, <2>2, <2>3 DEF Pointed, Reading, Active, TypeOK, HandlersOK, HistoryOK
  <1>2. /\ Covers(plan[h], v) /\ i < Segs[v]
        /\ \A j \in Shards : got[h][j] # None \/ at(j) \in away[h]
    BY <1>1 DEF MigrateInv, DownloadPart, SegmentSteps
  <1>3. \A j \in Shards : <<i, j>> \in Slots /\ at(j) # None
    BY <1>1, <1>2, CoversIndices DEF SlotsOf
  <1>4. \A j, l \in Shards : at(j) = at(l) => j = l
    <2>1. ASSUME NEW j \in Shards, NEW l \in Shards, j # l PROVE at(j) # at(l)
      <3>1. <<i, j>> # <<i, l>> /\ <<i, j>>[1] = <<i, l>>[1]
        BY <2>1
      <3>. QED
        BY <1>3, <3>1 DEF Apart
    <2>. QED
      BY <2>1
  <1>5. IsFiniteSet(Shards) /\ Cardinality(Shards) = K + M
    <2>1. K + M - 1 \in Int /\ 0 \in Int /\ (K + M - 1) - 0 + 1 = K + M /\ 0 <= K + M - 1
      BY ShapeAssumption
    <2>. QED
      BY <2>1, FS_Interval DEF Shards
  <1>6. IsFiniteSet(away[h]) /\ Cardinality(away[h]) \in Nat
    BY ProvidersAssumption, FS_Subset, FS_CardinalityType DEF MigrateInv, MigrateOK
  <1>7. has \subseteq Shards /\ IsFiniteSet(has) /\ IsFiniteSet(lost)
        /\ Cardinality(has) \in Nat /\ Cardinality(lost) \in Nat
    BY <1>5, FS_Subset, FS_CardinalityType DEF Present
  <1>8. Cardinality(lost) <= Cardinality(away[h])
    <2>. DEFINE g == [j \in lost |-> at(j)]
    <2>1. g \in Injection(lost, away[h])
      <3>1. g \in [lost -> away[h]]
        BY <1>2 DEF Present
      <3>2. \A j, l \in lost : g[j] = g[l] => j = l
        BY <1>4
      <3>. QED
        BY <3>1, <3>2 DEF Injection, IsInjective
    <2>. HIDE DEF g, lost
    <2>. QED
      BY <1>6, <1>7, <2>1, FS_Injection
  <1>9. Cardinality(lost) = K + M - Cardinality(has)
    <2>1. Cardinality(lost) = Cardinality(Shards) - Cardinality(Shards \cap has)
      BY <1>5, FS_Difference
    <2>2. Shards \cap has = has
      BY <1>7
    <2>. HIDE DEF lost, has
    <2>3. Cardinality(Shards \cap has) = Cardinality(has)
      BY <2>2
    <2>. QED
      BY <1>5, <1>7, <2>1, <2>3, ShapeAssumption
  <1>. QED
    <2>. DEFINE n == Cardinality(has)
                a == Cardinality(away[h])
                l == Cardinality(lost)
    <2>1. n \in Nat /\ a \in Nat /\ l \in Nat /\ K \in Nat /\ M \in Nat
      BY <1>6, <1>7, ShapeAssumption
    <2>2. l = K + M - n /\ l <= a /\ a <= M
      BY <1>8, <1>9
    <2>. HIDE DEF n, a, l
    <2>3. n >= K
      BY <2>1, <2>2
    <2>. QED
      BY <2>3 DEF n

(* A download that Migrate overtakes, with the map it read before, misses  *)
(* at most one shard of a segment for each provider being left, and can    *)
(* still be decoded: for any code K, M and any number of Migrates.         *)
THEOREM ReadsThroughAlways == MSpec => []ReadsThrough
  BY ReadsThroughFollows, MigrateInductive, PTL
=============================================================================
