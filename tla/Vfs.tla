-------------------------------- MODULE Vfs --------------------------------
(***************************************************************************)
(* The virtual file system (internal/vfs) as its callers, the HTTP         *)
(* handlers of internal/api, run it: concurrently and without a lock, over *)
(* the SQLite metadata store, the operations log, the segment cache and    *)
(* the storage backends.                                                   *)
(*                                                                         *)
(* One step of a handler is one SQL statement, one backend call or one     *)
(* cache operation together with the code around it that touches only the  *)
(* handler's own variables.  Between two steps other handlers run, a       *)
(* provider may disappear with all it stored, a backend call may fail, and *)
(* the process may crash: the database and the backends survive, the cache *)
(* and the calls in progress do not.                                       *)
(*                                                                         *)
(* Abstractions.  The bytes of a file are a version; segment i of version  *)
(* v is encoded into shards that are each known to be "of v", because all  *)
(* that the code does with a shard is to store it, move it and combine it  *)
(* with the other shards of its segment.  Sizes are counted in segments:   *)
(* the chunker pads every segment to SegmentSize.  SQL statements succeed  *)
(* unless a primary key forbids them.                                      *)
(***************************************************************************)
EXTENDS Placement, SequencesExt

CONSTANTS
    Handlers,   \* HTTP handlers that can be in progress at once
    Paths,      \* file paths
    Dirs,       \* the paths Mkdir uses, those that end in "/"
    Versions,   \* contents a client may upload
    Segs,       \* [Versions -> 0..MaxSegs]: length in segments
    MaxSegs,    \* the longest file, in segments
    K, M,       \* data and parity shards of the encoder
    ShardSize,  \* SegmentSize / K
    Avails,     \* the values ProviderInfo.Available may have at a start
    Capacity,   \* cache capacity, in segments
    None,       \* no row, no blob, no version
    Garbage,    \* what decoding shards of different versions yields
    MaxCalls,   \* bound on the calls made
    MaxFaults   \* bound on backend failures, provider losses and crashes

ASSUME ShapeAssumption == /\ K \in Nat \ {0} /\ M \in Nat \ {0}
                          /\ MaxSegs \in Nat /\ Segs \in [Versions -> 0..MaxSegs]
                          /\ ShardSize \in Nat \ {0} /\ Capacity \in Nat
ASSUME EnvironmentAssumption == /\ Avails \subseteq [Providers -> Nat] /\ Avails # {}
                                /\ Dirs \subseteq Paths
                                /\ MaxCalls \in Nat /\ MaxFaults \in Nat
ASSUME NoneAssumption == /\ None \notin Nat /\ None \notin Providers
                         /\ None \notin Versions /\ Garbage \notin Versions \cup {None}

Shards == 0 .. K + M - 1
Slots  == (0 .. MaxSegs - 1) \X Shards      \* <<segment index, shard index>>
SlotsOf(v) == {s \in Slots : s[1] < Segs[v]}
NoRows == [s \in Slots |-> None]
NoneGot == [i \in Shards |-> None]

Request(op, p, q, v) == [op |-> op, path |-> p, to |-> q, ver |-> v]

(***************************************************************************)
(* The calls of the HTTP API that reach the file system.                   *)
(***************************************************************************)
Uploads   == {Request("write", p, p, v) : p \in Paths, v \in Versions}
Deletes   == {Request("delete", p, p, None) : p \in Paths}
Renames   == {Request("rename", p, q, None) : p \in Paths, q \in Paths}
Downloads == {Request("read", p, p, None) : p \in Paths}
Mutations == Uploads \cup Deletes \cup Renames
Requests  == Mutations \cup Downloads
NoCall    == Request("none", None, None, None)
Touches(c) == {c.path, c.to}

VARIABLES
    files,      \* table files: size of the file at a path, or None
    rows,       \* table shards: provider of each shard of a path, or None
    log,        \* table ops, in insertion order
    blobs,      \* blobs[x][p][s]: version stored at x under the key of p, s
    dead,       \* providers that are gone for good
    cache,      \* SegmentCache, most recently used entry first
    avail,      \* Available of each provider, as the engine was built
    pc,         \* the next step of each handler
    call,       \* the call it serves
    existed,    \* Write: existing != nil
    plan,       \* the shard map read from the store, or the one to upload
    todo,       \* slots its loop has still to visit
    cur,        \* the slot between a backend call and what follows it
    held,       \* Rename: the shard between Get and Put
    limit,      \* Read: smallest file size read so far
    got,        \* Read: erasureShards of the current segment
    out,        \* Read: allData, the version and segment of each piece
    calls, faults

(***************************************************************************)
(* History variables: they record what clients have been told and which    *)
(* paths have a reason to be in disorder, and no action's guard reads them.*)
(***************************************************************************)
VARIABLES
    acked,      \* version a completed call has left at a path, or None
    contended,  \* paths ever changed by calls that overlapped
    soiled,     \* paths where a failure may have left a blob behind
    unlogged,   \* paths whose existence the log does not tell
    due,        \* version a call owes: to leave in place, or to return
    clean       \* the call met nothing that excuses it from what is due

storeVars   == <<files, rows, log>>
cloudVars   == <<blobs, dead>>
readVars    == <<limit, got, out>>
localVars   == <<call, existed, plan, todo, cur, held, readVars>>
excuses     == <<contended, soiled, unlogged>>
promises    == <<acked, due, clean>>
vars == <<storeVars, cloudVars, cache, avail, pc, localVars, calls, faults,
          excuses, promises>>

Init ==
    /\ files = [p \in Paths |-> None]
    /\ rows = [p \in Paths |-> NoRows]
    /\ log = << >>
    /\ blobs = [x \in Providers |-> [p \in Paths |-> NoRows]]
    /\ dead = {}
    /\ cache = << >>
    /\ avail \in Avails
    /\ pc = [h \in Handlers |-> "idle"]
    /\ call = [h \in Handlers |-> NoCall]
    /\ existed = [h \in Handlers |-> FALSE]
    /\ plan = [h \in Handlers |-> NoRows]
    /\ todo = [h \in Handlers |-> {}]
    /\ cur = [h \in Handlers |-> <<0, 0>>]
    /\ held = [h \in Handlers |-> None]
    /\ limit = [h \in Handlers |-> 0]
    /\ got = [h \in Handlers |-> NoneGot]
    /\ out = [h \in Handlers |-> << >>]
    /\ calls = 0 /\ faults = 0
    /\ acked = [p \in Paths |-> None]
    /\ contended = {} /\ soiled = {} /\ unlogged = {}
    /\ due = [h \in Handlers |-> None]
    /\ clean = [h \in Handlers |-> TRUE]

-----------------------------------------------------------------------------
(***************************************************************************)
(* Calls, and the history they leave.                                      *)
(***************************************************************************)
Active(h) == pc[h] # "idle"
Changing(h) == Active(h) /\ call[h].op # "read"
Rivals(T) == {g \in Handlers : Changing(g) /\ Touches(call[g]) \cap T # {}}

(* What a change of the paths T adds to contended: nothing if it has them  *)
(* to itself, else all that it and its rivals may mix up.                  *)
Taint(T) == IF Rivals(T) = {} /\ T \cap contended = {} THEN {}
            ELSE T \cup UNION {Touches(call[g]) : g \in Rivals(T)}

Reading(h, p) == Active(h) /\ call[h].op = "read" /\ call[h].path = p

(* A read of p cannot meet an outdated segment in the cache: every segment *)
(* cached for p is of the version v, and no read that is to return another *)
(* version can still add one.                                              *)
FreshCache(p, v) ==
    /\ \A i \in 1 .. Len(cache) : cache[i].path = p => cache[i].ver = v
    /\ \A g \in Handlers : Reading(g, p) => clean[g] /\ due[g] = v

StartChange(h, c) ==
    /\ pc' = [pc EXCEPT ![h] = IF c.op = "write" THEN "check" ELSE "scan"]
    /\ acked' = [p \in Paths |-> IF p \in Touches(c) THEN None ELSE acked[p]]
    /\ due' = [g \in Handlers |->
                  IF g = h THEN IF c.op = "rename" THEN acked[c.path] ELSE c.ver
                  ELSE IF \E p \in Touches(c) : Reading(g, p) THEN None
                  ELSE due[g]]
    /\ clean' = [clean EXCEPT ![h] = (c.op = "rename" => c.path # c.to)]
    /\ contended' = contended \cup Taint(Touches(c))
    /\ unlogged' = IF c.path \in unlogged THEN unlogged \cup {c.to} ELSE unlogged

StartRead(h, p) ==
    LET v == IF p \in contended \/ Rivals({p}) # {} THEN None ELSE acked[p]
    IN  /\ pc' = [pc EXCEPT ![h] = "info"]
        /\ due' = [due EXCEPT ![h] = v]
        /\ clean' = [clean EXCEPT ![h] = FreshCache(p, v)]
        /\ UNCHANGED <<acked, contended, unlogged>>

(* A client's request reaches its handler.                                 *)
Start(h, c) ==
    /\ pc[h] = "idle" /\ calls < MaxCalls
    /\ calls' = calls + 1
    /\ call' = [call EXCEPT ![h] = c]
    /\ \/ c.op # "read" /\ StartChange(h, c)
       \/ c.op = "read" /\ StartRead(h, c.path)
    /\ UNCHANGED <<storeVars, cloudVars, cache, avail, existed, plan, todo, cur, held,
                   readVars, faults, soiled>>

(* The handler is done with its call, whatever the answer.                 *)
Return(h) ==
    /\ pc' = [pc EXCEPT ![h] = "idle"]
    /\ call' = [call EXCEPT ![h] = NoCall]
    /\ existed' = [existed EXCEPT ![h] = FALSE]
    /\ plan' = [plan EXCEPT ![h] = NoRows]
    /\ todo' = [todo EXCEPT ![h] = {}]
    /\ cur' = [cur EXCEPT ![h] = <<0, 0>>]
    /\ held' = [held EXCEPT ![h] = None]
    /\ limit' = [limit EXCEPT ![h] = 0]
    /\ got' = [got EXCEPT ![h] = NoneGot]
    /\ out' = [out EXCEPT ![h] = << >>]
    /\ due' = [due EXCEPT ![h] = None]
    /\ clean' = [clean EXCEPT ![h] = TRUE]

(* Success: what was due is now promised.  A call that skipped a failure   *)
(* promises nothing.                                                       *)
Acknowledge(h) ==
    /\ acked' = [acked EXCEPT ![call[h].to] = IF clean[h] THEN due[h] ELSE None]
    /\ Return(h)

(* Failure of a change: what it has done so far stays.                     *)
Abandon(h) ==
    /\ unlogged' = unlogged \cup Touches(call[h])
    /\ Return(h)
    /\ UNCHANGED <<acked, contended>>

Fault == faults < MaxFaults /\ faults' = faults + 1

(* Mutant: the loop looks whether it is done before it counts the visit.   *)
LoopLate(h, s, next) ==
    /\ todo' = [todo EXCEPT ![h] = @ \ {s}]
    /\ pc' = [pc EXCEPT ![h] = IF todo[h] = {} THEN next ELSE @]

(* The next step of a loop over todo that has just visited s.              *)
Loop(h, s, next) ==
    /\ todo' = [todo EXCEPT ![h] = @ \ {s}]
    /\ pc' = [pc EXCEPT ![h] = IF todo[h] = {s} THEN next ELSE @]

Step(h, next) == pc' = [pc EXCEPT ![h] = next]

-----------------------------------------------------------------------------
(***************************************************************************)
(* deleteShards and Store.DeleteFile, for Write over an existing file and  *)
(* for Delete.                                                             *)
(***************************************************************************)

(* Write: existing, _ := v.store.GetFile(path).                            *)
Check(h) ==
    /\ pc[h] = "check"
    /\ existed' = [existed EXCEPT ![h] = files[call[h].path] # None]
    /\ Step(h, IF files[call[h].path] # None THEN "scan" ELSE "create")
    /\ UNCHANGED <<storeVars, cloudVars, cache, avail, call, plan, todo, cur, held,
                   readVars, calls, faults, excuses, promises>>

(* GetShardMap, for deleteShards or Rename; the loop takes its slots in    *)
(* any order, as Go ranges over a map.                                     *)
Scan(h) ==
    /\ pc[h] = "scan"
    /\ LET map  == rows[call[h].path]
           some == {s \in Slots : map[s] # None}
           loop == IF call[h].op = "rename" THEN "get" ELSE "purge"
           next == IF call[h].op = "rename" THEN "retable" ELSE "unrow"
       IN  /\ plan' = [plan EXCEPT ![h] = map]
           /\ todo' = [todo EXCEPT ![h] = some]
           /\ Step(h, IF some = {} THEN next ELSE loop)
    /\ UNCHANGED <<storeVars, cloudVars, cache, avail, call, existed, cur, held,
                   readVars, calls, faults, excuses, promises>>

(* backend.Delete, its error ignored.  A call that fails may or may not    *)
(* have removed the shard.                                                 *)
Purge(h) ==
    /\ pc[h] = "purge"
    /\ \E s \in todo[h] :
          LET x == plan[h][s]
              p == call[h].path
          IN  /\ Loop(h, s, "unrow")
              /\ \/ /\ blobs' = [blobs EXCEPT ![x][p][s] = None]
                    /\ UNCHANGED <<faults, soiled>>
                 \/ /\ Fault
                    /\ soiled' = soiled \cup {p}
                    /\ UNCHANGED blobs
    /\ UNCHANGED <<storeVars, dead, cache, avail, call, existed, plan, cur, held,
                   readVars, calls, contended, unlogged, promises>>

(* Mutant: the rows are left to a cascade that SQLite does not perform.    *)
UnrowByCascade(h) ==
    /\ \/ pc[h] = "unrow" /\ Step(h, "drop")
       \/ pc[h] = "drop" /\ Step(h, "unlink")
    /\ UNCHANGED <<storeVars, cloudVars, cache, avail, localVars, calls, faults,
                   excuses, promises>>

(* DELETE FROM shards: by DeleteShards, then again by DeleteFile.          *)
Unrow(h) ==
    /\ \/ pc[h] = "unrow" /\ Step(h, "drop")
       \/ pc[h] = "drop" /\ Step(h, "unlink")
    /\ rows' = [rows EXCEPT ![call[h].path] = NoRows]
    /\ UNCHANGED <<files, log, cloudVars, cache, avail, localVars, calls, faults,
                   excuses, promises>>

(* DELETE FROM files.                                                      *)
Unlink(h) ==
    /\ pc[h] = "unlink"
    /\ files' = [files EXCEPT ![call[h].path] = None]
    /\ Step(h, IF call[h].op = "write" THEN "create" ELSE "log")
    /\ UNCHANGED <<rows, log, cloudVars, cache, avail, localVars, calls, faults,
                   excuses, promises>>

-----------------------------------------------------------------------------
(***************************************************************************)
(* Write, once the path is free: place, create the file, upload, log.      *)
(***************************************************************************)

(* shardsPerSegment-2 data shards and 2 parity shards, whatever K and M.   *)
Placements == Place(K + M - 2, 2, [i \in Shards |-> ShardSize], avail)

(* An empty file has no shards, and its Write ends before the log.         *)
CreateEmpty(h) ==
    /\ pc[h] = "create" /\ Segs[call[h].ver] = 0
    /\ files[call[h].path] = None
    /\ files' = [files EXCEPT ![call[h].path] = 0]
    /\ unlogged' = unlogged \cup {call[h].path}
    /\ Acknowledge(h)
    /\ UNCHANGED <<rows, log, cloudVars, cache, avail, calls, faults, contended, soiled>>

CreateFile(h) ==
    /\ pc[h] = "create" /\ Segs[call[h].ver] > 0
    /\ files[call[h].path] = None
    /\ \E pm \in Placements :
          plan' = [plan EXCEPT ![h] =
                     [s \in Slots |-> IF s[1] < Segs[call[h].ver] THEN pm[s[2]] ELSE None]]
    /\ files' = [files EXCEPT ![call[h].path] = Segs[call[h].ver]]
    /\ todo' = [todo EXCEPT ![h] = SlotsOf(call[h].ver)]
    /\ Step(h, "put")
    /\ UNCHANGED <<rows, log, cloudVars, cache, avail, call, existed, cur, held,
                   readVars, calls, faults, excuses, promises>>

(* No provider for some shard, or INSERT INTO files meets the path of a    *)
(* file created meanwhile: the Write fails, and what it replaced is gone.  *)
CreateFails(h) ==
    /\ pc[h] = "create"
    /\ \/ Segs[call[h].ver] > 0 /\ Placements = {}
       \/ files[call[h].path] # None
    /\ Abandon(h)
    /\ UNCHANGED <<storeVars, cloudVars, cache, avail, calls, faults, soiled>>

(* Mutant: the shards are uploaded in any order, as from a Go map.         *)
FirstAny(S) == S

(* allShards is in the order of segments, then of shards.                  *)
First(S) == {s \in S : \A t \in S : s[1] < t[1] \/ (s[1] = t[1] /\ s[2] <= t[2])}

Put(h) ==
    /\ pc[h] = "put"
    /\ \E s \in First(todo[h]) :
          /\ plan[h][s] \notin dead
          /\ blobs' = [blobs EXCEPT ![plan[h][s]][call[h].path][s] = call[h].ver]
          /\ cur' = [cur EXCEPT ![h] = s]
          /\ todo' = [todo EXCEPT ![h] = @ \ {s}]
    /\ Step(h, "record")
    /\ UNCHANGED <<storeVars, dead, cache, avail, call, existed, plan, held, readVars,
                   calls, faults, excuses, promises>>

(* A backend that fails may have stored the shard, or have removed the one *)
(* that was there (Google Drive deletes before it uploads).                *)
PutFails(h) ==
    /\ pc[h] = "put"
    /\ \E s \in First(todo[h]) :
          LET x == plan[h][s]
              p == call[h].path
          IN  \/ x \in dead /\ UNCHANGED <<blobs, faults>>
              \/ /\ x \notin dead /\ Fault
                 /\ \E b \in {blobs[x][p][s], call[h].ver, None} :
                       blobs' = [blobs EXCEPT ![x][p][s] = b]
    /\ soiled' = soiled \cup {call[h].path}
    /\ Abandon(h)
    /\ UNCHANGED <<storeVars, dead, cache, avail, calls>>

(* AddShard; a row that exists already stays, the error is ignored.        *)
Record(h) ==
    /\ pc[h] = "record"
    /\ rows' = [rows EXCEPT ![call[h].path][cur[h]] =
                  IF @ = None THEN plan[h][cur[h]] ELSE @]
    /\ Step(h, IF todo[h] = {} THEN "log" ELSE "put")
    /\ UNCHANGED <<files, log, cloudVars, cache, avail, localVars, calls, faults,
                   excuses, promises>>

(* Mutant: an overwrite is logged like a first write.                      *)
OpTypeCreate(h) == CASE call[h].op = "delete" -> "OpFileDelete"
                     [] call[h].op = "rename" -> "OpFileRename"
                     [] OTHER -> "OpFileCreate"

OpType(h) == CASE call[h].op = "delete" -> "OpFileDelete"
               [] call[h].op = "rename" -> "OpFileRename"
               [] call[h].op = "write" /\ existed[h] -> "OpFileUpdate"
               [] OTHER -> "OpFileCreate"

(* opLog.Append, the last step of every Write, Delete and Rename.  It      *)
(* reads the number of the record before it inserts it; the numbers are    *)
(* not kept here (see MetaSync).                                           *)
Log(h) ==
    /\ pc[h] = "log"
    /\ log' = Append(log, [type |-> OpType(h), path |-> call[h].path, to |-> call[h].to])
    /\ Acknowledge(h)
    /\ UNCHANGED <<files, rows, cloudVars, cache, avail, calls, faults, excuses>>

-----------------------------------------------------------------------------
(***************************************************************************)
(* Rename: the shards of the map one by one, then the tables.              *)
(***************************************************************************)

(* backend.Get.  A shard that cannot be read is skipped, and its row will  *)
(* say that it is at the new path.                                         *)
Get(h) ==
    /\ pc[h] = "get"
    /\ \E s \in todo[h] :
          LET b == blobs[plan[h][s]][call[h].path][s]
          IN  \/ /\ b # None
                 /\ held' = [held EXCEPT ![h] = b]
                 /\ cur' = [cur EXCEPT ![h] = s]
                 /\ todo' = [todo EXCEPT ![h] = @ \ {s}]
                 /\ Step(h, "copy")
                 /\ UNCHANGED <<faults, soiled, clean>>
              \/ /\ b = None
                 /\ Loop(h, s, "retable")
                 /\ clean' = [clean EXCEPT ![h] = @ /\ plan[h][s] \in dead]
                 /\ UNCHANGED <<cur, held, faults, soiled>>
              \/ /\ b # None /\ Fault
                 /\ Loop(h, s, "retable")
                 /\ clean' = [clean EXCEPT ![h] = FALSE]
                 /\ soiled' = soiled \cup Touches(call[h])
                 /\ UNCHANGED <<cur, held>>
    /\ UNCHANGED <<storeVars, cloudVars, cache, avail, call, existed, plan, readVars,
                   calls, contended, unlogged, acked, due>>

(* Mutant: the shard is put back under the old key.                        *)
CopyBack(h) ==
    /\ pc[h] = "copy"
    /\ blobs' = IF plan[h][cur[h]] \in dead THEN blobs
                ELSE [blobs EXCEPT ![plan[h][cur[h]]][call[h].path][cur[h]] = held[h]]
    /\ Step(h, "erase")
    /\ UNCHANGED <<storeVars, dead, cache, avail, localVars, calls, faults, excuses,
                   promises>>

(* backend.Put at the new key, its error ignored.                          *)
Copy(h) ==
    /\ pc[h] = "copy"
    /\ LET s == cur[h]
           x == plan[h][s]
           q == call[h].to
       IN  \/ /\ x \notin dead
              /\ blobs' = [blobs EXCEPT ![x][q][s] = held[h]]
              /\ UNCHANGED <<faults, soiled, clean>>
           \/ /\ x \in dead
              /\ UNCHANGED <<blobs, faults, soiled, clean>>
           \/ /\ x \notin dead /\ Fault
              /\ \E b \in {blobs[x][q][s], None} : blobs' = [blobs EXCEPT ![x][q][s] = b]
              /\ clean' = [clean EXCEPT ![h] = FALSE]
              /\ soiled' = soiled \cup Touches(call[h])
    /\ Step(h, "erase")
    /\ UNCHANGED <<storeVars, dead, cache, avail, localVars, calls, contended, unlogged,
                   acked, due>>

(* Mutant: the old copy is left where it is.                               *)
EraseNothing(h) ==
    /\ pc[h] = "erase"
    /\ Step(h, IF todo[h] = {} THEN "retable" ELSE "get")
    /\ UNCHANGED <<storeVars, cloudVars, cache, avail, localVars, calls, faults, excuses,
                   promises>>

(* backend.Delete of the old key, its error ignored: also when Put failed. *)
Erase(h) ==
    /\ pc[h] = "erase"
    /\ \/ /\ blobs' = [blobs EXCEPT ![plan[h][cur[h]]][call[h].path][cur[h]] = None]
          /\ UNCHANGED <<faults, soiled>>
       \/ /\ Fault
          /\ soiled' = soiled \cup {call[h].path}
          /\ UNCHANGED blobs
    /\ Step(h, IF todo[h] = {} THEN "retable" ELSE "get")
    /\ UNCHANGED <<storeVars, dead, cache, avail, localVars, calls, contended, unlogged,
                   promises>>

(* Store.RenameFile, one transaction: no row may meet one of the new path. *)
Conflict(p, q) ==
    /\ p # q
    /\ \/ files[p] # None /\ files[q] # None
       \/ \E s \in Slots : rows[p][s] # None /\ rows[q][s] # None

Retable(h) ==
    LET p == call[h].path
        q == call[h].to
        moved == [s \in Slots |-> IF rows[p][s] # None THEN rows[p][s] ELSE rows[q][s]]
    IN  /\ pc[h] = "retable" /\ ~Conflict(p, q)
        /\ files' = [f \in Paths |-> IF f = q /\ files[p] # None THEN files[p]
                                     ELSE IF f = p /\ p # q THEN None ELSE files[f]]
        /\ rows' = [f \in Paths |-> IF f = q THEN moved
                                    ELSE IF f = p THEN NoRows ELSE rows[f]]
        /\ Step(h, "log")
        /\ UNCHANGED <<log, cloudVars, cache, avail, localVars, calls, faults, excuses,
                       promises>>

(* The target exists: the transaction is rolled back and Rename fails, but *)
(* the shards have been moved, over those of the target.                   *)
RetableFails(h) ==
    /\ pc[h] = "retable" /\ Conflict(call[h].path, call[h].to)
    /\ soiled' = soiled \cup Touches(call[h])
    /\ Abandon(h)
    /\ UNCHANGED <<storeVars, cloudVars, cache, avail, calls, faults>>

-----------------------------------------------------------------------------
(***************************************************************************)
(* downloadFile: Stat, then Read(path, 0, info.Size).                      *)
(***************************************************************************)

(* GetFile, in Stat (pc "info") and again in Read (pc "stat"); the answer  *)
(* is cut to the smaller of the two sizes.                                 *)
Stat(h) ==
    /\ pc[h] \in {"info", "stat"}
    /\ LET size == files[call[h].path]
       IN  /\ size # None
           /\ \/ pc[h] = "info" /\ Step(h, "stat") /\ limit' = [limit EXCEPT ![h] = size]
              \/ /\ pc[h] = "stat" /\ Step(h, "map")
                 /\ limit' = [limit EXCEPT ![h] = IF size < @ THEN size ELSE @]
    /\ UNCHANGED <<storeVars, cloudVars, cache, avail, call, existed, plan, todo, cur,
                   held, got, out, calls, faults, excuses, promises>>

NotFound(h) ==
    /\ pc[h] \in {"info", "stat"} /\ files[call[h].path] = None
    /\ Return(h)
    /\ UNCHANGED <<storeVars, cloudVars, cache, avail, calls, faults, excuses, acked>>

(* GetShardMap.                                                            *)
ReadMap(h) ==
    /\ pc[h] = "map"
    /\ plan' = [plan EXCEPT ![h] = rows[call[h].path]]
    /\ Step(h, "seg")
    /\ UNCHANGED <<storeVars, cloudVars, cache, avail, call, existed, todo, cur, held,
                   readVars, calls, faults, excuses, promises>>

Segments(map) == {s[1] : s \in {t \in Slots : map[t] # None}}   \* keys of a shard map
IndicesOf(map, i) == {j \in Shards : i < MaxSegs /\ map[<<i, j>>] # None}

(* erasureShards has room for as many shards as the map has for the        *)
(* segment, and is indexed by shard number: a gap is an index out of range *)
Panics(map, i) == \E j \in IndicesOf(map, i) : j >= Cardinality(IndicesOf(map, i))

More(h) == pc[h] = "seg" /\ Len(out[h]) < Cardinality(Segments(plan[h]))

(* Mutant: the cache key leaves the segment out.                           *)
CachedForFile(p, i) == {e \in 1 .. Len(cache) : cache[e].path = p}

Cached(p, i) == {e \in 1 .. Len(cache) : cache[e].path = p /\ cache[e].seg = i}
Others(p, i) == IF Cached(p, i) = {} THEN cache
                ELSE RemoveAt(cache, CHOOSE e \in Cached(p, i) : TRUE)

(* SegmentCache.Get finds the segment and makes it the most recent.        *)
Hit(h) ==
    /\ More(h)
    /\ LET p == call[h].path
           i == Len(out[h])
       IN  \E e \in Cached(p, i) :
             /\ cache' = <<cache[e]>> \o Others(p, i)
             /\ out' = [out EXCEPT ![h] = Append(@, <<cache[e].ver, cache[e].seg>>)]
    /\ UNCHANGED <<storeVars, cloudVars, avail, pc, call, existed, plan, todo, cur, held,
                   limit, got, calls, faults, excuses, promises>>

Miss(h) ==
    /\ More(h)
    /\ LET i == Len(out[h])
           indices == IndicesOf(plan[h], i)
       IN  /\ Cached(call[h].path, i) = {}
           /\ ~Panics(plan[h], i)
           /\ todo' = [todo EXCEPT ![h] = {<<i, j>> : j \in indices}]
           /\ Step(h, IF indices = {} THEN "decode" ELSE "fetch")
    /\ got' = [got EXCEPT ![h] = NoneGot]
    /\ UNCHANGED <<storeVars, cloudVars, cache, avail, call, existed, plan, cur, held,
                   limit, out, calls, faults, excuses, promises>>

(* net/http ends the request of a handler that panics, and goes on.        *)
Panic(h) ==
    /\ More(h)
    /\ Cached(call[h].path, Len(out[h])) = {} /\ Panics(plan[h], Len(out[h]))
    /\ Return(h)
    /\ UNCHANGED <<storeVars, cloudVars, cache, avail, calls, faults, excuses, acked>>

(* Mutant: the loop ends at the first shard that cannot be fetched.        *)
FetchStops(h) ==
    /\ pc[h] = "fetch"
    /\ \E s \in todo[h] :
          LET b == blobs[plan[h][s]][call[h].path][s]
          IN  /\ got' = [got EXCEPT ![h][s[2]] = b]
              /\ IF b = None THEN todo' = [todo EXCEPT ![h] = {}] /\ Step(h, "decode")
                 ELSE Loop(h, s, "decode")
    /\ UNCHANGED <<storeVars, cloudVars, cache, avail, call, existed, plan, cur, held,
                   limit, out, calls, faults, excuses, promises>>

(* backend.Get; a failure counts as a missing shard.                       *)
Fetch(h) ==
    /\ pc[h] = "fetch"
    /\ \E s \in todo[h] :
          /\ Loop(h, s, "decode")
          /\ \/ /\ got' = [got EXCEPT ![h][s[2]] = blobs[plan[h][s]][call[h].path][s]]
                /\ UNCHANGED faults
             \/ Fault /\ UNCHANGED got
    /\ UNCHANGED <<storeVars, cloudVars, cache, avail, call, existed, plan, cur, held,
                   limit, out, calls, excuses, promises>>

(* Mutant: a shard that could not be fetched counts as an empty one.       *)
PresentAll(shards) == Shards

(* Encoder.Decode: the first K shards present determine the segment.       *)
Present(shards) == {i \in Shards : shards[i] # None}
Used(shards) == {i \in Present(shards) : Cardinality({j \in Present(shards) : j < i}) < K}
Decoded(shards) == LET vs == {shards[i] : i \in Used(shards)}
                   IN  IF Cardinality(vs) = 1 THEN CHOOSE v \in vs : TRUE ELSE Garbage

(* SegmentCache.Put: replaces the entry, then evicts from the old end.     *)
CachePut(p, i, v) ==
    LET rest == Others(p, i)
        room == IF Capacity = 0 THEN 0 ELSE Capacity - 1
    IN  <<[path |-> p, seg |-> i, ver |-> v]>>
          \o SubSeq(rest, 1, IF Len(rest) < room THEN Len(rest) ELSE room)

Decode(h) ==
    /\ pc[h] = "decode"
    /\ Cardinality(Present(got[h])) >= K
    /\ cache' = CachePut(call[h].path, Len(out[h]), Decoded(got[h]))
    /\ out' = [out EXCEPT ![h] = Append(@, <<Decoded(got[h]), Len(out[h])>>)]
    /\ got' = [got EXCEPT ![h] = NoneGot]
    /\ Step(h, "seg")
    /\ UNCHANGED <<storeVars, cloudVars, avail, call, existed, plan, todo, cur, held,
                   limit, calls, faults, excuses, promises>>

DecodeFails(h) ==
    /\ pc[h] = "decode"
    /\ Cardinality(Present(got[h])) < K
    /\ Return(h)
    /\ UNCHANGED <<storeVars, cloudVars, cache, avail, calls, faults, excuses, acked>>

(* No more segments: the answer is ready, then it is sent.                 *)
Finish(h) ==
    /\ pc[h] = "seg" /\ Len(out[h]) >= Cardinality(Segments(plan[h]))
    /\ Step(h, "done")
    /\ UNCHANGED <<storeVars, cloudVars, cache, avail, localVars, calls, faults, excuses,
                   promises>>

Answer(h) == SubSeq(out[h], 1, IF limit[h] < Len(out[h]) THEN limit[h] ELSE Len(out[h]))

Respond(h) ==
    /\ pc[h] = "done"
    /\ Return(h)
    /\ UNCHANGED <<storeVars, cloudVars, cache, avail, calls, faults, excuses, acked>>

-----------------------------------------------------------------------------
(***************************************************************************)
(* Steps that no handler takes.                                            *)
(***************************************************************************)

(* VFS.Mkdir: INSERT OR IGNORE of an empty file, not logged.               *)
Mkdir(d) ==
    /\ calls < MaxCalls /\ calls' = calls + 1
    /\ files' = [files EXCEPT ![d] = IF @ = None THEN 0 ELSE @]
    /\ contended' = contended \cup Taint({d})
    /\ unlogged' = unlogged \cup {d}
    /\ UNCHANGED <<rows, log, cloudVars, cache, avail, pc, localVars, faults, soiled,
                   promises>>

(* A provider is lost with everything stored there.                        *)
Lose(x) ==
    /\ x \notin dead /\ Fault
    /\ dead' = dead \cup {x}
    /\ blobs' = [blobs EXCEPT ![x] = [p \in Paths |-> NoRows]]
    /\ UNCHANGED <<storeVars, cache, avail, pc, localVars, calls, excuses, promises>>

(* The process dies and is started again, with a new cache and a new       *)
(* engine; the calls in progress end where they were.                      *)
Crash ==
    LET cut == UNION {Touches(call[h]) : h \in {g \in Handlers : Changing(g)}}
    IN  /\ Fault
        /\ cache' = << >>
        /\ avail' \in Avails
        /\ pc' = [h \in Handlers |-> "idle"]
        /\ call' = [h \in Handlers |-> NoCall]
        /\ existed' = [h \in Handlers |-> FALSE]
        /\ plan' = [h \in Handlers |-> NoRows]
        /\ todo' = [h \in Handlers |-> {}]
        /\ cur' = [h \in Handlers |-> <<0, 0>>]
        /\ held' = [h \in Handlers |-> None]
        /\ limit' = [h \in Handlers |-> 0]
        /\ got' = [h \in Handlers |-> NoneGot]
        /\ out' = [h \in Handlers |-> << >>]
        /\ due' = [h \in Handlers |-> None]
        /\ clean' = [h \in Handlers |-> TRUE]
        /\ soiled' = soiled \cup cut
        /\ unlogged' = unlogged \cup cut
        /\ UNCHANGED <<storeVars, cloudVars, calls, acked, contended>>

Change(h) == \/ Check(h) \/ Scan(h) \/ Purge(h) \/ Unrow(h) \/ Unlink(h)
             \/ CreateEmpty(h) \/ CreateFile(h) \/ CreateFails(h)
             \/ Put(h) \/ PutFails(h) \/ Record(h) \/ Log(h)
             \/ Get(h) \/ Copy(h) \/ Erase(h) \/ Retable(h) \/ RetableFails(h)

Read(h) == \/ Stat(h) \/ NotFound(h) \/ ReadMap(h) \/ Hit(h) \/ Miss(h) \/ Panic(h)
           \/ Fetch(h) \/ Decode(h) \/ DecodeFails(h) \/ Finish(h) \/ Respond(h)

Next == \/ \E h \in Handlers : (\E c \in Requests : Start(h, c)) \/ Change(h) \/ Read(h)
        \/ \E d \in Dirs : Mkdir(d)
        \/ \E x \in Providers : Lose(x)
        \/ Crash

Spec == Init /\ [][Next]_vars
=============================================================================
