------------------------------ MODULE VfsProps ------------------------------
(***************************************************************************)
(* What the virtual file system promises.  The promises are those of calls *)
(* that have the path to themselves: nothing serialises the calls on one   *)
(* path, and a path that calls have changed at the same time (contended)   *)
(* has none left.                                                          *)
(***************************************************************************)
EXTENDS Vfs

(* The steps of each call, and the handler's place among them.             *)
PurgeSteps  == {"scan", "purge", "unrow", "drop", "unlink", "log"}
WriteSteps  == PurgeSteps \cup {"check", "create", "put", "record"}
RenameSteps == {"scan", "get", "copy", "erase", "retable", "log"}
ReadSteps   == {"info", "stat", "map", "seg", "fetch", "decode", "done"}
AllSteps    == {"idle"} \cup WriteSteps \cup RenameSteps \cup ReadSteps

AtStep(h) == \/ pc[h] = "idle" /\ call[h] = NoCall
             \/ pc[h] \in WriteSteps /\ call[h] \in Uploads
             \/ pc[h] \in PurgeSteps /\ call[h] \in Deletes
             \/ pc[h] \in RenameSteps /\ call[h] \in Renames
             \/ pc[h] \in ReadSteps /\ call[h] \in Downloads

ShardMaps == [Slots -> Providers \cup {None}]
LogRecords == [type : {"OpFileCreate", "OpFileUpdate", "OpFileDelete", "OpFileRename"},
               path : Paths, to : Paths]
Content == Versions \cup {Garbage}
CacheEntries == [path : Paths, seg : Nat, ver : Content]

(* The shard map a handler works from names a provider for the slots it    *)
(* has still to visit and for the one it is at.                            *)
Pointed(h) ==
    /\ \A s \in todo[h] : plan[h][s] \in Providers
    /\ pc[h] \in {"purge", "put", "get", "fetch"} => todo[h] # {}
    /\ pc[h] \notin {"purge", "put", "record", "get", "copy", "erase", "fetch"} =>
          todo[h] = {}
    /\ pc[h] \in {"record", "copy", "erase"} =>
          cur[h] \in Slots /\ plan[h][cur[h]] \in Providers
    /\ pc[h] = "copy" => held[h] \in Versions

StoreOK == /\ files \in [Paths -> 0 .. MaxSegs \cup {None}]
           /\ rows \in [Paths -> ShardMaps]
           /\ log \in Seq(LogRecords)
Blobs == [Providers -> [Paths -> [Slots -> Versions \cup {None}]]]
CloudOK == /\ blobs \in Blobs
           /\ dead \subseteq Providers
ProcessOK == /\ cache \in Seq(CacheEntries)
             /\ avail \in [Providers -> Nat]
             /\ calls \in Nat /\ faults \in Nat
HandlersOK == /\ pc \in [Handlers -> AllSteps]
              /\ call \in [Handlers -> Requests \cup {NoCall}]
              /\ existed \in [Handlers -> BOOLEAN]
              /\ plan \in [Handlers -> ShardMaps]
              /\ todo \in [Handlers -> SUBSET Slots]
              /\ cur \in [Handlers -> Nat \X Nat]
              /\ held \in [Handlers -> Versions \cup {None}]
              /\ limit \in [Handlers -> Nat]
              /\ got \in [Handlers -> [Shards -> Versions \cup {None}]]
              /\ out \in [Handlers -> Seq(Content \X Nat)]
              /\ \A h \in Handlers : AtStep(h) /\ Pointed(h)
HistoryOK == /\ acked \in [Paths -> Versions \cup {None}]
             /\ contended \subseteq Paths /\ soiled \subseteq Paths /\ unlogged \subseteq Paths
             /\ due \in [Handlers -> Versions \cup {None}]
             /\ clean \in [Handlers -> BOOLEAN]

(* Every variable has its type, and every handler is at a step of the call *)
(* it serves with the slots that step needs at hand.                       *)
TypeOK == StoreOK /\ CloudOK /\ ProcessOK /\ HandlersOK /\ HistoryOK

-----------------------------------------------------------------------------
(* The shards of segment i of p that can be fetched and are of version v.  *)
Good(p, i, v) == {j \in Shards : /\ rows[p][<<i, j>>] # None
                                 /\ blobs[rows[p][<<i, j>>]][p][<<i, j>>] = v}

(* A file whose upload, or whose last rename, the client was told has      *)
(* succeeded is in the tables with its size, and as long as no more than M *)
(* providers are lost each of its segments has K shards left to decode it  *)
(* from: after failed and interrupted calls on other paths, retries,       *)
(* crashes, and whatever order the steps of other handlers come in.        *)
Durable ==
    \A p \in Paths \ contended :
        acked[p] # None =>
            /\ files[p] = Segs[acked[p]]
            /\ Segments(rows[p]) = 0 .. Segs[acked[p]] - 1
            /\ Cardinality(dead) <= M =>
                 \A i \in 0 .. Segs[acked[p]] - 1 :
                     Cardinality(Good(p, i, acked[p])) >= K

(* The shards table has rows only for paths the files table has: at every  *)
(* point where the process may crash, what a restart finds in the database *)
(* can be reached, and deleted, through the file it belongs to.            *)
RowsHaveFile ==
    \A p \in Paths \ contended : files[p] = None => rows[p] = NoRows

(* Read indexes a slice as long as the segment's shard map with the shard  *)
(* numbers of that map.  A download that runs while the file is uploaded,  *)
(* deleted, renamed, or left half uploaded never reaches past its end.     *)
NoReadPanic ==
    \A h \in Handlers :
        More(h) /\ call[h].path \notin contended => ~Panics(plan[h], Len(out[h]))

Undisturbed(p) == Rivals({p}) = {}

(* When no call is changing a path, every shard stored under its keys is   *)
(* the one its row points to: nothing is left on a provider that a later   *)
(* Delete would not find, unless a backend call on the path had failed or  *)
(* a crash had cut a call short.                                           *)
NoLeak ==
    \A p \in Paths \ (contended \cup soiled) :
        Undisturbed(p) =>
            \A x \in Providers, s \in Slots : blobs[x][p][s] # None => rows[p][s] = x

(* A download of a path that no call changes meanwhile, begun when the     *)
(* cache holds nothing older for the path and no other download is about   *)
(* to add anything older, answers with the version last acknowledged, or   *)
(* with an error if more than M shards of a segment cannot be fetched.     *)
ReadBack ==
    \A h \in Handlers :
        pc[h] = "done" /\ due[h] # None /\ clean[h] =>
            Answer(h) = [i \in 1 .. Segs[due[h]] |-> <<due[h], i - 1>>]

-----------------------------------------------------------------------------
(* What a device that applies the operations log would believe of each     *)
(* path.  A create of what is there, or an update or removal of what is    *)
(* not, makes no sense to it.                                              *)
Replayed(told, op) ==
    CASE op.type = "OpFileCreate" ->
            [told EXCEPT ![op.path] = IF @ = "absent" THEN "present" ELSE "confused"]
      [] op.type = "OpFileUpdate" ->
            [told EXCEPT ![op.path] = IF @ = "present" THEN "present" ELSE "confused"]
      [] op.type = "OpFileDelete" -> [told EXCEPT ![op.path] = "absent"]
      [] op.type = "OpFileRename" ->
            IF told[op.path] # "present" \/ op.path = op.to THEN told
            ELSE [told EXCEPT ![op.path] = "absent",
                              ![op.to] = IF @ = "absent" THEN "present" ELSE "confused"]

Told == FoldLeft(Replayed, [p \in Paths |-> "absent"], log)

(* Replaying the log gives the files there are, at every path that no call *)
(* is changing and that no failed, interrupted or unlogged call has        *)
(* touched: records come in the order of the changes they stand for,       *)
(* however calls on different paths interleave.                            *)
LogMatchesStore ==
    \A p \in Paths \ (contended \cup unlogged) :
        Undisturbed(p) => Told[p] = IF files[p] = None THEN "absent" ELSE "present"

-----------------------------------------------------------------------------
(* A download of a path nobody is changing returns what was last uploaded  *)
(* there.  (The cache is not told of Write, Delete or Rename.)             *)
OverwriteVisible ==
    \A h \in Handlers :
        pc[h] = "done" /\ due[h] # None =>
            Answer(h) = [i \in 1 .. Segs[due[h]] |-> <<due[h], i - 1>>]

(* When Rename is about to return nil, the content is at the new path.     *)
(* (It ignores the errors of Put and Delete, and deletes after a failed    *)
(* Put.)                                                                   *)
RenameKeepsContent ==
    \A h \in Handlers :
        pc[h] = "log" /\ call[h].op = "rename" /\ due[h] # None
            /\ call[h].to \notin contended \cup {call[h].path} =>
          \A i \in 0 .. Segs[due[h]] - 1 :
              Cardinality(dead) <= M => Cardinality(Good(call[h].to, i, due[h])) >= K

(* With no failure, and no call in progress, every file there is has been  *)
(* logged.  (Writing an empty file and Mkdir return before the log.)       *)
EveryMutationLogged ==
    faults = 0 /\ (\A h \in Handlers : ~Active(h)) =>
        \A p \in Paths \ contended : files[p] # None => Told[p] = "present"
=============================================================================
