------------------------------- MODULE VfsInv -------------------------------
(***************************************************************************)
(* The inductive invariant behind Durable and RowsHaveFile: what is true   *)
(* of a path in the middle of each call that changes it.                   *)
(***************************************************************************)
EXTENDS VfsProps

Own(h) == Touches(call[h])

(* Two calls that change a common path, and whatever a contended path is   *)
(* mixed up with, are contended as a whole.                                *)
Separate ==
    \A h \in Handlers : Changing(h) =>
        /\ Own(h) \cap contended # {} => Own(h) \subseteq contended
        /\ \A g \in Handlers \ {h} :
              Changing(g) /\ Own(g) \cap Own(h) # {} => Own(h) \subseteq contended

(* Nothing is promised of a path while a call changes it.                  *)
Pending == \A h \in Handlers : Changing(h) =>
              \A p \in Own(h) \ contended : acked[p] = None

DeadEmpty == \A x \in dead, p \in Paths, s \in Slots : blobs[x][p][s] = None

(* A shard map for version v: one provider for each shard of each segment, *)
(* no two shards of a segment on one provider.                             *)
Spread(map, v) ==
    /\ \A s \in Slots : map[s] # None <=> s \in SlotsOf(v)
    /\ \A s, t \in SlotsOf(v) : s[1] = t[1] /\ map[s] = map[t] => s = t

Stored(x, p, s, v) == x \in dead \/ blobs[x][p][s] = v

Located(p, map, v) == files[p] = Segs[v] /\ rows[p] = map /\ Spread(map, v)

Intact(p, v) == /\ Located(p, rows[p], v)
                /\ \A s \in SlotsOf(v) : Stored(rows[p][s], p, s, v)

Kept == \A p \in Paths \ contended : acked[p] # None => Intact(p, acked[p])

(* deleteShards and DeleteFile take the rows away before the file.         *)
PurgeInv(h) ==
    call[h].op \in {"write", "delete"} /\ call[h].path \notin contended =>
        /\ call[h].op = "delete" => due[h] = None
        /\ pc[h] \in {"drop", "unlink", "create"} => rows[call[h].path] = NoRows
        /\ pc[h] = "create" \/ (pc[h] = "log" /\ call[h].op = "delete") =>
              files[call[h].path] = None

(* Upload: what the loop has passed is stored, and recorded but for the    *)
(* shard between Put and AddShard.                                         *)
UploadInv(h) ==
    LET p == call[h].path
        v == call[h].ver
    IN  call[h].op = "write" /\ p \notin contended =>
          /\ due[h] = v
          /\ pc[h] \in {"put", "record", "log"} =>
               /\ files[p] = Segs[v]
               /\ Spread(plan[h], v)
               /\ todo[h] \subseteq SlotsOf(v)
               /\ pc[h] = "record" => cur[h] \in SlotsOf(v) \ todo[h]
               /\ \A s \in SlotsOf(v) \ todo[h] : Stored(plan[h][s], p, s, v)
               /\ \A s \in Slots :
                    rows[p][s] = IF \/ s \in todo[h]
                                    \/ pc[h] = "record" /\ s = cur[h]
                                 THEN None ELSE plan[h][s]

(* Rename: what the loop has passed is stored at the new path, what it has *)
(* still to visit at the old one.                                          *)
RenameInv(h) ==
    LET p == call[h].path
        q == call[h].to
        v == due[h]
        atHand == pc[h] \in {"copy", "erase"}
    IN  call[h].op = "rename" /\ q \notin contended /\ v # None /\ clean[h] =>
          /\ p # q
          /\ pc[h] = "scan" => Intact(p, v)
          /\ pc[h] \in {"get", "copy", "erase", "retable"} =>
               /\ Located(p, plan[h], v)
               /\ todo[h] \subseteq SlotsOf(v)
               /\ atHand => cur[h] \in SlotsOf(v) \ todo[h]
               /\ \A s \in SlotsOf(v) :
                    IF s \in todo[h] THEN Stored(plan[h][s], p, s, v)
                    ELSE IF pc[h] = "copy" /\ s = cur[h] THEN held[h] = v
                    ELSE Stored(plan[h][s], q, s, v)
          /\ pc[h] = "log" => Intact(q, v)

CallInv(h) == PurgeInv(h) /\ UploadInv(h) /\ RenameInv(h)

IInv == /\ TypeOK
        /\ Separate /\ Pending /\ DeadEmpty
        /\ RowsHaveFile /\ Kept
        /\ \A h \in Handlers : CallInv(h)

-----------------------------------------------------------------------------
(***************************************************************************)
(* What is true besides in every state in which IInv is, and keeps being   *)
(* so: the parts behind ReadBack, NoReadPanic and NoLeak.                  *)
(***************************************************************************)
SegmentSteps == {"seg", "fetch", "decode", "done"}

(* A download that owes version v has the path to itself and to other      *)
(* downloads; what it has read of sizes, rows and shards is all of v, and  *)
(* so are the pieces, if it began with a cache in which nothing was older. *)
DownloadInv(h) ==
    LET p == call[h].path
        v == due[h]
    IN  Reading(h, p) /\ v # None =>
          /\ p \notin contended /\ acked[p] = v /\ Rivals({p}) = {}
          /\ pc[h] # "info" => limit[h] = Segs[v]
          /\ pc[h] \in SegmentSteps => plan[h] = rows[p]
          /\ pc[h] \in {"fetch", "decode"} =>
                Len(out[h]) < Segs[v] /\ \A j \in Shards : got[h][j] \in {v, None}
          /\ Len(out[h]) <= Segs[v]
          /\ pc[h] = "done" => Len(out[h]) = Segs[v]
          /\ clean[h] => /\ FreshCache(p, v)
                         /\ \A i \in 1 .. Len(out[h]) : out[h][i] = <<v, i - 1>>

ReadInv == \A h \in Handlers :
              /\ DownloadInv(h)
              /\ pc[h] \notin SegmentSteps => out[h] = << >>

(* The shard numbers of each segment of a map are 0, 1, 2 and so on.       *)
Gapless(map) ==
    \A s \in Slots : map[s] # None => \A j \in 0 .. s[2] - 1 : map[<<s[1], j>>] # None

(* With a slot, the set has the slots of v that come after it.             *)
UpperPart(S, v) == \A s \in S, t \in SlotsOf(v) : s[1] = t[1] /\ s[2] < t[2] => t \in S

(* Upload records shards in the order of their numbers, and a download     *)
(* works from a map as it was at one time.                                 *)
NumberInv(h) ==
    call[h].path \notin contended =>
      /\ call[h].op = "write" /\ pc[h] \in {"put", "record"} =>
            /\ UpperPart(todo[h], call[h].ver)
            /\ pc[h] = "record" => UpperPart(todo[h] \cup {cur[h]}, call[h].ver)
      /\ call[h].op = "read" /\ pc[h] \in SegmentSteps => Gapless(plan[h])

OrderInv == /\ \A p \in Paths \ contended : Gapless(rows[p])
            /\ \A h \in Handlers : NumberInv(h)

(* Where a shard of p is stored, and where a map has those of the slots S. *)
Placed(p) == {a \in Providers \X Slots : blobs[a[1]][p][a[2]] # None}
Named(map, S) == {a \in Providers \X Slots : a[2] \in S /\ map[a[2]] = a[1]}

Neat(p) == Placed(p) \subseteq Named(rows[p], Slots)

(* deleteShards takes away what the map names, upload stores what its map  *)
(* names, and Rename does both, slot by slot.                              *)
ClearInv(h) ==
    LET p == call[h].path
    IN  call[h].op \in {"write", "delete"} /\ p \notin contended \cup soiled =>
          /\ pc[h] \in {"check", "scan", "log"} => Neat(p)
          /\ pc[h] = "purge" => plan[h] = rows[p] /\ Placed(p) \subseteq Named(plan[h], todo[h])
          /\ pc[h] \in {"unrow", "drop", "unlink", "create"} => Placed(p) = {}
          /\ pc[h] \in {"put", "record"} => Placed(p) \subseteq Named(plan[h], Slots \ todo[h])

MoveInv(h) ==
    LET p == call[h].path
        q == call[h].to
        atHand == IF pc[h] \in {"copy", "erase"} THEN {cur[h]} ELSE {}
    IN  call[h].op = "rename" /\ q \notin contended =>
          /\ pc[h] \in {"scan", "log"} => \A f \in {p, q} \ soiled : Neat(f)
          /\ pc[h] \in {"get", "copy", "erase", "retable"} =>
               /\ plan[h] = rows[p]
               /\ todo[h] \cap atHand = {}
               /\ p # q /\ p \notin soiled => Placed(p) \subseteq Named(plan[h], todo[h] \cup atHand)
               /\ q \notin soiled =>
                     Placed(q) \subseteq Named(rows[q], Slots) \cup Named(plan[h], Slots \ todo[h])

BlobInv == /\ \A p \in Paths \ (contended \cup soiled) : Undisturbed(p) => Neat(p)
           /\ \A h \in Handlers : ClearInv(h) /\ MoveInv(h)

-----------------------------------------------------------------------------
(***************************************************************************)
(* And the parts behind LogMatchesStore.                                   *)
(***************************************************************************)
Status(p) == IF files[p] = None THEN "absent" ELSE "present"

(* The record that ends the call of h.                                     *)
LogRecord(h) == [type |-> OpType(h), path |-> call[h].path, to |-> call[h].to]

(* The log tells of a path what it was when the call began, and from the   *)
(* last change of the tables on its record would set that right.           *)
RecordInv(h) ==
    LET p == call[h].path
        q == call[h].to
        op == call[h].op
    IN  Changing(h) /\ q \notin contended =>
          /\ p \in unlogged => q \in unlogged
          /\ pc[h] = "check" \/ (op = "rename" /\ pc[h] # "log") =>
                \A f \in {p, q} \ unlogged : Told[f] = Status(f)
          /\ op = "write" /\ pc[h] \notin {"check", "log"} /\ p \notin unlogged =>
                Told[p] = IF existed[h] THEN "present" ELSE "absent"
          /\ pc[h] = "log" =>
                \A f \in {p, q} \ unlogged : Replayed(Told, LogRecord(h))[f] = Status(f)

LogInv == /\ Told \in [Paths -> {"absent", "present", "confused"}]
          /\ LogMatchesStore
          /\ \A h \in Handlers : RecordInv(h)
=============================================================================
