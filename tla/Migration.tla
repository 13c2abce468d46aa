----------------------------- MODULE Migration -----------------------------
(***************************************************************************)
(* MigrationEngine.Migrate (internal/placement/migration.go): all shards   *)
(* of one provider are moved to another, one after the other, while the    *)
(* handlers of module Vfs go on.  A step is one SQL statement or one       *)
(* backend call.  A call may name one provider twice: Migrate only asks    *)
(* whether it has the two.                                                 *)
(***************************************************************************)
EXTENDS VfsProps

CONSTANT MaxMoves   \* bound on the calls of Migrate

ASSUME MovesAssumption == MaxMoves \in Nat

VARIABLES
    mPc,      \* the next step of Migrate
    from, to, \* its arguments, fromProvider and toProvider
    mFiles,   \* paths it has still to visit
    mPath,    \* the path it is at, or None
    mTodo,    \* slots of that path that it has still to move
    mCur,     \* the slot between Get and UpdateShardLocation
    mHeld,    \* its shard
    moves

(* History: no guard reads them.                                           *)
VARIABLES
    crossed,  \* paths ever changed while Migrate was at them, or moved to where they were
    changed,  \* paths that calls have been changing since Migrate began
    skipped,  \* Migrate has skipped a shard
    away      \* providers that shards left while a handler read them

migration == <<mPc, from, to, mFiles, mPath, mTodo, mCur, mHeld, moves, skipped>>
mVars == <<vars, migration, crossed, changed, away>>

Idle == /\ mPc = "idle" /\ from = None /\ to = None /\ mFiles = {} /\ mPath = None
        /\ mTodo = {} /\ mCur = <<0, 0>> /\ mHeld = None

(* Migrate has returned.                                                   *)
Stop == /\ mPc' = "idle" /\ from' = None /\ to' = None /\ mFiles' = {} /\ mPath' = None
        /\ mTodo' = {} /\ mCur' = <<0, 0>> /\ mHeld' = None

MInit == /\ Init /\ Idle /\ moves = 0 /\ skipped = FALSE
         /\ crossed = {} /\ changed = {} /\ away = [h \in Handlers |-> {}]

-----------------------------------------------------------------------------
(***************************************************************************)
(* What every step adds to the history.                                    *)
(***************************************************************************)
BeingChanged == UNION {Touches(call[h]) : h \in {g \in Handlers : Changing(g)}}
Mapped(h) == call[h].op = "read" /\ pc[h] \in {"seg", "fetch", "decode", "done"}

(* The path of the shard that Migrate will put where it has it from, and   *)
(* then delete there.                                                      *)
Onto == IF mPc = "put" /\ from = to THEN {mPath} ELSE {}

(* A call that touches a crossed path carries the disorder to the other.   *)
Chronicle ==
    /\ LET hit == crossed \cup ({mPath} \cap BeingChanged)' \cup Onto'
       IN  crossed' = hit \cup UNION {T \in {Touches(call'[h]) : h \in Handlers} :
                                         T \cap hit # {}}
    /\ changed' = IF mPc' = "idle" THEN {} ELSE changed \cup BeingChanged'
    /\ away' = [h \in Handlers |->
                   IF ~Mapped(h)' THEN {}
                   ELSE IF mPc' = "idle" THEN away[h] ELSE away[h] \cup {from'}]

-----------------------------------------------------------------------------
(***************************************************************************)
(* Migrate.                                                                *)
(***************************************************************************)
Still == UNCHANGED <<files, log, dead, cache, avail, pc, localVars, calls, contended,
                     unlogged, promises>>

(* ListAllFiles.                                                           *)
StartMigrate(x, y) ==
    /\ mPc = "idle" /\ moves < MaxMoves
    /\ moves' = moves + 1
    /\ from' = x /\ to' = y
    /\ mFiles' = {p \in Paths : files[p] # None}
    /\ mPc' = IF mFiles' = {} THEN "done" ELSE "map"
    /\ skipped' = FALSE
    /\ UNCHANGED <<mPath, mTodo, mCur, mHeld, rows, blobs, faults, soiled>>
    /\ Still

(* The next shard of p to be moved, else the next file, else the end.      *)
AfterShard(p, left) ==
    /\ mTodo' = left
    /\ IF left # {} THEN mPath' = p /\ mPc' = "get"
       ELSE mPath' = None /\ mPc' = IF mFiles' = {} THEN "done" ELSE "map"

(* GetShardMap of the next file.                                           *)
MigrateFile ==
    /\ mPc = "map"
    /\ \E p \in mFiles :
          /\ mFiles' = mFiles \ {p}
          /\ AfterShard(p, {s \in Slots : rows[p][s] = from})
    /\ UNCHANGED <<from, to, mCur, mHeld, moves, skipped, rows, blobs, faults, soiled>>
    /\ Still

(* from.Get.  A shard that cannot be read is skipped.                      *)
MoveGet ==
    /\ mPc = "get"
    /\ UNCHANGED mFiles
    /\ \E s \in mTodo :
          LET b == blobs[from][mPath][s]
          IN  \/ /\ b # None
                 /\ mHeld' = b /\ mCur' = s /\ mTodo' = mTodo \ {s} /\ mPc' = "put"
                 /\ UNCHANGED <<mPath, skipped, faults>>
              \/ /\ \/ b = None /\ UNCHANGED faults
                    \/ b # None /\ Fault
                 /\ skipped' = TRUE
                 /\ AfterShard(mPath, mTodo \ {s})
                 /\ UNCHANGED <<mHeld, mCur>>
    /\ UNCHANGED <<from, to, moves, rows, blobs, soiled>>
    /\ Still

MovePut ==
    /\ mPc = "put" /\ to \notin dead
    /\ blobs' = [blobs EXCEPT ![to][mPath][mCur] = mHeld]
    /\ mPc' = "delete"
    /\ UNCHANGED <<from, to, mFiles, mPath, mTodo, mCur, mHeld, moves, skipped, rows, faults,
                   soiled>>
    /\ Still

(* Mutant: the error of Put is ignored, as Rename ignores it.              *)
MovePutFailsOn ==
    /\ mPc = "put"
    /\ IF to \in dead THEN UNCHANGED faults ELSE Fault
    /\ soiled' = soiled \cup {mPath}
    /\ mPc' = "delete"
    /\ UNCHANGED <<from, to, mFiles, mPath, mTodo, mCur, mHeld, moves, skipped, rows, blobs>>
    /\ Still

(* Migrate returns the error; the shard may have been stored, or the one   *)
(* that was there be gone.                                                 *)
MovePutFails ==
    /\ mPc = "put"
    /\ \/ to \in dead /\ UNCHANGED <<blobs, faults>>
       \/ /\ to \notin dead /\ Fault
          /\ \E b \in {blobs[to][mPath][mCur], mHeld, None} :
                blobs' = [blobs EXCEPT ![to][mPath][mCur] = b]
    /\ soiled' = soiled \cup {mPath}
    /\ Stop
    /\ UNCHANGED <<moves, skipped, rows>>
    /\ Still

(* from.Delete, its error ignored.                                         *)
MoveDelete ==
    /\ mPc = "delete"
    /\ \/ /\ blobs' = [blobs EXCEPT ![from][mPath][mCur] = None]
          /\ UNCHANGED <<faults, soiled>>
       \/ Fault /\ soiled' = soiled \cup {mPath} /\ UNCHANGED blobs
    /\ mPc' = "update"
    /\ UNCHANGED <<from, to, mFiles, mPath, mTodo, mCur, mHeld, moves, skipped, rows>>
    /\ Still

(* Mutant: the row is left as it is.                                       *)
UpdateNothing == UNCHANGED rows

(* UpdateShardLocation, if the row is still there.                         *)
UpdateShardLocation ==
    rows' = [rows EXCEPT ![mPath][mCur] = IF @ = None THEN None ELSE to]

MoveUpdate ==
    /\ mPc = "update"
    /\ UpdateShardLocation
    /\ mCur' = <<0, 0>> /\ mHeld' = None
    /\ UNCHANGED mFiles
    /\ AfterShard(mPath, mTodo)
    /\ UNCHANGED <<from, to, moves, skipped, blobs, faults, soiled>>
    /\ Still

(* Migrate returns nil.                                                    *)
Complete ==
    /\ mPc = "done" /\ Stop
    /\ UNCHANGED <<moves, skipped, rows, blobs, faults, soiled>>
    /\ Still

Migrate == \/ \E x, y \in Providers : StartMigrate(x, y)
           \/ MigrateFile \/ MoveGet \/ MovePut \/ MovePutFails \/ MoveDelete \/ MoveUpdate
           \/ Complete

Serve == \/ \E h \in Handlers : (\E c \in Requests : Start(h, c)) \/ Change(h) \/ Read(h)
         \/ \E d \in Dirs : Mkdir(d)
         \/ \E x \in Providers : Lose(x)

MNext == /\ \/ Migrate
            \/ Serve /\ UNCHANGED migration
            \/ Crash /\ Stop /\ UNCHANGED <<moves, skipped>>
         /\ Chronicle

MSpec == MInit /\ [][MNext]_mVars

-----------------------------------------------------------------------------
(* The only copy of a shard of an acknowledged file is never taken away,   *)
(* whatever fails, wherever the program crashes, and when Migrate is run   *)
(* again afterwards: as long as no provider is lost and the file is not    *)
(* moved from a provider to that same one.                                 *)
Somewhere(p, s, v) == \E x \in Providers : blobs[x][p][s] = v
NoShardLost ==
    [][\A p \in Paths \ (contended' \cup crossed') :
          acked[p] # None /\ acked'[p] = acked[p] /\ dead' = {} =>
              \A s \in SlotsOf(acked[p]) :
                  Somewhere(p, s, acked[p]) => \E x \in Providers : blobs'[x][p][s] = acked[p]
      ]_mVars

(* When Migrate returns nil and has skipped nothing, the provider can be   *)
(* removed: no file but those changed meanwhile has a shard there, and     *)
(* with no failure ever, all shards are where the rows say, unless the two *)
(* providers were the same.                                                *)
Emptied ==
    mPc = "done" /\ ~skipped =>
        \A p \in Paths \ (contended \cup crossed \cup changed) :
            /\ \A s \in Slots : rows[p][s] # from
            /\ faults = 0 /\ acked[p] # None =>
                  \A s \in SlotsOf(acked[p]) : blobs[rows[p][s]][p][s] = acked[p]

(* A download that Migrate runs into finds its shards, although it still   *)
(* asks the providers that its map names: if nothing fails and the         *)
(* segments are spread, as many shards as providers are being left are     *)
(* missing, and M may be.                                                  *)
Apart(map) == \A s, t \in Slots : s # t /\ s[1] = t[1] /\ map[s] # None => map[s] # map[t]
ReadsThrough ==
    \A h \in Handlers :
        /\ pc[h] = "decode" /\ due[h] # None /\ call[h].path \notin contended \cup crossed
        /\ faults = 0 /\ Apart(plan[h]) /\ Cardinality(away[h]) <= M
        => Cardinality(Present(got[h])) >= K

-----------------------------------------------------------------------------
(* "Migrate moves all shards from one provider to another."  (If the two   *)
(* are the same, it deletes the shards that it has put and returns nil.)   *)
ShardsThere ==
    mPc = "done" /\ faults = 0 =>
        \A p \in Paths \ (contended \cup changed) : acked[p] # None =>
            \A s \in SlotsOf(acked[p]) : blobs[rows[p][s]][p][s] = acked[p]

(* "Migrate moves all shards from one provider to another."  (A shard that *)
(* cannot be read stays where it is, and Migrate returns nil.)             *)
MovesAll ==
    mPc = "done" => \A p \in Paths \ (contended \cup crossed \cup changed), s \in Slots :
                        rows[p][s] # from

(* "no two shards of the same segment on the same provider".  (The target  *)
(* may have one of the segment already.)                                   *)
SpreadAcrossProviders ==
    \A p \in Paths \ (contended \cup crossed) : Undisturbed(p) => Apart(rows[p])
=============================================================================
