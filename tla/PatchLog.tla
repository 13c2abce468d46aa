------------------------------ MODULE PatchLog ------------------------------
(***************************************************************************)
(* What a device keeps of its patches (PatchLog,                           *)
(* internal/livesync/patchlog.go) and of whole files (SnapshotManager,     *)
(* internal/livesync/snapshot.go), so that a file can be restored from its *)
(* latest snapshot and the patches since.                                  *)
(*                                                                         *)
(* Editors append patches, writers create snapshots, and the log is        *)
(* garbage-collected at any time up to LastSnapshotSeq.  A step is one SQL *)
(* statement or one backend call.  Only the rows of one device are kept:   *)
(* each device has numbers of its own.  The content of a file is how many  *)
(* edits have been made to it, and a patch is the edit that it makes: the  *)
(* IDs of the rows of a file are in the order of its edits.                *)
(***************************************************************************)
EXTENDS Integers, FiniteSets, SequencesExt

CONSTANTS
    Files,
    Editors,     \* goroutines that call Append
    Writers,     \* goroutines that call CreateSnapshot
    Providers,   \* SnapshotManager.providers, a sequence
    Threshold,   \* patchThreshold
    None,        \* no snapshot, no file
    MaxEdits,    \* bound on the edits of a file
    MaxFaults    \* bound on failed backend calls and restarts

ASSUME PatchLogAssumption == /\ Providers \in Seq(ToSet(Providers)) /\ Len(Providers) > 0
                             /\ IsInjective(Providers)
                             /\ Threshold \in Nat /\ MaxEdits \in Nat /\ MaxFaults \in Nat
                             /\ None \notin Nat /\ None \notin Files

Backends == ToSet(Providers)
Entry(edits, seq) == [edits |-> edits, seq |-> seq]
NoEntry == Entry(None, 0)

VARIABLES
    rows,       \* table patch_log
    num,        \* Append: the number read, not yet inserted, or 0
    target,     \* the file it is for
    snaps,      \* snaps[x][f]: .cloudfs/snapshots/<f>/latest.json at x
    lastSeqs,
    at,         \* CreateSnapshot: the provider the loop is at, or 0
    of,         \* the file it is for
    entry,      \* what it uploads
    faults

(* History: no guard reads them.                                           *)
VARIABLES
    written,    \* how many edits each file has had
    top,        \* highest number that a row has ever had
    reused,     \* a number was given out that was not above all before it
    unsaved     \* files of which a Put has failed or two snapshots were made at once

appendVars == <<num, target>>
createVars == <<at, of, entry>>
history    == <<written, top, reused, unsaved>>
logVars == <<rows, appendVars, snaps, lastSeqs, createVars, faults, history>>

LogInit ==
    /\ rows = {}
    /\ num = [t \in Editors |-> 0] /\ target = [t \in Editors |-> None]
    /\ snaps = [x \in Backends |-> [f \in Files |-> NoEntry]]
    /\ lastSeqs = [f \in Files |-> 0]
    /\ at = [w \in Writers |-> 0] /\ of = [w \in Writers |-> None]
    /\ entry = [w \in Writers |-> NoEntry]
    /\ faults = 0
    /\ written = [f \in Files |-> 0]
    /\ top = 0 /\ reused = FALSE /\ unsaved = {}

Fault == faults < MaxFaults /\ faults' = faults + 1

-----------------------------------------------------------------------------
(***************************************************************************)
(* PatchLog.                                                               *)
(***************************************************************************)
HighestSeq == Max({row.seq : row \in rows} \cup {0})

(* Append of a patch for f: SELECT MAX(seq), plus one.                     *)
Number(t, f) ==
    /\ num[t] = 0
    /\ written[f] + Cardinality({u \in Editors : target[u] = f}) < MaxEdits
    /\ num' = [num EXCEPT ![t] = HighestSeq + 1]
    /\ target' = [target EXCEPT ![t] = f]
    /\ UNCHANGED <<rows, snaps, lastSeqs, createVars, faults, history>>

(* Append, the INSERT: the file has had one more edit.                     *)
Insert(t) ==
    LET f == target[t]
    IN  /\ num[t] # 0
        /\ written' = [written EXCEPT ![f] = @ + 1]
        /\ rows' = rows \cup {[file |-> f, seq |-> num[t], edit |-> written[f] + 1]}
        /\ top' = IF num[t] > top THEN num[t] ELSE top
        /\ reused' = (reused \/ num[t] <= top)
        /\ num' = [num EXCEPT ![t] = 0]
        /\ target' = [target EXCEPT ![t] = None]
        /\ UNCHANGED <<snaps, lastSeqs, createVars, faults, unsaved>>

Covered(row, f) == row.file = f /\ row.seq <= lastSeqs[f]

(* GarbageCollect up to the last snapshot of f.                            *)
GarbageCollect(f) ==
    /\ \E row \in rows : Covered(row, f)
    /\ rows' = {row \in rows : ~Covered(row, f)}
    /\ UNCHANGED <<appendVars, snaps, lastSeqs, createVars, faults, history>>

(* Mutant: the patch with the number asked for comes again.                *)
SinceFrom(f, n) == {row \in rows : row.file = f /\ row.seq >= n}

PatchesSince(f, n) == {row \in rows : row.file = f /\ row.seq > n}

-----------------------------------------------------------------------------
(***************************************************************************)
(* SnapshotManager.                                                        *)
(***************************************************************************)
ShouldSnapshot(patchCount) == patchCount >= Threshold

(* The last of some rows of a file.                                        *)
Latest(since) == CHOOSE row \in since : \A other \in since : other.edit <= row.edit

(* History: a second snapshot of f before the first is stored.             *)
Meet(f) == IF \E v \in Writers : of[v] = f THEN unsaved \cup {f} ELSE unsaved

(* Mutant: the number is recorded before the snapshot is stored.           *)
StartSnapshotRecorded(w, f) ==
    LET since == PatchesSince(f, lastSeqs[f])
    IN  /\ at[w] = 0 /\ since # {} /\ ShouldSnapshot(Cardinality(since))
        /\ at' = [at EXCEPT ![w] = 1]
        /\ of' = [of EXCEPT ![w] = f]
        /\ entry' = [entry EXCEPT ![w] = Entry(written[f], Latest(since).seq)]
        /\ lastSeqs' = [lastSeqs EXCEPT ![f] = Latest(since).seq]
        /\ unsaved' = Meet(f)
        /\ UNCHANGED <<rows, appendVars, snaps, faults, written, top, reused>>

(* A writer takes the content of f and the number of its last patch.       *)
StartSnapshot(w, f) ==
    LET since == PatchesSince(f, lastSeqs[f])
    IN  /\ at[w] = 0 /\ since # {} /\ ShouldSnapshot(Cardinality(since))
        /\ at' = [at EXCEPT ![w] = 1]
        /\ of' = [of EXCEPT ![w] = f]
        /\ entry' = [entry EXCEPT ![w] = Entry(written[f], Latest(since).seq)]
        /\ unsaved' = Meet(f)
        /\ UNCHANGED <<rows, appendVars, snaps, lastSeqs, faults, written, top, reused>>

Put(w) ==
    /\ at[w] \in DOMAIN Providers
    /\ snaps' = [snaps EXCEPT ![Providers[at[w]]][of[w]] = entry[w]]
    /\ at' = [at EXCEPT ![w] = @ + 1]
    /\ UNCHANGED <<rows, appendVars, lastSeqs, of, entry, faults, history>>

(* The error is ignored; the snapshot may have been stored all the same.   *)
PutFails(w) ==
    LET x == Providers[at[w]]
        f == of[w]
    IN  /\ at[w] \in DOMAIN Providers /\ Fault
        /\ \E e \in {entry[w], snaps[x][f]} : snaps' = [snaps EXCEPT ![x][f] = e]
        /\ at' = [at EXCEPT ![w] = @ + 1]
        /\ unsaved' = unsaved \cup {f}
        /\ UNCHANGED <<rows, appendVars, lastSeqs, of, entry, written, top, reused>>

Done(w) ==
    /\ at[w] = Len(Providers) + 1
    /\ lastSeqs' = [lastSeqs EXCEPT ![of[w]] = entry[w].seq]
    /\ at' = [at EXCEPT ![w] = 0]
    /\ of' = [of EXCEPT ![w] = None]
    /\ entry' = [entry EXCEPT ![w] = NoEntry]
    /\ UNCHANGED <<rows, appendVars, snaps, faults, history>>

(* RestoreSnapshot: the first provider that has one.                       *)
RestoreSnapshot(f) ==
    LET have == {i \in DOMAIN Providers : snaps[Providers[i]][f] # NoEntry}
    IN  IF have = {} THEN 0 ELSE snaps[Providers[Min(have)]][f].edits

-----------------------------------------------------------------------------
(* The program starts again with the same database.                        *)
Restart ==
    /\ Fault
    /\ num' = [t \in Editors |-> 0] /\ target' = [t \in Editors |-> None]
    /\ lastSeqs' = [f \in Files |-> 0]
    /\ at' = [w \in Writers |-> 0] /\ of' = [w \in Writers |-> None]
    /\ entry' = [w \in Writers |-> NoEntry]
    /\ UNCHANGED <<rows, snaps, history>>

LogNext == \/ \E t \in Editors : Insert(t) \/ \E f \in Files : Number(t, f)
           \/ \E f \in Files : GarbageCollect(f)
           \/ \E w \in Writers : \/ \E f \in Files : StartSnapshot(w, f)
                                 \/ Put(w) \/ PutFails(w) \/ Done(w)
           \/ Restart

LogSpec == LogInit /\ [][LogNext]_logVars

-----------------------------------------------------------------------------
Logged(f) == {row.edit : row \in {r \in rows : r.file = f}}
Lost(f) == {e \in 1 .. written[f] : e > RestoreSnapshot(f)} \ Logged(f)

(* Each edit is in the snapshot that a restore finds or in the log: while  *)
(* a snapshot is being stored, when the log is collected meanwhile, and    *)
(* after a restart.  (Unless numbers were used twice, a Put failed or two  *)
(* snapshots of the file were stored at once.)                             *)
NothingLost == ~reused => \A f \in Files \ unsaved : Lost(f) = {}

(* The snapshot and the patches since it are the file: none is missing and *)
(* none is applied again, whatever has been collected, as long as the      *)
(* program runs.                                                           *)
Recovered(f) == {row.edit : row \in PatchesSince(f, lastSeqs[f])}
Recoverable ==
    ~reused =>
        \A f \in Files \ unsaved :
            lastSeqs[f] # 0 /\ (\A w \in Writers : of[w] # f) =>
                Recovered(f) = RestoreSnapshot(f) + 1 .. written[f]

-----------------------------------------------------------------------------
(* "GarbageCollect removes patches covered by a snapshot at the given      *)
(* version."  (Numbers start over when the log is empty.)                  *)
CollectsCovered == \A f \in Files : Lost(f) = {}

(* "RestoreSnapshot retrieves the latest snapshot for a file."  (The first *)
(* provider may have missed it.)                                           *)
RestoresLatest ==
    \A f \in Files : (\A w \in Writers : of[w] # f) =>
        \A x \in Backends : snaps[x][f] # NoEntry => snaps[x][f].edits <= RestoreSnapshot(f)

(* A snapshot is "permanent until superseded by newer snapshot".  (Two     *)
(* writers store theirs in the other order.)                               *)
OnlySuperseded ==
    [][\A f \in Files : RestoreSnapshot(f)' >= RestoreSnapshot(f)]_logVars
=============================================================================
