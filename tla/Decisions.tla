----------------------------- MODULE Decisions -----------------------------
(***************************************************************************)
(* What a device decides by itself from what it has before it: where to    *)
(* read a file from and how to put it together (Engine), which operations  *)
(* of two devices conflict and what becomes of them (Conflicts), what      *)
(* patches lead from one version of a file to another (Differ), and how    *)
(* two edited versions are merged (Merger).  None of these parts calls     *)
(* another: each behaviour is one of one part.                             *)
(***************************************************************************)
EXTENDS Engine, Conflicts, Differ, Merger

CONSTANTS
    MaxBytes,   \* bound on the contents that are compared
    MaxLines    \* bound on the texts that are merged

ASSUME DecisionsAssumption == MaxBytes \in Nat /\ MaxLines \in Nat

VARIABLES part, input

vars == <<part, input, engineVars, opsVars>>

Versions == {[old |-> old, new |-> new] : old \in DiffContents(MaxBytes), new \in DiffContents(MaxBytes)}
Edits    == [base : MergeTexts(MaxLines), ours : MergeTexts(MaxLines), theirs : MergeTexts(MaxLines)]

(* The parts that do not move are where they start.                        *)
EngineRests == map = [r \in Readers |-> CHOOSE pm \in Maps : TRUE]
OpsRest     == base = {}

Init ==
    /\ EngineInit /\ OpsInit
    /\ \/ part = "read"    /\ input = "none" /\ OpsRest
       \/ part = "compare" /\ input = "none" /\ EngineRests
       \/ part = "diff"    /\ EngineRests /\ OpsRest /\ input \in Versions
       \/ part = "merge"   /\ EngineRests /\ OpsRest /\ input \in Edits

Reading   == part = "read" /\ UNCHANGED <<part, input, opsVars>>
Comparing == part = "compare" /\ UNCHANGED <<part, input, engineVars>>

Next ==
    \/ Reading /\ PlaceFile
    \/ Reading /\ Tick
    \/ Reading /\ Restart
    \/ \E r \in Readers, pm \in Maps, unavailable \in SUBSET Providers :
          Reading /\ SelectForRead(r, pm, unavailable)
    \/ \E r \in Readers : Reading /\ Download(r)
    \/ \E d \in Devices, p \in Paths :
          \/ Comparing /\ Write(d, p)
          \/ Comparing /\ Delete(d, p)
          \/ \E q \in Paths : Comparing /\ Rename(d, p, q)

Spec == Init /\ [][Next]_vars

-----------------------------------------------------------------------------
Valid(s) == Range(s) \cap Invalid = {}

(* Patches lead from the old version to the new one, whichever diff the    *)
(* library finds, and at places that earlier patches have moved; also for  *)
(* bytes that are no text, if one version has a Nul.                       *)
Patched ==
    part = "diff" =>
        LET old == input.old  new == input.new
        IN  (isTextSafe(old) /\ isTextSafe(new) => Valid(old) /\ Valid(new)) =>
                \A patches \in Diff(old, new) : ApplyPatches(old, patches) = new

Ours   == ThreeWayMerge(input.base, input.ours, input.theirs)
Theirs == ThreeWayMerge(input.base, input.theirs, input.ours)

(* Two devices that merge each other's edits report conflicts at the same  *)
(* places, and if there are none they end up with the same text: merging   *)
(* does not itself make a difference that would have to be merged.         *)
Converges ==
    part = "merge" =>
        /\ {c.at : c \in Ours.conflicts} = {c.at : c \in Theirs.conflicts}
        /\ Ours.conflicts = {} => Ours.merged = Theirs.merged

(* No line that either side has written is dropped unseen: it is in the    *)
(* merged text, or the other side's conflicting line is and it is in the   *)
(* report of the conflict.                                                 *)
NoEditLost ==
    part = "merge" => \A i \in 1 .. MaxLines :
        /\ LET line == getLine(input.theirs, i)
           IN  line \notin {Blank, getLine(input.base, i)} =>
                   \/ line \in Range(Ours.merged)
                   \/ \E c \in Ours.conflicts : c.at = i /\ c.theirs = line
        /\ LET line == getLine(input.ours, i)
           IN  line \notin {Blank, getLine(input.base, i)} => line \in Range(Ours.merged)

-----------------------------------------------------------------------------
(* "Diff computes patches to transform old into new".  (Not where it takes *)
(* bytes that are no UTF-8 for text.)                                      *)
PatchedAlways ==
    part = "diff" => \A patches \in Diff(input.old, input.new) :
                         ApplyPatches(input.old, patches) = input.new

(* "A inserts at line 2, B inserts at line 5 -> auto-merge succeeds".      *)
(* (The lines after an insertion have all changed by their position.)      *)
InsertionsMerge ==
    part = "merge" =>
        \A i, j \in 1 .. Len(input.base) + 1, x, y \in Lines :
            /\ i < j /\ x # y
            /\ input.ours = InsertAt(input.base, i, x)
            /\ input.theirs = InsertAt(input.base, j, y)
            => Ours.conflicts = {}
=============================================================================
