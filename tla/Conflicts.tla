----------------------------- MODULE Conflicts -----------------------------
(***************************************************************************)
(* Conflicts between the operations of two devices (DetectConflicts and    *)
(* ResolveConflicts, internal/metadata/conflict.go).                       *)
(*                                                                         *)
(* Two devices that have seen the same files go on alone; each call of     *)
(* the file system logs an operation (internal/vfs/fs.go; module Vfs has   *)
(* all of its steps).  At any time their operations are compared, by       *)
(* either of them.  Files have contents: empty files are not logged.       *)
(***************************************************************************)
EXTENDS Integers, SequencesExt, FiniteSetsExt

CONSTANTS
    Devices,    \* two of them
    Paths,
    MaxOps      \* bound on the operations

ASSUME ConflictsAssumption == IsFiniteSet(Devices) /\ Cardinality(Devices) = 2 /\ MaxOps \in Nat

VARIABLES
    base,   \* the files that both had
    files,  \* the files that each device has now
    ops,    \* what each device has logged since
    clock

opsVars == <<base, files, ops, clock>>

Other(d) == CHOOSE e \in Devices : e # d

OpsInit ==
    /\ base \in SUBSET Paths
    /\ files = [d \in Devices |-> base]
    /\ ops = [d \in Devices |-> <<>>] /\ clock = 0

-----------------------------------------------------------------------------
(***************************************************************************)
(* What the devices do and log.                                            *)
(***************************************************************************)
(* NewVFS gives every file system this device ID; nothing sets another.    *)
deviceID == "vfs-default"

(* OpLog.Append; to is the payload of a rename, else the path.             *)
LogOp(d, type, p, to) ==
    /\ clock < MaxOps
    /\ clock' = clock + 1
    /\ ops' = [ops EXCEPT ![d] = Append(@, [device |-> deviceID, type |-> type, path |-> p,
                                            to |-> to, time |-> clock'])]
    /\ UNCHANGED base

Write(d, p) ==
    /\ files' = [files EXCEPT ![d] = @ \cup {p}]
    /\ LogOp(d, IF p \in files[d] THEN "update" ELSE "create", p, p)

(* Delete looks for nothing and logs in any case.                          *)
Delete(d, p) ==
    /\ files' = [files EXCEPT ![d] = @ \ {p}]
    /\ LogOp(d, "delete", p, p)

(* Rename logs the old path, unless the new one is taken.                  *)
Rename(d, p, q) ==
    /\ q \notin files[d] \/ p \notin files[d] \/ p = q
    /\ files' = [files EXCEPT ![d] = IF p \in @ THEN (@ \ {p}) \cup {q} ELSE @]
    /\ LogOp(d, "rename", p, q)

-----------------------------------------------------------------------------
(***************************************************************************)
(* DetectConflicts.  Each operation of A is compared with the last one of  *)
(* B at its path.                                                          *)
(***************************************************************************)
PathsOf(s) == {s[i].path : i \in DOMAIN s}

(* Mutant: the index keeps the first operation at a path.                  *)
FirstAt(s, p) == s[Min({i \in DOMAIN s : s[i].path = p})]

(* pathB[p].                                                               *)
LastAt(s, p) == s[Max({i \in DOMAIN s : s[i].path = p})]

(* Mutant: the two orders of an edit and a deletion are taken for one.     *)
KindsOneWay == [ee |-> {<<"update", "update">>}, cc |-> {<<"create", "create">>},
                ed |-> {<<"update", "delete">>}]

(* The pairs of types that are a conflict, by ConflictType.                *)
Kinds == [ee |-> {<<"update", "update">>}, cc |-> {<<"create", "create">>},
          ed |-> {<<"update", "delete">>, <<"delete", "update">>}]

Types(a, b) == <<a.type, b.type>>

Hit(a, B) == /\ a.path \in PathsOf(B)
             /\ \E kind \in DOMAIN Kinds : Types(a, LastAt(B, a.path)) \in Kinds[kind]

DetectConflicts(A, B) ==
    FlattenSeq([i \in DOMAIN A |-> IF Hit(A[i], B) THEN <<[opA |-> A[i], opB |-> LastAt(B, A[i].path)]>>
                                   ELSE <<>>])

(* Mutant: the later operation wins, and the copy is still that of B.      *)
AppliedLater(c) == IF c.opB.time > c.opA.time THEN c.opB ELSE c.opA

(* The operation that ResolveConflicts applies: the edit, else that of A.  *)
Applied(c) ==
    IF Types(c.opA, c.opB) \in Kinds.ed /\ c.opA.type = "delete" THEN c.opB ELSE c.opA

(* ResolveConflicts: what is applied, and of whom a conflict copy is made. *)
ResolveConflicts(C) ==
    [i \in DOMAIN C |-> [applied |-> Applied(C[i]),
                         copy |-> IF Types(C[i].opA, C[i].opB) \in Kinds.ed THEN {}
                                  ELSE {C[i].opB.device}]]

Found(d)    == DetectConflicts(ops[d], ops[Other(d)])
Resolved(d) == ResolveConflicts(Found(d))

-----------------------------------------------------------------------------
OpsOf(d) == ToSet(ops[d])
TouchedAt(p, types) == \A d \in Devices : \E o \in OpsOf(d) : o.path = p /\ o.type \in types
Latest(d, p) == CHOOSE o \in OpsOf(d) :
                    o.path = p /\ \A n \in OpsOf(d) : n.path = p => n.time <= o.time
LastTypes(p) == {Latest(d, p).type : d \in Devices}
Shared == {p \in Paths : \A d \in Devices : p \in PathsOf(ops[d])}
FoundAt(d, p) == \E i \in DOMAIN Found(d) : Found(d)[i].opA.path = p
RenamedAt(p) == \E d \in Devices : \E o \in OpsOf(d) : p \in {o.path, o.to} /\ o.type = "rename"

(* A file that one device has edited last and the other has deleted last   *)
(* is not lost: whoever compares, whatever came before, each resolution    *)
(* of it applies a version that has contents, and there is one.            *)
EditSurvives ==
    \A d \in Devices : \A p \in Shared :
        LastTypes(p) = {"update", "delete"} =>
            /\ FoundAt(d, p)
            /\ \A i \in DOMAIN Found(d) :
                  Found(d)[i].opA.path = p => Resolved(d)[i].applied.type # "delete"

(* What one device does not see the other does: if both have written a     *)
(* file last and no rename was from or to its path, at least one of them   *)
(* finds the conflict, although they may differ.                           *)
FoundByOne ==
    \A p \in Shared :
        LastTypes(p) \subseteq {"create", "update"} /\ ~RenamedAt(p) =>
            \E d \in Devices : FoundAt(d, p)

(* Of two edits the one is kept at the path, and of the last of the other  *)
(* device a copy is made.                                                  *)
BothKept ==
    \A d \in Devices : \A p \in Shared :
        LastTypes(p) = {"update"} =>
            \E i \in DOMAIN Found(d) :
                /\ Resolved(d)[i].applied = Latest(d, p)
                /\ Found(d)[i].opB = Latest(Other(d), p)
                /\ Resolved(d)[i].copy # {}

-----------------------------------------------------------------------------
(* "conflict from DeviceX".  (All devices log under the same device ID.)   *)
CopyNamesDevice ==
    \A d \in Devices : \A i \in DOMAIN Found(d) : Resolved(d)[i].copy \subseteq {Other(d)}

(* "Latest wins the path, other gets a conflict copy".  (The operation of  *)
(* the device that compares wins.)                                         *)
LatestWins ==
    \A d \in Devices : \A i \in DOMAIN Found(d) :
        Resolved(d)[i].copy # {} =>
            Resolved(d)[i].applied.time >= Found(d)[i].opB.time

(* "Both delete same file -> not a conflict".  (If the device that         *)
(* compares has edited the file before it deleted it, the edit is          *)
(* applied.)                                                               *)
BothDeleted ==
    \A d \in Devices : \A p \in Shared : LastTypes(p) = {"delete"} => ~FoundAt(d, p)

(* "both create same path -> conflict, both versions kept".  (Not if the   *)
(* other device has edited its file since.)                                *)
BothCreated ==
    \A d \in Devices : \A p \in Shared \ base :
        /\ TouchedAt(p, {"create"})
        /\ \A o \in OpsOf(d) \cup OpsOf(Other(d)) : o.path = p => o.type \in {"create", "update"}
        => FoundAt(d, p)
=============================================================================
