--------------------------------- MODULE S3 ---------------------------------
(***************************************************************************)
(* The S3 backend (internal/provider/s3/s3.go).                            *)
(*                                                                         *)
(* Each call is one request, which the client of the SDK sends again when  *)
(* it fails or is not answered.  With one key a listing has one page.      *)
(***************************************************************************)
EXTENDS Account

SStart(c) ==
    /\ pc[c] = "idle" /\ calls < MaxCalls /\ calls' = calls + 1
    /\ \E op \in {"put", "get", "delete", "exists", "list"}, key \in Keys,
          data \in Data \cup {Absent} :
          /\ (op = "put") = (data # Absent)
          /\ call' = [call EXCEPT ![c] = [op |-> op, key |-> key, data |-> data]]
          /\ Goto(c, op)
    /\ UNCHANGED <<tokenVars, account, then, dir, id, left, out, blind>>

Written(c) == Replace(c, NoFolder) /\ UNCHANGED folders
Removed(c) == files' = files \ Called(Name(c)) /\ UNCHANGED folders
SEffect(c) == (pc[c] = "put" /\ Written(c)) \/ (pc[c] = "delete" /\ Removed(c))

(* PutObject and DeleteObject; the deletion of nothing succeeds.           *)
Change(c) ==
    /\ Serve(c) /\ SEffect(c)
    /\ Answer(c, IF pc[c] = "put" THEN {call[c].data} ELSE Gone)
    /\ UNCHANGED <<base, blind>>

Held(c) == Called(Name(c)) # {}

(* Get gives one error for all that may go wrong.                          *)
Get(c) ==
    /\ pc[c] = "get" /\ Serve(c)
    /\ IF Held(c) THEN Answer(c, Shown(Name(c))) ELSE Fail(c)
    /\ UNCHANGED <<account, blind>>

(* Every error that has "404" in its text is taken for an absence, be it   *)
(* in the key or in the request's ID.                                      *)
Exists(c) ==
    /\ pc[c] = "exists"
    /\ \/ Serve(c) /\ Answer(c, IF Held(c) THEN Some ELSE Gone) /\ UNCHANGED blind
       \/ Refuse(c) /\ Answer(c, Gone) /\ Told(c, FALSE)
    /\ UNCHANGED account

List(c) ==
    /\ pc[c] = "list" /\ Serve(c)
    /\ Answer(c, IF Held(c) THEN Some ELSE Gone)
    /\ UNCHANGED <<account, blind>>

(* Any request may also fail for good.                                     *)
SRefused(c) == Refuse(c) /\ Fail(c) /\ UNCHANGED <<account, blind>>

(* It was carried out, or not, and is sent again.                          *)
Again(c) ==
    /\ Active(c) /\ Fault
    /\ SEffect(c) \/ UNCHANGED <<folders, files>>
    /\ UNCHANGED <<kind, now, source, base, locals, calls, blind>>
=============================================================================
