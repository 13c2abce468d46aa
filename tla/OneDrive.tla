------------------------------ MODULE OneDrive ------------------------------
(***************************************************************************)
(* The OneDrive backend (internal/provider/onedrive/onedrive.go).          *)
(*                                                                         *)
(* Graph knows files by their path: a Put of a name replaces its contents  *)
(* at once, or with the last request of an upload session, and makes the   *)
(* base folder if need be.  Only Delete works in two requests.  Every      *)
(* status is looked at.                                                    *)
(***************************************************************************)
EXTENDS Account

Root == 1

OStart(c) ==
    /\ pc[c] = "idle" /\ calls < MaxCalls /\ calls' = calls + 1
    /\ \E op \in {"put", "get", "delete", "exists", "list"}, key \in Keys,
          data \in Data \cup {Absent} :
          /\ (op = "put") = (data # Absent)
          /\ call' = [call EXCEPT ![c] = [op |-> op, key |-> key, data |-> data]]
          /\ Goto(c, CASE op = "put"    -> IF Chunks[data] = 0 THEN "content" ELSE "session"
                       [] op = "delete" -> "item"
                       [] op = "list"   -> "children"
                       [] OTHER         -> op)
    /\ UNCHANGED <<tokenVars, account, then, dir, id, left, out, blind>>

Ask(c, request)     == pc[c] = request /\ Serve(c)
Refused(c, request) == pc[c] = request /\ Refuse(c) /\ Fail(c)

Replaced(c) == Replace(c, Root) /\ folders' = {Root}

putSmall(c) ==
    /\ \/ Ask(c, "content") /\ Replaced(c) /\ Answer(c, {call[c].data})
       \/ Refused(c, "content") /\ UNCHANGED <<folders, files>>
    /\ UNCHANGED <<base, blind>>

(* createUploadSession.                                                    *)
Session(c) ==
    /\ \/ /\ Ask(c, "session")
          /\ left' = [left EXCEPT ![c] = Chunks[call[c].data]]
          /\ Goto(c, "chunk") /\ UNCHANGED <<call, then, dir, id, out>>
       \/ Refused(c, "session")
    /\ UNCHANGED <<account, blind>>

putLarge(c) ==
    /\ \/ /\ Ask(c, "chunk") /\ left[c] > 1
          /\ left' = [left EXCEPT ![c] = @ - 1]
          /\ UNCHANGED <<folders, files, call, pc, then, dir, id, out>>
       \/ Ask(c, "chunk") /\ left[c] = 1 /\ Replaced(c) /\ Answer(c, {call[c].data})
       \/ Refused(c, "chunk") /\ UNCHANGED <<folders, files>>
    /\ UNCHANGED <<base, blind>>

Get(c) ==
    /\ (Ask(c, "get") /\ Answer(c, Shown(Name(c)))) \/ Refused(c, "get")
    /\ UNCHANGED <<account, blind>>

(* Mutant: an answer that is not 200 is taken for 404.                     *)
ExistsOrNot(c) ==
    /\ \/ Ask(c, "exists") /\ Answer(c, IF Called(Name(c)) = {} THEN Gone ELSE Some)
       \/ pc[c] = "exists" /\ Refuse(c) /\ Answer(c, Gone)
    /\ UNCHANGED <<account, blind>>

Exists(c) ==
    /\ \/ Ask(c, "exists") /\ Answer(c, IF Called(Name(c)) = {} THEN Gone ELSE Some)
       \/ Refused(c, "exists")
    /\ UNCHANGED <<account, blind>>

(* Delete: the item's ID, then the deletion of that ID.                    *)
FindItem(c) ==
    /\ \/ /\ Ask(c, "item")
          /\ \/ Called(Name(c)) = {} /\ Answer(c, Gone)
             \/ \E f \in Called(Name(c)) :
                   /\ id' = [id EXCEPT ![c] = f.id] /\ Goto(c, "remove")
                   /\ UNCHANGED <<call, then, dir, left, out>>
       \/ Refused(c, "item")
    /\ UNCHANGED <<account, blind>>

Removed(c) == Take(id[c]) /\ UNCHANGED folders
DeleteItem(c) ==
    /\ \/ /\ Ask(c, "remove") /\ \E f \in files : f.id = id[c]
          /\ Removed(c) /\ Answer(c, Gone)
       \/ /\ Ask(c, "remove") /\ \A f \in files : f.id # id[c]
          /\ Fail(c) /\ UNCHANGED <<folders, files>>
       \/ Refused(c, "remove") /\ UNCHANGED <<folders, files>>
    /\ UNCHANGED <<base, blind>>

(* List, for the key itself as the prefix: one page of the folder, and of  *)
(* it the names that begin with the mapped prefix.                         *)
Listable(c) == KeyOf(Name(c)) = call[c].key
List(c) ==
    /\ \/ /\ Ask(c, "children") /\ folders # {}
          /\ \E page \in kSubset(Min({PageSize, Cardinality(files)}), files) :
                Answer(c, IF \E f \in page : f.name = Name(c) /\ Listable(c)
                          THEN Some ELSE Gone)
          /\ Told(c, Cardinality(files) <= PageSize /\ Listable(c))
       \/ Ask(c, "children") /\ folders = {} /\ Fail(c) /\ UNCHANGED blind
       \/ Refused(c, "children") /\ UNCHANGED blind
    /\ UNCHANGED account

(* What a request may have done although no answer came.                   *)
OEffect(c) ==
    \/ pc[c] = "content" /\ Replaced(c)
    \/ pc[c] = "chunk" /\ left[c] = 1 /\ Replaced(c)
    \/ pc[c] = "remove" /\ Removed(c)
=============================================================================
