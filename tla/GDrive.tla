------------------------------- MODULE GDrive -------------------------------
(***************************************************************************)
(* The Google Drive backend (internal/provider/gdrive/gdrive.go).          *)
(*                                                                         *)
(* Drive knows files by ID and lets names repeat, so each call searches    *)
(* for the base folder, unless it is cached, and for the file.  Searches   *)
(* look at no status: a refusal reads as an answer with no files.  A Put   *)
(* deletes the file that it finds and uploads a new one.                   *)
(***************************************************************************)
EXTENDS Account

Search(c, request) == pc[c] = request /\ Serve(c)
Blank(c, request)  == pc[c] = request /\ Refuse(c)

(* ensureBaseFolder, then a request.  The cached ID is read without a lock.*)
Ensure(c, request) ==
    IF base # NoFolder
    THEN /\ Goto(c, request) /\ dir' = [dir EXCEPT ![c] = base] /\ UNCHANGED then
    ELSE /\ Goto(c, "folder") /\ then' = [then EXCEPT ![c] = request] /\ UNCHANGED dir

GStart(c) ==
    /\ pc[c] = "idle" /\ calls < MaxCalls /\ calls' = calls + 1
    /\ \E op \in {"put", "get", "delete", "exists", "list"}, key \in Keys,
          data \in Data \cup {Absent} :
          /\ (op = "put") = (data # Absent)
          /\ call' = [call EXCEPT ![c] = [op |-> op, key |-> key, data |-> data]]
          /\ Ensure(c, IF op = "list" THEN "list" ELSE "find")
    /\ UNCHANGED <<tokenVars, account, id, left, out, blind>>

InFolder(c, f) ==
    /\ base' = f /\ dir' = [dir EXCEPT ![c] = f]
    /\ Goto(c, then[c]) /\ then' = [then EXCEPT ![c] = "none"]
    /\ UNCHANGED <<call, id, left, out>>

SearchFolder(c) ==
    /\ \/ Search(c, "folder") /\ \E f \in folders : InFolder(c, f)
       \/ /\ (Search(c, "folder") /\ folders = {}) \/ Blank(c, "folder")
          /\ Goto(c, "create") /\ UNCHANGED <<base, call, then, dir, id, left, out>>
    /\ UNCHANGED <<folders, files, blind>>

(* createFolder; the body of a refusal has no ID.                          *)
MakeFolder == folders' = folders \cup {NewFolder}
CreateFolder(c) ==
    /\ \/ Search(c, "create") /\ MakeFolder /\ InFolder(c, NewFolder)
       \/ Blank(c, "create") /\ InFolder(c, NoFolder) /\ UNCHANGED folders
    /\ UNCHANGED <<files, blind>>

(* Mutant: a Put uploads next to the file it has found.                    *)
FoundKeeping(c, i) ==
    CASE call[c].op = "exists" -> Answer(c, Some)
      [] call[c].op = "put"    -> Ensure(c, "upload") /\ UNCHANGED <<call, id, left, out>>
      [] OTHER -> /\ id' = [id EXCEPT ![c] = i]
                  /\ Goto(c, IF call[c].op = "get" THEN "download" ELSE "erase")
                  /\ UNCHANGED <<call, then, dir, left, out>>

(* findFile has returned an ID.                                            *)
Found(c, i) ==
    IF call[c].op = "exists" THEN Answer(c, Some)
    ELSE /\ id' = [id EXCEPT ![c] = i]
         /\ Goto(c, IF call[c].op = "get" THEN "download" ELSE "erase")
         /\ UNCHANGED <<call, then, dir, left, out>>

(* findFile has returned "".                                               *)
NotFound(c) ==
    IF call[c].op = "put"
    THEN Ensure(c, "upload") /\ UNCHANGED <<call, id, left, out>>
    ELSE Answer(c, Gone)

Find(c) ==
    LET F == {f \in Called(Name(c)) : f.folder = dir[c]}
    IN  /\ \/ /\ Search(c, "find") /\ Told(c, dir[c] # NoFolder)
              /\ (F = {} /\ NotFound(c)) \/ \E f \in F : Found(c, f.id)
           \/ Blank(c, "find") /\ Told(c, FALSE) /\ NotFound(c)
        /\ UNCHANGED account

(* deleteByID; a file that is not there any more is an error.              *)
Erased(c) == Take(id[c]) /\ UNCHANGED folders
Erase(c) ==
    /\ \/ /\ Search(c, "erase") /\ \E f \in files : f.id = id[c]
          /\ Erased(c)
          /\ IF call[c].op = "put"
             THEN /\ Ensure(c, "upload") /\ id' = [id EXCEPT ![c] = NoFile]
                  /\ UNCHANGED <<call, left, out>>
             ELSE Answer(c, Gone)
       \/ /\ (Search(c, "erase") /\ \A f \in files : f.id # id[c]) \/ Blank(c, "erase")
          /\ Fail(c) /\ UNCHANGED <<folders, files>>
    /\ UNCHANGED <<base, blind>>

(* The upload of Put; into no folder it is refused.                        *)
Uploaded(c) == dir[c] # NoFolder /\ Put(c, Name(c), dir[c]) /\ UNCHANGED folders
Upload(c) ==
    /\ \/ Search(c, "upload") /\ Uploaded(c) /\ Answer(c, {call[c].data})
       \/ /\ (Search(c, "upload") /\ dir[c] = NoFolder) \/ Blank(c, "upload")
          /\ Fail(c) /\ UNCHANGED <<folders, files>>
    /\ UNCHANGED <<base, blind>>

Download(c) ==
    /\ \/ /\ Search(c, "download")
          /\ \E f \in files : f.id = id[c] /\ Answer(c, {f.data})
       \/ /\ (Search(c, "download") /\ \A f \in files : f.id # id[c]) \/ Blank(c, "download")
          /\ Fail(c)
    /\ UNCHANGED <<account, blind>>

(* List, for the key itself as the prefix: one page of the files that the  *)
(* query matches, and of these the ones whose key begins with the prefix.  *)
Listed(c, F) == \E f \in F : KeyOf(f.name) = call[c].key
Listable(c)  == KeyOf(Name(c)) = call[c].key
List(c) ==
    LET F == {f \in Called(Name(c)) : f.folder = dir[c]}
    IN  /\ \/ /\ Search(c, "list")
              /\ \E page \in kSubset(Min({PageSize, Cardinality(F)}), F) :
                    Answer(c, IF Listed(c, page) THEN Some ELSE Gone)
              /\ Told(c, dir[c] # NoFolder /\ Cardinality(F) <= PageSize /\ Listable(c))
           \/ Blank(c, "list") /\ Answer(c, Gone) /\ Told(c, FALSE)
        /\ UNCHANGED account

(* What a request may have done although no answer came.                   *)
GEffect(c) ==
    \/ pc[c] = "create" /\ MakeFolder /\ UNCHANGED files
    \/ pc[c] = "erase" /\ Erased(c)
    \/ pc[c] = "upload" /\ Uploaded(c)
=============================================================================
