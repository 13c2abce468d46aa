------------------------------ MODULE Accounts ------------------------------
(***************************************************************************)
(* A storage account behind one of three backends: bootstrap makes the one *)
(* of the configuration.  What all promise of their blobs.                 *)
(***************************************************************************)
EXTENDS Account

D == INSTANCE GDrive
O == INSTANCE OneDrive
S == INSTANCE S3

Init == TokenInit /\ AccountInit

(* The token source at work, and what the callers do next to the backend.  *)
Common(c) ==
    \/ FetchToken(c) /\ Remember
    \/ TokenFails(c) /\ Remember
    \/ Respond(c) /\ Remember

Drive(c) ==
    \/ kind = "gdrive" /\ D!GStart(c) /\ Remember
    \/ kind = "gdrive" /\ D!SearchFolder(c) /\ Remember
    \/ kind = "gdrive" /\ D!CreateFolder(c) /\ Remember
    \/ kind = "gdrive" /\ D!Find(c) /\ Remember
    \/ kind = "gdrive" /\ D!Erase(c) /\ Remember
    \/ kind = "gdrive" /\ D!Upload(c) /\ Remember
    \/ kind = "gdrive" /\ D!Download(c) /\ Remember
    \/ kind = "gdrive" /\ D!List(c) /\ Remember
    \/ kind = "gdrive" /\ Unanswered(c, D!GEffect) /\ Remember

Graph(c) ==
    \/ kind = "onedrive" /\ O!OStart(c) /\ Remember
    \/ kind = "onedrive" /\ O!putSmall(c) /\ Remember
    \/ kind = "onedrive" /\ O!Session(c) /\ Remember
    \/ kind = "onedrive" /\ O!putLarge(c) /\ Remember
    \/ kind = "onedrive" /\ O!Get(c) /\ Remember
    \/ kind = "onedrive" /\ O!Exists(c) /\ Remember
    \/ kind = "onedrive" /\ O!FindItem(c) /\ Remember
    \/ kind = "onedrive" /\ O!DeleteItem(c) /\ Remember
    \/ kind = "onedrive" /\ O!List(c) /\ Remember
    \/ kind = "onedrive" /\ Unanswered(c, O!OEffect) /\ Remember

Bucket(c) ==
    \/ kind = "s3" /\ S!SStart(c) /\ Remember
    \/ kind = "s3" /\ S!Change(c) /\ Remember
    \/ kind = "s3" /\ S!Get(c) /\ Remember
    \/ kind = "s3" /\ S!Exists(c) /\ Remember
    \/ kind = "s3" /\ S!List(c) /\ Remember
    \/ kind = "s3" /\ S!SRefused(c) /\ Remember
    \/ kind = "s3" /\ S!Again(c) /\ Remember
    \/ kind = "s3" /\ Unanswered(c, S!SEffect) /\ Remember

Next ==
    \/ Wait /\ Remember
    \/ Restart /\ Remember
    \/ \E c \in Callers :
          \/ Common(c)
          \/ Drive(c)
          \/ Graph(c)
          \/ Bucket(c)

Spec == Init /\ [][Next]_vars

-----------------------------------------------------------------------------
Quiet(n) == n \notin mixed \cup unsure /\ \A c \in Callers : ~Changing(c, n)

(* There is one base folder.  (Two calls that find none both make one.)    *)
OneFolder == Cardinality(folders) <= 1

(* Overwrite semantics: after a Put was acknowledged there is one file of  *)
(* the name, with its contents, and after a Delete none; a failure in      *)
(* between (the old file deleted, the new one not uploaded) is made good   *)
(* by the next Put that succeeds.  Left out are names that two calls       *)
(* change at once or that a call did not find because its search was       *)
(* refused, and accounts with two base folders.                            *)
OneFile ==
    OneFolder => \A n \in Names : Quiet(n) =>
        {f.data : f \in Called(n)} = {latest[n]} \ {Absent} /\ Cardinality(Called(n)) <= 1

(* What a call answers was true at some time while it ran: whatever other  *)
(* calls do meanwhile, whatever is refused or lost, and whether the token  *)
(* was good or not.  Left out are calls that were not shown what they      *)
(* searched for, and deletions of a name that has several files.           *)
AnswersTrue ==
    OneFolder => \A c \in Callers :
        /\ pc[c] = "done" /\ ~blind[c]
        /\ call[c].op = "delete" => Name(c) \notin mixed
        => out[c] \cap seen[c] # {}

-----------------------------------------------------------------------------
(* "Delete existing file if present (overwrite semantics)".  (A search     *)
(* that is refused finds none.)                                            *)
Overwrites == \A n \in Names : Cardinality(Called(n)) <= 1

(* "Token returns a valid access token, refreshing if needed".  (Not after *)
(* a start from a file that is older than the life it gives.)              *)
ValidToken == ~slow /\ ~Due => now < ts.access
=============================================================================
