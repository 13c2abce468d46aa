------------------------------ MODULE Account ------------------------------
(***************************************************************************)
(* What the backends of Google Drive, OneDrive and S3 have in common: the  *)
(* calls of the interface StorageBackend (internal/provider/provider.go),  *)
(* by several goroutines, each a series of requests that carry a token,    *)
(* and the files and folders of the account, which outlive the program.    *)
(*                                                                         *)
(* A key is a sequence of parts; "/" and "__" are parts like others.       *)
(***************************************************************************)
EXTENDS TokenSource, SequencesExt, FiniteSetsExt

CONSTANTS
    Keys,
    Data,       \* contents of blobs
    Stored,     \* those of blobs of earlier runs
    Absent,     \* no blob
    Chunks,     \* requests an upload session takes, 0 for a small upload
    PageSize,   \* files that the answer to a listing holds at most
    MaxCalls    \* bound on calls

ASSUME AccountAssumption ==
    /\ IsFiniteSet(Callers) /\ IsFiniteSet(Keys) /\ IsFiniteSet(Data)
    /\ Stored \subseteq Data /\ Absent \notin Data
    /\ Chunks \in [Data -> Nat] /\ PageSize \in Nat \ {0} /\ MaxCalls \in Nat

VARIABLES
    folders,    \* base folders in the account, by their IDs
    files,      \* [id, name, folder, data]; names need not differ
    base,       \* Backend.baseFolderID (Drive)
    call,       \* what each caller has asked for
    pc,         \* the request it sends next
    then,       \* the request after ensureBaseFolder
    dir, id,    \* the folder and the file that the call works on
    left,       \* requests left of an upload session
    out,        \* its answer
    calls

(* History: no guard reads them.                                           *)
VARIABLES
    latest,     \* what was acknowledged last under a name
    unsure,     \* names a failed call has left with what it had got to
    mixed,      \* names with two changes at once, or one that was told nothing
    blind,      \* the call was not shown all the files that it asked for
    seen        \* the contents of the name since the call began

locals  == <<call, pc, then, dir, id, left, out>>
account == <<folders, files, base>>
history == <<latest, unsure, mixed, seen>>
vars == <<tokenVars, account, locals, calls, history, blind>>

-----------------------------------------------------------------------------
(* keyToFileName and mapKey; fileNameToKey and unmapKey; HasPrefix.  A key *)
(* of S3 is its own name.                                                  *)
Swapped(s, x, y) == [i \in DOMAIN s |-> IF s[i] = x THEN y ELSE s[i]]
KeyOf(name)      == IF kind = "s3" THEN name ELSE Swapped(name, "__", "/")

NameOf == [k \in Kinds |-> [key \in Keys |-> IF k = "s3" THEN key ELSE Swapped(key, "/", "__")]]
NamesOf == [k \in Kinds |-> {NameOf[k][key] : key \in Keys}]

FileName(key) == NameOf[kind][key]
Names         == NamesOf[kind]

Called(name) == {f \in files : f.name = name}
Shown(name)  == IF Called(name) = {} THEN {Absent} ELSE {f.data : f \in Called(name)}

NoFolder == 0
NoFile   == 0
NoCall   == [op |-> "none", key |-> <<>>, data |-> Absent]

(* An ID that no file has and nobody holds.                                *)
NewFile == Min((1 .. Cardinality(files) + Cardinality(Callers) + 1)
               \ ({f.id : f \in files} \cup {id[c] : c \in Callers}))
NewFolder == Cardinality(folders) + 1

(* An answer is the set of contents of which it is true; an error says     *)
(* nothing.                                                                *)
Gone   == {Absent}
Some   == Data
Failed == Data \cup {Absent}

(* The account is new, or has what an earlier run of the program has left. *)
AccountInit ==
    /\ \/ folders = {} /\ files = {}
       \/ /\ folders = {1}
          /\ \E n \in Names, x \in Stored :
                files = {[id |-> 1, name |-> n, folder |-> 1, data |-> x]}
    /\ base = NoFolder
    /\ call = [c \in Callers |-> NoCall] /\ pc = [c \in Callers |-> "idle"]
    /\ then = [c \in Callers |-> "none"]
    /\ dir = [c \in Callers |-> NoFolder] /\ id = [c \in Callers |-> NoFile]
    /\ left = [c \in Callers |-> 0] /\ out = [c \in Callers |-> {}]
    /\ calls = 0
    /\ latest = [n \in Names |-> CHOOSE x \in Failed : Shown(n) = {x}]
    /\ unsure = {} /\ mixed = {}
    /\ blind = [c \in Callers |-> FALSE]
    /\ seen = [c \in Callers |-> {}]

-----------------------------------------------------------------------------
(***************************************************************************)
(* Calls and their requests.                                               *)
(***************************************************************************)
Active(c) == pc[c] \notin {"idle", "done"}
Name(c)   == FileName(call[c].key)

Goto(c, request) == pc' = [pc EXCEPT ![c] = request]

Answer(c, contents) ==
    /\ Goto(c, "done") /\ out' = [out EXCEPT ![c] = contents]
    /\ then' = [then EXCEPT ![c] = "none"] /\ left' = [left EXCEPT ![c] = 0]
    /\ dir' = [dir EXCEPT ![c] = NoFolder] /\ id' = [id EXCEPT ![c] = NoFile]
    /\ UNCHANGED call

(* The call of c ends with an error.                                       *)
Fail(c) == Answer(c, Failed)

(* The server carries out a request, or refuses it: its token has ended,   *)
(* or some other fault.                                                    *)
Serve(c)  == Active(c) /\ Spend(c) /\ UNCHANGED <<faults, calls>> /\ Good(c)
Refuse(c) == Active(c) /\ Spend(c) /\ UNCHANGED calls
             /\ ((~Good(c) /\ UNCHANGED faults) \/ Fault)

Put(c, name, folder) ==
    files' = files \cup {[id |-> NewFile, name |-> name, folder |-> folder, data |-> call[c].data]}
(* The new contents of a name that only one file can have.                 *)
Replace(c, folder) ==
    IF Called(Name(c)) = {} THEN Put(c, Name(c), folder)
    ELSE files' = {[f EXCEPT !.data = IF f.name = Name(c) THEN call[c].data ELSE @] : f \in files}
Take(i) == files' = {f \in files : f.id # i}

(* History: c has been shown all that it asked for, if complete is TRUE.   *)
Told(c, complete) == blind' = [blind EXCEPT ![c] = ~complete]

(* The answer to a request that may have been carried out does not come.   *)
Unanswered(c, Effect(_)) ==
    /\ Active(c) /\ Spend(c) /\ Fault
    /\ Effect(c) \/ UNCHANGED <<folders, files>>
    /\ Fail(c) /\ UNCHANGED <<base, calls, blind>>

(* The token source at work for a request; an error of it is the call's.   *)
FetchToken(c) ==
    /\ Active(c)
    /\ Refresh(c) \/ Answered(c) \/ Save(c) \/ (Locked /\ SaveFails(c))
    /\ UNCHANGED <<account, locals, calls, blind>>
TokenFails(c) ==
    /\ Active(c)
    /\ RefreshRefused(c) \/ AnswerLost(c) \/ (~Locked /\ SaveFails(c))
    /\ Fail(c) /\ UNCHANGED <<account, calls, blind>>

Respond(c) ==
    /\ pc[c] = "done"
    /\ Goto(c, "idle")
    /\ call' = [call EXCEPT ![c] = NoCall] /\ out' = [out EXCEPT ![c] = {}]
    /\ blind' = [blind EXCEPT ![c] = FALSE]
    /\ UNCHANGED <<tokenVars, account, then, dir, id, left, calls>>

Wait == Tick /\ UNCHANGED <<account, locals, calls, blind>>

Restart ==
    /\ Reload
    /\ base' = NoFolder
    /\ call' = [c \in Callers |-> NoCall] /\ pc' = [c \in Callers |-> "idle"]
    /\ then' = [c \in Callers |-> "none"]
    /\ dir' = [c \in Callers |-> NoFolder] /\ id' = [c \in Callers |-> NoFile]
    /\ left' = [c \in Callers |-> 0] /\ out' = [c \in Callers |-> {}]
    /\ blind' = [c \in Callers |-> FALSE]
    /\ UNCHANGED <<folders, files, calls>>

-----------------------------------------------------------------------------
(***************************************************************************)
(* History.                                                                *)
(***************************************************************************)
Changing(c, n) == Active(c) /\ call[c].op \in {"put", "delete"} /\ Name(c) = n
Ended(c, n)    == Changing(c, n) /\ pc'[c] = "done" /\ out'[c] # Failed
GivenUp(c, n)  == Changing(c, n) /\ (pc'[c] = "idle" \/ (pc'[c] = "done" /\ out'[c] = Failed))
Overlap(n)     == \E c, d \in Callers : c # d /\ Changing(c, n) /\ Changing(d, n)

Remember ==
    /\ mixed' = {n \in Names : \/ n \in mixed \/ Overlap(n)'
                               \/ \E c \in Callers : Changing(c, n) /\ blind'[c]}
    /\ unsure' = {n \in Names : \E c \in Callers : GivenUp(c, n)}
                 \cup {n \in unsure : \A c \in Callers : ~Ended(c, n)}
    /\ latest' = [n \in Names |-> IF \E c \in Callers : Ended(c, n)
                                  THEN CHOOSE x \in Failed :
                                           \E c \in Callers : Ended(c, n) /\ out'[c] = {x}
                                  ELSE latest[n]]
    /\ seen' = [c \in Callers |-> IF pc'[c] = "idle" THEN {}
                                  ELSE IF pc[c] = "done" THEN seen[c]
                                  ELSE seen[c] \cup (Shown(Name(c)))']
=============================================================================
