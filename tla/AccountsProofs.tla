--------------------------- MODULE AccountsProofs ---------------------------
(***************************************************************************)
(* What the token sources of Drive and OneDrive promise the requests that  *)
(* they serve, and what the three backends promise of their blobs, for all *)
(* numbers of callers, keys, contents, calls and faults.                   *)
(*                                                                         *)
(* The steps of the accounts are first reduced to those of the token       *)
(* source (SourceSteps); its invariants are then about the source alone.   *)
(* The blobs have an invariant of their own, AccountInv.  A lemma for each *)
(* thing that a request can do to a call (begin, go on, answer, fail) says *)
(* what the request has to see to, and a lemma for each action of a        *)
(* backend that it does.                                                   *)
(***************************************************************************)
EXTENDS Accounts, FiniteSetTheorems, WellFoundedInduction, TLAPS

(* The source at work for a caller, or not at work.                        *)
Working(c) ==
    \/ Refresh(c) \/ RefreshRefused(c) \/ AnswerLost(c) \/ Answered(c)
    \/ Save(c) \/ SaveFails(c)
Resting == /\ UNCHANGED <<kind, newest, tokensFile, ts, mu, reply, stage>>
           /\ UNCHANGED <<fresh, slow, behind, unsaved>>
           /\ now' = now \/ now' = now + 1

SourceStep == Resting \/ Reload \/ \E c \in Callers : Working(c)

Replies == [access : Nat, refresh : Nat, at : Nat]

TypeOK ==
    /\ now \in Nat /\ newest \in Nat
    /\ tokensFile \in [access : Nat, life : Nat, refresh : Nat]
    /\ ts \in [access : Nat, refresh : Nat, expiry : Nat]
    /\ stage \in [Callers -> {"out", "asked", "save"}]
    /\ reply \in [Callers -> Replies \cup {None}]

(* What a caller asked for ends a life after it was made.                  *)
Asked == \A c \in Callers : stage[c] = "asked" => /\ reply[c] \in Replies
                                                  /\ reply[c].access = reply[c].at + Life

(* The source thinks a token to end at most the margin too late.           *)
Timely == fresh /\ ~slow => ts.expiry <= ts.access + Margin

(* A refresh of OneDrive's source is alone with the server: what it was    *)
(* given is the newest, and before it was given anything the source had    *)
(* the newest.                                                             *)
Alone ==
    Rotates =>
        /\ \A c \in Callers : stage[c] # "out" <=> mu = c
        /\ \A c \in Callers : stage[c] = "asked" => reply[c].refresh = newest
        /\ (\A c \in Callers : stage[c] # "asked") /\ ~behind => ts.refresh = newest
        /\ (\A c \in Callers : stage[c] = "out") /\ ~behind /\ ~unsaved
              => tokensFile.refresh = newest

IInv == TypeOK /\ Asked /\ Timely /\ Alone

-----------------------------------------------------------------------------
(* Every step of the accounts is one of the token source.                  *)
LEMMA SpendRests ==
  ASSUME NEW c \in Callers, Spend(c)
  PROVE  Resting
  BY DEF Spend, Resting

LEMMA SourceRests ==
  ASSUME UNCHANGED <<kind, now, source>>
  PROVE  Resting
  BY DEF source, Resting

LEMMA CommonSteps ==
  ASSUME NEW c \in Callers, FetchToken(c) \/ TokenFails(c) \/ Respond(c)
  PROVE  SourceStep
  <1>1. CASE Respond(c)
    BY <1>1, SourceRests DEF Respond, tokenVars, SourceStep
  <1>2. CASE FetchToken(c)
    BY <1>2 DEF FetchToken, SourceStep, Working
  <1>3. CASE TokenFails(c)
    BY <1>3 DEF TokenFails, SourceStep, Working
  <1> QED BY <1>1, <1>2, <1>3

LEMMA DriveServes ==
  ASSUME NEW c \in Callers, D!Serve(c) \/ D!Refuse(c)
  PROVE  Resting
  BY DEF D!Serve, D!Refuse, D!Spend, Resting

LEMMA DriveSteps ==
  ASSUME NEW c \in Callers, Drive(c)
  PROVE  Resting
  <1>1. ASSUME D!GStart(c) PROVE Resting
    BY <1>1 DEF D!GStart, D!tokenVars, D!source, Resting
  <1>2. ASSUME D!SearchFolder(c) \/ D!CreateFolder(c) \/ D!Find(c) \/ D!Erase(c)
        PROVE  Resting
    <2>1. D!Serve(c) \/ D!Refuse(c)
      BY <1>2 DEF D!SearchFolder, D!CreateFolder, D!Find, D!Erase, D!Search, D!Blank
    <2> QED BY <2>1, DriveServes
  <1>3. ASSUME D!Upload(c) \/ D!Download(c) \/ D!List(c)
        PROVE  Resting
    <2>1. D!Serve(c) \/ D!Refuse(c)
      BY <1>3 DEF D!Upload, D!Download, D!List, D!Search, D!Blank
    <2> QED BY <2>1, DriveServes
  <1>4. ASSUME Unanswered(c, D!GEffect) PROVE Resting
    BY <1>4, SpendRests DEF Unanswered
  <1> QED BY <1>1, <1>2, <1>3, <1>4 DEF Drive

LEMMA GraphServes ==
  ASSUME NEW c \in Callers, O!Serve(c) \/ O!Refuse(c)
  PROVE  Resting
  BY DEF O!Serve, O!Refuse, O!Spend, Resting

LEMMA GraphSteps ==
  ASSUME NEW c \in Callers, Graph(c)
  PROVE  Resting
  <1>1. ASSUME O!OStart(c) PROVE Resting
    BY <1>1 DEF O!OStart, O!tokenVars, O!source, Resting
  <1>2. ASSUME O!putSmall(c) \/ O!Session(c) \/ O!putLarge(c) \/ O!Get(c)
        PROVE  Resting
    <2>1. O!Serve(c) \/ O!Refuse(c)
      BY <1>2 DEF O!putSmall, O!Session, O!putLarge, O!Get, O!Ask, O!Refused
    <2> QED BY <2>1, GraphServes
  <1>3. ASSUME O!Exists(c) \/ O!FindItem(c) \/ O!DeleteItem(c) \/ O!List(c)
        PROVE  Resting
    <2>1. O!Serve(c) \/ O!Refuse(c)
      BY <1>3 DEF O!Exists, O!FindItem, O!DeleteItem, O!List, O!Ask, O!Refused
    <2> QED BY <2>1, GraphServes
  <1>4. ASSUME Unanswered(c, O!OEffect) PROVE Resting
    BY <1>4, SpendRests DEF Unanswered
  <1> QED BY <1>1, <1>2, <1>3, <1>4 DEF Graph

LEMMA BucketServes ==
  ASSUME NEW c \in Callers, S!Serve(c) \/ S!Refuse(c)
  PROVE  Resting
  BY DEF S!Serve, S!Refuse, S!Spend, Resting

LEMMA BucketSteps ==
  ASSUME NEW c \in Callers, Bucket(c)
  PROVE  Resting
  <1>1. ASSUME S!SStart(c) PROVE Resting
    BY <1>1 DEF S!SStart, S!tokenVars, S!source, Resting
  <1>2. ASSUME S!Change(c) \/ S!Get(c) \/ S!Exists(c) \/ S!List(c) \/ S!SRefused(c)
        PROVE  Resting
    <2>1. S!Serve(c) \/ S!Refuse(c)
      BY <1>2 DEF S!Change, S!Get, S!Exists, S!List, S!SRefused
    <2> QED BY <2>1, BucketServes
  <1>3. ASSUME Unanswered(c, S!SEffect) PROVE Resting
    BY <1>3, SpendRests DEF Unanswered
  <1>4. ASSUME S!Again(c) PROVE Resting
    BY <1>4 DEF S!Again, S!source, Resting
  <1> QED BY <1>1, <1>2, <1>3, <1>4 DEF Bucket

LEMMA SourceSteps == [Next]_vars => SourceStep
  <1> SUFFICES ASSUME [Next]_vars PROVE SourceStep
    OBVIOUS
  <1>1. CASE Wait
    BY <1>1 DEF Wait, Tick, source, SourceStep, Resting
  <1>2. CASE Restart
    BY <1>2 DEF Restart, SourceStep
  <1>3. CASE UNCHANGED vars
    BY <1>3, SourceRests DEF vars, tokenVars, SourceStep
  <1>4. ASSUME NEW c \in Callers, Common(c) PROVE SourceStep
    BY <1>4, CommonSteps DEF Common
  <1> QED BY <1>1, <1>2, <1>3, <1>4, DriveSteps, GraphSteps, BucketSteps DEF Next, SourceStep

-----------------------------------------------------------------------------
LEMMA InitIInv == Init => IInv
  <1> SUFFICES ASSUME TokenInit PROVE IInv
    BY DEF Init
  <1>1. tokensFile \in [access : Nat, life : Nat, refresh : Nat] /\ tokensFile.refresh = 0
    BY TokenAssumption DEF TokenInit, Files
  <1>2. TypeOK
    BY <1>1 DEF TokenInit, TypeOK, newTokenSource
  <1>3. Alone
    BY <1>1, TokenAssumption DEF TokenInit, Alone, newTokenSource
  <1> QED BY <1>2, <1>3 DEF IInv, TokenInit, Asked, Timely

LEMMA RestingIInv ==
  ASSUME IInv, Resting
  PROVE  IInv'
  <1>1. TypeOK'
    BY DEF IInv, TypeOK, Resting
  <1>2. Asked' /\ Timely' /\ Alone'
    BY DEF IInv, Asked, Timely, Alone, Rotates, Resting
  <1> QED BY <1>1, <1>2 DEF IInv

LEMMA ReloadIInv ==
  ASSUME IInv, Reload
  PROVE  IInv'
  <1>1. TypeOK'
    BY DEF IInv, TypeOK, Reload, newTokenSource
  <1>2. Asked' /\ Timely'
    BY DEF Asked, Timely, Reload
  <1>3. Alone'
    BY TokenAssumption DEF Alone, Rotates, Reload, newTokenSource
  <1> QED BY <1>1, <1>2, <1>3 DEF IInv

LEMMA RefreshIInv ==
  ASSUME IInv, NEW c \in Callers, Refresh(c)
  PROVE  IInv'
  <1>1. /\ newest' = (IF Rotates THEN newest + 1 ELSE newest)
        /\ reply' = [reply EXCEPT ![c] = [access |-> now + Life, refresh |-> newest', at |-> now]]
        /\ stage' = [stage EXCEPT ![c] = "asked"]
        /\ mu' = (IF Locked THEN c ELSE mu)
        /\ UNCHANGED <<kind, now, tokensFile, ts, fresh, slow, behind, unsaved>>
        /\ stage[c] = "out" /\ (Locked => mu = None)
    BY DEF Refresh, MayEnter
  <1>2. /\ now \in Nat /\ newest \in Nat /\ newest' \in Nat /\ Life \in Nat
        /\ reply \in [Callers -> Replies \cup {None}]
        /\ stage \in [Callers -> {"out", "asked", "save"}]
    BY <1>1, TokenAssumption DEF IInv, TypeOK
  <1>3. reply'[c] = [access |-> now + Life, refresh |-> newest', at |-> now] /\ stage'[c] = "asked"
    BY <1>1, <1>2
  <1>4. TypeOK'
    <2>1. reply' \in [Callers -> Replies \cup {None}]
      BY <1>1, <1>2 DEF Replies
    <2> QED BY <1>1, <1>2, <2>1 DEF IInv, TypeOK
  <1>5. Asked'
    <2> SUFFICES ASSUME NEW d \in Callers, stage'[d] = "asked"
                 PROVE  reply'[d] \in Replies /\ reply'[d].access = reply'[d].at + Life
      BY DEF Asked
    <2>1. CASE d = c
      BY <2>1, <1>2, <1>3 DEF Replies
    <2>2. CASE d # c
      BY <2>2, <1>1, <1>2 DEF IInv, Asked
    <2> QED BY <2>1, <2>2
  <1>6. Timely'
    BY <1>1 DEF IInv, Timely
  <1>7. Alone'
    <2> SUFFICES ASSUME Rotates' PROVE Alone'
      BY DEF Alone
    <2>1. Rotates /\ Locked /\ mu = None /\ mu' = c
      BY <1>1 DEF Rotates, Locked
    <2>2. \A d \in Callers : stage[d] = "out"
      BY <2>1, TokenAssumption DEF IInv, Alone
    <2>3. \A d \in Callers : stage'[d] = IF d = c THEN "asked" ELSE "out"
      BY <1>1, <1>2, <2>2
    <2> QED BY <1>3, <2>1, <2>3 DEF Alone
  <1> QED BY <1>4, <1>5, <1>6, <1>7 DEF IInv

LEMMA AnswerLostIInv ==
  ASSUME IInv, NEW c \in Callers, AnswerLost(c)
  PROVE  IInv'
  <1>1. /\ reply' = [reply EXCEPT ![c] = None] /\ stage' = [stage EXCEPT ![c] = "out"]
        /\ mu' = (IF mu = c THEN None ELSE mu) /\ behind' = (behind \/ Rotates)
        /\ stage[c] = "asked"
        /\ UNCHANGED <<kind, now, newest, tokensFile, ts, fresh, slow, unsaved>>
    BY DEF AnswerLost, Leave
  <1>2. TypeOK'
    BY <1>1 DEF IInv, TypeOK
  <1>3. Asked' /\ Timely'
    BY <1>1 DEF IInv, TypeOK, Asked, Timely
  <1>4. Alone'
    <2> SUFFICES ASSUME Rotates' PROVE Alone'
      BY DEF Alone
    <2>1. Rotates /\ behind'
      BY <1>1 DEF Rotates
    <2>2. \A d \in Callers : stage[d] # "out" <=> d = c
      BY <1>1, <2>1 DEF IInv, Alone
    <2>3. \A d \in Callers : stage'[d] = "out"
      BY <1>1, <2>2 DEF IInv, TypeOK
    <2>4. mu' = None
      BY <1>1, <2>1 DEF IInv, Alone
    <2> QED BY <2>1, <2>3, <2>4, TokenAssumption DEF Alone
  <1> QED BY <1>2, <1>3, <1>4 DEF IInv

LEMMA AnsweredIInv ==
  ASSUME IInv, NEW c \in Callers, Answered(c)
  PROVE  IInv'
  <1>1. /\ ts' = [access |-> reply[c].access, expiry |-> now + Life,
                  refresh |-> IF Rotates THEN reply[c].refresh ELSE ts.refresh]
        /\ stage' = [stage EXCEPT ![c] = "save"] /\ reply' = [reply EXCEPT ![c] = None]
        /\ slow' = (slow \/ now > reply[c].at + Margin) /\ stage[c] = "asked"
        /\ UNCHANGED <<kind, now, newest, tokensFile, mu, unsaved>>
    BY DEF Answered
  <1>2. /\ reply[c] \in Replies
        /\ reply[c].access = reply[c].at + Life
        /\ now \in Nat /\ Life \in Nat /\ Margin \in Nat
    BY <1>1, TokenAssumption DEF IInv, TypeOK, Asked, Replies
  <1>3. TypeOK'
    <2>1. ts' \in [access : Nat, refresh : Nat, expiry : Nat]
      BY <1>1, <1>2 DEF IInv, TypeOK, Replies
    <2> QED BY <1>1, <2>1 DEF IInv, TypeOK
  <1>4. Asked'
    BY <1>1 DEF IInv, TypeOK, Asked
  <1>5. Timely'
    <2> SUFFICES ASSUME ~slow' PROVE ts'.expiry <= ts'.access + Margin
      BY DEF Timely
    <2>1. ~ now > reply[c].at + Margin
      BY <1>1
    <2>2. /\ ts'.expiry = now + Life /\ ts'.access = reply[c].at + Life
          /\ reply[c].at \in Nat
      BY <1>1, <1>2 DEF Replies
    <2> QED BY <1>2, <2>1, <2>2
  <1>6. Alone'
    <2> SUFFICES ASSUME Rotates' PROVE Alone'
      BY DEF Alone
    <2>1. Rotates
      BY <1>1 DEF Rotates
    <2>2. mu = c /\ reply[c].refresh = newest /\ \A d \in Callers : stage[d] # "out" <=> d = c
      BY <1>1, <2>1 DEF IInv, Alone
    <2>3. \A d \in Callers : stage'[d] = IF d = c THEN "save" ELSE "out"
      BY <1>1, <2>2 DEF IInv, TypeOK
    <2>4. ts'.refresh = newest' /\ mu' = c
      BY <1>1, <2>1, <2>2
    <2> QED BY <2>3, <2>4 DEF Alone
  <1> QED BY <1>3, <1>4, <1>5, <1>6 DEF IInv

LEMMA SavedIInv ==
  ASSUME IInv, NEW c \in Callers, Save(c) \/ SaveFails(c)
  PROVE  IInv'
  <1>1. /\ stage' = [stage EXCEPT ![c] = "out"] /\ mu' = (IF mu = c THEN None ELSE mu)
        /\ stage[c] = "save"
        /\ \/ unsaved' = FALSE /\ tokensFile' = [access |-> ts.access, life |-> Life,
                                                 refresh |-> ts.refresh]
           \/ unsaved' = TRUE /\ tokensFile' = tokensFile
        /\ UNCHANGED <<kind, now, newest, ts, reply, fresh, slow, behind>>
    BY DEF Save, SaveFails, Return, Leave
  <1>2. TypeOK'
    <2>1. tokensFile' \in [access : Nat, life : Nat, refresh : Nat]
      BY <1>1, TokenAssumption DEF IInv, TypeOK
    <2> QED BY <1>1, <2>1 DEF IInv, TypeOK
  <1>3. Asked' /\ Timely'
    BY <1>1 DEF IInv, TypeOK, Asked, Timely
  <1>4. Alone'
    <2> SUFFICES ASSUME Rotates' PROVE Alone'
      BY DEF Alone
    <2>1. Rotates
      BY <1>1 DEF Rotates
    <2>2. mu = c /\ \A d \in Callers : stage[d] # "out" <=> d = c
      BY <1>1, <2>1 DEF IInv, Alone
    <2>3. \A d \in Callers : stage[d] # "asked" /\ stage'[d] = "out"
      BY <1>1, <2>2 DEF IInv, TypeOK
    <2>4. mu' = None
      BY <1>1, <2>2
    <2>5. ~behind => ts.refresh = newest
      BY <2>1, <2>3 DEF IInv, Alone
    <2>6. ~behind' => ts'.refresh = newest' /\ (~unsaved' => tokensFile'.refresh = newest')
      BY <1>1, <2>5
    <2> QED BY <2>3, <2>4, <2>6, TokenAssumption DEF Alone
  <1> QED BY <1>2, <1>3, <1>4 DEF IInv

LEMMA NextIInv == IInv /\ [Next]_vars => IInv'
  <1> SUFFICES ASSUME IInv, SourceStep PROVE IInv'
    BY SourceSteps
  <1>1. ASSUME NEW c \in Callers, RefreshRefused(c) PROVE IInv'
    BY <1>1, SourceRests, RestingIInv DEF RefreshRefused
  <1> QED BY <1>1, RestingIInv, ReloadIInv, RefreshIInv, AnswerLostIInv, AnsweredIInv, SavedIInv
          DEF SourceStep, Working

LEMMA Invariance == Spec => []IInv
  BY InitIInv, NextIInv, PTL DEF Spec

(* A token that the source hands out without refreshing it is still good,  *)
(* whichever refreshes overlapped, once the source has refreshed and as    *)
(* long as no answer took longer than the margin.                          *)
THEOREM TokensLive == Spec => []HandsOutLive
  <1>1. IInv => HandsOutLive
    <2> SUFFICES ASSUME IInv, fresh, ~slow, ~Due PROVE now < ts.access
      BY DEF HandsOutLive
    <2>1. now \in Nat /\ ts.expiry \in Nat /\ ts.access \in Nat /\ Margin \in Nat
      BY TokenAssumption DEF IInv, TypeOK
    <2>2. ts.expiry <= ts.access + Margin /\ ~ now >= ts.expiry - Margin
      BY DEF IInv, Timely, Due
    <2> QED BY <2>1, <2>2
  <1> QED BY <1>1, Invariance, PTL

(* The mutex of OneDrive's source keeps its refresh token the newest, in   *)
(* memory and in the file.                                                 *)
THEOREM NewestRefreshKept == Spec => []NewestKept
  <1>1. IInv => NewestKept
    BY DEF IInv, Alone, NewestKept
  <1> QED BY <1>1, Invariance, PTL

-----------------------------------------------------------------------------
(***************************************************************************)
(* The blobs.  What an account is like, and where a call is in its course. *)
(***************************************************************************)
Requests == {"idle", "done", "none", "folder", "create", "find", "erase", "upload", "download",
             "list", "content", "session", "chunk", "get", "exists", "item", "remove",
             "children", "put", "delete"}
Calls == [op : {"put", "get", "delete", "exists", "list"}, key : Keys, data : Data \cup {Absent}]
Blobs == [id : Nat \ {0}, name : Names, folder : Nat, data : Data]

AccountType ==
    /\ kind \in Kinds
    /\ folders = 1 .. Cardinality(folders) /\ Cardinality(folders) \in Nat
    /\ IsFiniteSet(files) /\ files \subseteq Blobs
    /\ call \in [Callers -> Calls \cup {NoCall}] /\ pc \in [Callers -> Requests]
    /\ then \in [Callers -> Requests] /\ dir \in [Callers -> Nat] /\ id \in [Callers -> Nat]
    /\ out \in [Callers -> SUBSET Failed] /\ blind \in [Callers -> BOOLEAN]
    /\ base \in Nat

(* The requests that the calls of a backend may send.                      *)
Serves(b) ==
    CASE b = "gdrive" ->
           {<<"put", "find">>, <<"put", "erase">>, <<"put", "upload">>, <<"get", "find">>,
            <<"get", "download">>, <<"delete", "find">>, <<"delete", "erase">>,
            <<"exists", "find">>, <<"list", "list">>}
      [] b = "onedrive" ->
           {<<"put", "content">>, <<"put", "session">>, <<"put", "chunk">>, <<"get", "get">>,
            <<"exists", "exists">>, <<"delete", "item">>, <<"delete", "remove">>,
            <<"list", "children">>}
      [] OTHER -> {<<o, o>> : o \in {"put", "get", "delete", "exists", "list"}}

Searching(c) == kind = "gdrive" /\ pc[c] \in {"folder", "create"}
InCourse(c) ==
    /\ pc[c] # "idle" => call[c] \in Calls /\ (call[c].op = "put" => call[c].data \in Data)
    /\ ~Active(c) => id[c] = NoFile
    /\ Active(c) => <<call[c].op, IF Searching(c) THEN then[c] ELSE pc[c]>> \in Serves(kind)

FolderOf ==
    /\ kind # "gdrive" => 2 \notin folders
    /\ kind = "gdrive" => /\ base \in folders \cup {NoFolder}
                          /\ \A c \in Callers : dir[c] \in folders \cup {NoFolder}
                          /\ \A f \in files : f.folder \in folders

(* IDs are used once, also those that a call still holds.                  *)
IdsDiffer  == \A f, g \in files : f.id = g.id => f = g
Holding(c) == Active(c) => \A f \in files : f.id = id[c] => f.name = Name(c)

Shape == AccountType /\ (\A c \in Callers : InCourse(c) /\ Holding(c)) /\ FolderOf /\ IdsDiffer

(* Of a name that is not mixed: one call changes it at a time, it has one  *)
(* file at most and none when an upload is about to come, and when no call *)
(* is changing it the file holds what was acknowledged last.               *)
Single(n)   == \A f, g \in Called(n) : f = g
Contents(n) == {f.data : f \in Called(n)}
Uploading(c) == /\ kind = "gdrive" /\ call[c].op = "put"
                /\ pc[c] = "upload" \/ (Searching(c) /\ then[c] = "upload")

Lone    == \A n \in Names \ mixed : ~Overlap(n)
OneEach == OneFolder => \A n \in Names \ mixed : Single(n)
Cleared == OneFolder => \A c \in Callers :
               Uploading(c) /\ Name(c) \notin mixed => Called(Name(c)) = {}
Acked   == OneFolder => \A n \in Names \ (mixed \cup unsure) :
               (\A c \in Callers : ~Changing(c, n)) => Contents(n) = {latest[n]} \ {Absent}

BlobInv == Lone /\ OneEach /\ Cleared /\ Acked /\ AnswersTrue

AccountInv == Shape /\ BlobInv

-----------------------------------------------------------------------------
(***************************************************************************)
(* What any step does to the names that it is not about.                   *)
(***************************************************************************)
(* A step of c, who need not be a caller when nobody takes it.             *)
Own(c) ==
    /\ kind' = kind
    /\ \A d \in Callers \ {c} : /\ pc'[d] = pc[d] /\ call'[d] = call[d] /\ then'[d] = then[d]
                                /\ dir'[d] = dir[d] /\ id'[d] = id[d] /\ out'[d] = out[d]
                                /\ blind'[d] = blind[d]
    /\ c \in Callers => /\ pc[c] # "idle" /\ pc'[c] # "idle" => call'[c] = call[c]
                        /\ pc[c] = "done" => pc'[c] = "idle"
                        /\ pc[c] = "idle" => pc'[c] # "done"

Only(c) ==
    \/ files' = files
    \/ /\ c \in Callers /\ Changing(c, Name(c)) /\ pc'[c] # "idle"
       /\ \A n \in Names : n # Name(c) => Called(n)' = Called(n)

(* What the step has to see to for the name of c.                          *)
Sound(c) ==
    OneFolder' => \A n \in Names : c \in Callers /\ n = Name(c)' =>
        /\ files' # files /\ n \notin mixed' => Single(n)'
        /\ Uploading(c)' /\ n \notin mixed' => Called(n)' = {}
        /\ /\ pc'[c] = "done" /\ out'[c] # Failed
           /\ call'[c].op \in {"put", "delete"} /\ n \notin mixed'
           => \E x \in Failed : out'[c] = {x} /\ Contents(n)' = {x} \ {Absent}
        /\ pc'[c] = "done" /\ ~blind'[c] /\ (call'[c].op = "delete" => n \notin mixed')
           => out'[c] \cap Shown(n)' # {}

LEMMA NamesStay == kind' = kind => Names' = Names
  BY DEF Names

LEMMA NameOfCall ==
  ASSUME Shape, NEW c \in Callers, pc[c] # "idle"
  PROVE  Name(c) \in Names
  <1>1. kind \in Kinds /\ call[c].key \in Keys
    BY DEF Shape, AccountType, InCourse, Calls
  <1>. QED
    BY <1>1 DEF Name, FileName, Names, NamesOf, NameOf

LEMMA MixedGrows ==
  ASSUME Remember, kind' = kind, NEW n \in Names, n \notin mixed'
  PROVE  n \notin mixed /\ ~Overlap(n)' /\ \A c \in Callers : Changing(c, n) => ~blind'[c]
  BY DEF Remember

LEMMA LoneStep ==
  ASSUME Remember, kind' = kind
  PROVE  Lone'
  BY NamesStay DEF Remember, Lone

LEMMA OneEachStep ==
  ASSUME Shape, Remember, OneEach, OneFolder' => OneFolder, NEW c, Own(c), Only(c), Sound(c)
  PROVE  OneEach'
  <1>. SUFFICES ASSUME OneFolder', NEW n \in Names, n \notin mixed' PROVE Single(n)'
    BY NamesStay DEF OneEach, Own
  <1>1. n \notin mixed /\ Single(n)
    BY MixedGrows DEF OneEach, Own
  <1>2. CASE Called(n)' = Called(n)
    BY <1>1, <1>2 DEF Single
  <1>3. CASE Called(n)' # Called(n)
    <2>1. files' # files
      BY <1>3 DEF Called
    <2>2. c \in Callers /\ n = Name(c) /\ Active(c) /\ pc'[c] # "idle"
      BY <1>3, <2>1 DEF Only, Changing
    <2>3. Name(c)' = Name(c)
      BY <2>2 DEF Own, Active, Name, FileName
    <2>. QED
      BY <2>1, <2>2, <2>3 DEF Sound
  <1>. QED
    BY <1>2, <1>3

LEMMA SameCall ==
  ASSUME NEW c, Own(c), NEW d \in Callers, d # c
  PROVE  /\ Name(d)' = Name(d) /\ Uploading(d)' = Uploading(d)
         /\ \A n : Changing(d, n)' = Changing(d, n)
  <1>1. /\ pc'[d] = pc[d] /\ call'[d] = call[d] /\ then'[d] = then[d] /\ kind' = kind
    BY DEF Own
  <1>2. Name(d)' = Name(d)
    BY <1>1 DEF Name, FileName
  <1>. QED
    BY <1>1, <1>2 DEF Uploading, Searching, Changing, Active

LEMMA ClearedStep ==
  ASSUME Shape, Shape', Remember, Lone, Cleared, OneFolder' => OneFolder,
         NEW c, Own(c), Only(c), Sound(c)
  PROVE  Cleared'
  <1>. SUFFICES ASSUME OneFolder', NEW d \in Callers, NEW n, n = Name(d)', Uploading(d)', n \notin mixed'
                PROVE  Called(n)' = {}
    <2>. HIDE DEF Called, Uploading, Name
    <2>. QED
      BY DEF Cleared
  <1>1. n \in Names' /\ Names' = Names
    <2>1. pc'[d] # "idle"
      BY DEF Uploading, Searching
    <2>. QED
      BY <2>1, NameOfCall, NamesStay DEF Own, Shape, AccountType, InCourse, Calls, Name, FileName, Names, NamesOf, NameOf
  <1>2. CASE d = c
    BY <1>1, <1>2 DEF Sound
  <1>3. CASE d # c
    <2>1. n = Name(d) /\ Uploading(d)
      BY <1>3, SameCall
    <2>2. n \notin mixed
      BY <1>1, MixedGrows DEF Own
    <2>3. Called(n) = {}
      BY <2>1, <2>2 DEF Cleared
    <2>4. CASE files' = files
      BY <2>3, <2>4 DEF Called
    <2>5. CASE files' # files
      <3>1. Changing(d, n)
        BY <2>1 DEF Uploading, Changing, Active, Searching
      <3>2. n # Name(c)
        BY <1>1, <1>3, <2>2, <2>5, <3>1 DEF Only, Lone, Overlap
      <3>. QED
        BY <1>1, <2>3, <2>5, <3>2 DEF Only
    <2>. QED
      BY <2>4, <2>5
  <1>. QED
    BY <1>2, <1>3

LEMMA AckedStep ==
  ASSUME Shape, Remember, Lone, Acked, OneFolder' => OneFolder, NEW c, Own(c), Only(c), Sound(c)
  PROVE  Acked'
  <1>. SUFFICES ASSUME OneFolder', NEW n \in Names, n \notin mixed', n \notin unsure',
                       \A d \in Callers : ~Changing(d, n)'
                PROVE  Contents(n)' = {latest'[n]} \ {Absent}
    BY NamesStay DEF Acked, Own
  <1>1. n \notin mixed
    BY MixedGrows DEF Own
  <1>2. /\ \A d \in Callers : ~GivenUp(d, n)
        /\ n \notin unsure \/ \E d \in Callers : Ended(d, n)
    BY DEF Remember
  <1>3. latest'[n] = IF \E d \in Callers : Ended(d, n)
                     THEN CHOOSE x \in Failed : \E d \in Callers : Ended(d, n) /\ out'[d] = {x}
                     ELSE latest[n]
    BY DEF Remember
  <1>4. CASE \E d \in Callers : Changing(d, n)
    <2>1. c \in Callers /\ Changing(c, n) /\ \A d \in Callers : Changing(d, n) => d = c
      BY <1>4, SameCall, <1>1 DEF Lone, Overlap
    <2>2. pc'[c] \in {"idle", "done"}
      <3>. SUFFICES ASSUME pc'[c] \notin {"idle", "done"} PROVE FALSE
        OBVIOUS
      <3>1. call'[c] = call[c] /\ kind' = kind
        BY <2>1 DEF Own, Changing, Active
      <3>. QED
        BY <2>1, <3>1 DEF Changing, Active, Name, FileName
    <2>3. pc'[c] = "done" /\ out'[c] # Failed
      BY <1>2, <2>1, <2>2 DEF GivenUp
    <2>4. Ended(c, n)
      BY <2>1, <2>3 DEF Ended
    <2>5. call'[c] = call[c] /\ n = Name(c)' /\ call'[c].op \in {"put", "delete"}
      BY <2>1, <2>3 DEF Own, Changing, Active, Name, FileName
    <2>6. PICK x \in Failed : out'[c] = {x} /\ Contents(n)' = {x} \ {Absent}
      BY <2>1, <2>3, <2>5 DEF Sound
    <2>7. \A d \in Callers : Ended(d, n) => d = c
      BY <2>1 DEF Ended
    <2>8. \A y \in Failed : (\E d \in Callers : Ended(d, n) /\ out'[d] = {y}) <=> y = x
      BY <2>1, <2>4, <2>6, <2>7
    <2>9. latest'[n] = x
      <3>. HIDE DEF Ended, Failed
      <3>1. \E y \in Failed : \E d \in Callers : Ended(d, n) /\ out'[d] = {y}
        BY <2>8
      <3>2. latest'[n] = CHOOSE y \in Failed : \E d \in Callers : Ended(d, n) /\ out'[d] = {y}
        BY <1>3, <2>1, <2>4
      <3>. QED
        BY <2>8, <3>1, <3>2
    <2>. QED
      BY <2>6, <2>9
  <1>5. CASE \A d \in Callers : ~Changing(d, n)
    <2>1. \A d \in Callers : ~Ended(d, n)
      BY <1>5 DEF Ended
    <2>2. n \notin unsure /\ latest'[n] = latest[n]
      BY <1>2, <1>3, <2>1
    <2>3. Called(n)' = Called(n)
      <3>1. CASE files' = files
        BY <3>1 DEF Called
      <3>2. CASE files' # files
        BY <3>2, <1>5 DEF Only
      <3>. QED
        BY <3>1, <3>2
    <2>. QED
      BY <1>1, <1>5, <2>2, <2>3 DEF Acked, Contents
  <1>. QED
    BY <1>4, <1>5

LEMMA TrueStep ==
  ASSUME Shape, Shape', Remember, AnswersTrue, OneFolder' => OneFolder,
         NEW c, Own(c), Only(c), Sound(c)
  PROVE  AnswersTrue'
  <1>. SUFFICES ASSUME OneFolder', NEW d \in Callers, pc'[d] = "done", ~blind'[d],
                       call'[d].op = "delete" => Name(d)' \notin mixed'
                PROVE  out'[d] \cap seen'[d] # {}
    BY DEF AnswersTrue
  <1>1. Name(d)' \in Names /\ Names' = Names
    BY NamesStay DEF Own, Shape, AccountType, InCourse, Calls, Name, FileName, Names, NamesOf, NameOf
  <1>2. seen'[d] = IF pc[d] = "done" THEN seen[d] ELSE seen[d] \cup Shown(Name(d))'
    BY DEF Remember
  <1>3. CASE d = c
    <2>1. pc[c] # "done"
      BY <1>3 DEF Own
    <2>2. \E n \in Names : n = Name(d)' /\ Shown(Name(d))' = Shown(n)' /\ n = Name(c)'
      BY <1>1, <1>3 DEF Shown, Called
    <2>3. out'[c] \cap Shown(Name(d))' # {}
      BY <1>3, <2>2 DEF Sound
    <2>. QED
      BY <1>2, <1>3, <2>1, <2>3
  <1>4. CASE d # c
    <2>1. pc[d] = "done" /\ out'[d] = out[d] /\ blind'[d] = blind[d] /\ call'[d] = call[d]
      BY <1>4 DEF Own
    <2>2. Name(d)' = Name(d)
      BY <1>4, SameCall
    <2>3. call[d].op = "delete" => Name(d) \notin mixed
      BY <1>1, <2>1, <2>2, MixedGrows DEF Own
    <2>4. out[d] \cap seen[d] # {}
      BY <2>1, <2>3 DEF AnswersTrue
    <2>. QED
      BY <1>2, <2>1, <2>4
  <1>. QED
    BY <1>3, <1>4

LEMMA BlobStep ==
  ASSUME Shape, Shape', Remember, BlobInv, OneFolder' => OneFolder,
         NEW c, Own(c), Only(c), Sound(c)
  PROVE  BlobInv'
  BY LoneStep, OneEachStep, ClearedStep, AckedStep, TrueStep DEF BlobInv, Own


-----------------------------------------------------------------------------
(***************************************************************************)
(* Steps that leave the blobs alone.                                       *)
(***************************************************************************)
LEMMA OneFolderIs ==
  ASSUME NEW n \in Nat, NEW F, F = 1 .. n
  PROVE  /\ Cardinality(F) = n /\ (Cardinality(F) <= 1 <=> 2 \notin F)
         /\ 2 \notin F => F \subseteq {1}
  <1>1. Cardinality(F) = n
    <2>1. Cardinality(1 .. n) = IF 1 > n THEN 0 ELSE n - 1 + 1
      BY FS_Interval, n \in Int, 1 \in Int
    <2>. QED
      BY <2>1
  <1>. QED
    BY <1>1

LEMMA InitAccount == Init => AccountInv
  <1>. SUFFICES ASSUME Init PROVE AccountInv
    OBVIOUS
  <1>. USE DEF Init, TokenInit, AccountInit
  <1>1. kind \in Kinds /\ base = 0 /\ \A c \in Callers : pc[c] = "idle" /\ call[c] = NoCall
    BY DEF NoFolder
  <1>2. \/ folders = {} /\ files = {}
        \/ /\ folders = {1}
           /\ \E n \in Names, x \in Data :
                 files = {[id |-> 1, name |-> n, folder |-> 1, data |-> x]}
    BY AccountAssumption
  <1>3. IsFiniteSet(files)
    <2>1. files = {} \/ \E f : files = {f}
      BY <1>2
    <2>2. IsFiniteSet({}) /\ \A f : IsFiniteSet({f})
      BY FS_EmptySet, FS_AddElement
    <2>. QED
      BY <2>1, <2>2
  <1>4. files \subseteq Blobs
    BY <1>2 DEF Blobs
  <1>5. \E n \in {0, 1} : folders = 1 .. n
    <2>1. CASE folders = {}
      <3>1. folders = 1 .. 0
        BY <2>1
      <3>. QED
        BY <3>1
    <2>2. CASE folders = {1}
      <3>1. folders = 1 .. 1
        BY <2>2
      <3>. QED
        BY <3>1
    <2>. QED
      BY <1>2, <2>1, <2>2
  <1>6. folders = 1 .. Cardinality(folders) /\ Cardinality(folders) \in Nat /\ 2 \notin folders
    BY <1>5, OneFolderIs
  <1>7. AccountType
    <2>1. "idle" \in Requests /\ "none" \in Requests
      BY DEF Requests
    <2>. QED
      BY <1>3, <1>4, <1>6, <2>1 DEF AccountType, NoFolder, NoFile
  <1>8. \A c \in Callers : InCourse(c) /\ Holding(c)
    BY <1>1 DEF InCourse, Holding, Active
  <1>9. FolderOf
    BY <1>2, <1>6 DEF FolderOf, NoFolder
  <1>10. IdsDiffer
    BY <1>2 DEF IdsDiffer
  <1>11. \A c \in Callers : \A n : ~Changing(c, n)
    BY <1>1 DEF Changing, Active
  <1>12. Lone
    BY <1>11 DEF Lone, Overlap
  <1>13. OneEach
    BY <1>2 DEF OneEach, Single, Called
  <1>14. Cleared
    BY <1>1 DEF Cleared, Uploading, Searching
  <1>15. Acked
    <2>. SUFFICES ASSUME NEW n \in Names PROVE Contents(n) = {latest[n]} \ {Absent}
      BY DEF Acked
    <2>1. latest[n] = CHOOSE x \in Failed : Shown(n) = {x}
      OBVIOUS
    <2>2. \/ Called(n) = {}
          \/ \E f \in Blobs : Called(n) = {f}
      BY <1>2, <1>4 DEF Called
    <2>3. CASE Called(n) = {}
      <3>1. Shown(n) = {Absent} /\ Contents(n) = {}
        BY <2>3 DEF Shown, Contents
      <3>2. Absent \in Failed
        BY DEF Failed
      <3>3. latest[n] = Absent
        BY <2>1, <3>1, <3>2
      <3>. QED
        BY <3>1, <3>3
    <2>4. ASSUME NEW f \in Blobs, Called(n) = {f} PROVE Contents(n) = {latest[n]} \ {Absent}
      <3>1. Shown(n) = {f.data} /\ Contents(n) = {f.data} /\ f.data \in Data
        BY <2>4 DEF Shown, Contents, Blobs
      <3>2. f.data \in Failed /\ f.data # Absent
        BY <3>1, AccountAssumption DEF Failed
      <3>3. latest[n] = f.data
        BY <2>1, <3>1, <3>2
      <3>. QED
        BY <3>1, <3>2, <3>3
    <2>. QED
      BY <2>2, <2>3, <2>4
  <1>16. AnswersTrue
    BY <1>1 DEF AnswersTrue
  <1>. QED
    BY <1>7, <1>8, <1>9, <1>10, <1>12, <1>13, <1>14, <1>15, <1>16
       DEF AccountInv, Shape, BlobInv

LEMMA ShapeRests ==
  ASSUME Shape, UNCHANGED <<kind, account, call, pc, then, dir, id, out, blind>>
  PROVE  Shape'
  <1>. USE DEF account
  <1>1. AccountType'
    BY NamesStay DEF Shape, AccountType, Blobs
  <1>2. \A c \in Callers : InCourse(c)' /\ Holding(c)'
    BY DEF Shape, InCourse, Holding, Active, Searching, Name, FileName
  <1>3. FolderOf' /\ IdsDiffer'
    BY DEF Shape, FolderOf, IdsDiffer
  <1>. QED
    BY <1>1, <1>2, <1>3 DEF Shape

LEMMA AllRests ==
  ASSUME AccountInv, UNCHANGED <<kind, account, locals, blind, history>>
  PROVE  AccountInv'
  <1>. USE DEF account, locals, history
  <1>1. Shape'
    BY ShapeRests DEF AccountInv
  <1>2. /\ \A n : Called(n)' = Called(n)
        /\ \A c \in Callers : Name(c)' = Name(c) /\ Uploading(c)' = Uploading(c)
        /\ \A c \in Callers : \A n : Changing(c, n)' = Changing(c, n)
        /\ OneFolder' = OneFolder /\ Names' = Names
    BY NamesStay
       DEF Called, Name, FileName, Uploading, Searching, Changing, Active, OneFolder
  <1>3. Lone'
    BY <1>2 DEF AccountInv, BlobInv, Lone, Overlap
  <1>4. OneEach'
    BY <1>2 DEF AccountInv, BlobInv, OneEach, Single
  <1>5. Cleared'
    BY <1>2 DEF AccountInv, BlobInv, Cleared
  <1>6. Acked'
    BY <1>2 DEF AccountInv, BlobInv, Acked, Contents
  <1>7. AnswersTrue'
    BY <1>2 DEF AccountInv, BlobInv, AnswersTrue
  <1>. QED
    BY <1>1, <1>3, <1>4, <1>5, <1>6, <1>7 DEF AccountInv, BlobInv

(* The token source at work, and time that passes.                         *)
LEMMA RestStep ==
  ASSUME AccountInv, UNCHANGED <<kind, account, call, pc, then, dir, id, out, blind>>, Remember
  PROVE  AccountInv'
  <1>1. None \notin Callers
    BY TokenAssumption
  <1>2. Shape'
    BY ShapeRests DEF AccountInv
  <1>3. Own(None) /\ Only(None) /\ Sound(None) /\ (OneFolder' => OneFolder)
    BY <1>1 DEF Own, Only, Sound, OneFolder, account
  <1>. QED
    BY <1>2, <1>3, BlobStep DEF AccountInv

LEMMA RestartStep ==
  ASSUME AccountInv, Restart, Remember
  PROVE  AccountInv'
  <1>. USE DEF Restart, Reload
  <1>1. /\ kind' = kind /\ UNCHANGED <<folders, files>> /\ Names' = Names
        /\ \A c \in Callers : pc'[c] = "idle"
        /\ \A n : Called(n)' = Called(n)
    BY NamesStay DEF Called
  <1>2. AccountType'
    <2>1. NoCall \in Calls \cup {NoCall} /\ "idle" \in Requests /\ "none" \in Requests
      BY DEF Requests
    <2>. HIDE DEF NoCall
    <2>. QED
      BY <1>1, <2>1 DEF AccountInv, Shape, AccountType, NoFolder, NoFile, Blobs
  <1>3. \A c \in Callers : InCourse(c)' /\ Holding(c)'
    BY <1>1 DEF InCourse, Holding, Active
  <1>4. FolderOf' /\ IdsDiffer'
    BY <1>1 DEF AccountInv, Shape, FolderOf, IdsDiffer, NoFolder
  <1>5. \A c \in Callers : \A n : ~Changing(c, n)'
    BY <1>1 DEF Changing, Active
  <1>6. OneEach'
    BY <1>1, MixedGrows DEF AccountInv, BlobInv, OneEach, OneFolder, Single
  <1>7. Cleared' /\ AnswersTrue'
    BY <1>1 DEF Cleared, Uploading, Searching, AnswersTrue
  <1>8. Acked'
    <2>. SUFFICES ASSUME OneFolder', NEW n \in Names, n \notin mixed', n \notin unsure'
                  PROVE  Contents(n)' = {latest'[n]} \ {Absent}
      BY <1>1 DEF Acked
    <2>1. \A c \in Callers : ~Changing(c, n)
      BY <1>1 DEF Remember, GivenUp
    <2>2. \A c \in Callers : ~Ended(c, n)
      BY <2>1 DEF Ended
    <2>3. n \notin unsure /\ latest'[n] = latest[n] /\ n \notin mixed
      BY <2>2, <1>1, MixedGrows DEF Remember
    <2>. QED
      BY <1>1, <2>1, <2>3 DEF AccountInv, BlobInv, Acked, OneFolder, Contents
  <1>. QED
    BY <1>1, <1>2, <1>3, <1>4, <1>6, <1>7, <1>8, LoneStep DEF AccountInv, BlobInv, Shape


-----------------------------------------------------------------------------
(***************************************************************************)
(* What a request may do to the files, and a call when it is answered.     *)
(***************************************************************************)
FilesStep ==
    /\ IsFiniteSet(files') /\ files' \subseteq Blobs /\ IdsDiffer'
    /\ \A f \in files' : \/ \E g \in files : g.id = f.id /\ g.name = f.name /\ g.folder = f.folder
                         \/ /\ \A d \in Callers : id[d] # f.id
                            /\ kind = "gdrive" => f.folder \in folders
FoldersStep ==
    /\ folders' = 1 .. Cardinality(folders') /\ Cardinality(folders') \in Nat
    /\ IF kind = "gdrive" THEN folders \subseteq folders' ELSE 2 \notin folders'

LEMMA FoldersGrow ==
  ASSUME Shape, FoldersStep
  PROVE  OneFolder' => OneFolder
  <1>1. (OneFolder <=> 2 \notin folders) /\ (OneFolder' <=> 2 \notin folders')
    <2>1. /\ folders = 1 .. Cardinality(folders) /\ Cardinality(folders) \in Nat
          /\ folders' = 1 .. Cardinality(folders') /\ Cardinality(folders') \in Nat
      BY DEF Shape, AccountType, FoldersStep
    <2>. QED
      BY <2>1, OneFolderIs DEF OneFolder
  <1>. QED
    BY <1>1 DEF FoldersStep, Shape, FolderOf

LEMMA SameFolders ==
  ASSUME Shape, folders' = folders
  PROVE  FoldersStep
  BY DEF Shape, AccountType, FolderOf, FoldersStep

LEMMA SameFiles ==
  ASSUME Shape, files' = files
  PROVE  FilesStep
  BY DEF Shape, AccountType, IdsDiffer, FilesStep

LEMMA ImageOf ==
  ASSUME NEW F, IsFiniteSet(F), NEW g, DOMAIN g = F
  PROVE  LET R == {g[x] : x \in F}
         IN  IsFiniteSet(R) /\ Cardinality(R) \in Nat /\ Cardinality(R) <= Cardinality(F)
  <1>. DEFINE R == {g[x] : x \in F}
              h == [x \in F |-> g[x]]
  <1>1. h \in Surjection(F, R)
    BY DEF Surjection
  <1>2. IsFiniteSet(R) /\ Cardinality(R) <= Cardinality(F)
    <2>. HIDE DEF R, h
    <2>. QED
      BY <1>1, FS_Surjection
  <1>. QED
    BY <1>2, FS_CardinalityType

(* There is an ID for a new file.                                          *)
LEMMA NewFileIs ==
  ASSUME Shape
  PROVE  /\ NewFile \in Nat \ {0}
         /\ \A f \in files : f.id # NewFile
         /\ \A c \in Callers : id[c] # NewFile
  <1>. DEFINE N == Cardinality(files) + Cardinality(Callers) + 1
              I == {f.id : f \in files}
              J == {id[c] : c \in Callers}
              U == (1 .. N) \ (I \cup J)
  <1>1. /\ IsFiniteSet(I) /\ Cardinality(I) \in Nat /\ Cardinality(I) <= Cardinality(files)
        /\ Cardinality(files) \in Nat
    <2>1. IsFiniteSet(files)
      BY DEF Shape, AccountType
    <2>. DEFINE g == [f \in files |-> f.id]
    <2>2. I = {g[f] : f \in files} /\ DOMAIN g = files
      OBVIOUS
    <2>. HIDE DEF I, g
    <2>. QED
      BY <2>1, <2>2, ImageOf, FS_CardinalityType
  <1>2. /\ IsFiniteSet(J) /\ Cardinality(J) \in Nat /\ Cardinality(J) <= Cardinality(Callers)
        /\ Cardinality(Callers) \in Nat
    <2>1. IsFiniteSet(Callers) /\ DOMAIN id = Callers
      BY AccountAssumption DEF Shape, AccountType
    <2>. QED
      BY <2>1, ImageOf, FS_CardinalityType
  <1>3. /\ IsFiniteSet(I \cup J) /\ Cardinality(I \cup J) \in Nat
        /\ Cardinality(I \cup J) <= Cardinality(I) + Cardinality(J)
    <2>. HIDE DEF I, J
    <2>1. /\ IsFiniteSet(I \cup J) /\ IsFiniteSet(I \cap J)
          /\ Cardinality(I \cup J) = Cardinality(I) + Cardinality(J) - Cardinality(I \cap J)
      BY <1>1, <1>2, FS_Union, FS_Intersection
    <2>2. Cardinality(I \cup J) \in Nat /\ Cardinality(I \cap J) \in Nat
      BY <2>1, FS_CardinalityType
    <2>. QED
      BY <1>1, <1>2, <2>1, <2>2
  <1>4. N \in Nat /\ Cardinality(1 .. N) = N
    <2>1. N \in Nat
      BY <1>1, <1>2
    <2>. HIDE DEF N
    <2>. QED
      BY <2>1, OneFolderIs
  <1>5. U # {}
    <2>. SUFFICES ASSUME U = {} PROVE FALSE
      OBVIOUS
    <2>1. 1 .. N \subseteq I \cup J
      <3>. HIDE DEF I, J, N
      <3>. QED
        OBVIOUS
    <2>2. Cardinality(1 .. N) <= Cardinality(I \cup J)
      <3>. HIDE DEF I, J, N
      <3>. QED
        BY <1>3, <2>1, FS_Subset
    <2>. HIDE DEF I, J
    <2>. QED
      BY <1>1, <1>2, <1>3, <1>4, <2>2
  <1>6. U \subseteq Nat /\ \A x \in U : x # 0
    BY <1>4
  <1>7. PICK x \in U : \A y \in U : x <= y
    <2>. HIDE DEF U
    <2>1. PICK x \in U : \A y \in U : ~ (<<y, x>> \in OpToRel(<, Nat))
      BY <1>5, <1>6, NatLessThanWellFounded, WFMin
    <2>2. \A y \in U : ~(y < x)
      BY <1>6, <2>1 DEF OpToRel
    <2>. QED
      BY <1>6, <2>2
  <1>8. NewFile = Min(U)
    BY DEF NewFile
  <1>9. NewFile \in U
    <2>. HIDE DEF U
    <2>. QED
      BY <1>7, <1>8 DEF Min
  <1>. QED
    BY <1>6, <1>9

(* A new file under the name of the call of c.                             *)
LEMMA PutFiles ==
  ASSUME Shape, NEW c \in Callers, Active(c), call[c].op = "put", kind' = kind,
         NEW folder \in Nat, kind = "gdrive" => folder \in folders, Put(c, Name(c), folder)
  PROVE  /\ FilesStep
         /\ \A n \in Names : n # Name(c) => Called(n)' = Called(n)
         /\ \E f \in Blobs : f.data = call[c].data /\ \A n : n = Name(c) =>
                Called(n)' = Called(n) \cup {f}
  <1>. DEFINE f == [id |-> NewFile, name |-> Name(c), folder |-> folder, data |-> call[c].data]
  <1>1. files' = files \cup {f}
    BY DEF Put
  <1>2. f \in Blobs
    <2>1. NewFile \in Nat \ {0} /\ Name(c) \in Names /\ call[c].data \in Data
      BY NewFileIs, NameOfCall DEF Active, Shape, InCourse
    <2>. QED
      BY <2>1 DEF Blobs
  <1>3. /\ f.id = NewFile /\ f.name = Name(c) /\ f.folder = folder /\ f.data = call[c].data
    OBVIOUS
  <1>4. (\A g \in files : g.id # f.id) /\ \A d \in Callers : id[d] # f.id
    BY <1>3, NewFileIs
  <1>. HIDE DEF f
  <1>5. IsFiniteSet(files') /\ files' \subseteq Blobs
    BY <1>1, <1>2, FS_AddElement DEF Shape, AccountType
  <1>6. IdsDiffer'
    BY <1>1, <1>4 DEF Shape, IdsDiffer
  <1>7. FilesStep
    BY <1>1, <1>3, <1>4, <1>5, <1>6 DEF FilesStep
  <1>8. \A n : n # Name(c) => Called(n)' = Called(n)
    BY <1>1, <1>3 DEF Called
  <1>9. \A n : n = Name(c) => Called(n)' = Called(n) \cup {f}
    BY <1>1, <1>3 DEF Called
  <1>. QED
    BY <1>2, <1>3, <1>7, <1>8, <1>9

(* New contents of the name of c, in place.                                *)
LEMMA ReplaceFiles ==
  ASSUME Shape, NEW c \in Callers, Active(c), call[c].op = "put", kind' = kind, kind # "gdrive",
         NEW folder \in Nat, Replace(c, folder)
  PROVE  /\ FilesStep
         /\ \A n \in Names : n # Name(c) => Called(n)' = Called(n)
         /\ \A n : n = Name(c) => /\ Contents(n)' = {call[c].data}
                                  /\ Single(n) => Single(n)'
  <1>1. CASE Called(Name(c)) = {}
    <2>1. Put(c, Name(c), folder)
      BY <1>1 DEF Replace
    <2>2. PICK f \in Blobs : f.data = call[c].data /\ \A n : n = Name(c) => Called(n)' = Called(n) \cup {f}
      BY <2>1, PutFiles
    <2>3. \A n : n = Name(c) => Called(n)' = {f}
      BY <1>1, <2>2
    <2>. QED
      BY <2>1, <2>2, <2>3, PutFiles DEF Contents, Single
  <1>2. CASE Called(Name(c)) # {}
    <2>. DEFINE New(f) == [f EXCEPT !.data = IF f.name = Name(c) THEN call[c].data ELSE @]
    <2>1. files' = {New(f) : f \in files}
      BY <1>2 DEF Replace
    <2>2. files \subseteq Blobs /\ call[c].data \in Data
      BY DEF Active, Shape, AccountType, InCourse
    <2>3. \A f \in files : /\ New(f) \in Blobs /\ New(f).id = f.id /\ New(f).name = f.name
                           /\ New(f).folder = f.folder
                           /\ New(f).data = IF f.name = Name(c) THEN call[c].data ELSE f.data
                           /\ f.name # Name(c) => New(f) = f
      BY <2>2 DEF Blobs
    <2>. HIDE DEF New
    <2>4. IsFiniteSet(files') /\ files' \subseteq Blobs
      <3>. DEFINE g == [f \in files |-> New(f)]
      <3>1. files' = {g[f] : f \in files} /\ DOMAIN g = files
        BY <2>1
      <3>. HIDE DEF g
      <3>2. IsFiniteSet({g[f] : f \in files})
        <4>1. IsFiniteSet(files)
          BY DEF Shape, AccountType
        <4>. QED
          BY <3>1, <4>1, ImageOf
      <3>. QED
        BY <2>1, <2>3, <3>1, <3>2 DEF Shape, AccountType
    <2>5. IdsDiffer'
      <3>. SUFFICES ASSUME NEW f \in files', NEW g \in files', f.id = g.id PROVE f = g
        BY DEF IdsDiffer
      <3>1. PICK f0 \in files : f = New(f0)
        BY <2>1
      <3>2. PICK g0 \in files : g = New(g0)
        BY <2>1
      <3>3. f0.id = g0.id
        BY <2>3, <3>1, <3>2
      <3>. QED
        BY <3>1, <3>2, <3>3 DEF Shape, IdsDiffer
    <2>6. FilesStep
      BY <2>1, <2>3, <2>4, <2>5 DEF FilesStep
    <2>7. \A n : n # Name(c) => Called(n)' = Called(n)
      <3>. SUFFICES ASSUME NEW n, n # Name(c) PROVE Called(n)' = Called(n)
        OBVIOUS
      <3>1. \A f \in files : f.name = n => New(f) = f
        BY <2>3
      <3>2. \A f \in files' : f.name = n => f \in files
        BY <2>1, <2>3
      <3>3. \A f \in files : f.name = n => f \in files'
        BY <2>1, <3>1
      <3>. QED
        BY <3>2, <3>3 DEF Called
    <2>8. ASSUME NEW n, n = Name(c) PROVE Contents(n)' = {call[c].data} /\ (Single(n) => Single(n)')
      <3>1. Called(n)' = {New(f) : f \in Called(n)}
        BY <2>1, <2>3 DEF Called
      <3>2. \A f \in Called(n) : New(f).data = call[c].data
        BY <2>3, <2>8 DEF Called
      <3>3. Called(n) # {}
        BY <1>2, <2>8
      <3>. QED
        BY <3>1, <3>2, <3>3 DEF Contents, Single
    <2>. QED
      BY <2>6, <2>7, <2>8
  <1>. QED
    BY <1>1, <1>2

(* Files that are taken away.                                              *)
LEMMA FewerFiles ==
  ASSUME Shape, files' \subseteq files
  PROVE  FilesStep
  <1>1. IsFiniteSet(files')
    BY FS_Subset DEF Shape, AccountType
  <1>. QED
    BY <1>1 DEF Shape, AccountType, IdsDiffer, FilesStep

LEMMA TakeFiles ==
  ASSUME Shape, NEW c \in Callers, Active(c), Take(id[c])
  PROVE  /\ FilesStep
         /\ \A n \in Names : n # Name(c) => Called(n)' = Called(n)
         /\ \A n : n = Name(c) => /\ Called(n)' \subseteq Called(n)
                                  /\ \A f \in Called(n)' : f.id # id[c]
  <1>1. files' = {f \in files : f.id # id[c]}
    BY DEF Take
  <1>2. \A f \in files : f.id = id[c] => f.name = Name(c)
    BY DEF Shape, Holding
  <1>3. FilesStep
    BY <1>1, FewerFiles
  <1>. QED
    BY <1>1, <1>2, <1>3 DEF Called


LEMMA ShapeStep ==
  ASSUME Shape, NEW c \in Callers, Own(c), FilesStep, FoldersStep,
         call' \in [Callers -> Calls \cup {NoCall}], pc' \in [Callers -> Requests],
         then' \in [Callers -> Requests], dir' \in [Callers -> Nat], id' \in [Callers -> Nat],
         out' \in [Callers -> SUBSET Failed], blind' \in [Callers -> BOOLEAN], base' \in Nat,
         kind = "gdrive" => base' \in folders' \cup {NoFolder} /\ dir'[c] \in folders' \cup {NoFolder},
         InCourse(c)', Holding(c)'
  PROVE  Shape'
  <1>1. kind' = kind /\ Names' = Names
    BY NamesStay DEF Own
  <1>2. AccountType'
    <2>1. Blobs' = Blobs
      BY <1>1 DEF Blobs
    <2>. QED
      BY <1>1, <2>1 DEF Shape, AccountType, FilesStep, FoldersStep
  <1>3. ASSUME NEW d \in Callers \ {c} PROVE InCourse(d)' /\ Holding(d)'
    <2>1. pc'[d] = pc[d] /\ call'[d] = call[d] /\ then'[d] = then[d] /\ id'[d] = id[d]
      BY DEF Own
    <2>2. InCourse(d)'
      BY <1>1, <2>1 DEF Shape, InCourse, Active, Searching
    <2>3. Name(d)' = Name(d) /\ (Active(d)' => Active(d))
      BY <1>1, <2>1 DEF Name, FileName, Active
    <2>4. Active(d) => \A f \in files : f.id = id[d] => f.name = Name(d)
      BY DEF Shape, Holding
    <2>5. Active(d) => \A f \in files' : f.id = id[d] => f.name = Name(d)
      BY <2>4 DEF FilesStep
    <2>. QED
      BY <2>1, <2>2, <2>3, <2>5 DEF Holding
  <1>4. FolderOf'
    <2>1. CASE kind = "gdrive"
      <3>1. \A f \in files : f.folder \in folders
        BY <2>1 DEF Shape, FolderOf
      <3>2. \A f \in files' : f.folder \in folders'
        BY <2>1, <3>1 DEF FilesStep, FoldersStep
      <3>3. \A d \in Callers : dir'[d] \in folders' \cup {NoFolder}
        BY <2>1 DEF Own, Shape, FolderOf, FoldersStep
      <3>. QED
        BY <1>1, <2>1, <3>2, <3>3 DEF FolderOf
    <2>2. CASE kind # "gdrive"
      BY <1>1, <2>2 DEF FolderOf, FoldersStep
    <2>. QED
      BY <2>1, <2>2
  <1>. QED
    BY <1>2, <1>3, <1>4 DEF Shape, FilesStep

LEMMA ShownIs ==
  ASSUME Shape, NEW n
  PROVE  Shown(n) \subseteq Failed /\ Shown(n) # {}
  <1>1. \A f \in Called(n) : f.data \in Data
    BY DEF Called, Shape, AccountType, Blobs
  <1>. QED
    BY <1>1 DEF Shown, Failed

(* What a request may change of the files for the call of c.               *)
Meant(c) ==
    files' = files \/ /\ call[c].op \in {"put", "delete"}
                      /\ \A n \in Names : n # Name(c) => Called(n)' = Called(n)

OthersSee(c) == blind' \in [Callers -> BOOLEAN] /\ \A d \in Callers \ {c} : blind'[d] = blind[d]

(* The call of c ends with an answer.                                      *)
LEMMA AnswerStep ==
  ASSUME AccountInv, Remember, NEW c \in Callers, Active(c), kind' = kind, base' = base,
         FilesStep, FoldersStep, Meant(c), OthersSee(c), NEW X \in SUBSET Failed, Answer(c, X),
         OneFolder' => \A n \in Names : n = Name(c) =>
             /\ files' # files /\ n \notin mixed' => Single(n)'
             /\ call[c].op \in {"put", "delete"} /\ X # Failed /\ n \notin mixed' =>
                    \E x \in Failed : X = {x} /\ Contents(n)' = {x} \ {Absent}
             /\ ~blind'[c] /\ (call[c].op = "delete" => n \notin mixed') => X \cap Shown(n)' # {}
  PROVE  AccountInv'
  <1>1. Shape
    BY DEF AccountInv
  <1>2. /\ pc' = [pc EXCEPT ![c] = "done"] /\ out' = [out EXCEPT ![c] = X]
        /\ then' = [then EXCEPT ![c] = "none"] /\ dir' = [dir EXCEPT ![c] = 0]
        /\ id' = [id EXCEPT ![c] = 0] /\ call' = call
    BY DEF Answer, Goto, NoFolder, NoFile
  <1>3. /\ call \in [Callers -> Calls \cup {NoCall}] /\ pc \in [Callers -> Requests]
        /\ then \in [Callers -> Requests] /\ dir \in [Callers -> Nat] /\ id \in [Callers -> Nat]
        /\ out \in [Callers -> SUBSET Failed] /\ base \in Nat
    BY <1>1 DEF Shape, AccountType
  <1>4. /\ pc'[c] = "done" /\ out'[c] = X /\ dir'[c] = 0 /\ id'[c] = 0
        /\ \A d \in Callers \ {c} : /\ pc'[d] = pc[d] /\ call'[d] = call[d] /\ then'[d] = then[d]
                                    /\ dir'[d] = dir[d] /\ id'[d] = id[d] /\ out'[d] = out[d]
    BY <1>2, <1>3
  <1>5. pc[c] # "idle" /\ pc[c] # "done"
    BY DEF Active
  <1>6. Own(c)
    BY <1>2, <1>4, <1>5 DEF Own, OthersSee
  <1>7. "done" \in Requests /\ "none" \in Requests
    BY DEF Requests
  <1>8. /\ call' \in [Callers -> Calls \cup {NoCall}] /\ pc' \in [Callers -> Requests]
        /\ then' \in [Callers -> Requests] /\ dir' \in [Callers -> Nat] /\ id' \in [Callers -> Nat]
        /\ out' \in [Callers -> SUBSET Failed]
    BY <1>2, <1>3, <1>7
  <1>9. InCourse(c)' /\ Holding(c)'
    BY <1>1, <1>2, <1>4, <1>5 DEF Shape, InCourse, Holding, Active, NoFile
  <1>10. kind = "gdrive" => base' \in folders' \cup {NoFolder} /\ dir'[c] \in folders' \cup {NoFolder}
    BY <1>1, <1>4 DEF Shape, FolderOf, FoldersStep, NoFolder
  <1>11. Shape'
    BY <1>1, <1>3, <1>6, <1>8, <1>9, <1>10, ShapeStep DEF OthersSee
  <1>12. Name(c)' = Name(c) /\ Name(c) \in Names
    BY <1>1, <1>2, <1>5, NameOfCall DEF Name, FileName
  <1>13. Only(c)
    BY <1>4 DEF Only, Meant, Changing
  <1>14. ~Uploading(c)'
    BY <1>4 DEF Uploading, Searching
  <1>15. Sound(c)
    BY <1>2, <1>4, <1>12, <1>14 DEF Sound
  <1>16. OneFolder' => OneFolder
    BY <1>1, FoldersGrow
  <1>. QED
    BY <1>1, <1>6, <1>11, <1>13, <1>15, <1>16, BlobStep DEF AccountInv

(* It ends with an error.                                                  *)
LEMMA FailStep ==
  ASSUME AccountInv, Remember, NEW c \in Callers, Active(c), kind' = kind, base' = base,
         FilesStep, FoldersStep, Meant(c), OthersSee(c), Fail(c),
         OneFolder' => \A n \in Names : n = Name(c) => (files' # files /\ n \notin mixed' => Single(n)')
  PROVE  AccountInv'
  <1>1. \A n : Shown(n)' \subseteq Failed /\ Shown(n)' # {}
    <2>. SUFFICES ASSUME NEW n PROVE Shown(n)' \subseteq Failed /\ Shown(n)' # {}
      OBVIOUS
    <2>1. \A f \in Called(n)' : f.data \in Data
      BY DEF Called, FilesStep, Blobs
    <2>. QED
      BY <2>1 DEF Shown, Failed
  <1>2. Answer(c, Failed)
    BY DEF Fail
  <1>3. OneFolder' => \A n \in Names : n = Name(c) =>
             /\ files' # files /\ n \notin mixed' => Single(n)'
             /\ call[c].op \in {"put", "delete"} /\ Failed # Failed /\ n \notin mixed' =>
                    \E x \in Failed : Failed = {x} /\ Contents(n)' = {x} \ {Absent}
             /\ ~blind'[c] /\ (call[c].op = "delete" => n \notin mixed') => Failed \cap Shown(n)' # {}
    BY <1>1
  <1>. HIDE DEF Failed
  <1>. QED
    BY <1>2, <1>3, AnswerStep

(* It goes on to another request.                                          *)
LEMMA MoveStep ==
  ASSUME AccountInv, Remember, NEW c \in Callers, Active(c), kind' = kind,
         FilesStep, FoldersStep, Meant(c), OthersSee(c),
         NEW r \in Requests \ {"idle", "done"}, Goto(c, r), call' = call, out' = out,
         then' \in [Callers -> Requests], \A d \in Callers \ {c} : then'[d] = then[d],
         dir' \in [Callers -> Nat], \A d \in Callers \ {c} : dir'[d] = dir[d],
         id' \in [Callers -> Nat], \A d \in Callers \ {c} : id'[d] = id[d],
         base' \in Nat,
         kind = "gdrive" => base' \in folders' \cup {NoFolder} /\ dir'[c] \in folders' \cup {NoFolder},
         <<call[c].op, IF kind = "gdrive" /\ r \in {"folder", "create"} THEN then'[c] ELSE r>>
             \in Serves(kind),
         \A f \in files' : f.id = id'[c] => f.name = Name(c),
         OneFolder' => \A n \in Names : n = Name(c) =>
             /\ files' # files /\ n \notin mixed' => Single(n)'
             /\ Uploading(c)' /\ n \notin mixed' => Called(n)' = {}
  PROVE  AccountInv'
  <1>1. Shape
    BY DEF AccountInv
  <1>2. /\ call \in [Callers -> Calls \cup {NoCall}] /\ pc \in [Callers -> Requests]
        /\ out \in [Callers -> SUBSET Failed]
    BY <1>1 DEF Shape, AccountType
  <1>3. pc' \in [Callers -> Requests] /\ pc'[c] = r /\ \A d \in Callers \ {c} : pc'[d] = pc[d]
    BY <1>2 DEF Goto
  <1>4. pc[c] # "idle" /\ pc[c] # "done" /\ r # "idle" /\ r # "done"
    BY DEF Active
  <1>5. Own(c)
    BY <1>3, <1>4 DEF Own, OthersSee
  <1>6. InCourse(c)'
    <2>1. call[c] \in Calls /\ (call[c].op = "put" => call[c].data \in Data)
      BY <1>1, <1>4 DEF Shape, InCourse
    <2>2. Searching(c)' <=> kind = "gdrive" /\ r \in {"folder", "create"}
      BY <1>3 DEF Searching
    <2>. QED
      BY <1>3, <1>4, <2>1, <2>2 DEF InCourse, Active
  <1>7. Name(c)' = Name(c) /\ Name(c) \in Names
    BY <1>1, <1>4, NameOfCall DEF Name, FileName
  <1>8. Holding(c)'
    BY <1>7 DEF Holding
  <1>9. Shape'
    BY <1>1, <1>2, <1>3, <1>5, <1>6, <1>8, ShapeStep DEF OthersSee
  <1>10. Only(c)
    BY <1>3, <1>4 DEF Only, Meant, Changing
  <1>11. Sound(c)
    BY <1>3, <1>4, <1>7 DEF Sound
  <1>12. OneFolder' => OneFolder
    BY <1>1, FoldersGrow
  <1>. QED
    BY <1>1, <1>5, <1>9, <1>10, <1>11, <1>12, BlobStep DEF AccountInv

(* A call begins.                                                          *)
LEMMA BeginStep ==
  ASSUME AccountInv, Remember, NEW c \in Callers, pc[c] = "idle",
         UNCHANGED <<kind, account, id, out, blind>>,
         NEW q \in Calls, q.op = "put" => q.data \in Data, call' = [call EXCEPT ![c] = q],
         NEW r \in Requests \ {"idle", "done", "upload"}, Goto(c, r),
         then' \in [Callers -> Requests], \A d \in Callers \ {c} : then'[d] = then[d],
         dir' \in [Callers -> Nat], \A d \in Callers \ {c} : dir'[d] = dir[d],
         kind = "gdrive" => dir'[c] \in folders \cup {NoFolder},
         r \in {"folder", "create"} => then'[c] # "upload",
         <<q.op, IF kind = "gdrive" /\ r \in {"folder", "create"} THEN then'[c] ELSE r>>
             \in Serves(kind)
  PROVE  AccountInv'
  <1>. USE DEF account
  <1>1. Shape /\ FilesStep /\ FoldersStep
    BY SameFiles, SameFolders DEF AccountInv
  <1>2. /\ call \in [Callers -> Calls \cup {NoCall}] /\ pc \in [Callers -> Requests]
        /\ out \in [Callers -> SUBSET Failed] /\ id \in [Callers -> Nat]
        /\ blind \in [Callers -> BOOLEAN] /\ base \in Nat
    BY <1>1 DEF Shape, AccountType
  <1>3. pc' \in [Callers -> Requests] /\ pc'[c] = r /\ \A d \in Callers \ {c} : pc'[d] = pc[d]
    BY <1>2 DEF Goto
  <1>4. /\ call' \in [Callers -> Calls \cup {NoCall}] /\ call'[c] = q
        /\ \A d \in Callers \ {c} : call'[d] = call[d]
    <2>. HIDE DEF Calls, NoCall
    <2>. QED
      BY <1>2
  <1>5. Own(c)
    BY <1>3, <1>4 DEF Own
  <1>6. InCourse(c)'
    <2>1. Searching(c)' <=> kind = "gdrive" /\ r \in {"folder", "create"}
      BY <1>3 DEF Searching
    <2>. QED
      BY <1>3, <1>4, <2>1 DEF InCourse, Active
  <1>7. Holding(c)'
    <2>1. id'[c] = 0
      BY <1>1 DEF Shape, InCourse, Active, NoFile
    <2>2. \A f \in files' : f.id # 0
      BY <1>1 DEF Shape, AccountType, Blobs
    <2>. QED
      BY <2>1, <2>2 DEF Holding
  <1>8. kind = "gdrive" => base' \in folders' \cup {NoFolder}
    BY <1>1 DEF Shape, FolderOf
  <1>9. Shape'
    BY <1>1, <1>2, <1>3, <1>4, <1>5, <1>6, <1>7, <1>8, ShapeStep
  <1>10. ~Uploading(c)'
    BY <1>3 DEF Uploading, Searching
  <1>11. Only(c) /\ Sound(c) /\ (OneFolder' => OneFolder)
    BY <1>3, <1>10 DEF Only, Sound, OneFolder
  <1>. QED
    BY <1>1, <1>5, <1>9, <1>11, BlobStep DEF AccountInv

LEMMA RespondStep ==
  ASSUME AccountInv, Remember, NEW c \in Callers, Respond(c)
  PROVE  AccountInv'
  <1>. USE DEF Respond, account, tokenVars
  <1>1. Shape /\ FilesStep /\ FoldersStep
    BY SameFiles, SameFolders DEF AccountInv
  <1>2. /\ call \in [Callers -> Calls \cup {NoCall}] /\ pc \in [Callers -> Requests]
        /\ then \in [Callers -> Requests] /\ dir \in [Callers -> Nat] /\ id \in [Callers -> Nat]
        /\ out \in [Callers -> SUBSET Failed] /\ blind \in [Callers -> BOOLEAN] /\ base \in Nat
    BY <1>1 DEF Shape, AccountType
  <1>3. /\ pc' = [pc EXCEPT ![c] = "idle"] /\ call' = [call EXCEPT ![c] = NoCall]
        /\ out' = [out EXCEPT ![c] = {}] /\ blind' = [blind EXCEPT ![c] = FALSE]
        /\ UNCHANGED <<then, dir, id, kind, base, files, folders>> /\ pc[c] = "done"
    BY DEF Goto
  <1>4. "idle" \in Requests /\ NoCall \in Calls \cup {NoCall} /\ {} \in SUBSET Failed
    BY DEF Requests
  <1>5. /\ pc' \in [Callers -> Requests] /\ call' \in [Callers -> Calls \cup {NoCall}]
        /\ out' \in [Callers -> SUBSET Failed] /\ blind' \in [Callers -> BOOLEAN]
        /\ pc'[c] = "idle"
        /\ \A d \in Callers \ {c} : /\ pc'[d] = pc[d] /\ call'[d] = call[d] /\ out'[d] = out[d]
                                    /\ blind'[d] = blind[d]
    <2>. HIDE DEF NoCall, Failed
    <2>. QED
      BY <1>2, <1>3, <1>4
  <1>6. Own(c)
    BY <1>3, <1>5 DEF Own
  <1>7. InCourse(c)' /\ Holding(c)'
    BY <1>1, <1>3, <1>5 DEF Shape, InCourse, Holding, Active
  <1>8. kind = "gdrive" => base' \in folders' \cup {NoFolder} /\ dir'[c] \in folders' \cup {NoFolder}
    BY <1>1, <1>3 DEF Shape, FolderOf
  <1>9. Shape'
    BY <1>1, <1>2, <1>3, <1>5, <1>6, <1>7, <1>8, ShapeStep
  <1>10. Only(c) /\ Sound(c) /\ (OneFolder' => OneFolder)
    BY <1>3, <1>5 DEF Only, Sound, OneFolder, Uploading, Searching
  <1>. QED
    BY <1>1, <1>6, <1>9, <1>10, BlobStep DEF AccountInv

(* The token source at work for a call.                                    *)
LEMMA TokenFailsStep ==
  ASSUME AccountInv, Remember, NEW c \in Callers, TokenFails(c)
  PROVE  AccountInv'
  <1>1. Active(c) /\ Fail(c) /\ UNCHANGED <<folders, files, base, blind>>
    BY DEF TokenFails, account
  <1>2. kind' = kind
    BY DEF TokenFails, RefreshRefused, AnswerLost, SaveFails
  <1>3. OthersSee(c) /\ Meant(c)
    BY <1>1 DEF OthersSee, Meant, AccountInv, Shape, AccountType
  <1>. QED
    BY <1>1, <1>2, <1>3, SameFiles, SameFolders, FailStep DEF AccountInv

LEMMA FetchTokenStep ==
  ASSUME AccountInv, Remember, NEW c \in Callers, FetchToken(c)
  PROVE  AccountInv'
  <1>1. UNCHANGED <<kind, account, call, pc, then, dir, id, out, blind>>
    BY DEF FetchToken, Refresh, Answered, Save, SaveFails, locals
  <1>. QED
    BY <1>1, RestStep


-----------------------------------------------------------------------------
(***************************************************************************)
(* S3.                                                                     *)
(***************************************************************************)
LEMMA SingleNow ==
  ASSUME AccountInv, Remember, kind' = kind, FoldersStep, OneFolder',
         NEW n \in Names, n \notin mixed'
  PROVE  Single(n)
  <1>1. OneFolder
    BY FoldersGrow DEF AccountInv
  <1>. QED
    BY <1>1, MixedGrows DEF AccountInv, BlobInv, OneEach

LEMMA ContentsShown ==
  ASSUME NEW n
  PROVE  Shown(n) = IF Contents(n) = {} THEN {Absent} ELSE Contents(n)
  BY DEF Shown, Contents

LEMMA ContentsShownNext ==
  ASSUME NEW n
  PROVE  Shown(n)' = IF Contents(n)' = {} THEN {Absent} ELSE Contents(n)'
  BY DEF Shown, Contents

(* What the answer of a call that changes a name has to say.               *)
LEMMA Reported ==
  ASSUME NEW n, NEW x \in Failed, Contents(n)' = {x} \ {Absent}
  PROVE  /\ \E y \in Failed : {x} = {y} /\ Contents(n)' = {y} \ {Absent}
         /\ {x} \cap Shown(n)' # {}
  BY ContentsShownNext

LEMMA ServedCall ==
  ASSUME NEW c \in Callers, Serve(c) \/ Refuse(c)
  PROVE  Active(c) /\ kind' = kind
  BY DEF Serve, Refuse, Spend

LEMMA BucketServed ==
  ASSUME NEW c \in Callers, S!Serve(c) \/ S!Refuse(c)
  PROVE  Active(c) /\ kind' = kind
  BY DEF S!Serve, S!Refuse, S!Spend, S!Active, Active

LEMMA BucketSame ==
  ASSUME NEW c
  PROVE  /\ S!Name(c) = Name(c)
         /\ \A n : S!Called(n) = Called(n) /\ S!Shown(n) = Shown(n)
         /\ \A X : S!Answer(c, X) <=> Answer(c, X)
         /\ S!Fail(c) <=> Fail(c)
         /\ \A r : S!Goto(c, r) <=> Goto(c, r)
         /\ S!NewFile = NewFile
         /\ S!Gone = Gone /\ S!Some = Some /\ S!Failed = Failed
  <1>1. S!Name(c) = Name(c)
    BY DEF S!Name, Name, S!FileName, FileName, S!NameOf, NameOf, S!Kinds, Kinds, S!Swapped, Swapped
  <1>2. \A n : S!Called(n) = Called(n) /\ S!Shown(n) = Shown(n)
    BY DEF S!Called, Called, S!Shown, Shown
  <1>3. \A X : S!Answer(c, X) <=> Answer(c, X)
    BY DEF S!Answer, Answer, S!Goto, Goto, S!NoFolder, NoFolder, S!NoFile, NoFile
  <1>4. S!Gone = Gone /\ S!Some = Some /\ S!Failed = Failed
    BY DEF S!Gone, Gone, S!Some, Some, S!Failed, Failed
  <1>5. S!Fail(c) <=> Fail(c)
    BY <1>3, <1>4 DEF S!Fail, Fail
  <1>6. S!NewFile = NewFile
    <2>1. \A U : S!Cardinality(U) = Cardinality(U)
      BY DEF S!Cardinality, Cardinality
    <2>. QED
      BY <2>1 DEF S!NewFile, NewFile, S!Min, Min
  <1>7. \A r : S!Goto(c, r) <=> Goto(c, r)
    BY DEF S!Goto, Goto
  <1>. QED
    BY <1>1, <1>2, <1>3, <1>4, <1>5, <1>6, <1>7

LEMMA BucketCourse ==
  ASSUME Shape, NEW c \in Callers, Active(c), kind = "s3"
  PROVE  pc[c] = call[c].op /\ call[c] \in Calls /\ (call[c].op = "put" => call[c].data \in Data)
  <1>1. call[c] \in Calls /\ (call[c].op = "put" => call[c].data \in Data)
    BY DEF Shape, InCourse, Active
  <1>2. <<call[c].op, pc[c]>> \in {<<o, o>> : o \in {"put", "get", "delete", "exists", "list"}}
    BY DEF Shape, InCourse, Searching, Serves
  <1>. QED
    BY <1>1, <1>2

LEMMA BucketEffect ==
  ASSUME Shape, NEW c \in Callers, Active(c), kind = "s3", kind' = kind, S!SEffect(c)
  PROVE  /\ FilesStep /\ FoldersStep /\ Meant(c)
         /\ \A n : n = Name(c) =>
                /\ Single(n) => Single(n)'
                /\ Contents(n)' = IF call[c].op = "put" THEN {call[c].data} ELSE {}
  <1>1. CASE pc[c] = "put" /\ S!Written(c)
    <2>1. call[c].op = "put"
      BY <1>1, BucketCourse
    <2>2. Replace(c, 0) /\ folders' = folders
      BY <1>1, BucketSame DEF S!Written, S!Replace, Replace, S!Put, Put, S!NoFolder
    <2>. QED
      BY <2>1, <2>2, ReplaceFiles, SameFolders DEF Meant
  <1>2. CASE pc[c] = "delete" /\ S!Removed(c)
    <2>1. call[c].op = "delete"
      BY <1>2, BucketCourse
    <2>2. files' = files \ Called(Name(c)) /\ folders' = folders
      BY <1>2, BucketSame DEF S!Removed
    <2>3. /\ \A n : n # Name(c) => Called(n)' = Called(n)
          /\ \A n : n = Name(c) => Called(n)' = {}
      BY <2>2 DEF Called
    <2>. QED
      BY <2>1, <2>2, <2>3, FewerFiles, SameFolders DEF Meant, Single, Contents
  <1>. QED
    BY <1>1, <1>2 DEF S!SEffect

LEMMA SameBlind ==
  ASSUME Shape, NEW c, blind' = blind
  PROVE  OthersSee(c)
  BY DEF OthersSee, Shape, AccountType

LEMMA ToldSees ==
  ASSUME Shape, NEW c \in Callers, NEW b \in BOOLEAN, blind' = [blind EXCEPT ![c] = ~b]
  PROVE  OthersSee(c) /\ blind'[c] = ~b
  BY DEF OthersSee, Shape, AccountType

(* An answer that leaves the account as it is.                             *)
LEMMA ReadStep ==
  ASSUME AccountInv, Remember, NEW c \in Callers, Active(c), kind' = kind, UNCHANGED account,
         OthersSee(c), NEW X \in SUBSET Failed, Answer(c, X),
         call[c].op \notin {"put", "delete"},
         OneFolder /\ ~blind'[c] => X \cap Shown(Name(c)) # {}
  PROVE  AccountInv'
  <1>1. UNCHANGED <<folders, files, base>> /\ FilesStep /\ FoldersStep /\ Meant(c)
    BY SameFiles, SameFolders DEF account, AccountInv, Meant
  <1>2. OneFolder' = OneFolder /\ \A n : Shown(n)' = Shown(n)
    BY <1>1 DEF OneFolder, Shown, Called
  <1>3. OneFolder' => \A n \in Names : n = Name(c) =>
             /\ files' # files /\ n \notin mixed' => Single(n)'
             /\ call[c].op \in {"put", "delete"} /\ X # Failed /\ n \notin mixed' =>
                    \E x \in Failed : X = {x} /\ Contents(n)' = {x} \ {Absent}
             /\ ~blind'[c] /\ (call[c].op = "delete" => n \notin mixed') => X \cap Shown(n)' # {}
    BY <1>1, <1>2
  <1>. QED
    BY <1>1, <1>3, AnswerStep

LEMMA FailsIdle ==
  ASSUME AccountInv, Remember, NEW c \in Callers, Active(c), kind' = kind,
         UNCHANGED <<folders, files, base>>, OthersSee(c), Fail(c)
  PROVE  AccountInv'
  BY SameFiles, SameFolders, FailStep DEF AccountInv, Meant

LEMMA BucketStart ==
  ASSUME AccountInv, Remember, NEW c \in Callers, kind = "s3", S!SStart(c)
  PROVE  AccountInv'
  <1>1. PICK op \in {"put", "get", "delete", "exists", "list"}, key \in Keys,
             data \in Data \cup {Absent} :
          /\ (op = "put") = (data # Absent)
          /\ call' = [call EXCEPT ![c] = [op |-> op, key |-> key, data |-> data]]
          /\ Goto(c, op)
    BY BucketSame DEF S!SStart
  <1>2. pc[c] = "idle" /\ UNCHANGED <<kind, account, id, out, blind, then, dir>>
    BY DEF S!SStart, S!tokenVars, S!account, account
  <1>. DEFINE q == [op |-> op, key |-> key, data |-> data]
  <1>3. q \in Calls /\ q.op = op /\ (q.op = "put" => q.data \in Data)
    BY <1>1 DEF Calls
  <1>4. op \in Requests \ {"idle", "done", "upload"} /\ op \notin {"folder", "create"}
    BY DEF Requests
  <1>5. <<op, op>> \in Serves(kind)
    BY DEF Serves
  <1>6. then' \in [Callers -> Requests] /\ dir' \in [Callers -> Nat]
    BY <1>2 DEF AccountInv, Shape, AccountType
  <1>7. call' = [call EXCEPT ![c] = q]
    BY <1>1
  <1>. HIDE DEF q
  <1>. QED
    BY <1>1, <1>2, <1>3, <1>4, <1>5, <1>6, <1>7, BeginStep

LEMMA BucketChange ==
  ASSUME AccountInv, Remember, NEW c \in Callers, kind = "s3", S!Change(c)
  PROVE  AccountInv'
  <1>1. Active(c) /\ kind' = kind /\ Shape
    BY BucketServed DEF S!Change, AccountInv
  <1>2. base' = base /\ OthersSee(c)
    BY <1>1, SameBlind DEF S!Change
  <1>3. S!SEffect(c)
    BY DEF S!Change
  <1>. DEFINE x == IF call[c].op = "put" THEN call[c].data ELSE Absent
  <1>4. Answer(c, {x})
    BY <1>1, BucketCourse, BucketSame DEF S!Change, Gone
  <1>5. x \in Failed /\ \A n : n = Name(c) => Contents(n)' = {x} \ {Absent}
    <2>1. \A n : n = Name(c) => Contents(n)' = IF call[c].op = "put" THEN {call[c].data} ELSE {}
      BY <1>1, <1>3, BucketEffect
    <2>. QED
      BY <1>1, <2>1, BucketCourse, AccountAssumption DEF Failed
  <1>. HIDE DEF x
  <1>6. /\ FilesStep /\ FoldersStep /\ Meant(c)
        /\ \A n : n = Name(c) => (Single(n) => Single(n)')
    BY <1>1, <1>3, BucketEffect
  <1>7. OneFolder' => \A n \in Names : n = Name(c) =>
             /\ files' # files /\ n \notin mixed' => Single(n)'
             /\ call[c].op \in {"put", "delete"} /\ {x} # Failed /\ n \notin mixed' =>
                    \E y \in Failed : {x} = {y} /\ Contents(n)' = {y} \ {Absent}
             /\ ~blind'[c] /\ (call[c].op = "delete" => n \notin mixed') => {x} \cap Shown(n)' # {}
    BY <1>1, <1>5, <1>6, Reported, SingleNow
  <1>8. {x} \in SUBSET Failed
    BY <1>5
  <1>. QED
    BY <1>1, <1>2, <1>4, <1>6, <1>7, <1>8, AnswerStep

LEMMA SomeIsTrue ==
  ASSUME Shape, NEW n
  PROVE  /\ Called(n) # {} => Some \cap Shown(n) # {}
         /\ Called(n) = {} => Gone \cap Shown(n) # {}
         /\ Some \subseteq Failed /\ Gone \subseteq Failed
  <1>1. \A f \in Called(n) : f.data \in Data
    BY DEF Called, Shape, AccountType, Blobs
  <1>. QED
    BY <1>1 DEF Shown, Some, Gone, Failed

LEMMA BucketReads ==
  ASSUME AccountInv, Remember, NEW c \in Callers, kind = "s3", S!Get(c) \/ S!Exists(c) \/ S!List(c)
  PROVE  AccountInv'
  <1>1. Active(c) /\ kind' = kind /\ Shape
    BY BucketServed DEF S!Get, S!Exists, S!List, AccountInv
  <1>2. UNCHANGED account /\ pc[c] \in {"get", "exists", "list"}
    BY DEF S!Get, S!Exists, S!List, S!account, account
  <1>3. call[c].op \notin {"put", "delete"}
    BY <1>1, <1>2, BucketCourse
  <1>4. S!Held(c) <=> Called(Name(c)) # {}
    BY BucketSame DEF S!Held
  <1>5. CASE S!Get(c)
    <2>1. OthersSee(c)
      BY <1>1, <1>5, SameBlind DEF S!Get
    <2>2. CASE S!Held(c)
      <3>1. Answer(c, Shown(Name(c)))
        BY <1>5, <2>2, BucketSame DEF S!Get
      <3>2. Shown(Name(c)) \subseteq Failed /\ Shown(Name(c)) # {}
        BY <1>1, ShownIs
      <3>. QED
        BY <1>1, <1>2, <1>3, <2>1, <3>1, <3>2, ReadStep
    <2>3. CASE ~S!Held(c)
      <3>1. Fail(c)
        BY <1>5, <2>3, BucketSame DEF S!Get
      <3>. QED
        BY <1>1, <1>2, <2>1, <3>1, FailsIdle DEF account
    <2>. QED
      BY <2>2, <2>3
  <1>6. CASE S!Serve(c) /\ Answer(c, IF S!Held(c) THEN Some ELSE Gone) /\ UNCHANGED blind
    <2>1. OthersSee(c)
      BY <1>1, <1>6, SameBlind
    <2>2. CASE S!Held(c)
      BY <1>1, <1>2, <1>3, <1>4, <1>6, <2>1, <2>2, SomeIsTrue, ReadStep
    <2>3. CASE ~S!Held(c)
      BY <1>1, <1>2, <1>3, <1>4, <1>6, <2>1, <2>3, SomeIsTrue, ReadStep
    <2>. QED
      BY <2>2, <2>3
  <1>7. CASE S!Refuse(c) /\ Answer(c, Gone) /\ S!Told(c, FALSE)
    <2>1. OthersSee(c) /\ blind'[c]
      BY <1>1, <1>7, ToldSees DEF S!Told
    <2>. QED
      BY <1>1, <1>2, <1>3, <1>7, <2>1, SomeIsTrue, ReadStep
  <1>8. CASE S!Exists(c)
    BY <1>6, <1>7, <1>8, BucketSame DEF S!Exists
  <1>9. CASE S!List(c)
    BY <1>6, <1>9, BucketSame DEF S!List
  <1>. QED
    BY <1>5, <1>8, <1>9

LEMMA BucketRefused ==
  ASSUME AccountInv, Remember, NEW c \in Callers, kind = "s3", S!SRefused(c)
  PROVE  AccountInv'
  <1>1. Active(c) /\ kind' = kind /\ Fail(c) /\ UNCHANGED <<folders, files, base, blind>>
    BY BucketServed, BucketSame DEF S!SRefused, S!account
  <1>. QED
    BY <1>1, SameBlind, FailsIdle DEF AccountInv

(* A request that is sent again, whether it was carried out or not.        *)
LEMMA BucketAgain ==
  ASSUME AccountInv, Remember, NEW c \in Callers, kind = "s3", S!Again(c)
  PROVE  AccountInv'
  <1>1. /\ Active(c) /\ UNCHANGED <<kind, base, locals, blind>> /\ Shape
    BY DEF S!Again, S!Active, Active, S!locals, locals, AccountInv
  <1>2. CASE UNCHANGED <<folders, files>>
    <2>1. UNCHANGED <<kind, account, call, pc, then, dir, id, out, blind>>
      BY <1>1, <1>2 DEF account, locals
    <2>. QED
      BY <2>1, RestStep
  <1>3. CASE S!SEffect(c)
    <2>. USE DEF locals
    <2>1. /\ FilesStep /\ FoldersStep /\ Meant(c)
          /\ \A n : n = Name(c) => (Single(n) => Single(n)')
      BY <1>1, <1>3, BucketEffect
    <2>2. /\ pc \in [Callers -> Requests] /\ then \in [Callers -> Requests]
          /\ dir \in [Callers -> Nat] /\ id \in [Callers -> Nat] /\ base \in Nat
      BY <1>1 DEF Shape, AccountType
    <2>3. Goto(c, pc[c]) /\ pc[c] \in Requests \ {"idle", "done"} /\ pc[c] = call[c].op
      BY <1>1, <2>2, BucketCourse DEF Goto, Active
    <2>4. <<call[c].op, pc[c]>> \in Serves(kind)
      BY <1>1 DEF Shape, InCourse, Searching
    <2>5. \A f \in files' : f.id = id'[c] => f.name = Name(c)
      <3>1. \A f \in files : f.id = id[c] => f.name = Name(c)
        BY <1>1 DEF Shape, Holding
      <3>. QED
        BY <1>1, <2>1, <3>1 DEF FilesStep
    <2>6. OneFolder' => \A n \in Names : n = Name(c) =>
             /\ files' # files /\ n \notin mixed' => Single(n)'
             /\ Uploading(c)' /\ n \notin mixed' => Called(n)' = {}
      BY <1>1, <2>1, SingleNow DEF Uploading
    <2>7. OthersSee(c)
      BY <1>1, SameBlind
    <2>. QED
      BY <1>1, <2>1, <2>2, <2>3, <2>4, <2>5, <2>6, <2>7, MoveStep
  <1>. QED
    BY <1>2, <1>3 DEF S!Again

LEMMA BucketLost ==
  ASSUME AccountInv, Remember, NEW c \in Callers, kind = "s3", Unanswered(c, S!SEffect)
  PROVE  AccountInv'
  <1>1. /\ Active(c) /\ kind' = kind /\ Fail(c) /\ base' = base /\ blind' = blind /\ Shape
        /\ S!SEffect(c) \/ UNCHANGED <<folders, files>>
    BY DEF Unanswered, Spend, AccountInv
  <1>2. OthersSee(c)
    BY <1>1, SameBlind
  <1>3. CASE S!SEffect(c)
    <2>1. /\ FilesStep /\ FoldersStep /\ Meant(c)
          /\ \A n : n = Name(c) => (Single(n) => Single(n)')
      BY <1>1, <1>3, BucketEffect
    <2>. QED
      BY <1>1, <1>2, <2>1, SingleNow, FailStep
  <1>4. CASE UNCHANGED <<folders, files>>
    BY <1>1, <1>2, <1>4, FailsIdle
  <1>. QED
    BY <1>1, <1>3, <1>4


-----------------------------------------------------------------------------
(***************************************************************************)
(* OneDrive.                                                               *)
(***************************************************************************)
LEMMA GraphServed ==
  ASSUME NEW c \in Callers, O!Serve(c) \/ O!Refuse(c)
  PROVE  Active(c) /\ kind' = kind
  BY DEF O!Serve, O!Refuse, O!Spend, O!Active, Active

LEMMA GraphSame ==
  ASSUME NEW c
  PROVE  /\ O!Name(c) = Name(c)
         /\ \A n : O!Called(n) = Called(n) /\ O!Shown(n) = Shown(n)
         /\ \A X : O!Answer(c, X) <=> Answer(c, X)
         /\ O!Fail(c) <=> Fail(c)
         /\ \A r : O!Goto(c, r) <=> Goto(c, r)
         /\ \A f : O!Replace(c, f) <=> Replace(c, f)
         /\ \A i : O!Take(i) <=> Take(i)
         /\ O!Gone = Gone /\ O!Some = Some /\ O!Failed = Failed
  <1>1. O!Name(c) = Name(c)
    BY DEF O!Name, Name, O!FileName, FileName, O!NameOf, NameOf, O!Kinds, Kinds, O!Swapped, Swapped
  <1>2. \A n : O!Called(n) = Called(n) /\ O!Shown(n) = Shown(n)
    BY DEF O!Called, Called, O!Shown, Shown
  <1>3. \A X : O!Answer(c, X) <=> Answer(c, X)
    BY DEF O!Answer, Answer, O!Goto, Goto, O!NoFolder, NoFolder, O!NoFile, NoFile
  <1>4. O!Gone = Gone /\ O!Some = Some /\ O!Failed = Failed
    BY DEF O!Gone, Gone, O!Some, Some, O!Failed, Failed
  <1>5. O!Fail(c) <=> Fail(c)
    BY <1>3, <1>4 DEF O!Fail, Fail
  <1>6. O!NewFile = NewFile
    <2>1. \A U : O!Cardinality(U) = Cardinality(U)
      BY DEF O!Cardinality, Cardinality
    <2>. QED
      BY <2>1 DEF O!NewFile, NewFile, O!Min, Min
  <1>7. \A r : O!Goto(c, r) <=> Goto(c, r)
    BY DEF O!Goto, Goto
  <1>8. \A f : O!Replace(c, f) <=> Replace(c, f)
    BY <1>1, <1>2, <1>6 DEF O!Replace, Replace, O!Put, Put
  <1>9. \A i : O!Take(i) <=> Take(i)
    BY DEF O!Take, Take
  <1>. QED
    BY <1>1, <1>2, <1>3, <1>4, <1>5, <1>7, <1>8, <1>9

LEMMA GraphCourse ==
  ASSUME Shape, NEW c \in Callers, Active(c), kind = "onedrive"
  PROVE  /\ call[c] \in Calls /\ (call[c].op = "put" => call[c].data \in Data)
         /\ <<call[c].op, pc[c]>> \in Serves(kind)
         /\ pc[c] \in {"content", "session", "chunk"} => call[c].op = "put"
         /\ pc[c] \in {"item", "remove"} => call[c].op = "delete"
         /\ pc[c] \in {"get", "exists", "children"} => call[c].op \notin {"put", "delete"}
  <1>1. call[c] \in Calls /\ (call[c].op = "put" => call[c].data \in Data)
    BY DEF Shape, InCourse, Active
  <1>2. <<call[c].op, pc[c]>> \in Serves(kind)
    BY DEF Shape, InCourse, Searching
  <1>3. <<call[c].op, pc[c]>> \in
           {<<"put", "content">>, <<"put", "session">>, <<"put", "chunk">>, <<"get", "get">>,
            <<"exists", "exists">>, <<"delete", "item">>, <<"delete", "remove">>,
            <<"list", "children">>}
    BY <1>2 DEF Serves
  <1>. QED
    BY <1>1, <1>2, <1>3

(* A Put that has taken effect, and a deletion.                            *)
LEMMA GraphPut ==
  ASSUME Shape, NEW c \in Callers, Active(c), kind = "onedrive", kind' = kind,
         call[c].op = "put", O!Replaced(c)
  PROVE  /\ FilesStep /\ FoldersStep /\ Meant(c)
         /\ \A n : n = Name(c) =>
                (Single(n) => Single(n)') /\ Contents(n)' = {call[c].data} \ {Absent}
         /\ call[c].data \in Failed
  <1>1. Replace(c, 1) /\ folders' = {1}
    BY GraphSame DEF O!Replaced, O!Root
  <1>2. FoldersStep
    <2>1. folders' = 1 .. 1
      BY <1>1
    <2>2. Cardinality(folders') = 1
      BY <2>1, OneFolderIs
    <2>. QED
      BY <1>1, <2>1, <2>2 DEF FoldersStep
  <1>3. /\ FilesStep
        /\ \A n \in Names : n # Name(c) => Called(n)' = Called(n)
        /\ \A n : n = Name(c) => /\ Contents(n)' = {call[c].data}
                                 /\ Single(n) => Single(n)'
    BY <1>1, ReplaceFiles
  <1>4. call[c].data \in Data
    BY GraphCourse
  <1>. QED
    BY <1>2, <1>3, <1>4, AccountAssumption DEF Meant, Failed

LEMMA GraphRemoved ==
  ASSUME Shape, NEW c \in Callers, Active(c), kind = "onedrive", kind' = kind,
         call[c].op = "delete", O!Removed(c)
  PROVE  /\ FilesStep /\ FoldersStep /\ Meant(c)
         /\ \A n : n = Name(c) =>
                /\ Single(n) => Single(n)'
                /\ Single(n) /\ (\E f \in files : f.id = id[c]) => Called(n)' = {}
  <1>1. Take(id[c]) /\ folders' = folders
    BY GraphSame DEF O!Removed
  <1>2. /\ FilesStep
        /\ \A n \in Names : n # Name(c) => Called(n)' = Called(n)
        /\ \A n : n = Name(c) => /\ Called(n)' \subseteq Called(n)
                                 /\ \A f \in Called(n)' : f.id # id[c]
    BY <1>1, TakeFiles
  <1>3. \A n : n = Name(c) /\ Single(n) /\ (\E f \in files : f.id = id[c]) => Called(n)' = {}
    <2>1. \A f \in files : f.id = id[c] => f \in Called(Name(c))
      BY DEF Shape, Holding, Called
    <2>. QED
      BY <1>2, <2>1 DEF Single
  <1>4. \A n : n = Name(c) => (Single(n) => Single(n)')
    BY <1>2 DEF Single
  <1>. QED
    BY <1>1, <1>2, <1>3, <1>4, SameFolders DEF Meant

LEMMA GraphStart ==
  ASSUME AccountInv, Remember, NEW c \in Callers, kind = "onedrive", O!OStart(c)
  PROVE  AccountInv'
  <1>1. PICK op \in {"put", "get", "delete", "exists", "list"}, key \in Keys,
             data \in Data \cup {Absent} :
          /\ (op = "put") = (data # Absent)
          /\ call' = [call EXCEPT ![c] = [op |-> op, key |-> key, data |-> data]]
          /\ O!Goto(c, CASE op = "put"    -> IF Chunks[data] = 0 THEN "content" ELSE "session"
                         [] op = "delete" -> "item"
                         [] op = "list"   -> "children"
                         [] OTHER         -> op)
    BY DEF O!OStart
  <1>2. pc[c] = "idle" /\ UNCHANGED <<kind, account, id, out, blind, then, dir>>
    BY DEF O!OStart, O!tokenVars, O!account, account
  <1>. DEFINE q == [op |-> op, key |-> key, data |-> data]
              r == CASE op = "put"    -> IF Chunks[data] = 0 THEN "content" ELSE "session"
                     [] op = "delete" -> "item"
                     [] op = "list"   -> "children"
                     [] OTHER         -> op
  <1>3. q \in Calls /\ q.op = op /\ (q.op = "put" => q.data \in Data)
    BY <1>1 DEF Calls
  <1>4. <<op, r>> \in
           {<<"put", "content">>, <<"put", "session">>, <<"put", "chunk">>, <<"get", "get">>,
            <<"exists", "exists">>, <<"delete", "item">>, <<"delete", "remove">>,
            <<"list", "children">>}
    OBVIOUS
  <1>5. Goto(c, r)
    BY <1>1, GraphSame
  <1>6. call' = [call EXCEPT ![c] = q]
    BY <1>1
  <1>. HIDE DEF q, r
  <1>7. r \in Requests \ {"idle", "done", "upload"} /\ r \notin {"folder", "create"}
    BY <1>4 DEF Requests
  <1>8. <<q.op, r>> \in Serves(kind)
    BY <1>3, <1>4 DEF Serves
  <1>9. then' \in [Callers -> Requests] /\ dir' \in [Callers -> Nat]
    BY <1>2 DEF AccountInv, Shape, AccountType
  <1>. QED
    BY <1>2, <1>3, <1>5, <1>6, <1>7, <1>8, <1>9, BeginStep

LEMMA GraphRefused ==
  ASSUME AccountInv, Remember, NEW c \in Callers, kind = "onedrive", NEW r, O!Refused(c, r),
         UNCHANGED <<folders, files, base, blind>>
  PROVE  AccountInv'
  <1>1. Active(c) /\ kind' = kind /\ Fail(c)
    BY GraphServed, GraphSame DEF O!Refused
  <1>. QED
    BY <1>1, SameBlind, FailsIdle DEF AccountInv

(* The Put of a name, whichever request completes it.                      *)
LEMMA GraphPutAnswered ==
  ASSUME AccountInv, Remember, NEW c \in Callers, kind = "onedrive",
         Active(c), kind' = kind, call[c].op = "put",
         O!Replaced(c), O!Answer(c, {call[c].data}), UNCHANGED <<base, blind>>
  PROVE  AccountInv'
  <1>1. Shape /\ OthersSee(c)
    BY SameBlind DEF AccountInv
  <1>2. Answer(c, {call[c].data})
    BY GraphSame
  <1>. DEFINE x == call[c].data
  <1>3. /\ FilesStep /\ FoldersStep /\ Meant(c) /\ x \in Failed
        /\ \A n : n = Name(c) => (Single(n) => Single(n)') /\ Contents(n)' = {x} \ {Absent}
    BY <1>1, GraphPut
  <1>4. Answer(c, {x})
    BY <1>2
  <1>. HIDE DEF x
  <1>5. OneFolder' => \A n \in Names : n = Name(c) =>
             /\ files' # files /\ n \notin mixed' => Single(n)'
             /\ call[c].op \in {"put", "delete"} /\ {x} # Failed /\ n \notin mixed' =>
                    \E y \in Failed : {x} = {y} /\ Contents(n)' = {y} \ {Absent}
             /\ ~blind'[c] /\ (call[c].op = "delete" => n \notin mixed') => {x} \cap Shown(n)' # {}
    BY <1>3, Reported, SingleNow
  <1>6. {x} \in SUBSET Failed
    BY <1>3
  <1>. QED
    BY <1>1, <1>3, <1>4, <1>5, <1>6, AnswerStep

LEMMA GraphSmall ==
  ASSUME AccountInv, Remember, NEW c \in Callers, kind = "onedrive", O!putSmall(c)
  PROVE  AccountInv'
  <1>1. CASE O!Ask(c, "content") /\ O!Replaced(c) /\ O!Answer(c, {call[c].data})
    <2>1. Active(c) /\ kind' = kind /\ pc[c] = "content" /\ UNCHANGED <<base, blind>>
      BY <1>1, GraphServed DEF O!Ask, O!putSmall
    <2>2. call[c].op = "put"
      BY <2>1, GraphCourse DEF AccountInv
    <2>. QED
      BY <1>1, <2>1, <2>2, GraphPutAnswered
  <1>2. CASE O!Refused(c, "content") /\ UNCHANGED <<folders, files>>
    BY <1>2, GraphRefused DEF O!putSmall
  <1>. QED
    BY <1>1, <1>2 DEF O!putSmall

LEMMA GraphSession ==
  ASSUME AccountInv, Remember, NEW c \in Callers, kind = "onedrive", O!Session(c)
  PROVE  AccountInv'
  <1>1. CASE O!Ask(c, "session") /\ O!Goto(c, "chunk") /\ UNCHANGED <<call, then, dir, id, out>>
    <2>1. /\ Active(c) /\ kind' = kind /\ pc[c] = "session" /\ UNCHANGED <<account, blind>>
          /\ Goto(c, "chunk")
      BY <1>1, GraphServed, GraphSame DEF O!Ask, O!Session, O!account, account
    <2>2. Shape /\ OthersSee(c) /\ call[c].op = "put"
      BY <2>1, SameBlind, GraphCourse DEF AccountInv
    <2>3. FilesStep /\ FoldersStep /\ Meant(c) /\ files' = files /\ base' = base
      BY <2>1, <2>2, SameFiles, SameFolders DEF Meant, account
    <2>4. /\ then' \in [Callers -> Requests] /\ dir' \in [Callers -> Nat] /\ id' \in [Callers -> Nat]
          /\ base' \in Nat
      BY <1>1, <2>2, <2>3 DEF Shape, AccountType
    <2>5. "chunk" \in Requests \ {"idle", "done"} /\ <<"put", "chunk">> \in Serves(kind)
      BY DEF Requests, Serves
    <2>6. \A f \in files' : f.id = id'[c] => f.name = Name(c)
      BY <1>1, <2>1, <2>2, <2>3 DEF Shape, Holding
    <2>7. ~Uploading(c)'
      BY <2>1 DEF Uploading
    <2>. QED
      BY <1>1, <2>1, <2>2, <2>3, <2>4, <2>5, <2>6, <2>7, MoveStep
  <1>2. CASE O!Refused(c, "session")
    BY <1>2, GraphRefused DEF O!Session, O!account
  <1>. QED
    BY <1>1, <1>2 DEF O!Session

LEMMA GraphLarge ==
  ASSUME AccountInv, Remember, NEW c \in Callers, kind = "onedrive", O!putLarge(c)
  PROVE  AccountInv'
  <1>1. CASE O!Ask(c, "chunk") /\ UNCHANGED <<folders, files, call, pc, then, dir, id, out>>
    <2>1. kind' = kind /\ UNCHANGED <<base, blind>>
      BY <1>1, GraphServed DEF O!Ask, O!putLarge
    <2>. QED
      BY <1>1, <2>1, RestStep DEF account
  <1>2. CASE O!Ask(c, "chunk") /\ O!Replaced(c) /\ O!Answer(c, {call[c].data})
    <2>1. Active(c) /\ kind' = kind /\ pc[c] = "chunk" /\ UNCHANGED <<base, blind>>
      BY <1>2, GraphServed DEF O!Ask, O!putLarge
    <2>2. call[c].op = "put"
      BY <2>1, GraphCourse DEF AccountInv
    <2>. QED
      BY <1>2, <2>1, <2>2, GraphPutAnswered
  <1>3. CASE O!Refused(c, "chunk") /\ UNCHANGED <<folders, files>>
    BY <1>3, GraphRefused DEF O!putLarge
  <1>. QED
    BY <1>1, <1>2, <1>3 DEF O!putLarge

LEMMA GraphReads ==
  ASSUME AccountInv, Remember, NEW c \in Callers, kind = "onedrive", O!Get(c) \/ O!Exists(c)
  PROVE  AccountInv'
  <1>1. CASE (O!Ask(c, "get") /\ O!Answer(c, Shown(Name(c)))) \/
             (O!Ask(c, "exists") /\ O!Answer(c, IF Called(Name(c)) = {} THEN Gone ELSE Some))
    <2>1. /\ Active(c) /\ kind' = kind /\ pc[c] \in {"get", "exists"} /\ UNCHANGED <<account, blind>>
      BY <1>1, GraphServed DEF O!Ask, O!Get, O!Exists, O!account, account
    <2>2. Shape /\ OthersSee(c) /\ call[c].op \notin {"put", "delete"}
      BY <2>1, SameBlind, GraphCourse DEF AccountInv
    <2>3. CASE Answer(c, Shown(Name(c)))
      <3>1. Shown(Name(c)) \subseteq Failed /\ Shown(Name(c)) # {}
        BY <2>2, ShownIs
      <3>. QED
        BY <2>1, <2>2, <2>3, <3>1, ReadStep
    <2>4. CASE Answer(c, Gone) /\ Called(Name(c)) = {}
      BY <2>1, <2>2, <2>4, SomeIsTrue, ReadStep
    <2>5. CASE Answer(c, Some) /\ Called(Name(c)) # {}
      BY <2>1, <2>2, <2>5, SomeIsTrue, ReadStep
    <2>. QED
      BY <1>1, <2>3, <2>4, <2>5, GraphSame
  <1>2. CASE O!Refused(c, "get") \/ O!Refused(c, "exists")
    BY <1>2, GraphRefused DEF O!Get, O!Exists, O!account
  <1>. QED
    BY <1>1, <1>2, GraphSame DEF O!Get, O!Exists

(* The answer of a deletion that finds nothing to delete.                  *)
LEMMA NothingThere ==
  ASSUME AccountInv, Remember, NEW c \in Callers, Active(c), kind' = kind, UNCHANGED account,
         OthersSee(c), call[c].op = "delete", Answer(c, Gone),
         OneFolder' /\ Name(c) \notin mixed' => Called(Name(c)) = {}
  PROVE  AccountInv'
  <1>1. UNCHANGED <<folders, files, base>> /\ FilesStep /\ FoldersStep /\ Meant(c)
    BY SameFiles, SameFolders DEF account, AccountInv, Meant
  <1>2. Absent \in Failed /\ Gone = {Absent}
    BY DEF Failed, Gone
  <1>3. \A n : n = Name(c) /\ OneFolder' /\ n \notin mixed' => Contents(n)' = {Absent} \ {Absent}
    BY <1>1 DEF Contents, Called
  <1>4. OneFolder' => \A n \in Names : n = Name(c) =>
             /\ files' # files /\ n \notin mixed' => Single(n)'
             /\ call[c].op \in {"put", "delete"} /\ {Absent} # Failed /\ n \notin mixed' =>
                    \E y \in Failed : {Absent} = {y} /\ Contents(n)' = {y} \ {Absent}
             /\ ~blind'[c] /\ (call[c].op = "delete" => n \notin mixed') => {Absent} \cap Shown(n)' # {}
    BY <1>1, <1>2, <1>3, Reported
  <1>. QED
    BY <1>1, <1>2, <1>4, AnswerStep

LEMMA GraphFind ==
  ASSUME AccountInv, Remember, NEW c \in Callers, kind = "onedrive", O!FindItem(c)
  PROVE  AccountInv'
  <1>1. CASE O!Ask(c, "item")
    <2>1. /\ Active(c) /\ kind' = kind /\ pc[c] = "item" /\ UNCHANGED <<account, blind>>
      BY <1>1, GraphServed DEF O!Ask, O!FindItem, O!account, O!Refused, account
    <2>2. Shape /\ OthersSee(c) /\ call[c].op = "delete"
      BY <2>1, SameBlind, GraphCourse DEF AccountInv
    <2>3. CASE Called(Name(c)) = {} /\ Answer(c, Gone)
      BY <2>1, <2>2, <2>3, NothingThere
    <2>4. ASSUME NEW f \in Called(Name(c)), id' = [id EXCEPT ![c] = f.id], Goto(c, "remove"),
                 UNCHANGED <<call, then, dir, out>>
          PROVE  AccountInv'
      <3>1. FilesStep /\ FoldersStep /\ Meant(c) /\ files' = files /\ base' = base
        BY <2>1, <2>2, SameFiles, SameFolders DEF Meant, account
      <3>2. f \in files /\ f.name = Name(c) /\ f.id \in Nat
        BY <2>2 DEF Called, Shape, AccountType, Blobs
      <3>3. /\ then' \in [Callers -> Requests] /\ dir' \in [Callers -> Nat] /\ base' \in Nat
            /\ id' \in [Callers -> Nat] /\ id'[c] = f.id /\ \A d \in Callers \ {c} : id'[d] = id[d]
        BY <2>2, <2>4, <3>1, <3>2 DEF Shape, AccountType
      <3>4. "remove" \in Requests \ {"idle", "done"} /\ <<"delete", "remove">> \in Serves(kind)
        BY DEF Requests, Serves
      <3>5. \A g \in files' : g.id = id'[c] => g.name = Name(c)
        BY <2>2, <3>1, <3>2, <3>3 DEF Shape, IdsDiffer
      <3>6. ~Uploading(c)'
        BY <2>1 DEF Uploading
      <3>. QED
        BY <2>1, <2>2, <2>4, <3>1, <3>3, <3>4, <3>5, <3>6, MoveStep
    <2>5. CASE O!Refused(c, "item")
      BY <2>1, <2>5, GraphRefused DEF account
    <2>. QED
      BY <1>1, <2>3, <2>4, <2>5, GraphSame DEF O!FindItem
  <1>2. CASE O!Refused(c, "item")
    BY <1>2, GraphRefused DEF O!FindItem, O!account
  <1>. QED
    BY <1>1, <1>2 DEF O!FindItem

LEMMA GraphDelete ==
  ASSUME AccountInv, Remember, NEW c \in Callers, kind = "onedrive", O!DeleteItem(c)
  PROVE  AccountInv'
  <1>1. CASE /\ O!Ask(c, "remove") /\ \E f \in files : f.id = id[c]
             /\ O!Removed(c) /\ O!Answer(c, O!Gone)
    <2>1. /\ Active(c) /\ kind' = kind /\ pc[c] = "remove" /\ UNCHANGED <<base, blind>>
      BY <1>1, GraphServed DEF O!Ask, O!DeleteItem
    <2>2. Shape /\ OthersSee(c) /\ call[c].op = "delete"
      BY <2>1, SameBlind, GraphCourse DEF AccountInv
    <2>3. /\ FilesStep /\ FoldersStep /\ Meant(c)
          /\ \A n : n = Name(c) => /\ Single(n) => Single(n)'
                                   /\ Single(n) => Called(n)' = {}
      BY <1>1, <2>1, <2>2, GraphRemoved
    <2>4. Absent \in Failed /\ Gone = {Absent} /\ Answer(c, {Absent})
      BY <1>1, GraphSame DEF Failed, Gone
    <2>5. \A n \in Names : n = Name(c) /\ OneFolder' /\ n \notin mixed' =>
              Single(n) /\ Contents(n)' = {Absent} \ {Absent}
      BY <2>1, <2>3, SingleNow DEF Contents
    <2>6. OneFolder' => \A n \in Names : n = Name(c) =>
             /\ files' # files /\ n \notin mixed' => Single(n)'
             /\ call[c].op \in {"put", "delete"} /\ {Absent} # Failed /\ n \notin mixed' =>
                    \E y \in Failed : {Absent} = {y} /\ Contents(n)' = {y} \ {Absent}
             /\ ~blind'[c] /\ (call[c].op = "delete" => n \notin mixed') => {Absent} \cap Shown(n)' # {}
      BY <2>2, <2>3, <2>4, <2>5, Reported
    <2>. QED
      BY <2>1, <2>2, <2>3, <2>4, <2>6, AnswerStep
  <1>2. CASE O!Ask(c, "remove") /\ O!Fail(c) /\ UNCHANGED <<folders, files>>
    <2>1. Active(c) /\ kind' = kind /\ UNCHANGED <<base, blind>> /\ Fail(c)
      BY <1>2, GraphServed, GraphSame DEF O!Ask, O!DeleteItem
    <2>. QED
      BY <1>2, <2>1, SameBlind, FailsIdle DEF AccountInv
  <1>3. CASE O!Refused(c, "remove") /\ UNCHANGED <<folders, files>>
    BY <1>3, GraphRefused DEF O!DeleteItem
  <1>. QED
    BY <1>1, <1>2, <1>3 DEF O!DeleteItem

LEMMA WholePage ==
  ASSUME NEW F, IsFiniteSet(F), NEW page \in SUBSET F, Cardinality(F) <= PageSize,
         Cardinality(page) = Min({PageSize, Cardinality(F)})
  PROVE  page = F
  <1>1. Cardinality(F) \in Nat /\ PageSize \in Nat
    BY FS_CardinalityType, AccountAssumption
  <1>2. Min({PageSize, Cardinality(F)}) = Cardinality(F)
    BY <1>1 DEF Min
  <1>. QED
    BY <1>2, FS_Subset

LEMMA GraphList ==
  ASSUME AccountInv, Remember, NEW c \in Callers, kind = "onedrive", O!List(c)
  PROVE  AccountInv'
  <1>. USE DEF O!account, account
  <1>1. CASE /\ O!Ask(c, "children")
             /\ \E page \in O!kSubset(O!Min({PageSize, O!Cardinality(files)}), files) :
                   O!Answer(c, IF \E f \in page : f.name = O!Name(c) /\ O!Listable(c)
                               THEN O!Some ELSE O!Gone)
             /\ O!Told(c, O!Cardinality(files) <= PageSize /\ O!Listable(c))
    <2>1. /\ Active(c) /\ kind' = kind /\ pc[c] = "children" /\ UNCHANGED account
      BY <1>1, GraphServed DEF O!Ask, O!List
    <2>2. Shape /\ call[c].op \notin {"put", "delete"}
      BY <2>1, GraphCourse DEF AccountInv
    <2>3. \A U : O!Cardinality(U) = Cardinality(U)
      BY DEF O!Cardinality, Cardinality
    <2>4. PICK page \in SUBSET files :
             /\ Cardinality(page) = Min({PageSize, Cardinality(files)})
             /\ Answer(c, IF \E f \in page : f.name = Name(c) /\ O!Listable(c) THEN Some ELSE Gone)
      BY <1>1, <2>3, GraphSame DEF O!kSubset, O!Min, Min
    <2>5. OthersSee(c) /\ (blind'[c] <=> ~(Cardinality(files) <= PageSize /\ O!Listable(c)))
      <3>1. PICK b \in BOOLEAN : b <=> (O!Cardinality(files) <= PageSize /\ O!Listable(c))
        OBVIOUS
      <3>2. blind' = [blind EXCEPT ![c] = ~b]
        BY <1>1, <3>1 DEF O!Told
      <3>3. OthersSee(c) /\ blind'[c] = ~b
        BY <2>2, <3>2, ToldSees
      <3>. QED
        BY <2>3, <3>1, <3>3
    <2>6. ~blind'[c] => page = files /\ O!Listable(c)
      BY <2>2, <2>4, <2>5, WholePage DEF Shape, AccountType
    <2>7. CASE \E f \in page : f.name = Name(c) /\ O!Listable(c)
      <3>1. Called(Name(c)) # {}
        BY <2>7, <2>4 DEF Called
      <3>. QED
        BY <2>1, <2>2, <2>4, <2>5, <2>7, <3>1, SomeIsTrue, ReadStep
    <2>8. CASE ~\E f \in page : f.name = Name(c) /\ O!Listable(c)
      <3>1. ~blind'[c] => Called(Name(c)) = {}
        BY <2>6, <2>8 DEF Called
      <3>. QED
        BY <2>1, <2>2, <2>4, <2>5, <2>8, <3>1, SomeIsTrue, ReadStep
    <2>. QED
      BY <2>7, <2>8
  <1>2. CASE O!Ask(c, "children") /\ O!Fail(c) /\ UNCHANGED blind
    <2>1. Active(c) /\ kind' = kind /\ UNCHANGED account /\ Fail(c)
      BY <1>2, GraphServed, GraphSame DEF O!Ask, O!List
    <2>. QED
      BY <1>2, <2>1, SameBlind, FailsIdle DEF AccountInv
  <1>3. CASE O!Refused(c, "children") /\ UNCHANGED blind
    BY <1>3, GraphRefused DEF O!List
  <1>. QED
    BY <1>1, <1>2, <1>3 DEF O!List

LEMMA GraphLost ==
  ASSUME AccountInv, Remember, NEW c \in Callers, kind = "onedrive", Unanswered(c, O!OEffect)
  PROVE  AccountInv'
  <1>1. /\ Active(c) /\ kind' = kind /\ Fail(c) /\ base' = base /\ blind' = blind /\ Shape
        /\ O!OEffect(c) \/ UNCHANGED <<folders, files>>
    BY DEF Unanswered, Spend, AccountInv
  <1>2. OthersSee(c)
    BY <1>1, SameBlind
  <1>3. CASE pc[c] \in {"content", "chunk"} /\ O!Replaced(c)
    <2>1. call[c].op = "put"
      BY <1>1, <1>3, GraphCourse
    <2>2. /\ FilesStep /\ FoldersStep /\ Meant(c)
          /\ \A n : n = Name(c) => (Single(n) => Single(n)')
      BY <1>1, <1>3, <2>1, GraphPut
    <2>. QED
      BY <1>1, <1>2, <2>2, SingleNow, FailStep
  <1>4. CASE pc[c] = "remove" /\ O!Removed(c)
    <2>1. call[c].op = "delete"
      BY <1>1, <1>4, GraphCourse
    <2>2. /\ FilesStep /\ FoldersStep /\ Meant(c)
          /\ \A n : n = Name(c) => (Single(n) => Single(n)')
      BY <1>1, <1>4, <2>1, GraphRemoved
    <2>. QED
      BY <1>1, <1>2, <2>2, SingleNow, FailStep
  <1>5. CASE UNCHANGED <<folders, files>>
    BY <1>1, <1>2, <1>5, FailsIdle
  <1>. QED
    BY <1>1, <1>3, <1>4, <1>5 DEF O!OEffect


-----------------------------------------------------------------------------
(***************************************************************************)
(* Google Drive.                                                           *)
(***************************************************************************)
LEMMA DriveServed ==
  ASSUME NEW c \in Callers, D!Serve(c) \/ D!Refuse(c)
  PROVE  Active(c) /\ kind' = kind
  BY DEF D!Serve, D!Refuse, D!Spend, D!Active, Active

LEMMA DriveSame ==
  ASSUME NEW c
  PROVE  /\ D!Name(c) = Name(c)
         /\ \A n : D!Called(n) = Called(n) /\ D!Shown(n) = Shown(n)
         /\ \A X : D!Answer(c, X) <=> Answer(c, X)
         /\ D!Fail(c) <=> Fail(c)
         /\ \A r : D!Goto(c, r) <=> Goto(c, r)
         /\ \A n, f : D!Put(c, n, f) <=> Put(c, n, f)
         /\ \A i : D!Take(i) <=> Take(i)
         /\ D!Gone = Gone /\ D!Some = Some /\ D!Failed = Failed
         /\ D!NoFolder = 0 /\ D!NoFile = 0
         /\ \A U : D!Cardinality(U) = Cardinality(U)
  <1>1. D!Name(c) = Name(c)
    BY DEF D!Name, Name, D!FileName, FileName, D!NameOf, NameOf, D!Kinds, Kinds, D!Swapped, Swapped
  <1>2. \A n : D!Called(n) = Called(n) /\ D!Shown(n) = Shown(n)
    BY DEF D!Called, Called, D!Shown, Shown
  <1>3. \A X : D!Answer(c, X) <=> Answer(c, X)
    BY DEF D!Answer, Answer, D!Goto, Goto, D!NoFolder, NoFolder, D!NoFile, NoFile
  <1>4. D!Gone = Gone /\ D!Some = Some /\ D!Failed = Failed
    BY DEF D!Gone, Gone, D!Some, Some, D!Failed, Failed
  <1>5. D!Fail(c) <=> Fail(c)
    BY <1>3, <1>4 DEF D!Fail, Fail
  <1>6. \A U : D!Cardinality(U) = Cardinality(U)
    BY DEF D!Cardinality, Cardinality
  <1>7. D!NewFile = NewFile
    BY <1>6 DEF D!NewFile, NewFile, D!Min, Min
  <1>8. \A r : D!Goto(c, r) <=> Goto(c, r)
    BY DEF D!Goto, Goto
  <1>9. \A n, f : D!Put(c, n, f) <=> Put(c, n, f)
    BY <1>7 DEF D!Put, Put
  <1>10. \A i : D!Take(i) <=> Take(i)
    BY DEF D!Take, Take
  <1>. QED
    BY <1>1, <1>2, <1>3, <1>4, <1>5, <1>6, <1>8, <1>9, <1>10 DEF D!NoFolder, D!NoFile

LEMMA DriveCourse ==
  ASSUME Shape, NEW c \in Callers, Active(c), kind = "gdrive"
  PROVE  /\ call[c] \in Calls /\ (call[c].op = "put" => call[c].data \in Data)
         /\ pc[c] \in {"folder", "create"} =>
                <<call[c].op, then[c]>> \in Serves(kind) /\ then[c] \in {"find", "list", "upload", "erase", "download"}
         /\ pc[c] = "find" => call[c].op \in {"put", "get", "delete", "exists"}
         /\ pc[c] = "erase" => call[c].op \in {"put", "delete"}
         /\ pc[c] = "upload" => call[c].op = "put"
         /\ pc[c] = "download" => call[c].op = "get"
         /\ pc[c] = "list" => call[c].op = "list"
  <1>. DEFINE r == IF Searching(c) THEN then[c] ELSE pc[c]
  <1>1. call[c] \in Calls /\ (call[c].op = "put" => call[c].data \in Data)
    BY DEF Shape, InCourse, Active
  <1>2. <<call[c].op, r>> \in Serves(kind)
    BY DEF Shape, InCourse
  <1>3. <<call[c].op, r>> \in
           {<<"put", "find">>, <<"put", "erase">>, <<"put", "upload">>, <<"get", "find">>,
            <<"get", "download">>, <<"delete", "find">>, <<"delete", "erase">>,
            <<"exists", "find">>, <<"list", "list">>}
    BY <1>2 DEF Serves
  <1>4. r = IF pc[c] \in {"folder", "create"} THEN then[c] ELSE pc[c]
    BY DEF Searching
  <1>. HIDE DEF r
  <1>. QED
    BY <1>1, <1>2, <1>3, <1>4

LEMMA DriveServes2 ==
  ASSUME kind = "gdrive"
  PROVE  /\ <<"put", "find">> \in Serves(kind) /\ <<"put", "erase">> \in Serves(kind)
         /\ <<"put", "upload">> \in Serves(kind) /\ <<"get", "find">> \in Serves(kind)
         /\ <<"get", "download">> \in Serves(kind) /\ <<"delete", "find">> \in Serves(kind)
         /\ <<"delete", "erase">> \in Serves(kind) /\ <<"exists", "find">> \in Serves(kind)
         /\ <<"list", "list">> \in Serves(kind)
  BY DEF Serves

(* ensureBaseFolder: the next request, or the search for the folder first. *)
LEMMA EnsureIs ==
  ASSUME Shape, NEW c \in Callers, kind = "gdrive", NEW request \in Requests \ {"folder"},
         D!Ensure(c, request)
  PROVE  \E r \in {request, "folder"} :
             /\ Goto(c, r)
             /\ then' \in [Callers -> Requests] /\ \A d \in Callers \ {c} : then'[d] = then[d]
             /\ dir' \in [Callers -> Nat] /\ \A d \in Callers \ {c} : dir'[d] = dir[d]
             /\ dir'[c] \in folders \cup {NoFolder}
             /\ r = "folder" => then'[c] = request
  <1>1. /\ then \in [Callers -> Requests] /\ dir \in [Callers -> Nat] /\ base \in Nat
        /\ base \in folders \cup {NoFolder} /\ dir[c] \in folders \cup {NoFolder}
    BY DEF Shape, AccountType, FolderOf
  <1>2. CASE base # 0
    <2>1. Goto(c, request) /\ dir' = [dir EXCEPT ![c] = base] /\ then' = then
      BY <1>2, DriveSame DEF D!Ensure
    <2>. QED
      BY <1>1, <2>1
  <1>3. CASE base = 0
    <2>1. Goto(c, "folder") /\ then' = [then EXCEPT ![c] = request] /\ dir' = dir
      BY <1>3, DriveSame DEF D!Ensure
    <2>. QED
      BY <1>1, <2>1
  <1>. QED
    BY <1>2, <1>3

LEMMA DriveStart ==
  ASSUME AccountInv, Remember, NEW c \in Callers, kind = "gdrive", D!GStart(c)
  PROVE  AccountInv'
  <1>1. PICK op \in {"put", "get", "delete", "exists", "list"}, key \in Keys,
             data \in Data \cup {Absent} :
          /\ (op = "put") = (data # Absent)
          /\ call' = [call EXCEPT ![c] = [op |-> op, key |-> key, data |-> data]]
          /\ D!Ensure(c, IF op = "list" THEN "list" ELSE "find")
    BY DEF D!GStart
  <1>2. pc[c] = "idle" /\ UNCHANGED <<kind, account, id, out, blind>>
    BY DEF D!GStart, D!tokenVars, D!account, account
  <1>. DEFINE q == [op |-> op, key |-> key, data |-> data]
              request == IF op = "list" THEN "list" ELSE "find"
  <1>3. q \in Calls /\ q.op = op /\ (q.op = "put" => q.data \in Data)
    BY <1>1 DEF Calls
  <1>4. request \in {"find", "list"} /\ request \in Requests \ {"folder"} /\ <<op, request>> \in Serves(kind)
    BY DriveServes2 DEF Requests
  <1>5. call' = [call EXCEPT ![c] = q] /\ D!Ensure(c, request)
    BY <1>1
  <1>. HIDE DEF q, request
  <1>6. PICK r \in {request, "folder"} :
             /\ Goto(c, r)
             /\ then' \in [Callers -> Requests] /\ \A d \in Callers \ {c} : then'[d] = then[d]
             /\ dir' \in [Callers -> Nat] /\ \A d \in Callers \ {c} : dir'[d] = dir[d]
             /\ dir'[c] \in folders \cup {NoFolder}
             /\ r = "folder" => then'[c] = request
    BY <1>4, <1>5, EnsureIs DEF AccountInv
  <1>7. r \in Requests \ {"idle", "done", "upload"} /\ r # "create" /\ request # "folder"
    BY <1>4 DEF Requests
  <1>8. <<q.op, IF kind = "gdrive" /\ r \in {"folder", "create"} THEN then'[c] ELSE r>>
             \in Serves(kind)
    BY <1>3, <1>4, <1>6, <1>7
  <1>9. r \in {"folder", "create"} => then'[c] # "upload"
    BY <1>4, <1>6, <1>7
  <1>. QED
    BY <1>2, <1>3, <1>5, <1>6, <1>7, <1>8, <1>9, BeginStep

(* The folder is found, or made, or the call goes on without one.          *)
LEMMA InFolderStep ==
  ASSUME AccountInv, Remember, NEW c \in Callers, kind = "gdrive", Active(c), kind' = kind,
         pc[c] \in {"folder", "create"}, FoldersStep, files' = files, blind' = blind,
         NEW f \in folders' \cup {0}, D!InFolder(c, f)
  PROVE  AccountInv'
  <1>1. /\ base' = f /\ dir' = [dir EXCEPT ![c] = f] /\ Goto(c, then[c])
        /\ then' = [then EXCEPT ![c] = "none"] /\ UNCHANGED <<call, id, out>>
    BY DriveSame DEF D!InFolder
  <1>2. Shape /\ OthersSee(c) /\ FilesStep /\ Meant(c)
    BY SameBlind, SameFiles DEF AccountInv, Meant
  <1>3. f \in Nat
    BY DEF FoldersStep
  <1>4. /\ then' \in [Callers -> Requests] /\ \A d \in Callers \ {c} : then'[d] = then[d]
        /\ dir' \in [Callers -> Nat] /\ \A d \in Callers \ {c} : dir'[d] = dir[d]
        /\ dir'[c] = f /\ base' \in Nat /\ id' \in [Callers -> Nat] /\ pc \in [Callers -> Requests]
    <2>1. "none" \in Requests
      BY DEF Requests
    <2>. QED
      BY <1>1, <1>2, <1>3, <2>1 DEF Shape, AccountType
  <1>5. /\ <<call[c].op, then[c]>> \in Serves(kind)
        /\ then[c] \in {"find", "list", "upload", "erase", "download"}
    BY <1>2, DriveCourse
  <1>6. then[c] \in Requests \ {"idle", "done"} /\ then[c] \notin {"folder", "create"}
    BY <1>5 DEF Requests
  <1>7. \A g \in files' : g.id = id'[c] => g.name = Name(c)
    BY <1>1, <1>2 DEF Shape, Holding
  <1>8. Uploading(c)' => Uploading(c)
    <2>1. pc'[c] = then[c]
      BY <1>1, <1>4 DEF Goto
    <2>. QED
      BY <1>1, <1>6, <2>1 DEF Uploading, Searching
  <1>9. OneFolder' => \A n \in Names : n = Name(c) =>
             /\ files' # files /\ n \notin mixed' => Single(n)'
             /\ Uploading(c)' /\ n \notin mixed' => Called(n)' = {}
    <2>. SUFFICES ASSUME OneFolder', NEW n \in Names, n = Name(c), Uploading(c)', n \notin mixed'
                  PROVE  Called(n)' = {}
      OBVIOUS
    <2>1. OneFolder /\ n \notin mixed /\ Uploading(c)
      BY <1>2, <1>8, FoldersGrow, MixedGrows
    <2>2. Called(n) = {}
      BY <2>1 DEF AccountInv, BlobInv, Cleared
    <2>. QED
      BY <2>2 DEF Called
  <1>10. base' \in folders' \cup {NoFolder} /\ dir'[c] \in folders' \cup {NoFolder}
    BY <1>1, <1>4 DEF NoFolder
  <1>. QED
    BY <1>1, <1>2, <1>4, <1>5, <1>6, <1>7, <1>9, <1>10, MoveStep

LEMMA DriveSearchFolder ==
  ASSUME AccountInv, Remember, NEW c \in Callers, kind = "gdrive", D!SearchFolder(c)
  PROVE  AccountInv'
  <1>1. Shape /\ UNCHANGED <<folders, files, blind>> /\ FoldersStep
    BY SameFolders DEF D!SearchFolder, AccountInv
  <1>2. Active(c) /\ kind' = kind /\ pc[c] = "folder"
    BY DriveServed DEF D!SearchFolder, D!Search, D!Blank
  <1>3. ASSUME NEW f \in folders, D!InFolder(c, f) PROVE AccountInv'
    BY <1>1, <1>2, <1>3, InFolderStep
  <1>4. CASE D!Goto(c, "create") /\ UNCHANGED <<base, call, then, dir, id, left, out>>
    <2>1. OthersSee(c) /\ FilesStep /\ Meant(c)
      BY <1>1, SameBlind, SameFiles DEF Meant
    <2>2. Goto(c, "create")
      BY <1>4, DriveSame
    <2>3. /\ pc \in [Callers -> Requests] /\ then' \in [Callers -> Requests]
          /\ dir' \in [Callers -> Nat] /\ id' \in [Callers -> Nat] /\ base' \in Nat
          /\ base' \in folders' \cup {NoFolder} /\ dir'[c] \in folders' \cup {NoFolder}
      BY <1>1, <1>4 DEF Shape, AccountType, FolderOf
    <2>4. <<call[c].op, then'[c]>> \in Serves(kind)
      BY <1>1, <1>2, <1>4, DriveCourse
    <2>5. "create" \in Requests \ {"idle", "done"}
      BY DEF Requests
    <2>6. \A g \in files' : g.id = id'[c] => g.name = Name(c)
      BY <1>1, <1>2, <1>4 DEF Shape, Holding
    <2>7. OneFolder' => \A n \in Names : n = Name(c) =>
             /\ files' # files /\ n \notin mixed' => Single(n)'
             /\ Uploading(c)' /\ n \notin mixed' => Called(n)' = {}
      <3>. SUFFICES ASSUME OneFolder', NEW n \in Names, n = Name(c), Uploading(c)', n \notin mixed'
                    PROVE  Called(n)' = {}
        BY <1>1
      <3>1. Uploading(c)
        <4>1. pc'[c] = "create"
          BY <2>2, <2>3 DEF Goto
        <4>. QED
          BY <1>2, <1>4, <4>1 DEF Uploading, Searching
      <3>2. OneFolder /\ n \notin mixed
        BY <1>1, <1>2, FoldersGrow, MixedGrows
      <3>3. Called(n) = {}
        BY <3>1, <3>2 DEF AccountInv, BlobInv, Cleared
      <3>. QED
        BY <1>1, <3>3 DEF Called
    <2>. QED
      BY <1>1, <1>2, <1>4, <2>1, <2>2, <2>3, <2>4, <2>5, <2>6, <2>7, MoveStep
  <1>. QED
    BY <1>3, <1>4 DEF D!SearchFolder

LEMMA NewFolderIs ==
  ASSUME Shape, kind = "gdrive", D!MakeFolder
  PROVE  FoldersStep /\ D!NewFolder \in folders'
  <1>1. PICK n \in Nat : n = Cardinality(folders) /\ folders = 1 .. n
    BY DEF Shape, AccountType
  <1>2. D!NewFolder = n + 1
    BY <1>1, DriveSame DEF D!NewFolder
  <1>3. PICK m \in Nat : m = n + 1 /\ D!NewFolder = m
    BY <1>2
  <1>4. folders' = (1 .. n) \cup {m}
    BY <1>1, <1>3 DEF D!MakeFolder
  <1>5. folders' = 1 .. m
    BY <1>3, <1>4
  <1>6. Cardinality(folders') = m
    BY <1>5, OneFolderIs
  <1>7. folders \subseteq folders' /\ m \in folders'
    BY <1>1, <1>4
  <1>. QED
    BY <1>3, <1>5, <1>6, <1>7 DEF FoldersStep

LEMMA DriveCreateFolder ==
  ASSUME AccountInv, Remember, NEW c \in Callers, kind = "gdrive", D!CreateFolder(c)
  PROVE  AccountInv'
  <1>1. Shape /\ UNCHANGED <<files, blind>>
    BY DEF D!CreateFolder, AccountInv
  <1>2. Active(c) /\ kind' = kind /\ pc[c] = "create"
    BY DriveServed DEF D!CreateFolder, D!Search, D!Blank
  <1>3. CASE D!MakeFolder /\ D!InFolder(c, D!NewFolder)
    BY <1>1, <1>2, <1>3, NewFolderIs, InFolderStep
  <1>4. CASE D!InFolder(c, D!NoFolder) /\ UNCHANGED folders
    <2>1. D!InFolder(c, 0)
      BY <1>4, DriveSame
    <2>. QED
      BY <1>1, <1>2, <1>4, <2>1, SameFolders, InFolderStep
  <1>. QED
    BY <1>3, <1>4 DEF D!CreateFolder


(* All files lie in the one folder.                                        *)
LEMMA SeenAll ==
  ASSUME Shape, OneFolder, kind = "gdrive", NEW c \in Callers, dir[c] # 0
  PROVE  \A f \in files : f.folder = dir[c]
  <1>1. folders = 1 .. Cardinality(folders) /\ Cardinality(folders) \in Nat
    BY DEF Shape, AccountType
  <1>2. folders \subseteq {1}
    BY <1>1, OneFolderIs DEF OneFolder
  <1>3. dir[c] \in folders /\ \A f \in files : f.folder \in folders
    BY DEF Shape, FolderOf, NoFolder
  <1>. QED
    BY <1>2, <1>3

(* A Put goes on to its upload, by way of the folder when there is none.   *)
LEMMA ToUpload ==
  ASSUME AccountInv, Remember, NEW c \in Callers, kind = "gdrive", Active(c), kind' = kind,
         call[c].op = "put", FilesStep, folders' = folders, base' = base, Meant(c), OthersSee(c),
         D!Ensure(c, "upload"), UNCHANGED <<call, out>>, id' = id \/ id' = [id EXCEPT ![c] = 0],
         OneFolder' => \A n \in Names : n = Name(c) /\ n \notin mixed' => Called(n)' = {}
  PROVE  AccountInv'
  <1>1. Shape /\ FoldersStep
    BY SameFolders DEF AccountInv
  <1>2. "upload" \in Requests \ {"folder"}
    BY DEF Requests
  <1>3. PICK r \in {"upload", "folder"} :
             /\ Goto(c, r)
             /\ then' \in [Callers -> Requests] /\ \A d \in Callers \ {c} : then'[d] = then[d]
             /\ dir' \in [Callers -> Nat] /\ \A d \in Callers \ {c} : dir'[d] = dir[d]
             /\ dir'[c] \in folders \cup {NoFolder}
             /\ r = "folder" => then'[c] = "upload"
    BY <1>1, <1>2, EnsureIs
  <1>4. r \in Requests \ {"idle", "done"}
    BY <1>3 DEF Requests
  <1>5. <<call[c].op, IF kind = "gdrive" /\ r \in {"folder", "create"} THEN then'[c] ELSE r>>
             \in Serves(kind)
    BY <1>3, DriveServes2
  <1>6. id' \in [Callers -> Nat] /\ \A d \in Callers \ {c} : id'[d] = id[d]
    BY <1>1 DEF Shape, AccountType
  <1>7. \A f \in files' : f.id = id'[c] => f.name = Name(c)
    <2>1. id'[c] = id[c] \/ id'[c] = 0
      BY <1>1 DEF Shape, AccountType
    <2>2. \A f \in files' : f.id # 0
      BY DEF FilesStep, Blobs
    <2>3. \A f \in files' : f.id = id[c] => \E g \in files : g.id = f.id /\ g.name = f.name
      BY DEF FilesStep
    <2>. QED
      BY <1>1, <2>1, <2>2, <2>3 DEF Shape, Holding
  <1>8. base' \in Nat /\ base' \in folders' \cup {NoFolder} /\ dir'[c] \in folders' \cup {NoFolder}
    BY <1>1, <1>3 DEF Shape, AccountType, FolderOf
  <1>9. OneFolder' => \A n \in Names : n = Name(c) =>
             /\ files' # files /\ n \notin mixed' => Single(n)'
             /\ Uploading(c)' /\ n \notin mixed' => Called(n)' = {}
    BY DEF Single
  <1>. QED
    BY <1>1, <1>3, <1>4, <1>5, <1>6, <1>7, <1>8, <1>9, MoveStep

LEMMA DriveFind ==
  ASSUME AccountInv, Remember, NEW c \in Callers, kind = "gdrive", D!Find(c)
  PROVE  AccountInv'
  <1>. USE DEF D!account, account
  <1>. DEFINE F == {f \in Called(Name(c)) : f.folder = dir[c]}
              Sees(b) == blind' = [blind EXCEPT ![c] = ~b]
  <1>1. Active(c) /\ kind' = kind /\ pc[c] = "find" /\ UNCHANGED account
    BY DriveServed DEF D!Find, D!Search, D!Blank
  <1>2. Shape /\ FilesStep /\ FoldersStep /\ Meant(c)
    BY <1>1, SameFiles, SameFolders DEF AccountInv, Meant
  <1>3. call[c].op \in {"put", "get", "delete", "exists"}
    BY <1>1, <1>2, DriveCourse
  <1>4. \/ Sees(dir[c] # 0) /\ F = {} /\ D!NotFound(c)
        \/ Sees(dir[c] # 0) /\ \E f \in F : D!Found(c, f.id)
        \/ Sees(FALSE) /\ D!NotFound(c)
    BY DriveSame DEF D!Find, D!Told
  <1>5. OthersSee(c)
    <2>1. \E b \in BOOLEAN : Sees(b)
      BY <1>4
    <2>. QED
      BY <1>2, <2>1, ToldSees
  <1>6. ASSUME D!NotFound(c), ~blind'[c] => dir[c] # 0 /\ F = {} PROVE AccountInv'
    <2>1. OneFolder /\ ~blind'[c] => Called(Name(c)) = {}
      BY <1>1, <1>2, <1>6, SeenAll DEF Called
    <2>2. OneFolder' = OneFolder /\ \A n : Called(n)' = Called(n)
      BY <1>1 DEF OneFolder, Called
    <2>3. ASSUME call[c].op \in {"put", "delete"}, OneFolder', Name(c) \notin mixed'
          PROVE  Called(Name(c)) = {}
      <3>1. Name(c) \in Names
        BY <1>1, <1>2, NameOfCall DEF Active
      <3>2. Changing(c, Name(c))
        BY <1>1, <2>3 DEF Changing
      <3>3. ~blind'[c]
        BY <1>1, <2>3, <3>1, <3>2, MixedGrows
      <3>. QED
        BY <2>1, <2>2, <2>3, <3>3
    <2>4. CASE call[c].op = "put"
      <3>1. D!Ensure(c, "upload") /\ UNCHANGED <<call, id, out>>
        BY <1>6, <2>4 DEF D!NotFound
      <3>2. OneFolder' => \A n \in Names : n = Name(c) /\ n \notin mixed' => Called(n)' = {}
        BY <2>2, <2>3, <2>4
      <3>. QED
        BY <1>1, <1>2, <1>5, <2>4, <3>1, <3>2, ToUpload
    <2>5. CASE call[c].op = "delete"
      <3>1. Answer(c, Gone)
        BY <1>6, <2>5, DriveSame DEF D!NotFound
      <3>. QED
        BY <1>1, <1>5, <2>3, <2>5, <3>1, NothingThere
    <2>6. CASE call[c].op \in {"get", "exists"}
      <3>1. Answer(c, Gone)
        BY <1>6, <2>6, DriveSame DEF D!NotFound
      <3>2. Gone \in SUBSET Failed /\ (OneFolder /\ ~blind'[c] => Gone \cap Shown(Name(c)) # {})
        BY <1>2, <2>1, SomeIsTrue
      <3>. QED
        BY <1>1, <1>5, <2>6, <3>1, <3>2, ReadStep
    <2>. QED
      BY <1>3, <2>4, <2>5, <2>6
  <1>7. ASSUME NEW f \in F, D!Found(c, f.id) PROVE AccountInv'
    <2>1. f \in files /\ f.name = Name(c) /\ f.id \in Nat /\ f \in Called(Name(c))
      BY <1>2, <1>7 DEF Called, Shape, AccountType, Blobs
    <2>2. CASE call[c].op = "exists"
      <3>1. Answer(c, Some)
        BY <1>7, <2>2, DriveSame DEF D!Found
      <3>2. Some \in SUBSET Failed /\ Some \cap Shown(Name(c)) # {}
        BY <1>2, <2>1, SomeIsTrue
      <3>. QED
        BY <1>1, <1>5, <2>2, <3>1, <3>2, ReadStep
    <2>3. CASE call[c].op # "exists"
      <3>1. PICK r \in {"download", "erase"} :
                   /\ r = IF call[c].op = "get" THEN "download" ELSE "erase"
                   /\ Goto(c, r) /\ id' = [id EXCEPT ![c] = f.id]
                   /\ UNCHANGED <<call, then, dir, out>>
        BY <1>7, <2>3, DriveSame DEF D!Found
      <3>2. /\ then' \in [Callers -> Requests] /\ dir' \in [Callers -> Nat] /\ base' \in Nat
            /\ id' \in [Callers -> Nat] /\ id'[c] = f.id /\ \A d \in Callers \ {c} : id'[d] = id[d]
            /\ pc' = [pc EXCEPT ![c] = r] /\ pc'[c] = r
        BY <1>1, <1>2, <2>1, <3>1 DEF Shape, AccountType, Goto
      <3>3. /\ r \in Requests \ {"idle", "done"} /\ r \notin {"folder", "create"}
            /\ <<call[c].op, r>> \in Serves(kind)
        BY <1>3, <2>3, <3>1, DriveServes2 DEF Requests
      <3>4. \A g \in files' : g.id = id'[c] => g.name = Name(c)
        BY <1>1, <1>2, <2>1, <3>2 DEF Shape, IdsDiffer
      <3>5. ~Uploading(c)'
        BY <3>1, <3>2 DEF Uploading, Searching
      <3>6. base' \in folders' \cup {NoFolder} /\ dir'[c] \in folders' \cup {NoFolder}
        BY <1>1, <1>2, <3>1 DEF Shape, FolderOf
      <3>. QED
        BY <1>1, <1>2, <1>5, <3>1, <3>2, <3>3, <3>4, <3>5, <3>6, MoveStep
    <2>. QED
      BY <2>2, <2>3
  <1>8. CASE Sees(dir[c] # 0) /\ F = {} /\ D!NotFound(c)
    <2>1. blind'[c] <=> ~(dir[c] # 0)
      BY <1>2, <1>8 DEF Shape, AccountType
    <2>. QED
      BY <1>6, <1>8, <2>1
  <1>9. CASE Sees(FALSE) /\ D!NotFound(c)
    <2>1. blind'[c]
      BY <1>2, <1>9 DEF Shape, AccountType
    <2>. QED
      BY <1>6, <1>9, <2>1
  <1>. QED
    BY <1>4, <1>7, <1>8, <1>9

LEMMA DriveFails ==
  ASSUME AccountInv, Remember, NEW c \in Callers, Active(c), kind' = kind,
         D!Fail(c), UNCHANGED <<folders, files, base, blind>>
  PROVE  AccountInv'
  BY DriveSame, SameBlind, FailsIdle DEF AccountInv

(* The file that a call holds is deleted.                                  *)
LEMMA DriveErased ==
  ASSUME Shape, NEW c \in Callers, Active(c), kind = "gdrive", D!Erased(c),
         call[c].op \in {"put", "delete"}
  PROVE  /\ FilesStep /\ folders' = folders /\ Meant(c)
         /\ \A n : n = Name(c) =>
                /\ Single(n) => Single(n)'
                /\ Single(n) /\ (\E f \in files : f.id = id[c]) => Called(n)' = {}
  <1>1. Take(id[c]) /\ folders' = folders
    BY DriveSame DEF D!Erased
  <1>2. /\ FilesStep
        /\ \A n \in Names : n # Name(c) => Called(n)' = Called(n)
        /\ \A n : n = Name(c) => /\ Called(n)' \subseteq Called(n)
                                 /\ \A f \in Called(n)' : f.id # id[c]
    BY <1>1, TakeFiles
  <1>3. \A n : n = Name(c) /\ Single(n) /\ (\E f \in files : f.id = id[c]) => Called(n)' = {}
    <2>1. \A f \in files : f.id = id[c] => f \in Called(Name(c))
      BY DEF Shape, Holding, Called
    <2>. QED
      BY <1>2, <2>1 DEF Single
  <1>4. \A n : n = Name(c) => (Single(n) => Single(n)')
    BY <1>2 DEF Single
  <1>. QED
    BY <1>1, <1>2, <1>3, <1>4 DEF Meant

LEMMA DriveErase ==
  ASSUME AccountInv, Remember, NEW c \in Callers, kind = "gdrive", D!Erase(c)
  PROVE  AccountInv'
  <1>1. Active(c) /\ kind' = kind /\ pc[c] = "erase" /\ UNCHANGED <<base, blind>>
    BY DriveServed DEF D!Erase, D!Search, D!Blank
  <1>2. Shape /\ OthersSee(c) /\ call[c].op \in {"put", "delete"}
    BY <1>1, SameBlind, DriveCourse DEF AccountInv
  <1>3. ASSUME \E f \in files : f.id = id[c], D!Erased(c),
               IF call[c].op = "put"
               THEN /\ D!Ensure(c, "upload") /\ id' = [id EXCEPT ![c] = D!NoFile]
                    /\ UNCHANGED <<call, left, out>>
               ELSE D!Answer(c, D!Gone)
        PROVE  AccountInv'
    <2>1. /\ FilesStep /\ folders' = folders /\ FoldersStep /\ Meant(c)
          /\ \A n : n = Name(c) => (Single(n) => Single(n)') /\ (Single(n) => Called(n)' = {})
      BY <1>1, <1>2, <1>3, DriveErased, SameFolders
    <2>2. \A n \in Names : n = Name(c) /\ OneFolder' /\ n \notin mixed' => Single(n)
      BY <1>1, <2>1, SingleNow
    <2>3. CASE call[c].op = "put"
      <3>1. D!Ensure(c, "upload") /\ UNCHANGED <<call, out>> /\ id' = [id EXCEPT ![c] = 0]
        BY <1>3, <2>3, DriveSame
      <3>2. OneFolder' => \A n \in Names : n = Name(c) /\ n \notin mixed' => Called(n)' = {}
        BY <2>1, <2>2
      <3>. QED
        BY <1>1, <1>2, <2>1, <2>3, <3>1, <3>2, ToUpload
    <2>4. CASE call[c].op = "delete"
      <3>1. Absent \in Failed /\ Gone = {Absent} /\ Answer(c, {Absent})
        BY <1>3, <2>4, DriveSame DEF Failed, Gone
      <3>2. \A n \in Names : n = Name(c) /\ OneFolder' /\ n \notin mixed' =>
                Contents(n)' = {Absent} \ {Absent}
        BY <2>1, <2>2 DEF Contents
      <3>3. OneFolder' => \A n \in Names : n = Name(c) =>
             /\ files' # files /\ n \notin mixed' => Single(n)'
             /\ call[c].op \in {"put", "delete"} /\ {Absent} # Failed /\ n \notin mixed' =>
                    \E y \in Failed : {Absent} = {y} /\ Contents(n)' = {y} \ {Absent}
             /\ ~blind'[c] /\ (call[c].op = "delete" => n \notin mixed') => {Absent} \cap Shown(n)' # {}
        BY <2>1, <2>2, <2>4, <3>1, <3>2, Reported
      <3>. QED
        BY <1>1, <1>2, <2>1, <3>1, <3>3, AnswerStep
    <2>. QED
      BY <1>2, <2>3, <2>4
  <1>4. CASE D!Fail(c) /\ UNCHANGED <<folders, files>>
    BY <1>1, <1>4, DriveFails
  <1>. QED
    BY <1>3, <1>4 DEF D!Erase

(* The new file of a Put.                                                  *)
LEMMA DriveUploaded ==
  ASSUME AccountInv, Remember, NEW c \in Callers, Active(c), kind = "gdrive", kind' = kind,
         pc[c] = "upload", D!Uploaded(c)
  PROVE  /\ FilesStep /\ FoldersStep /\ Meant(c) /\ call[c].op = "put" /\ call[c].data \in Data
         /\ \A n \in Names : n = Name(c) =>
                /\ call[c].data \in Shown(n)'
                /\ OneFolder' /\ n \notin mixed' => Single(n)' /\ Contents(n)' = {call[c].data}
  <1>1. Shape /\ call[c].op = "put" /\ call[c].data \in Data
    BY DriveCourse DEF AccountInv
  <1>2. dir[c] \in Nat /\ dir[c] \in folders /\ Put(c, Name(c), dir[c]) /\ folders' = folders
    BY <1>1, DriveSame DEF D!Uploaded, Shape, AccountType, FolderOf, NoFolder
  <1>3. FilesStep /\ \A n \in Names : n # Name(c) => Called(n)' = Called(n)
    BY <1>1, <1>2, PutFiles
  <1>4. PICK f \in Blobs : f.data = call[c].data /\ \A n : n = Name(c) =>
                Called(n)' = Called(n) \cup {f}
    BY <1>1, <1>2, PutFiles
  <1>5. Uploading(c)
    BY <1>1 DEF Uploading
  <1>6. FoldersStep
    BY <1>1, <1>2, SameFolders
  <1>7. \A n \in Names : n = Name(c) /\ OneFolder' /\ n \notin mixed' => Called(n) = {}
    <2>. SUFFICES ASSUME NEW n \in Names, n = Name(c), OneFolder', n \notin mixed'
                  PROVE  Called(n) = {}
      OBVIOUS
    <2>1. OneFolder /\ n \notin mixed
      BY <1>1, <1>6, FoldersGrow, MixedGrows
    <2>. QED
      BY <1>5, <2>1 DEF AccountInv, BlobInv, Cleared
  <1>8. \A n \in Names : n = Name(c) => call[c].data \in Shown(n)'
    BY <1>4 DEF Shown
  <1>9. \A n \in Names : n = Name(c) /\ OneFolder' /\ n \notin mixed' =>
            Single(n)' /\ Contents(n)' = {call[c].data}
    BY <1>4, <1>7 DEF Single, Contents
  <1>. QED
    BY <1>1, <1>3, <1>6, <1>8, <1>9 DEF Meant

LEMMA DriveUpload ==
  ASSUME AccountInv, Remember, NEW c \in Callers, kind = "gdrive", D!Upload(c)
  PROVE  AccountInv'
  <1>1. Active(c) /\ kind' = kind /\ pc[c] = "upload" /\ UNCHANGED <<base, blind>>
    BY DriveServed DEF D!Upload, D!Search, D!Blank
  <1>2. CASE D!Uploaded(c) /\ D!Answer(c, {call[c].data})
    <2>1. Shape /\ OthersSee(c)
      BY <1>1, SameBlind DEF AccountInv
    <2>. DEFINE x == call[c].data
    <2>2. /\ FilesStep /\ FoldersStep /\ Meant(c) /\ call[c].op = "put" /\ x \in Data
          /\ \A n \in Names : n = Name(c) =>
                /\ x \in Shown(n)'
                /\ OneFolder' /\ n \notin mixed' => Single(n)' /\ Contents(n)' = {x}
      BY <1>1, <1>2, DriveUploaded
    <2>3. Answer(c, {x})
      BY <1>2, DriveSame
    <2>. HIDE DEF x
    <2>4. x \in Failed /\ x # Absent /\ {x} \in SUBSET Failed
      BY <2>2, AccountAssumption DEF Failed
    <2>5. OneFolder' => \A n \in Names : n = Name(c) =>
             /\ files' # files /\ n \notin mixed' => Single(n)'
             /\ call[c].op \in {"put", "delete"} /\ {x} # Failed /\ n \notin mixed' =>
                    \E y \in Failed : {x} = {y} /\ Contents(n)' = {y} \ {Absent}
             /\ ~blind'[c] /\ (call[c].op = "delete" => n \notin mixed') => {x} \cap Shown(n)' # {}
      BY <2>2, <2>4
    <2>. QED
      BY <1>1, <2>1, <2>2, <2>3, <2>4, <2>5, AnswerStep
  <1>3. CASE D!Fail(c) /\ UNCHANGED <<folders, files>>
    BY <1>1, <1>3, DriveFails
  <1>. QED
    BY <1>2, <1>3 DEF D!Upload

LEMMA DriveDownload ==
  ASSUME AccountInv, Remember, NEW c \in Callers, kind = "gdrive", D!Download(c)
  PROVE  AccountInv'
  <1>1. Active(c) /\ kind' = kind /\ pc[c] = "download" /\ UNCHANGED <<account, blind>>
    BY DriveServed DEF D!Download, D!Search, D!Blank, D!account, account
  <1>2. Shape /\ OthersSee(c) /\ call[c].op = "get"
    BY <1>1, SameBlind, DriveCourse DEF AccountInv
  <1>3. ASSUME NEW f \in files, f.id = id[c], D!Answer(c, {f.data}) PROVE AccountInv'
    <2>1. f \in Called(Name(c)) /\ f.data \in Data
      BY <1>1, <1>2, <1>3 DEF Shape, AccountType, Holding, Called, Blobs
    <2>2. {f.data} \in SUBSET Failed /\ {f.data} \cap Shown(Name(c)) # {}
      BY <2>1 DEF Failed, Shown
    <2>3. Answer(c, {f.data})
      BY <1>3, DriveSame
    <2>. QED
      BY <1>1, <1>2, <2>2, <2>3, ReadStep
  <1>4. CASE D!Fail(c)
    BY <1>1, <1>4, DriveFails DEF account
  <1>. QED
    BY <1>3, <1>4 DEF D!Download

LEMMA DriveList ==
  ASSUME AccountInv, Remember, NEW c \in Callers, kind = "gdrive", D!List(c)
  PROVE  AccountInv'
  <1>. USE DEF D!account, account
  <1>. DEFINE F == {f \in Called(Name(c)) : f.folder = dir[c]}
  <1>1. Active(c) /\ kind' = kind /\ pc[c] = "list" /\ UNCHANGED account
    BY DriveServed DEF D!List, D!Search, D!Blank
  <1>2. Shape /\ call[c].op \notin {"put", "delete"}
    BY <1>1, DriveCourse DEF AccountInv
  <1>3. ASSUME NEW page \in SUBSET F, Cardinality(page) = Min({PageSize, Cardinality(F)}),
               Answer(c, IF D!Listed(c, page) THEN Some ELSE Gone),
               D!Told(c, dir[c] # 0 /\ Cardinality(F) <= PageSize /\ D!Listable(c))
        PROVE  AccountInv'
    <2>1. /\ OthersSee(c)
          /\ blind'[c] <=> ~(dir[c] # 0 /\ Cardinality(F) <= PageSize /\ D!Listable(c))
      <3>1. PICK b \in BOOLEAN : b <=> (dir[c] # 0 /\ Cardinality(F) <= PageSize /\ D!Listable(c))
        OBVIOUS
      <3>2. blind' = [blind EXCEPT ![c] = ~b]
        BY <1>3, <3>1 DEF D!Told
      <3>3. OthersSee(c) /\ blind'[c] = ~b
        BY <1>2, <3>2, ToldSees
      <3>. QED
        BY <3>1, <3>3
    <2>2. F \subseteq Called(Name(c)) /\ IsFiniteSet(F)
      <3>1. F \subseteq files /\ IsFiniteSet(files)
        BY <1>2 DEF Called, Shape, AccountType
      <3>. QED
        BY <3>1, FS_Subset
    <2>3. ASSUME OneFolder, ~blind'[c]
          PROVE  page = F /\ F = Called(Name(c)) /\ D!Listable(c)
      <3>1. page = F
        <4>. HIDE DEF F
        <4>. QED
          BY <1>3, <2>1, <2>2, <2>3, WholePage
      <3>2. F = Called(Name(c))
        BY <1>2, <2>1, <2>3, SeenAll DEF Called
      <3>. QED
        BY <2>1, <2>3, <3>1, <3>2
    <2>4. CASE D!Listed(c, page)
      <3>1. Called(Name(c)) # {}
        BY <2>2, <2>4 DEF D!Listed
      <3>. QED
        BY <1>1, <1>2, <1>3, <2>1, <2>4, <3>1, SomeIsTrue, ReadStep
    <2>5. CASE ~D!Listed(c, page)
      <3>1. OneFolder /\ ~blind'[c] => Called(Name(c)) = {}
        BY <2>3, <2>5, DriveSame DEF D!Listed, D!Listable, Called
      <3>. QED
        BY <1>1, <1>2, <1>3, <2>1, <2>5, <3>1, SomeIsTrue, ReadStep
    <2>. QED
      BY <2>4, <2>5
  <1>4. CASE Answer(c, Gone) /\ D!Told(c, FALSE)
    <2>1. blind' = [blind EXCEPT ![c] = ~FALSE]
      BY <1>4 DEF D!Told
    <2>2. OthersSee(c) /\ blind'[c] = ~FALSE
      BY <1>2, <2>1, ToldSees
    <2>. QED
      BY <1>1, <1>2, <1>4, <2>2, SomeIsTrue, ReadStep
  <1>5. \/ \E page \in SUBSET F :
              /\ Cardinality(page) = Min({PageSize, Cardinality(F)})
              /\ Answer(c, IF D!Listed(c, page) THEN Some ELSE Gone)
              /\ D!Told(c, dir[c] # 0 /\ Cardinality(F) <= PageSize /\ D!Listable(c))
        \/ Answer(c, Gone) /\ D!Told(c, FALSE)
    BY DriveSame DEF D!List, D!kSubset, D!Min, Min
  <1>. QED
    BY <1>3, <1>4, <1>5

LEMMA DriveLost ==
  ASSUME AccountInv, Remember, NEW c \in Callers, kind = "gdrive", Unanswered(c, D!GEffect)
  PROVE  AccountInv'
  <1>1. /\ Active(c) /\ kind' = kind /\ Fail(c) /\ base' = base /\ blind' = blind /\ Shape
        /\ D!GEffect(c) \/ UNCHANGED <<folders, files>>
    BY DEF Unanswered, Spend, AccountInv
  <1>2. OthersSee(c)
    BY <1>1, SameBlind
  <1>3. CASE D!MakeFolder /\ UNCHANGED files
    <2>1. FilesStep /\ FoldersStep /\ Meant(c)
      BY <1>1, <1>3, SameFiles, NewFolderIs DEF Meant
    <2>. QED
      BY <1>1, <1>2, <1>3, <2>1, FailStep
  <1>4. CASE pc[c] = "erase" /\ D!Erased(c)
    <2>1. call[c].op \in {"put", "delete"}
      BY <1>1, <1>4, DriveCourse
    <2>2. /\ FilesStep /\ FoldersStep /\ Meant(c)
          /\ \A n : n = Name(c) => (Single(n) => Single(n)')
      BY <1>1, <1>4, <2>1, DriveErased, SameFolders
    <2>. QED
      BY <1>1, <1>2, <2>2, SingleNow, FailStep
  <1>5. CASE pc[c] = "upload" /\ D!Uploaded(c)
    <2>1. /\ FilesStep /\ FoldersStep /\ Meant(c)
          /\ \A n \in Names : n = Name(c) /\ OneFolder' /\ n \notin mixed' => Single(n)'
      BY <1>1, <1>5, DriveUploaded
    <2>. QED
      BY <1>1, <1>2, <2>1, FailStep
  <1>6. CASE UNCHANGED <<folders, files>>
    BY <1>1, <1>2, <1>6, FailsIdle
  <1>. QED
    BY <1>1, <1>3, <1>4, <1>5, <1>6 DEF D!GEffect


-----------------------------------------------------------------------------
(***************************************************************************)
(* The invariant, and what it says to who reads and writes blobs.          *)
(***************************************************************************)
LEMMA DriveKeeps ==
  ASSUME AccountInv, NEW c \in Callers, Drive(c)
  PROVE  AccountInv'
  <1>1. kind = "gdrive" /\ Remember
    BY DEF Drive
  <1>2. CASE D!GStart(c) \/ D!SearchFolder(c) \/ D!CreateFolder(c) \/ D!Find(c)
    BY <1>1, <1>2, DriveStart, DriveSearchFolder, DriveCreateFolder, DriveFind
  <1>3. CASE D!Erase(c) \/ D!Upload(c) \/ D!Download(c) \/ D!List(c)
    BY <1>1, <1>3, DriveErase, DriveUpload, DriveDownload, DriveList
  <1>4. CASE Unanswered(c, D!GEffect)
    BY <1>1, <1>4, DriveLost
  <1>. QED
    BY <1>2, <1>3, <1>4 DEF Drive

LEMMA GraphKeeps ==
  ASSUME AccountInv, NEW c \in Callers, Graph(c)
  PROVE  AccountInv'
  <1>1. kind = "onedrive" /\ Remember
    BY DEF Graph
  <1>2. CASE O!OStart(c) \/ O!putSmall(c) \/ O!Session(c) \/ O!putLarge(c)
    BY <1>1, <1>2, GraphStart, GraphSmall, GraphSession, GraphLarge
  <1>3. CASE O!Get(c) \/ O!Exists(c) \/ O!FindItem(c) \/ O!DeleteItem(c) \/ O!List(c)
    BY <1>1, <1>3, GraphReads, GraphFind, GraphDelete, GraphList
  <1>4. CASE Unanswered(c, O!OEffect)
    BY <1>1, <1>4, GraphLost
  <1>. QED
    BY <1>2, <1>3, <1>4 DEF Graph

LEMMA BucketKeeps ==
  ASSUME AccountInv, NEW c \in Callers, Bucket(c)
  PROVE  AccountInv'
  <1>1. kind = "s3" /\ Remember
    BY DEF Bucket
  <1>2. CASE S!SStart(c) \/ S!Change(c) \/ S!Get(c) \/ S!Exists(c) \/ S!List(c)
    BY <1>1, <1>2, BucketStart, BucketChange, BucketReads
  <1>3. CASE S!SRefused(c) \/ S!Again(c)
    BY <1>1, <1>3, BucketRefused, BucketAgain
  <1>4. CASE Unanswered(c, S!SEffect)
    BY <1>1, <1>4, BucketLost
  <1>. QED
    BY <1>2, <1>3, <1>4 DEF Bucket

LEMMA NextAccount == AccountInv /\ [Next]_vars => AccountInv'
  <1>. SUFFICES ASSUME AccountInv, [Next]_vars PROVE AccountInv'
    OBVIOUS
  <1>1. CASE UNCHANGED vars
    BY <1>1, AllRests DEF vars, tokenVars
  <1>2. CASE Wait /\ Remember
    <2>1. UNCHANGED <<kind, account, call, pc, then, dir, id, out, blind>>
      BY <1>2 DEF Wait, Tick, locals
    <2>. QED
      BY <1>2, <2>1, RestStep
  <1>3. CASE Restart /\ Remember
    BY <1>3, RestartStep
  <1>4. ASSUME NEW c \in Callers, Common(c) PROVE AccountInv'
    BY <1>4, FetchTokenStep, TokenFailsStep, RespondStep DEF Common
  <1>. QED
    BY <1>1, <1>2, <1>3, <1>4, DriveKeeps, GraphKeeps, BucketKeeps DEF Next

LEMMA AlwaysAccount == Spec => []AccountInv
  BY InitAccount, NextAccount, PTL DEF Spec

(* Overwrite semantics on every backend: once a Put or a Delete of a name  *)
(* was acknowledged, and nobody else changes it, there is its one file     *)
(* with the contents of the Put, or none: whatever was retried, refused,   *)
(* answered too late or cut off by a restart before.                       *)
THEOREM OneFileAlways == Spec => []OneFile
  <1>1. AccountInv => OneFile
    <2>. SUFFICES ASSUME AccountInv, OneFolder, NEW n \in Names, Quiet(n)
                  PROVE  /\ {f.data : f \in Called(n)} = {latest[n]} \ {Absent}
                         /\ Cardinality(Called(n)) <= 1
      BY DEF OneFile
    <2>1. n \notin mixed /\ n \notin unsure /\ \A c \in Callers : ~Changing(c, n)
      BY DEF Quiet
    <2>2. Contents(n) = {latest[n]} \ {Absent} /\ Single(n)
      BY <2>1 DEF AccountInv, BlobInv, Acked, OneEach
    <2>3. Called(n) = {} \/ \E f : Called(n) = {f}
      BY <2>2 DEF Single
    <2>4. Cardinality({}) = 0 /\ \A f : Cardinality({f}) = 1
      BY FS_EmptySet, FS_Singleton
    <2>5. Cardinality(Called(n)) = 0 \/ Cardinality(Called(n)) = 1
      BY <2>3, <2>4
    <2>6. Cardinality(Called(n)) <= 1
      BY <2>5
    <2>. QED
      BY <2>2, <2>6 DEF Contents
  <1>. QED
    BY <1>1, AlwaysAccount, PTL

(* A Put, Get, Delete, Exists or List that does not fail tells what was so *)
(* at some time between its start and its answer, however its requests     *)
(* interleave with those of other calls, and whichever were refused, lost  *)
(* or sent again.                                                          *)
THEOREM AnswersTrueAlways == Spec => []AnswersTrue
  <1>1. AccountInv => AnswersTrue
    BY DEF AccountInv, BlobInv
  <1>. QED
    BY <1>1, AlwaysAccount, PTL
=============================================================================
