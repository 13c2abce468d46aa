---------------------------- MODULE TokenSource ----------------------------
(***************************************************************************)
(* The access tokens that requests to Google Drive and OneDrive carry      *)
(* (internal/provider/{gdrive,onedrive}/oauth.go) and the token file they  *)
(* are kept in (internal/config/token_store.go).                           *)
(*                                                                         *)
(* Both refresh a token shortly before it ends.  Drive's source has no     *)
(* lock and keeps its refresh token; OneDrive's holds a mutex for as long  *)
(* as a refresh takes, is given a new refresh token each time, and its     *)
(* client gives up after a timeout.  S3 has no tokens: its requests are    *)
(* signed with a key.                                                      *)
(***************************************************************************)
EXTENDS Integers

CONSTANTS
    Callers,    \* goroutines that send requests
    None,
    Life,       \* expires_in, in ticks
    Margin,     \* the 60 seconds before expiry, in ticks
    Timeout,    \* OneDrive: Timeout of the client that refreshes, in ticks
    MaxTime,    \* bound on the clock
    MaxFaults   \* bound on failures and restarts

ASSUME TokenAssumption ==
    /\ Life \in Nat /\ Timeout \in Nat /\ Margin \in Timeout .. Life
    /\ MaxTime \in Nat /\ MaxFaults \in Nat /\ None \notin Callers

VARIABLES
    kind,       \* the backend that the configuration names
    now,
    newest,     \* the number of the last refresh token the server has handed out
    tokensFile, \* the token file: a token is the time at which it ends
    ts,         \* the tokenSource
    mu,         \* who holds the mutex
    reply,      \* the server's answer to a caller's refresh
    stage,      \* where a caller is in refresh
    token,      \* what refresh has returned, until the request is sent
    faults

(* History: no guard reads them.                                           *)
VARIABLES
    fresh,      \* the source has refreshed since it was loaded
    slow,       \* an answer took longer than the margin
    behind,     \* the server's newest refresh token did not reach the source
    unsaved     \* the source's did not reach the file

Kinds == {"gdrive", "onedrive", "s3"}

source == <<newest, tokensFile, ts, mu, reply, stage, token, fresh, slow, behind, unsaved>>
tokenVars == <<kind, now, source, faults>>

Locked  == kind = "onedrive"
Rotates == kind = "onedrive"
Signs   == kind = "s3"

(* Loaded with the life that the file gives, however old the file is.      *)
newTokenSource(f) == [access |-> f.access, refresh |-> f.refresh, expiry |-> now + f.life]

(* The file a program may find: of a session that ended long ago, or made  *)
(* by hand from a refresh token, with no expires_in.  (A restart finds the *)
(* file of a session that has just ended.)                                 *)
Files == [access : {0}, life : {0, Life}, refresh : {0}]

TokenInit ==
    /\ kind \in Kinds /\ now = 0 /\ newest = 0
    /\ tokensFile \in Files
    /\ ts = newTokenSource(tokensFile)
    /\ mu = None
    /\ reply = [c \in Callers |-> None] /\ token = [c \in Callers |-> None]
    /\ stage = [c \in Callers |-> "out"]
    /\ faults = 0
    /\ fresh = FALSE /\ slow = FALSE /\ behind = FALSE /\ unsaved = FALSE

Fault == faults < MaxFaults /\ faults' = faults + 1

-----------------------------------------------------------------------------
(* Mutant: tokens are used to the end of their life.                       *)
DueAtExpiry == now >= ts.expiry

Due == now >= ts.expiry - Margin

(* Mutant: the mutex is not taken.                                         *)
MayEnterUnlocked(c) == stage[c] = "out" /\ token[c] = None /\ ~Signs

MayEnter(c) == stage[c] = "out" /\ token[c] = None /\ ~Signs /\ (Locked => mu = None)

(* RoundTrip: the caller has a token for its next request, which the       *)
(* server may take.                                                        *)
Ready(c)  == Signs \/ token[c] # None \/ (MayEnter(c) /\ ~Due)
Bearer(c) == IF token[c] # None THEN token[c] ELSE ts.access
Good(c)   == Signs \/ now < Bearer(c)
Spend(c)  ==
    /\ Ready(c)
    /\ token' = [token EXCEPT ![c] = None]
    /\ UNCHANGED <<kind, now, newest, tokensFile, ts, mu, reply, stage, fresh, slow, behind, unsaved>>

(* refresh: the server answers.  A refresh token that has been replaced    *)
(* may still be good or not.                                               *)
Refresh(c) ==
    /\ MayEnter(c) /\ Due
    /\ newest' = IF Rotates THEN newest + 1 ELSE newest
    /\ reply' = [reply EXCEPT ![c] = [access |-> now + Life, refresh |-> newest', at |-> now]]
    /\ stage' = [stage EXCEPT ![c] = "asked"]
    /\ mu' = IF Locked THEN c ELSE mu
    /\ UNCHANGED <<kind, now, tokensFile, ts, token, faults, fresh, slow, behind, unsaved>>

RefreshRefused(c) ==
    /\ MayEnter(c) /\ Due
    /\ (ts.refresh # newest /\ UNCHANGED faults) \/ Fault
    /\ UNCHANGED <<kind, now, source>>

TimedOut(c) == Locked /\ now > reply[c].at + Timeout

Leave(c) ==
    /\ stage' = [stage EXCEPT ![c] = "out"]
    /\ mu' = IF mu = c THEN None ELSE mu

(* The answer does not come, or too late.                                  *)
AnswerLost(c) ==
    /\ stage[c] = "asked"
    /\ (TimedOut(c) /\ UNCHANGED faults) \/ Fault
    /\ Leave(c) /\ reply' = [reply EXCEPT ![c] = None]
    /\ behind' = (behind \/ Rotates)
    /\ UNCHANGED <<kind, now, newest, tokensFile, ts, token, fresh, slow, unsaved>>

Answered(c) ==
    /\ stage[c] = "asked" /\ ~TimedOut(c)
    /\ ts' = [access |-> reply[c].access, expiry |-> now + Life,
              refresh |-> IF Rotates THEN reply[c].refresh ELSE ts.refresh]
    /\ stage' = [stage EXCEPT ![c] = "save"]
    /\ reply' = [reply EXCEPT ![c] = None]
    /\ fresh' = TRUE /\ slow' = (slow \/ now > reply[c].at + Margin) /\ behind' = FALSE
    /\ UNCHANGED <<kind, now, newest, tokensFile, mu, token, faults, unsaved>>

Return(c) == Leave(c) /\ token' = [token EXCEPT ![c] = ts.access]

(* SaveTokens: a file in the same directory, renamed when it is complete.  *)
Save(c) ==
    /\ stage[c] = "save"
    /\ tokensFile' = [access |-> ts.access, life |-> Life, refresh |-> ts.refresh]
    /\ unsaved' = FALSE
    /\ Return(c)
    /\ UNCHANGED <<kind, now, newest, ts, reply, faults, fresh, slow, behind>>

(* OneDrive prints a warning and goes on.                                  *)
SaveFails(c) ==
    /\ stage[c] = "save" /\ Fault
    /\ unsaved' = TRUE
    /\ IF Locked THEN Return(c) ELSE Leave(c) /\ UNCHANGED token
    /\ UNCHANGED <<kind, now, newest, tokensFile, ts, reply, fresh, slow, behind>>

Tick == /\ now < MaxTime /\ now' = now + 1
        /\ UNCHANGED <<kind, source, faults>>

(* The program starts again.                                               *)
Reload ==
    /\ Fault
    /\ ts' = newTokenSource(tokensFile)
    /\ mu' = None /\ fresh' = FALSE /\ unsaved' = FALSE
    /\ reply' = [c \in Callers |-> None] /\ token' = [c \in Callers |-> None]
    /\ stage' = [c \in Callers |-> "out"]
    /\ behind' = (tokensFile.refresh # newest)
    /\ UNCHANGED <<kind, now, newest, tokensFile, slow>>

-----------------------------------------------------------------------------
(* A token that is handed out without a refresh is one that the server     *)
(* still takes, as long as no refresh took longer than the margin: also    *)
(* when two callers refresh at once and the answers come in either order.  *)
(* Only a source that goes by the life in a file may be wrong.             *)
HandsOutLive == fresh /\ ~slow /\ ~Due => now < ts.access

(* Outside a refresh the source has the newest refresh token that the      *)
(* server has handed out and so has the file, unless an answer or a save   *)
(* was lost: no two callers spend one refresh token, and none overwrites   *)
(* the file with an older one.                                             *)
NewestKept ==
    Rotates /\ (\A c \in Callers : stage[c] = "out") =>
        /\ ~behind => ts.refresh = newest
        /\ ~behind /\ ~unsaved => tokensFile.refresh = newest
=============================================================================
