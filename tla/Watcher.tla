------------------------------ MODULE Watcher ------------------------------
(***************************************************************************)
(* The watcher of live sync (internal/livesync/watcher.go): one goroutine  *)
(* turns the events of fsnotify into those that live sync reads from a     *)
(* channel.  Users and the syncer write files; the syncer marks a path     *)
(* before it writes there.                                                 *)
(*                                                                         *)
(* What handleEvent does under the mutex is one step, the send another.    *)
(* Time is counted in ticks of which Debounce are the debounce interval.   *)
(* One write may give several events.                                      *)
(***************************************************************************)
EXTENDS Integers, FiniteSets, SequencesExt

CONSTANTS
    Paths,
    Ignored,     \* those of the paths that match a pattern of ignore
    Ops,         \* fsnotify's operations that may occur
    Debounce,    \* debounce, in ticks
    Room,        \* capacity of the channel, 100 in the code
    NoEvent,     \* no event in hand
    MaxWrites,   \* bound on the events of fsnotify
    MaxTime      \* bound on the clock

ASSUME WatcherAssumption ==
    /\ Ignored \subseteq Paths
    /\ Ops \subseteq {"Create", "Write", "Remove", "Rename", "Chmod"}
    /\ Debounce \in Nat /\ Room \in Nat \ {0} /\ MaxWrites \in Nat /\ MaxTime \in Nat

Origins == {"user", "self"}
Event(p, op, by) == [path |-> p, op |-> op, by |-> by]

VARIABLES
    fsEvents,     \* fsWatcher.Events
    hand,         \* handleEvent: the event to be sent, with its time, or NoEvent
    events,       \* the channel
    selfWrites,   \* paths marked
    lastEvent,    \* time of the last event of a path that was let through, or -1
    closed,       \* Close was called
    running,      \* the goroutine runs
    now,          \* the clock
    writes

(* History: no guard reads them.                                           *)
VARIABLES
    sent,         \* all that was put into the channel, in order
    markedAt,     \* when a path was last marked, or -1
    filtered      \* <<path, time since it was marked>> of events a mark stopped

watchHistory == <<sent, markedAt, filtered>>
watchVars == <<fsEvents, hand, events, selfWrites, lastEvent, closed, running, now, writes,
               watchHistory>>

WatchInit ==
    /\ fsEvents = << >> /\ hand = NoEvent /\ events = << >>
    /\ selfWrites = {} /\ lastEvent = [p \in Paths |-> -1]
    /\ closed = FALSE /\ running = TRUE /\ now = 0 /\ writes = 0
    /\ sent = << >> /\ markedAt = [p \in Paths |-> -1] /\ filtered = {}

-----------------------------------------------------------------------------
(***************************************************************************)
(* The surroundings.                                                       *)
(***************************************************************************)
Elapse ==
    /\ now < MaxTime /\ now' = now + 1
    /\ UNCHANGED <<fsEvents, hand, events, selfWrites, lastEvent, closed, running, writes,
                   watchHistory>>

(* A file is changed.  The syncer only writes where it has marked the path *)
(* before.                                                                 *)
Change(p, op, by) ==
    /\ writes < MaxWrites /\ ~closed
    /\ by = "self" => p \in selfWrites
    /\ fsEvents' = Append(fsEvents, Event(p, op, by))
    /\ writes' = writes + 1
    /\ UNCHANGED <<hand, events, selfWrites, lastEvent, closed, running, now, watchHistory>>

(* Live sync reads the channel.                                            *)
Receive ==
    /\ events # << >> /\ events' = Tail(events)
    /\ UNCHANGED <<fsEvents, hand, selfWrites, lastEvent, closed, running, now, writes,
                   watchHistory>>

MarkSelfWrite(p) ==
    /\ p \notin selfWrites
    /\ selfWrites' = selfWrites \cup {p}
    /\ markedAt' = [markedAt EXCEPT ![p] = now]
    /\ UNCHANGED <<fsEvents, hand, events, lastEvent, closed, running, now, writes, sent, filtered>>

Close ==
    /\ ~closed /\ closed' = TRUE
    /\ UNCHANGED <<fsEvents, hand, events, selfWrites, lastEvent, running, now, writes,
                   watchHistory>>

-----------------------------------------------------------------------------
(***************************************************************************)
(* run and handleEvent.                                                    *)
(***************************************************************************)
Ready == running /\ hand = NoEvent /\ fsEvents # << >>

Recent(p) == lastEvent[p] >= 0 /\ now - lastEvent[p] < Debounce

(* Mutant: a mark stops one event and is gone.                             *)
SkipUnmarking ==
    LET e == Head(fsEvents)
    IN  /\ Ready
        /\ e.path \in Ignored \cup selfWrites \/ Recent(e.path)
        /\ fsEvents' = Tail(fsEvents)
        /\ selfWrites' = selfWrites \ {e.path}
        /\ UNCHANGED <<hand, events, lastEvent, closed, running, now, writes, watchHistory>>

(* An event that matches a pattern, of a path that is marked, or too soon  *)
(* after another.                                                          *)
Skip ==
    LET e == Head(fsEvents)
    IN  /\ Ready
        /\ e.path \in Ignored \cup selfWrites \/ Recent(e.path)
        /\ fsEvents' = Tail(fsEvents)
        /\ filtered' = IF e.path \in selfWrites \ Ignored
                       THEN filtered \cup {<<e.path, now - markedAt[e.path]>>} ELSE filtered
        /\ UNCHANGED <<hand, events, selfWrites, lastEvent, closed, running, now, writes,
                       sent, markedAt>>

(* An event is let through: from now on the path is debounced, also when   *)
(* it then turns out to be of no known type.                               *)
Admit ==
    LET e == Head(fsEvents)
    IN  /\ Ready
        /\ e.path \notin Ignored \cup selfWrites /\ ~Recent(e.path)
        /\ fsEvents' = Tail(fsEvents)
        /\ lastEvent' = [lastEvent EXCEPT ![e.path] = now]
        /\ hand' = IF e.op = "Chmod" THEN NoEvent ELSE [event |-> e, time |-> now]
        /\ UNCHANGED <<events, selfWrites, closed, running, now, writes, watchHistory>>

(* Mutant: the send waits for room in the channel.                         *)
SendBlocks ==
    /\ hand # NoEvent /\ Len(events) < Room
    /\ events' = Append(events, hand) /\ sent' = Append(sent, hand)
    /\ hand' = NoEvent
    /\ UNCHANGED <<fsEvents, selfWrites, lastEvent, closed, running, now, writes, markedAt,
                   filtered>>

(* The send, or the event is dropped.                                      *)
Send ==
    /\ hand # NoEvent
    /\ IF Len(events) < Room THEN events' = Append(events, hand) /\ sent' = Append(sent, hand)
       ELSE UNCHANGED <<events, sent>>
    /\ hand' = NoEvent
    /\ UNCHANGED <<fsEvents, selfWrites, lastEvent, closed, running, now, writes, markedAt,
                   filtered>>

(* Both channels are closed by Close; select may still take events first.  *)
EndRun ==
    /\ running /\ hand = NoEvent /\ closed
    /\ running' = FALSE
    /\ UNCHANGED <<fsEvents, hand, events, selfWrites, lastEvent, closed, now, writes,
                   watchHistory>>

handleEvent == Skip \/ Admit \/ Send

WatchNext ==
    \/ Elapse \/ Receive \/ Close
    \/ \E p \in Paths : MarkSelfWrite(p)
    \/ \E p \in Paths, op \in Ops, by \in Origins : Change(p, op, by)
    \/ handleEvent \/ EndRun

(* The goroutine runs when it can; nobody else has to do anything.         *)
WatchFairness == WF_watchVars(handleEvent) /\ WF_watchVars(EndRun)

WatchSpec == WatchInit /\ [][WatchNext]_watchVars /\ WatchFairness

-----------------------------------------------------------------------------
(* What live sync is given are events of users: no write of the syncer     *)
(* comes back, however many events it gives and however many others are    *)
(* about, and two events of one path are a debounce interval apart.        *)
UserEdits ==
    \A i \in DOMAIN sent :
        /\ sent[i].event.by = "user"
        /\ \A j \in 1 .. i - 1 :
              sent[j].event.path = sent[i].event.path => sent[i].time - sent[j].time >= Debounce

(* After Close the goroutine ends, also when nobody reads the channel any  *)
(* more and it is full.                                                    *)
CloseEnds == closed ~> ~running

-----------------------------------------------------------------------------
(* The filter for self-writes "keeps filtering for debounce duration".     *)
(* (It keeps filtering for good: users' later writes go unnoticed.)        *)
FiltersForDebounce == \A f \in filtered : f[2] < Debounce
=============================================================================
