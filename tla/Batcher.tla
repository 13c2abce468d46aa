------------------------------ MODULE Batcher ------------------------------
(***************************************************************************)
(* The batcher of live sync (internal/livesync/batcher.go): patches are    *)
(* buffered under a mutex and handed to a callback when enough of them     *)
(* have come, or when the ticker's goroutine finds some.                   *)
(*                                                                         *)
(* What is done under the mutex is one step; the callback runs outside it  *)
(* and is another, so a batch is in the hands of its taker for a while.    *)
(* The callback's error is dropped by the code and left out here.          *)
(***************************************************************************)
EXTENDS Integers, FiniteSets, SequencesExt

CONSTANTS
    Producers,   \* goroutines that call Add
    Timer,       \* the goroutine that NewBatcher starts
    Lengths,     \* how many bytes the patches of one Add may have
    MaxPatches,  \* BatcherConfig.MaxPatches
    MaxBytes,    \* BatcherConfig.MaxBytes
    MaxAdds      \* bound on the calls of Add by one producer

ASSUME ThreadsAssumption == IsFiniteSet(Producers) /\ Timer \notin Producers
ASSUME LimitsAssumption  == /\ Lengths \subseteq Nat /\ MaxAdds \in Nat
                            /\ MaxPatches \in Nat \ {0} /\ MaxBytes \in Nat \ {0}

Threads == Producers \cup {Timer}
FilePatches == [by : Producers, n : 1 .. MaxAdds, bytes : Lengths]

VARIABLES
    buffer,   \* what waits, in the order added
    size,     \* its bytes
    pc,       \* the next step of each thread
    batch,    \* what a thread has taken and not yet handed over
    tick,     \* a tick is waiting in the ticker's channel
    ticking,  \* the ticker has not been stopped
    done,     \* the done channel is closed
    added,    \* how often each producer has called Add
    handed    \* all that the callback has been given

vars == <<buffer, size, pc, batch, tick, ticking, done, added, handed>>

Init ==
    /\ buffer = << >> /\ size = 0
    /\ pc = [t \in Threads |-> "idle"]
    /\ batch = [t \in Threads |-> << >>]
    /\ tick = FALSE /\ ticking = TRUE /\ done = FALSE
    /\ added = [p \in Producers |-> 0]
    /\ handed = {}

Goto(t, step) == pc' = [pc EXCEPT ![t] = step]

(* Mutant: one patch too many before the threshold is seen.                *)
FullLate(n, bytes) == n > MaxPatches \/ bytes >= MaxBytes

Full(n, bytes) == n >= MaxPatches \/ bytes >= MaxBytes

Add(p) ==
    /\ pc[p] = "idle" /\ added[p] < MaxAdds
    /\ \E z \in Lengths :
          /\ buffer' = Append(buffer, [by |-> p, n |-> added[p] + 1, bytes |-> z])
          /\ size' = size + z
          /\ Goto(p, IF Full(Len(buffer) + 1, size + z) THEN "flush" ELSE "idle")
    /\ added' = [added EXCEPT ![p] = @ + 1]
    /\ UNCHANGED <<batch, tick, ticking, done, handed>>

(* Mutant: the buffer is copied, not emptied.                              *)
TakeCopy(t) ==
    /\ pc[t] = "flush" /\ buffer # << >>
    /\ batch' = [batch EXCEPT ![t] = buffer]
    /\ size' = 0
    /\ Goto(t, "hand")
    /\ UNCHANGED <<buffer, tick, ticking, done, added, handed>>

(* flush, up to the unlock: the whole buffer is taken.                     *)
Take(t) ==
    /\ pc[t] = "flush" /\ buffer # << >>
    /\ batch' = [batch EXCEPT ![t] = buffer]
    /\ buffer' = << >> /\ size' = 0
    /\ Goto(t, "hand")
    /\ UNCHANGED <<tick, ticking, done, added, handed>>

(* Mutant: the ticker's goroutine returns when it finds nothing.           *)
TakeNothingQuit(t) ==
    /\ pc[t] = "flush" /\ buffer = << >>
    /\ Goto(t, IF t = Timer THEN "gone" ELSE "idle")
    /\ UNCHANGED <<buffer, size, batch, tick, ticking, done, added, handed>>

(* flush finds the buffer empty: another thread was faster.                *)
TakeNothing(t) ==
    /\ pc[t] = "flush" /\ buffer = << >>
    /\ Goto(t, "idle")
    /\ UNCHANGED <<buffer, size, batch, tick, ticking, done, added, handed>>

(* The callback, outside the lock.                                         *)
Hand(t) ==
    /\ pc[t] = "hand"
    /\ handed' = handed \cup ToSet(batch[t])
    /\ batch' = [batch EXCEPT ![t] = << >>]
    /\ Goto(t, "idle")
    /\ UNCHANGED <<buffer, size, tick, ticking, done, added>>

(* The ticker ticks; a tick nobody has taken yet swallows the next.        *)
Tick ==
    /\ ticking /\ ~tick
    /\ tick' = TRUE
    /\ UNCHANGED <<buffer, size, pc, batch, ticking, done, added, handed>>

(* run: one of the two channels is ready.                                  *)
Fire ==
    /\ pc[Timer] = "idle" /\ tick
    /\ tick' = FALSE
    /\ Goto(Timer, "flush")
    /\ UNCHANGED <<buffer, size, batch, ticking, done, added, handed>>

Quit ==
    /\ pc[Timer] = "idle" /\ done
    /\ Goto(Timer, "gone")
    /\ UNCHANGED <<buffer, size, batch, tick, ticking, done, added, handed>>

(* Stop, called once: a second close of done would panic.  After           *)
(* ticker.Stop no tick is left in the channel.                             *)
StopTicker ==
    /\ ticking
    /\ ticking' = FALSE /\ tick' = FALSE
    /\ UNCHANGED <<buffer, size, pc, batch, done, added, handed>>

(* Mutant: Stop leaves the done channel open.                              *)
CloseDoneNot ==
    /\ ~ticking /\ ~done
    /\ UNCHANGED vars

CloseDone ==
    /\ ~ticking /\ ~done
    /\ done' = TRUE
    /\ UNCHANGED <<buffer, size, pc, batch, tick, ticking, added, handed>>

Flush(t) == Take(t) \/ TakeNothing(t) \/ Hand(t)

Next == \/ \E p \in Producers : Add(p)
        \/ \E t \in Threads : Flush(t)
        \/ Tick \/ Fire \/ Quit \/ StopTicker \/ CloseDone

(* Goroutines that can run do, and the ticker goes on ticking.  Nobody has *)
(* to call Add or Stop.                                                    *)
Fairness == /\ \A t \in Threads : WF_vars(Flush(t))
            /\ WF_vars(Tick) /\ WF_vars(Fire) /\ WF_vars(Quit) /\ WF_vars(CloseDone)

Spec == Init /\ [][Next]_vars /\ Fairness

-----------------------------------------------------------------------------
(* The buffer never holds more than the thresholds allow without a         *)
(* producer on its way to empty it: whoever adds the patch that fills it   *)
(* flushes, or finds that another thread has, and no other flush can make  *)
(* it forget to.                                                           *)
Flushing == {p \in Producers : pc[p] = "flush"}
BufferBounded ==
    /\ Len(buffer) < MaxPatches + Cardinality(Flushing)
    /\ size >= MaxBytes => Flushing # {}

(* Each patch is handed over at most once and never dropped, whatever      *)
(* flushes of producers and of the ticker overlap: what waits is what is   *)
(* in the buffer and in the hands of a thread.                             *)
InHand == UNION {ToSet(batch[t]) : t \in Threads}
Promise == INSTANCE Handover WITH Items <- FilePatches,
              waiting <- ToSet(buffer) \cup InHand, handed <- handed
HandedOnce == Promise!Spec

(* A patch that was added is handed over in the end, unless it is still in *)
(* the buffer when Stop is called.  One that a thread has taken before     *)
(* that is handed over even after Stop.                                    *)
Of(S, p, n) == \E fp \in S : fp.by = p /\ fp.n = n
EventuallyHanded ==
    \A p \in Producers, n \in 1 .. MaxAdds :
        added[p] >= n ~> \/ Of(handed, p, n)
                         \/ ~ticking /\ Of(ToSet(buffer), p, n)

(* After Stop the goroutine of the ticker ends, also when Stop comes while *)
(* it is flushing.                                                         *)
StopEnds == ~ticking ~> pc[Timer] = "gone"
=============================================================================
