--------------------------- MODULE LiveSyncProofs ---------------------------
(***************************************************************************)
(* The buffer of the batcher stays bounded, no patch is held twice, and    *)
(* the batcher implements Handover, for all numbers of producers, patches  *)
(* and thresholds.  A device's snapshots and patch log lose no edit, for   *)
(* all numbers of files, editors, writers of snapshots and providers.      *)
(* What live sync is given by the watcher are users' edits, debounced, for *)
(* all sets of paths, intervals and capacities of the channel.             *)
(***************************************************************************)
EXTENDS Batcher, PatchLog, Watcher, FiniteSetTheorems, SequenceTheorems,
        WellFoundedInduction, TLAPS

Distinct(s) == \A i, j \in DOMAIN s : s[i] = s[j] => i = j

TypeOK ==
    /\ buffer \in Seq(FilePatches) /\ size \in Nat
    /\ pc \in [Threads -> {"idle", "flush", "hand", "gone"}]
    /\ batch \in [Threads -> Seq(FilePatches)]
    /\ added \in [Producers -> 0 .. MaxAdds]
    /\ handed \subseteq FilePatches

(* A thread holds a batch exactly when it is about to hand it over, and    *)
(* the size is reset with the buffer.                                      *)
Held == /\ \A t \in Threads : pc[t] = "hand" <=> batch[t] # << >>
        /\ buffer = << >> => size = 0

(* What the batcher has seen is numbered up to the calls of Add.           *)
Numbered == \A fp \in ToSet(buffer) \cup InHand \cup handed : fp.n <= added[fp.by]

(* No patch is in two places, or twice in one.                             *)
Apart ==
    /\ Distinct(buffer) /\ ToSet(buffer) \cap handed = {}
    /\ \A t \in Threads :
          /\ Distinct(batch[t])
          /\ ToSet(batch[t]) \cap (ToSet(buffer) \cup handed) = {}
          /\ \A u \in Threads \ {t} : ToSet(batch[t]) \cap ToSet(batch[u]) = {}

IInv == TypeOK /\ Held /\ Numbered /\ Apart

-----------------------------------------------------------------------------
LEMMA Appending ==
  ASSUME NEW S, NEW s \in Seq(S), NEW e \in S
  PROVE  /\ Append(s, e) \in Seq(S) /\ Append(s, e) # << >>
         /\ ToSet(Append(s, e)) = ToSet(s) \cup {e}
         /\ e \notin ToSet(s) /\ Distinct(s) => Distinct(Append(s, e))
  <1> DEFINE r == Append(s, e)
  <1>1. /\ r \in Seq(S) /\ Len(r) = Len(s) + 1 /\ Len(s) \in Nat
        /\ DOMAIN s = 1 .. Len(s) /\ DOMAIN r = 1 .. Len(r)
        /\ \A i \in 1 .. Len(s) : r[i] = s[i]
        /\ r[Len(s) + 1] = e
    OBVIOUS
  <1> HIDE DEF r
  <1>2. ToSet(r) = ToSet(s) \cup {e}
    <2>1. ToSet(s) \cup {e} \subseteq ToSet(r)
      BY <1>1 DEF ToSet
    <2>2. ToSet(r) \subseteq ToSet(s) \cup {e}
      BY <1>1 DEF ToSet
    <2> QED BY <2>1, <2>2
  <1>3. r # << >>
    BY <1>1
  <1>4. e \notin ToSet(s) /\ Distinct(s) => Distinct(r)
    BY <1>1 DEF ToSet, Distinct
  <1> QED BY <1>1, <1>2, <1>3, <1>4 DEF r

LEMMA Emptiness ==
  /\ ToSet(<< >>) = {} /\ Distinct(<< >>)
  /\ \A S : \A s \in Seq(S) : ToSet(s) \subseteq S /\ (ToSet(s) = {} <=> s = << >>)
  <1>1. DOMAIN << >> = {}
    OBVIOUS
  <1>2. ToSet(<< >>) = {} /\ Distinct(<< >>)
    BY <1>1 DEF ToSet, Distinct
  <1>3. ASSUME NEW S, NEW s \in Seq(S)
        PROVE  ToSet(s) \subseteq S /\ (ToSet(s) = {} => s = << >>)
    <2>1. DOMAIN s = 1 .. Len(s) /\ Len(s) \in Nat /\ \A i \in 1 .. Len(s) : s[i] \in S
      OBVIOUS
    <2>2. ToSet(s) \subseteq S
      BY <2>1 DEF ToSet
    <2>3. ASSUME ToSet(s) = {} PROVE s = << >>
      <3>1. 1 \notin DOMAIN s
        BY <2>3 DEF ToSet
      <3> QED BY <3>1, <2>1
    <2> QED BY <2>2, <2>3
  <1> QED BY <1>2, <1>3

(* InHand, thread by thread.                                               *)
LEMMA InHandAll ==
  ASSUME NEW fp
  PROVE  fp \in InHand <=> \E t \in Threads : fp \in ToSet(batch[t])
  BY DEF InHand

LEMMA InHandAllNext ==
  ASSUME NEW fp
  PROVE  fp \in InHand' <=> \E t \in Threads : fp \in ToSet(batch'[t])
  BY DEF InHand

LEMMA InitIInv == Init => IInv
  <1> SUFFICES ASSUME Init PROVE IInv
    OBVIOUS
  <1>1. TypeOK /\ Held
    BY LimitsAssumption DEF Init, TypeOK, Held
  <1>2. InHand = {}
    BY Emptiness DEF Init, InHand
  <1>3. Numbered /\ Apart
    BY <1>2, Emptiness DEF Init, Numbered, Apart
  <1> QED BY <1>1, <1>3 DEF IInv

(* The patch of a call of Add is one the batcher has not seen.             *)
LEMMA Fresh ==
  ASSUME IInv, NEW p \in Producers, added[p] < MaxAdds, NEW z \in Lengths,
         NEW fp, fp = [by |-> p, n |-> added[p] + 1, bytes |-> z]
  PROVE  /\ fp \in FilePatches
         /\ fp \notin ToSet(buffer) \cup InHand \cup handed
  <1>1. added[p] \in 0 .. MaxAdds /\ MaxAdds \in Nat
    BY LimitsAssumption DEF IInv, TypeOK
  <1>2. fp \in FilePatches
    BY <1>1 DEF FilePatches
  <1>3. ~ fp.n <= added[fp.by]
    BY <1>1
  <1> QED BY <1>2, <1>3 DEF IInv, Numbered

LEMMA AddIInv ==
  ASSUME IInv, NEW p \in Producers, Add(p)
  PROVE  IInv'
  <1>1. PICK z \in Lengths :
          /\ buffer' = Append(buffer, [by |-> p, n |-> added[p] + 1, bytes |-> z])
          /\ size' = size + z
          /\ Goto(p, IF Full(Len(buffer) + 1, size + z) THEN "flush" ELSE "idle")
    BY DEF Add
  <1> DEFINE fp == [by |-> p, n |-> added[p] + 1, bytes |-> z]
  <1>2. fp \in FilePatches /\ fp \notin ToSet(buffer) \cup InHand \cup handed
    BY Fresh DEF Add
  <1> HIDE DEF fp
  <1>3. buffer' = Append(buffer, fp)
    BY <1>1 DEF fp
  <1>4. fp.by = p /\ fp.n = added[p] + 1
    BY DEF fp
  <1>5. /\ buffer \in Seq(FilePatches) /\ p \in Threads /\ added[p] \in 0 .. MaxAdds
        /\ MaxAdds \in Nat /\ z \in Nat
    BY LimitsAssumption DEF IInv, TypeOK, Threads
  <1>6. /\ buffer' \in Seq(FilePatches) /\ buffer' # << >>
        /\ ToSet(buffer') = ToSet(buffer) \cup {fp} /\ Distinct(buffer')
    BY <1>2, <1>3, <1>5, Appending DEF IInv, Apart
  <1>7. TypeOK'
    <2>1. /\ size' \in Nat /\ batch' = batch /\ handed' = handed
          /\ added' \in [Producers -> 0 .. MaxAdds]
      BY <1>1, <1>5 DEF IInv, TypeOK, Add
    <2>2. pc' \in [Threads -> {"idle", "flush", "hand", "gone"}]
      BY <1>1 DEF IInv, TypeOK, Goto
    <2> QED BY <1>6, <2>1, <2>2 DEF IInv, TypeOK
  <1>8. Held'
    BY <1>1, <1>5, <1>6 DEF IInv, TypeOK, Held, Add, Goto
  <1>9. Numbered'
    <2> SUFFICES ASSUME NEW x \in ToSet(buffer') \cup InHand' \cup handed'
                 PROVE  x.n <= added'[x.by]
      BY DEF Numbered
    <2>1. CASE x = fp
      BY <2>1, <1>4, <1>5 DEF Add, IInv, TypeOK
    <2>2. CASE x # fp
      <3>1. x \in ToSet(buffer) \cup InHand \cup handed
        BY <2>2, <1>6 DEF Add, InHand
      <3>2. x \in FilePatches /\ x.n <= added[x.by]
        BY <3>1, Emptiness, InHandAll DEF IInv, TypeOK, Numbered
      <3> QED BY <3>2 DEF Add, IInv, TypeOK, FilePatches
    <2> QED BY <2>1, <2>2
  <1>10. Apart'
    <2>1. batch' = batch /\ handed' = handed
      BY DEF Add
    <2>2. fp \notin handed /\ \A t \in Threads : fp \notin ToSet(batch[t])
      BY <1>2, InHandAll
    <2> QED BY <1>6, <2>1, <2>2 DEF IInv, Apart
  <1> QED BY <1>7, <1>8, <1>9, <1>10 DEF IInv

LEMMA TakeIInv ==
  ASSUME IInv, NEW t \in Threads, Take(t)
  PROVE  IInv'
  <1>1. batch[t] = << >> /\ buffer \in Seq(FilePatches)
    BY DEF IInv, TypeOK, Held, Take
  <1>2. \A u \in Threads : batch'[u] = IF u = t THEN buffer ELSE batch[u]
    BY DEF IInv, TypeOK, Take
  <1>3. TypeOK'
    BY <1>1 DEF IInv, TypeOK, Take, Goto
  <1>4. Held'
    BY <1>1, <1>2 DEF IInv, TypeOK, Held, Take, Goto
  <1>5. \A x : x \in InHand' => x \in InHand \cup ToSet(buffer)
    BY <1>2, InHandAll, InHandAllNext
  <1>6. Numbered'
    BY <1>5, Emptiness DEF IInv, Numbered, Take
  <1>7. Apart'
    <2>1. handed' = handed /\ Distinct(buffer)' /\ ToSet(buffer') = {}
      BY Emptiness DEF Take
    <2>2. /\ ToSet(batch[t]) = {} /\ ToSet(batch'[t]) = ToSet(buffer) /\ Distinct(batch'[t])
          /\ \A u \in Threads \ {t} : batch'[u] = batch[u]
      BY <1>1, <1>2, Emptiness DEF IInv, Apart
    <2>3. \A u \in Threads : Distinct(batch'[u]) /\ ToSet(batch'[u]) \cap handed = {}
      BY <2>2 DEF IInv, Apart
    <2>4. ASSUME NEW u \in Threads, NEW w \in Threads \ {u}
          PROVE  ToSet(batch'[u]) \cap ToSet(batch'[w]) = {}
      BY <2>2, <2>4 DEF IInv, Apart
    <2> QED BY <2>1, <2>3, <2>4 DEF Apart
  <1> QED BY <1>3, <1>4, <1>6, <1>7 DEF IInv

LEMMA HandIInv ==
  ASSUME IInv, NEW t \in Threads, Hand(t)
  PROVE  IInv'
  <1>1. \A u \in Threads : batch'[u] = IF u = t THEN << >> ELSE batch[u]
    BY DEF IInv, TypeOK, Hand
  <1>2. ToSet(batch[t]) \subseteq FilePatches
    BY Emptiness DEF IInv, TypeOK
  <1>3. TypeOK'
    BY <1>2 DEF IInv, TypeOK, Hand, Goto
  <1>4. Held'
    BY <1>1 DEF IInv, TypeOK, Held, Hand, Goto
  <1>5. \A x : x \in InHand' => x \in InHand
    BY <1>1, InHandAll, InHandAllNext, Emptiness
  <1>6. Numbered'
    BY <1>5, InHandAll DEF IInv, Numbered, Hand
  <1>7. Apart'
    <2>1. buffer' = buffer /\ handed' = handed \cup ToSet(batch[t])
      BY DEF Hand
    <2>2. /\ Distinct(batch'[t]) /\ ToSet(batch'[t]) = {}
          /\ \A u \in Threads \ {t} : batch'[u] = batch[u]
      BY <1>1, Emptiness
    <2>3. Distinct(buffer)' /\ ToSet(buffer') \cap handed' = {}
      BY <2>1 DEF IInv, Apart
    <2>4. ASSUME NEW u \in Threads
          PROVE  Distinct(batch'[u]) /\ ToSet(batch'[u]) \cap (ToSet(buffer') \cup handed') = {}
      <3>1. CASE u = t
        BY <2>2, <3>1
      <3>2. CASE u # t
        BY <2>1, <2>2, <3>2 DEF IInv, Apart
      <3> QED BY <3>1, <3>2
    <2>5. ASSUME NEW u \in Threads, NEW w \in Threads \ {u}
          PROVE  ToSet(batch'[u]) \cap ToSet(batch'[w]) = {}
      BY <2>2, <2>5 DEF IInv, Apart
    <2> QED BY <2>3, <2>4, <2>5 DEF Apart
  <1> QED BY <1>3, <1>4, <1>6, <1>7 DEF IInv

LEMMA QuietIInv ==
  ASSUME IInv,
         \/ \E t \in Threads : TakeNothing(t)
         \/ Tick \/ Fire \/ Quit \/ StopTicker \/ CloseDone \/ UNCHANGED vars
  PROVE  IInv'
  <1>1. UNCHANGED <<buffer, size, batch, added, handed>>
    BY DEF TakeNothing, Tick, Fire, Quit, StopTicker, CloseDone, vars
  <1>2. /\ pc' \in [Threads -> {"idle", "flush", "hand", "gone"}]
        /\ \A t \in Threads : pc'[t] = "hand" <=> pc[t] = "hand"
    BY DEF TakeNothing, Tick, Fire, Quit, StopTicker, CloseDone, vars, Goto, IInv, TypeOK,
       Threads
  <1>3. TypeOK' /\ Held'
    BY <1>1, <1>2 DEF IInv, TypeOK, Held
  <1>4. Numbered' /\ Apart'
    BY <1>1 DEF IInv, Numbered, Apart, InHand
  <1> QED BY <1>3, <1>4 DEF IInv

LEMMA NextIInv == IInv /\ [Next]_vars => IInv'
  BY AddIInv, TakeIInv, HandIInv, QuietIInv DEF Next, Flush

LEMMA Invariance == Spec => []IInv
  BY InitIInv, NextIInv, PTL DEF Spec

(* No patch is ever in two places, nor twice in one: the buffer, the       *)
(* batches the threads hold and what was handed over are disjoint.         *)
THEOREM NeverTwice == Spec => []Apart
  <1>1. IInv => Apart
    BY DEF IInv
  <1> QED BY <1>1, Invariance, PTL

-----------------------------------------------------------------------------
LEMMA FlushingFinite ==
  IsFiniteSet(Flushing) /\ Cardinality(Flushing) \in Nat
  BY ThreadsAssumption, FS_Subset, FS_CardinalityType DEF Flushing

LEMMA FlushingFiniteNext ==
  IsFiniteSet(Flushing') /\ Cardinality(Flushing') \in Nat
  BY ThreadsAssumption, FS_Subset, FS_CardinalityType DEF Flushing

LEMMA AddBounded ==
  ASSUME IInv, BufferBounded, NEW p \in Producers, Add(p)
  PROVE  BufferBounded'
  <1>1. PICK z \in Lengths :
          /\ buffer' = Append(buffer, [by |-> p, n |-> added[p] + 1, bytes |-> z])
          /\ size' = size + z
          /\ Goto(p, IF Full(Len(buffer) + 1, size + z) THEN "flush" ELSE "idle")
    BY DEF Add
  <1>2. /\ buffer \in Seq(FilePatches) /\ size \in Nat /\ z \in Nat /\ p \in Threads
        /\ MaxPatches \in Nat /\ MaxBytes \in Nat /\ pc[p] = "idle"
        /\ pc' = [pc EXCEPT ![p] = IF Full(Len(buffer) + 1, size + z) THEN "flush" ELSE "idle"]
    BY <1>1, LimitsAssumption DEF IInv, TypeOK, Threads, Add, Goto
  <1>3. Len(buffer') = Len(buffer) + 1 /\ Len(buffer) \in Nat
    <2> DEFINE fp == [by |-> p, n |-> added[p] + 1, bytes |-> z]
    <2>1. fp \in FilePatches
      BY Fresh DEF Add
    <2> QED BY <1>1, <1>2, <2>1
  <1>4. CASE Full(Len(buffer) + 1, size + z)
    <2>1. Flushing' = Flushing \cup {p} /\ p \notin Flushing
      BY <1>2, <1>4 DEF Flushing, IInv, TypeOK
    <2>2. Cardinality(Flushing') = Cardinality(Flushing) + 1
      BY <2>1, FlushingFinite, FS_AddElement
    <2>3. Len(buffer') < MaxPatches + Cardinality(Flushing')
      BY <2>2, <1>2, <1>3, FlushingFinite DEF BufferBounded
    <2> QED BY <2>1, <2>3 DEF BufferBounded
  <1>5. CASE ~ Full(Len(buffer) + 1, size + z)
    <2>1. Len(buffer') < MaxPatches /\ ~ size' >= MaxBytes
      BY <1>1, <1>2, <1>3, <1>5 DEF Full
    <2>2. Len(buffer') < MaxPatches + Cardinality(Flushing')
      BY <2>1, <1>2, <1>3, FlushingFiniteNext
    <2> QED BY <2>1, <2>2 DEF BufferBounded
  <1> QED BY <1>4, <1>5

(* A flush leaves the buffer empty: the bounds hold whoever still flushes. *)
LEMMA EmptyBounded ==
  ASSUME buffer' = << >>, size' = 0
  PROVE  BufferBounded'
  <1>1. Len(buffer') = 0 /\ 0 < MaxPatches + Cardinality(Flushing')
    BY FlushingFiniteNext, LimitsAssumption
  <1> QED BY <1>1, LimitsAssumption DEF BufferBounded

LEMMA NextBounded == IInv /\ BufferBounded /\ [Next]_vars => BufferBounded'
  <1> SUFFICES ASSUME IInv, BufferBounded, [Next]_vars PROVE BufferBounded'
    OBVIOUS
  <1>1. ASSUME NEW t \in Threads, Take(t) \/ TakeNothing(t) PROVE BufferBounded'
    <2>1. buffer' = << >> /\ size' = 0
      BY <1>1 DEF Take, TakeNothing, IInv, Held
    <2> QED BY <2>1, EmptyBounded
  <1>2. ASSUME \/ \E t \in Threads : Hand(t)
               \/ Tick \/ Fire \/ Quit \/ StopTicker \/ CloseDone \/ UNCHANGED vars
        PROVE  BufferBounded'
    <2>1. UNCHANGED <<buffer, size>>
      BY <1>2 DEF Hand, Tick, Fire, Quit, StopTicker, CloseDone, vars
    <2>2. \A p \in Producers : pc'[p] = "flush" <=> pc[p] = "flush"
      BY <1>2, ThreadsAssumption
         DEF Hand, Tick, Fire, Quit, StopTicker, CloseDone, vars, Goto, IInv, TypeOK, Threads
    <2>3. Flushing' = Flushing
      BY <2>2 DEF Flushing
    <2> QED BY <2>1, <2>3 DEF BufferBounded
  <1> QED BY <1>1, <1>2, AddBounded DEF Next, Flush

(* The buffer holds fewer patches than the threshold and the producers on  *)
(* their way to flush it, and one of them is on its way when the bytes     *)
(* reach theirs.                                                           *)
THEOREM BufferStaysBounded == Spec => []BufferBounded
  <1>1. Init => BufferBounded
    <2> SUFFICES ASSUME Init PROVE BufferBounded
      OBVIOUS
    <2>1. Len(buffer) = 0 /\ 0 < MaxPatches + Cardinality(Flushing)
      BY FlushingFinite, LimitsAssumption DEF Init
    <2> QED BY <2>1, LimitsAssumption DEF BufferBounded, Init
  <1> QED BY <1>1, Invariance, NextBounded, PTL DEF Spec

-----------------------------------------------------------------------------
(* Every step of the batcher is one of the abstract specification, or      *)
(* leaves what waits and what was handed over alone.                       *)
LEMMA AddPromised ==
  ASSUME IInv, NEW p \in Producers, Add(p)
  PROVE  Promise!Next
  <1>1. PICK z \in Lengths :
          buffer' = Append(buffer, [by |-> p, n |-> added[p] + 1, bytes |-> z])
    BY DEF Add
  <1> DEFINE fp == [by |-> p, n |-> added[p] + 1, bytes |-> z]
  <1>2. fp \in FilePatches /\ fp \notin ToSet(buffer) \cup InHand \cup handed
    BY Fresh DEF Add
  <1> HIDE DEF fp
  <1>3. ToSet(buffer') = ToSet(buffer) \cup {fp}
    BY <1>1, <1>2, Appending DEF fp, IInv, TypeOK
  <1>4. InHand' = InHand /\ handed' = handed
    BY DEF Add, InHand
  <1>5. Promise!Accept(fp)
    BY <1>2, <1>3, <1>4 DEF Promise!Accept
  <1> QED BY <1>2, <1>5 DEF Promise!Next

LEMMA TakePromised ==
  ASSUME IInv, NEW t \in Threads, Take(t)
  PROVE  UNCHANGED Promise!vars
  <1>1. \A u \in Threads : batch'[u] = IF u = t THEN buffer ELSE batch[u]
    BY DEF IInv, TypeOK, Take
  <1>2. batch[t] = << >> /\ buffer' = << >> /\ handed' = handed
    BY DEF IInv, TypeOK, Held, Take
  <1>3. \A x : x \in InHand' <=> x \in InHand \cup ToSet(buffer)
    BY <1>1, <1>2, InHandAll, InHandAllNext, Emptiness
  <1>4. ToSet(buffer') \cup InHand' = ToSet(buffer) \cup InHand
    BY <1>2, <1>3, Emptiness
  <1> QED BY <1>2, <1>4 DEF Promise!vars

LEMMA HandPromised ==
  ASSUME IInv, NEW t \in Threads, Hand(t)
  PROVE  Promise!Next
  <1> DEFINE taken == ToSet(batch[t])
  <1>1. /\ \A u \in Threads : batch'[u] = IF u = t THEN << >> ELSE batch[u]
        /\ buffer' = buffer /\ handed' = handed \cup taken
    BY DEF IInv, TypeOK, Hand
  <1>2. taken # {} /\ taken \subseteq InHand
    BY Emptiness, InHandAll DEF IInv, TypeOK, Held, Hand
  <1>3. /\ taken \cap ToSet(buffer) = {}
        /\ \A u \in Threads \ {t} : taken \cap ToSet(batch[u]) = {}
    BY DEF IInv, Apart
  <1>4. \A x : x \in InHand' <=> x \in InHand \ taken
    BY <1>1, <1>3, InHandAll, InHandAllNext, Emptiness
  <1>5. ToSet(buffer') \cup InHand' = (ToSet(buffer) \cup InHand) \ taken
    BY <1>1, <1>3, <1>4
  <1> HIDE DEF taken
  <1>6. taken \in (SUBSET (ToSet(buffer) \cup InHand)) \ {{}}
    BY <1>2
  <1>7. Promise!Hand
    BY <1>1, <1>5, <1>6 DEF Promise!Hand
  <1> QED BY <1>7 DEF Promise!Next

LEMMA StepPromised == IInv /\ [Next]_vars => [Promise!Next]_(Promise!vars)
  <1> SUFFICES ASSUME IInv, [Next]_vars PROVE [Promise!Next]_(Promise!vars)
    OBVIOUS
  <1>1. ASSUME \/ \E t \in Threads : TakeNothing(t)
               \/ Tick \/ Fire \/ Quit \/ StopTicker \/ CloseDone \/ UNCHANGED vars
        PROVE  UNCHANGED Promise!vars
    <2>1. UNCHANGED <<buffer, batch, handed>>
      BY <1>1 DEF TakeNothing, Tick, Fire, Quit, StopTicker, CloseDone, vars
    <2> QED BY <2>1 DEF Promise!vars, InHand
  <1> QED BY <1>1, AddPromised, TakePromised, HandPromised DEF Next, Flush

(* The batcher keeps the promise of Handover: each patch added is handed   *)
(* over at most once and never dropped, whatever flushes overlap.          *)
THEOREM BatcherKeepsPromise == Spec => HandedOnce
  <1>1. Init => Promise!Init
    <2> SUFFICES ASSUME Init PROVE Promise!Init
      OBVIOUS
    <2>1. InHand = {}
      BY Emptiness DEF Init, InHand
    <2> QED BY <2>1, Emptiness DEF Init, Promise!Init
  <1> QED BY <1>1, Invariance, StepPromised, PTL DEF Spec, HandedOnce, Promise!Spec


-----------------------------------------------------------------------------
(***************************************************************************)
(* The patch log and the snapshots.                                        *)
(***************************************************************************)
(* A snapshot as a point in the history of a file: no edits if none was    *)
(* made.                                                                   *)
Edits(e) == IF e.edits = None THEN 0 ELSE e.edits
Entries  == {NoEntry} \cup [edits : Nat, seq : Nat]
Rows     == [file : Files, seq : Nat \ {0}, edit : Nat \ {0}]

LogType ==
    /\ rows \subseteq Rows /\ \A r \in rows : r.seq <= top /\ r.edit <= written[r.file]
    /\ num \in [Editors -> Nat] /\ target \in [Editors -> Files \cup {None}]
    /\ snaps \in [Backends -> [Files -> Entries]] /\ lastSeqs \in [Files -> Nat]
    /\ at \in [Writers -> Nat] /\ of \in [Writers -> Files \cup {None}]
    /\ entry \in [Writers -> Entries]
    /\ written \in [Files -> Nat] /\ top \in Nat /\ reused \in BOOLEAN /\ unsaved \subseteq Files
    /\ \A t \in Editors : num[t] # 0 => target[t] \in Files
    /\ \A w \in Writers : (at[w] = 0 <=> of[w] = None) /\ at[w] <= Len(Providers) + 1

(* Each edit is in one row, and what there is of a file's are the last.    *)
Ordered ==
    /\ \A r, q \in rows : r.file = q.file /\ r.edit <= q.edit => r = q \/ r.seq < q.seq
    /\ \A r \in rows : \A e \in r.edit .. written[r.file] : e \in Logged(r.file)

(* An entry divides the log of f: the rows up to its number are the edits  *)
(* that it contains.                                                       *)
Divides(f, e) ==
    /\ Edits(e) <= written[f] /\ e.seq <= top
    /\ \A r \in rows : r.file = f => /\ r.edit <= Edits(e) <=> r.seq <= e.seq
                                     /\ r.edit = Edits(e) => r.seq = e.seq

Storing(f) == {w \in Writers : of[w] = f}

Stored(f) ==
    /\ \A w, v \in Storing(f) : w = v
    /\ \A x \in Backends : Divides(f, snaps[x][f]) /\ lastSeqs[f] <= snaps[x][f].seq
    /\ \A w \in Storing(f) :
          /\ entry[w].edits # None /\ Divides(f, entry[w])
          /\ \A x \in Backends : /\ Edits(snaps[x][f]) <= Edits(entry[w])
                                 /\ snaps[x][f].seq <= entry[w].seq
          /\ \A i \in DOMAIN Providers : i < at[w] => snaps[Providers[i]][f] = entry[w]
    /\ Storing(f) = {} /\ lastSeqs[f] # 0 =>
          \A x \in Backends : snaps[x][f].seq = lastSeqs[f]
    /\ \A e \in 1 .. written[f] :
          e \in Logged(f) \/ \A x \in Backends : e <= Edits(snaps[x][f])

LogInv == LogType /\ (~reused => Ordered /\ \A f \in Files \ unsaved : Stored(f))

-----------------------------------------------------------------------------
LEMMA EntryParts ==
  ASSUME NEW e \in Entries
  PROVE  e.seq \in Nat /\ Edits(e) \in Nat /\ e = Entry(e.edits, e.seq)
  BY PatchLogAssumption DEF Entries, Edits, Entry, NoEntry

LEMMA RowParts ==
  ASSUME LogType, NEW r \in rows
  PROVE  r.file \in Files /\ r.seq \in Nat \ {0} /\ r.edit \in Nat \ {0}
  BY DEF LogType, Rows

LEMMA ProviderAt ==
  /\ \A i \in DOMAIN Providers : Providers[i] \in Backends
  /\ \A x \in Backends : \E i \in DOMAIN Providers : Providers[i] = x
  /\ DOMAIN Providers = 1 .. Len(Providers) /\ Len(Providers) \in Nat
  BY PatchLogAssumption DEF Backends, ToSet

LEMMA InitLog == LogInit => LogInv
  <1>. SUFFICES ASSUME LogInit PROVE LogInv
    OBVIOUS
  <1>. USE DEF LogInit
  <1>1. NoEntry \in Entries /\ Edits(NoEntry) = 0 /\ NoEntry.seq = 0
    BY PatchLogAssumption DEF NoEntry, Entry, Entries, Edits
  <1>2. LogType
    <2>. HIDE DEF NoEntry
    <2>1. rows \subseteq Rows /\ \A r \in rows : r.seq <= top /\ r.edit <= written[r.file]
      OBVIOUS
    <2>2. /\ num \in [Editors -> Nat] /\ target \in [Editors -> Files \cup {None}]
          /\ \A t \in Editors : num[t] # 0 => target[t] \in Files
      OBVIOUS
    <2>3. snaps \in [Backends -> [Files -> Entries]] /\ lastSeqs \in [Files -> Nat]
      BY <1>1
    <2>4. /\ at \in [Writers -> Nat] /\ of \in [Writers -> Files \cup {None}]
          /\ entry \in [Writers -> Entries]
          /\ \A w \in Writers : (at[w] = 0 <=> of[w] = None) /\ at[w] <= Len(Providers) + 1
      BY <1>1, ProviderAt
    <2>5. written \in [Files -> Nat] /\ top \in Nat /\ reused \in BOOLEAN /\ unsaved \subseteq Files
      OBVIOUS
    <2>. QED
      BY <2>1, <2>2, <2>3, <2>4, <2>5 DEF LogType
  <1>3. Ordered
    BY DEF Ordered
  <1>4. ASSUME NEW f \in Files PROVE Stored(f)
    <2>1. Storing(f) = {}
      BY PatchLogAssumption DEF Storing
    <2>2. \A x \in Backends : snaps[x][f] = NoEntry
      OBVIOUS
    <2>. HIDE DEF NoEntry
    <2>. QED
      BY <1>1, <2>1, <2>2 DEF Stored, Divides
  <1>. QED
    BY <1>2, <1>3, <1>4 DEF LogInv

(* Rows that are added come after all that there was.                      *)
LEMMA DividesStays ==
  ASSUME LogType, LogType', NEW f \in Files, NEW e \in Entries, Divides(f, e),
         written[f] <= written'[f], top <= top',
         \A r \in rows' : r.file = f => r \in rows \/ (written[f] < r.edit /\ top < r.seq)
  PROVE  Divides(f, e)'
  <1>1. e.seq \in Nat /\ Edits(e) \in Nat /\ Edits(e)' = Edits(e)
    BY EntryParts DEF Edits
  <1>2. /\ written[f] \in Nat /\ written'[f] \in Nat /\ top \in Nat /\ top' \in Nat
    BY DEF LogType
  <1>3. Edits(e) <= written[f] /\ e.seq <= top
    BY DEF Divides
  <1>4. ASSUME NEW r \in rows', r.file = f
        PROVE  (r.edit <= Edits(e) <=> r.seq <= e.seq) /\ (r.edit = Edits(e) => r.seq = e.seq)
    <2>1. r.edit \in Nat /\ r.seq \in Nat
      BY DEF LogType, Rows
    <2>. QED
      BY <1>1, <1>2, <1>3, <1>4, <2>1 DEF Divides
  <1>. QED
    BY <1>1, <1>2, <1>3, <1>4 DEF Divides

(* Nothing has happened to g but that other rows came into the log.        *)
LEMMA StoredStays ==
  ASSUME LogType, LogType', NEW g \in Files, Stored(g), top <= top', written'[g] = written[g],
         \A r : r.file = g => (r \in rows' <=> r \in rows),
         \A x \in Backends : snaps'[x][g] = snaps[x][g],
         lastSeqs'[g] = lastSeqs[g], Storing(g)' = Storing(g),
         \A w \in Storing(g) : at'[w] = at[w] /\ entry'[w] = entry[w]
  PROVE  Stored(g)'
  <1>1. \A e \in Entries : Divides(g, e) => Divides(g, e)'
    <2>1. written[g] <= written'[g]
      BY DEF LogType
    <2>2. \A r \in rows' : r.file = g => r \in rows
      OBVIOUS
    <2>. QED
      BY <2>1, <2>2, DividesStays
  <1>2. /\ \A x \in Backends : snaps[x][g] \in Entries
        /\ \A w \in Storing(g) : entry[w] \in Entries
    BY DEF LogType, Storing
  <1>3. Logged(g)' = Logged(g)
    BY DEF Logged
  <1>4. \A x \in Backends : Divides(g, snaps[x][g])' /\ lastSeqs'[g] <= snaps'[x][g].seq
    <2>1. \A x \in Backends : Divides(g, snaps[x][g])
      BY DEF Stored
    <2>. QED
      BY <1>1, <1>2, <2>1 DEF Stored, Divides, Edits
  <1>5. \A w \in Storing(g) : Divides(g, entry[w])'
    <2>1. \A w \in Storing(g) : Divides(g, entry[w])
      BY DEF Stored
    <2>. QED
      BY <1>1, <1>2, <2>1 DEF Divides, Edits
  <1>. QED
    BY <1>3, <1>4, <1>5, ProviderAt DEF Stored, Edits


LEMMA LeastExists ==
  ASSUME NEW S, S \subseteq Nat, S # {}
  PROVE  Min(S) \in S /\ \A y \in S : Min(S) <= y
  <1>1. PICK x \in S : \A y \in S : ~(<<y, x>> \in OpToRel(<, Nat))
    BY NatLessThanWellFounded, WFMin
  <1>2. \A y \in S : ~(y < x)
    BY <1>1 DEF OpToRel
  <1>3. \A y \in S : x <= y
    BY <1>2
  <1>. QED
    BY <1>3 DEF Min

(* The least of the bounds is one of them.                                 *)
LEMMA GreatestExists ==
  ASSUME NEW S, S \subseteq Nat, 0 \in S, NEW b \in Nat, \A y \in S : y <= b
  PROVE  Max(S) \in S /\ \A y \in S : y <= Max(S)
  <1>. DEFINE B == {n \in Nat : \A y \in S : y <= n}
  <1>1. Min(B) \in B /\ \A n \in B : Min(B) <= n
    BY LeastExists
  <1>. DEFINE m == Min(B)
  <1>2. m \in Nat /\ \A y \in S : y <= m
    BY <1>1
  <1>3. m \in S
    <2>. SUFFICES ASSUME m \notin S PROVE FALSE
      OBVIOUS
    <2>. HIDE DEF m
    <2>1. m # 0 /\ m - 1 \in Nat /\ \A y \in S : y <= m - 1
      BY <1>2
    <2>2. m - 1 \in B
      BY <2>1
    <2>. QED
      BY <1>1, <1>2, <2>2 DEF m
  <1>. HIDE DEF m
  <1>. QED
    BY <1>2, <1>3 DEF Max

LEMMA SameLog ==
  ASSUME LogInv, UNCHANGED <<rows, snaps, lastSeqs, createVars, history>>,
         num' \in [Editors -> Nat], target' \in [Editors -> Files \cup {None}],
         \A t \in Editors : num'[t] # 0 => target'[t] \in Files
  PROVE  LogInv'
  <1>. USE DEF createVars, history
  <1>1. LogType'
    BY DEF LogInv, LogType
  <1>2. Ordered <=> Ordered'
    BY DEF Ordered, Logged
  <1>3. \A f \in Files : Stored(f) => Stored(f)'
    BY DEF Stored, Storing, Divides, Edits, Logged
  <1>. QED
    BY <1>1, <1>2, <1>3 DEF LogInv

LEMMA NumberLog ==
  ASSUME LogInv, NEW t \in Editors, NEW f \in Files, Number(t, f)
  PROVE  LogInv'
  <1>1. HighestSeq + 1 \in Nat
    <2>. DEFINE N == {row.seq : row \in rows} \cup {0}
    <2>1. N \subseteq Nat /\ 0 \in N /\ top \in Nat /\ \A n \in N : n <= top
      BY RowParts DEF LogInv, LogType
    <2>. HIDE DEF N
    <2>2. Max(N) \in N
      BY <2>1, GreatestExists
    <2>. QED
      BY <2>1, <2>2 DEF HighestSeq, N
  <1>2. /\ num' = [num EXCEPT ![t] = HighestSeq + 1] /\ target' = [target EXCEPT ![t] = f]
        /\ UNCHANGED <<rows, snaps, lastSeqs, createVars, history>>
    BY DEF Number
  <1>3. /\ num \in [Editors -> Nat] /\ target \in [Editors -> Files \cup {None}]
        /\ \A u \in Editors : num[u] # 0 => target[u] \in Files
    BY DEF LogInv, LogType
  <1>. HIDE DEF HighestSeq
  <1>. QED
    BY <1>1, <1>2, <1>3, SameLog

LEMMA InsertLog ==
  ASSUME LogInv, NEW t \in Editors, Insert(t)
  PROVE  LogInv'
  <1>. DEFINE f == target[t]
              n == [file |-> f, seq |-> num[t], edit |-> written[f] + 1]
  <1>1. /\ num[t] # 0 /\ written' = [written EXCEPT ![f] = @ + 1] /\ rows' = rows \cup {n}
        /\ top' = (IF num[t] > top THEN num[t] ELSE top)
        /\ reused' = (reused \/ num[t] <= top)
        /\ num' = [num EXCEPT ![t] = 0] /\ target' = [target EXCEPT ![t] = None]
        /\ UNCHANGED <<snaps, lastSeqs, at, of, entry, unsaved>>
    BY DEF Insert, createVars
  <1>2. LogType
    BY DEF LogInv
  <1>3. f \in Files /\ num[t] \in Nat \ {0} /\ written[f] \in Nat /\ top \in Nat
    BY <1>1, <1>2 DEF LogType
  <1>4. n \in Rows /\ n.file = f /\ n.seq = num[t] /\ n.edit = written[f] + 1
    BY <1>3 DEF Rows
  <1>. HIDE DEF n, f
  <1>5. /\ written' \in [Files -> Nat] /\ written'[f] = written[f] + 1
        /\ \A g \in Files : g # f => written'[g] = written[g]
    BY <1>1, <1>2, <1>3 DEF LogType
  <1>6. LogType'
    <2>1. ASSUME NEW r \in rows'
          PROVE  r \in Rows /\ r.seq <= top' /\ r.edit <= written'[r.file]
      <3>1. CASE r = n
        BY <1>1, <1>3, <1>4, <1>5, <3>1
      <3>2. CASE r \in rows
        <4>1. /\ r.file \in Files /\ r.edit \in Nat /\ r.seq \in Nat /\ written[r.file] \in Nat
              /\ r.seq <= top /\ r.edit <= written[r.file] /\ r \in Rows
          BY <1>2, <3>2, RowParts DEF LogType
        <4>. QED
          BY <1>1, <1>3, <1>5, <4>1
      <3>. QED
        BY <1>1, <3>1, <3>2
    <2>2. /\ num' \in [Editors -> Nat] /\ target' \in [Editors -> Files \cup {None}]
          /\ \A u \in Editors : num'[u] # 0 => target'[u] \in Files
      BY <1>1, <1>2 DEF LogType
    <2>3. top' \in Nat /\ reused' \in BOOLEAN
      BY <1>1, <1>2, <1>3 DEF LogType
    <2>. QED
      BY <1>1, <1>2, <1>5, <2>1, <2>2, <2>3 DEF LogType
  <1>. SUFFICES ASSUME ~reused' PROVE Ordered' /\ \A g \in Files \ unsaved' : Stored(g)'
    BY <1>6 DEF LogInv
  <1>7. ~reused /\ Ordered /\ top < num[t] /\ top' = num[t]
    <2>1. ~reused /\ ~(num[t] <= top)
      BY <1>1
    <2>2. top < num[t] /\ top' = num[t]
      BY <1>1, <1>3, <2>1
    <2>. QED
      BY <2>1, <2>2 DEF LogInv
  <1>8. Ordered'
    <2>1. ASSUME NEW r \in rows', NEW q \in rows', r.file = q.file, r.edit <= q.edit
          PROVE  r = q \/ r.seq < q.seq
      <3>1. CASE r \in rows /\ q \in rows
        BY <1>7, <2>1, <3>1 DEF Ordered
      <3>2. CASE r = n /\ q \in rows
        BY <1>2, <1>3, <1>4, <1>7, <2>1, <3>2, RowParts DEF Ordered, LogType
      <3>3. CASE r \in rows /\ q = n
        BY <1>2, <1>3, <1>4, <1>7, <3>3, RowParts DEF Ordered, LogType
      <3>. QED
        BY <1>1, <3>1, <3>2, <3>3
    <2>2. ASSUME NEW r \in rows', NEW e \in r.edit .. written'[r.file]
          PROVE  e \in Logged(r.file)'
      <3>1. r.file \in Files /\ r.edit \in Nat /\ r.edit <= written'[r.file]
        BY <1>6 DEF LogType, Rows
      <3>2. CASE r \in rows /\ e <= written[r.file]
        <4>1. e \in r.edit .. written[r.file]
          BY <1>2, <1>5, <2>2, <3>1, <3>2 DEF LogType
        <4>. QED
          BY <1>1, <1>7, <3>2, <4>1 DEF Ordered, Logged
      <3>3. CASE r.file = f /\ e = written[f] + 1
        BY <1>1, <1>4, <3>3 DEF Logged
      <3>4. r = n => r.file = f /\ e = written[f] + 1
        BY <1>3, <1>4, <1>5, <2>2
      <3>5. r \in rows /\ ~(e <= written[r.file]) => r.file = f /\ e = written[f] + 1
        BY <1>2, <1>3, <1>5, <2>2, <3>1 DEF LogType
      <3>. QED
        BY <1>1, <3>2, <3>3, <3>4, <3>5
    <2>. QED
      BY <2>1, <2>2 DEF Ordered
  <1>9. ASSUME NEW g \in Files \ unsaved' PROVE Stored(g)'
    <2>1. Stored(g) /\ Storing(g)' = Storing(g)
      BY <1>1, <1>7 DEF LogInv, Storing
    <2>2. CASE g # f
      <3>1. \A r : r.file = g => (r \in rows' <=> r \in rows)
        BY <1>1, <1>4, <2>2
      <3>. QED
        BY <1>1, <1>2, <1>3, <1>5, <1>6, <1>7, <2>1, <2>2, <3>1, StoredStays
    <2>3. CASE g = f
      <3>1. \A e \in Entries : Divides(g, e) => Divides(g, e)'
        <4>1. \A r \in rows' : r.file = g => r \in rows \/ (written[g] < r.edit /\ top < r.seq)
          BY <1>1, <1>3, <1>4, <1>7, <2>3
        <4>2. written[g] <= written'[g] /\ top <= top'
          BY <1>3, <1>5, <1>7, <2>3
        <4>. QED
          BY <1>2, <1>6, <4>1, <4>2, DividesStays
      <3>2. /\ \A x \in Backends : snaps[x][g] \in Entries
            /\ \A w \in Storing(g) : entry[w] \in Entries
        BY <1>2 DEF LogType, Storing
      <3>3. \A e \in 1 .. written'[g] :
                e \in Logged(g)' \/ \A x \in Backends : e <= Edits(snaps[x][g])
        <4>. SUFFICES ASSUME NEW e \in 1 .. written'[g], e \notin Logged(g)'
                      PROVE  \A x \in Backends : e <= Edits(snaps[x][g])
          OBVIOUS
        <4>1. e # written[g] + 1
          BY <1>1, <1>4, <2>3 DEF Logged
        <4>2. e \in 1 .. written[g] /\ e \notin Logged(g)
          BY <1>1, <1>3, <1>5, <2>3, <4>1 DEF Logged
        <4>. QED
          BY <2>1, <4>2 DEF Stored
      <3>4. /\ \A x \in Backends : Divides(g, snaps[x][g])'
            /\ \A w \in Storing(g) : Divides(g, entry[w])'
        <4>1. /\ \A x \in Backends : Divides(g, snaps[x][g])
              /\ \A w \in Storing(g) : Divides(g, entry[w])
          BY <2>1 DEF Stored
        <4>. QED
          BY <1>1, <3>1, <3>2, <4>1
      <3>. QED
        BY <1>1, <2>1, <3>3, <3>4 DEF Stored, Edits
    <2>. QED
      BY <2>2, <2>3
  <1>. QED
    BY <1>8, <1>9

LEMMA CollectLog ==
  ASSUME LogInv, NEW f \in Files, GarbageCollect(f)
  PROVE  LogInv'
  <1>1. /\ rows' = {row \in rows : ~Covered(row, f)}
        /\ UNCHANGED <<num, target, snaps, lastSeqs, at, of, entry, written, top, reused, unsaved>>
    BY DEF GarbageCollect, appendVars, createVars, history
  <1>2. LogType
    BY DEF LogInv
  <1>3. LogType'
    <2>1. rows' \subseteq rows
      BY <1>1
    <2>. QED
      BY <1>1, <1>2, <2>1 DEF LogType
  <1>. SUFFICES ASSUME ~reused PROVE Ordered' /\ \A g \in Files \ unsaved : Stored(g)'
    BY <1>1, <1>3 DEF LogInv
  <1>4. Ordered
    BY DEF LogInv
  <1>5. Ordered'
    <2>1. ASSUME NEW r \in rows', NEW e \in r.edit .. written[r.file]
          PROVE  e \in Logged(r.file)'
      <3>1. PICK q \in rows : q.file = r.file /\ q.edit = e
        BY <1>1, <1>4, <2>1 DEF Ordered, Logged
      <3>2. q = r \/ r.seq < q.seq
        BY <1>1, <1>2, <1>4, <2>1, <3>1, RowParts DEF Ordered
      <3>3. q \in rows'
        BY <1>1, <1>2, <2>1, <3>1, <3>2, RowParts DEF Covered, LogType
      <3>. QED
        BY <3>1, <3>3 DEF Logged
    <2>. QED
      BY <1>1, <1>4, <2>1 DEF Ordered
  <1>6. ASSUME NEW g \in Files \ unsaved PROVE Stored(g)'
    <2>1. Stored(g) /\ Storing(g)' = Storing(g)
      BY <1>1 DEF LogInv, Storing
    <2>2. ASSUME NEW e \in Entries, Divides(g, e) PROVE Divides(g, e)'
      BY <1>1, <2>2 DEF Divides, Edits
    <2>3. /\ \A x \in Backends : snaps[x][g] \in Entries
          /\ \A w \in Storing(g) : entry[w] \in Entries
      BY <1>2 DEF LogType, Storing
    <2>4. /\ \A x \in Backends : Divides(g, snaps[x][g])'
          /\ \A w \in Storing(g) : Divides(g, entry[w])'
      <3>1. /\ \A x \in Backends : Divides(g, snaps[x][g])
            /\ \A w \in Storing(g) : Divides(g, entry[w])
        BY <2>1 DEF Stored
      <3>. QED
        BY <1>1, <2>2, <2>3, <3>1
    <2>5. ASSUME NEW e \in 1 .. written[g], e \notin Logged(g)', NEW x \in Backends
          PROVE  e <= Edits(snaps[x][g])
      <3>1. CASE e \notin Logged(g)
        BY <2>1, <2>5, <3>1 DEF Stored
      <3>2. CASE e \in Logged(g)
        <4>1. PICK r \in rows : r.file = g /\ r.edit = e
          BY <3>2 DEF Logged
        <4>2. r \notin rows'
          BY <2>5, <4>1 DEF Logged
        <4>3. r.seq <= lastSeqs[g]
          BY <1>1, <4>1, <4>2 DEF Covered
        <4>4. lastSeqs[g] <= snaps[x][g].seq /\ Divides(g, snaps[x][g])
          BY <2>1 DEF Stored
        <4>5. r.seq \in Nat /\ lastSeqs[g] \in Nat /\ snaps[x][g].seq \in Nat
          BY <1>2, <2>3, RowParts, EntryParts DEF LogType
        <4>. QED
          BY <4>1, <4>3, <4>4, <4>5 DEF Divides
      <3>. QED
        BY <3>1, <3>2
    <2>. QED
      BY <1>1, <2>1, <2>4, <2>5 DEF Stored, Edits
  <1>. QED
    BY <1>5, <1>6


LEMMA LatestIn ==
  ASSUME LogType, NEW since, since \subseteq rows, since # {}, NEW f \in Files,
         \A r \in since : r.file = f
  PROVE  Latest(since) \in since /\ \A r \in since : r.edit <= Latest(since).edit
  <1>. DEFINE N == {r.edit : r \in since} \cup {0}
  <1>1. /\ N \subseteq Nat /\ 0 \in N /\ written[f] \in Nat /\ \A n \in N : n <= written[f]
        /\ \A r \in since : r.edit \in Nat \ {0} /\ r.edit \in N
    <2>1. written[f] \in Nat
      BY DEF LogType
    <2>2. \A r \in since : r.edit \in Nat \ {0} /\ r.edit <= written[f]
      BY RowParts DEF LogType
    <2>3. \A n \in N : n = 0 \/ \E r \in since : n = r.edit
      OBVIOUS
    <2>4. 0 \in N /\ \A r \in since : r.edit \in N
      OBVIOUS
    <2>. HIDE DEF N
    <2>. QED
      BY <2>1, <2>2, <2>3, <2>4
  <1>2. \A n \in N : n = 0 \/ \E r \in since : r.edit = n
    OBVIOUS
  <1>. HIDE DEF N
  <1>3. Max(N) \in N /\ \A n \in N : n <= Max(N)
    BY <1>1, GreatestExists
  <1>4. Max(N) # 0
    BY <1>1, <1>3
  <1>5. \E m \in since : \A r \in since : r.edit <= m.edit
    BY <1>1, <1>2, <1>3, <1>4
  <1>. QED
    BY <1>5 DEF Latest

(* The last row of a file is its last edit, and has its highest number.    *)
LEMMA LastRow ==
  ASSUME LogType, Ordered, NEW f \in Files, PatchesSince(f, lastSeqs[f]) # {}
  PROVE  LET l == Latest(PatchesSince(f, lastSeqs[f]))
         IN  /\ l \in rows /\ l.file = f /\ l.edit = written[f]
             /\ \A r \in rows : r.file = f => r = l \/ (r.edit < l.edit /\ r.seq < l.seq)
  <1>. DEFINE since == PatchesSince(f, lastSeqs[f])
              l == Latest(since)
  <1>1. PICK r0 \in rows : r0.file = f /\ r0.seq > lastSeqs[f]
    BY DEF PatchesSince
  <1>2. written[f] \in Nat /\ lastSeqs[f] \in Nat /\ r0.edit \in Nat /\ r0.seq \in Nat
    BY <1>1, RowParts DEF LogType
  <1>3. written[f] \in r0.edit .. written[f]
    BY <1>1, <1>2 DEF LogType
  <1>4. PICK q \in rows : q.file = f /\ q.edit = written[f]
    BY <1>1, <1>3 DEF Ordered, Logged
  <1>5. q \in since
    <2>1. r0 = q \/ r0.seq < q.seq
      BY <1>1, <1>2, <1>3, <1>4 DEF Ordered
    <2>. QED
      BY <1>1, <1>2, <1>4, <2>1, RowParts DEF PatchesSince
  <1>6. \A r \in since : r \in rows /\ r.file = f /\ r.edit \in Nat /\ r.edit <= written[f]
    BY RowParts DEF PatchesSince, LogType
  <1>. HIDE DEF since
  <1>7. l \in since /\ \A r \in since : r.edit <= l.edit
    BY <1>5, <1>6, LatestIn
  <1>. HIDE DEF l
  <1>8. l \in rows /\ l.file = f /\ l.edit = written[f]
    BY <1>2, <1>4, <1>5, <1>6, <1>7
  <1>9. ASSUME NEW r \in rows, r.file = f, r # l
        PROVE  r.edit < l.edit /\ r.seq < l.seq
    <2>1. r.edit \in Nat /\ r.seq \in Nat /\ l.seq \in Nat /\ r.edit <= l.edit
      BY <1>8, <1>9, RowParts DEF LogType
    <2>2. r.seq < l.seq
      BY <1>8, <1>9, <2>1 DEF Ordered
    <2>3. r.edit # l.edit
      BY <1>2, <1>8, <1>9, <2>1, <2>2 DEF Ordered
    <2>. QED
      BY <1>2, <1>8, <2>1, <2>2, <2>3
  <1>. QED
    BY <1>8, <1>9 DEF l, since


LEMMA StartLog ==
  ASSUME LogInv, NEW w \in Writers, NEW f \in Files, StartSnapshot(w, f)
  PROVE  LogInv'
  <1>. DEFINE since == PatchesSince(f, lastSeqs[f])
              l == Latest(since)
  <1>1. /\ since # {} /\ at[w] = 0
        /\ at' = [at EXCEPT ![w] = 1] /\ of' = [of EXCEPT ![w] = f]
        /\ entry' = [entry EXCEPT ![w] = Entry(written[f], l.seq)] /\ unsaved' = Meet(f)
        /\ UNCHANGED <<rows, num, target, snaps, lastSeqs, written, top, reused>>
    BY DEF StartSnapshot, appendVars
  <1>2. LogType /\ of[w] = None /\ f # None
    BY <1>1, PatchLogAssumption DEF LogInv, LogType
  <1>3. unsaved' \subseteq Files /\ unsaved \subseteq unsaved'
    BY <1>1, <1>2 DEF Meet, LogType
  <1>4. l \in rows /\ l.seq \in Nat /\ l.seq <= top
    <2>1. since \subseteq rows /\ \A r \in since : r.file = f
      BY DEF PatchesSince
    <2>. HIDE DEF since
    <2>2. l \in rows
      BY <1>1, <1>2, <2>1, LatestIn
    <2>. QED
      BY <1>2, <2>2, RowParts DEF LogType
  <1>5. ~reused =>
            /\ l.file = f /\ l.edit = written[f]
            /\ \A r \in rows : r.file = f => r = l \/ (r.edit < l.edit /\ r.seq < l.seq)
    BY <1>1, <1>2, LastRow DEF LogInv
  <1>. HIDE DEF since, l
  <1>6. PICK n \in Entries :
            /\ entry' = [entry EXCEPT ![w] = n] /\ n.edits = written[f] /\ n.edits # None
            /\ n.seq = l.seq /\ Edits(n) = written[f]
    <2>1. Entry(written[f], l.seq) \in Entries
      BY <1>2, <1>4 DEF LogType, Entries, Entry
    <2>2. written[f] # None
      BY <1>2, PatchLogAssumption DEF LogType
    <2>. QED
      BY <1>1, <2>1, <2>2 DEF Entry, Edits
  <1>7. LogType'
    <2>1. /\ at' \in [Writers -> Nat] /\ of' \in [Writers -> Files \cup {None}]
          /\ entry' \in [Writers -> Entries]
          /\ \A v \in Writers : (at'[v] = 0 <=> of'[v] = None) /\ at'[v] <= Len(Providers) + 1
      BY <1>1, <1>2, <1>6, ProviderAt DEF LogType
    <2>. QED
      BY <1>1, <1>2, <1>3, <2>1 DEF LogType
  <1>. SUFFICES ASSUME ~reused PROVE Ordered' /\ \A g \in Files \ unsaved' : Stored(g)'
    BY <1>1, <1>7 DEF LogInv
  <1>8. Ordered'
    BY <1>1 DEF LogInv, Ordered, Logged
  <1>9. ASSUME NEW g \in Files \ unsaved' PROVE Stored(g)'
    <2>1. Stored(g)
      BY <1>3 DEF LogInv
    <2>2. CASE g # f
      <3>1. Storing(g)' = Storing(g) /\ w \notin Storing(g)
        BY <1>1, <1>2, <2>2, PatchLogAssumption DEF Storing, LogType
      <3>2. \A v \in Storing(g) : at'[v] = at[v] /\ entry'[v] = entry[v]
        BY <1>1, <1>2, <3>1 DEF Storing, LogType
      <3>. QED
        BY <1>1, <1>2, <1>7, <2>1, <3>1, <3>2, StoredStays DEF LogType
    <2>3. CASE g = f
      <3>1. Storing(g) = {} /\ Storing(g)' = {w} /\ at'[w] = 1 /\ entry'[w] = n
        <4>1. \A v \in Writers : of[v] # f
          BY <1>1, <1>2, <2>3 DEF Meet
        <4>. QED
          BY <1>1, <1>2, <1>6, <2>3, <4>1 DEF Storing, LogType
      <3>2. written[g] \in Nat /\ top \in Nat
        BY <1>2 DEF LogType
      <3>3. \A r \in rows : r.edit \in Nat /\ r.seq \in Nat
        BY <1>2, RowParts
      <3>4. Divides(g, n)
        BY <1>4, <1>5, <1>6, <2>3, <3>2, <3>3 DEF Divides
      <3>5. ASSUME NEW x \in Backends
            PROVE  Divides(g, snaps[x][g]) /\ Edits(snaps[x][g]) <= Edits(n) /\ snaps[x][g].seq <= n.seq
        <4>1. Edits(snaps[x][g]) \in Nat /\ snaps[x][g].seq \in Nat
          BY <1>2, EntryParts DEF LogType
        <4>2. Divides(g, snaps[x][g])
          BY <2>1 DEF Stored
        <4>. QED
          BY <1>4, <1>5, <1>6, <2>3, <3>2, <4>1, <4>2 DEF Divides
      <3>6. Divides(g, n)' /\ \A x \in Backends : Divides(g, snaps[x][g])'
        BY <1>1, <3>4, <3>5 DEF Divides, Edits
      <3>7. \A i \in DOMAIN Providers : ~(i < 1)
        BY ProviderAt
      <3>8. Edits(n)' = Edits(n) /\ \A x \in Backends : Edits(snaps[x][g])' = Edits(snaps[x][g])
        BY <1>1 DEF Edits
      <3>. QED
        BY <1>1, <1>6, <2>1, <3>1, <3>5, <3>6, <3>7, <3>8 DEF Stored, Logged
    <2>. QED
      BY <2>2, <2>3
  <1>. QED
    BY <1>8, <1>9

LEMMA PutLog ==
  ASSUME LogInv, NEW w \in Writers, Put(w)
  PROVE  LogInv'
  <1>. DEFINE f == of[w]
              x == Providers[at[w]]
  <1>1. /\ at[w] \in DOMAIN Providers /\ snaps' = [snaps EXCEPT ![x][f] = entry[w]]
        /\ at' = [at EXCEPT ![w] = @ + 1]
        /\ UNCHANGED <<rows, num, target, lastSeqs, of, entry, written, top, reused, unsaved>>
    BY DEF Put, appendVars, history
  <1>2. LogType /\ f \in Files /\ f # None /\ x \in Backends /\ at[w] \in 1 .. Len(Providers)
    BY <1>1, ProviderAt, PatchLogAssumption DEF LogInv, LogType
  <1>. HIDE DEF f, x
  <1>3. /\ snaps' \in [Backends -> [Files -> Entries]]
        /\ snaps'[x][f] = entry[w]
        /\ \A y \in Backends, g \in Files : y # x \/ g # f => snaps'[y][g] = snaps[y][g]
    BY <1>1, <1>2 DEF LogType
  <1>4. LogType'
    <2>1. /\ at' \in [Writers -> Nat]
          /\ \A v \in Writers : (at'[v] = 0 <=> of'[v] = None) /\ at'[v] <= Len(Providers) + 1
      BY <1>1, <1>2, ProviderAt DEF LogType, f
    <2>. QED
      BY <1>1, <1>2, <1>3, <2>1 DEF LogType
  <1>. SUFFICES ASSUME ~reused PROVE Ordered' /\ \A g \in Files \ unsaved : Stored(g)'
    BY <1>1, <1>4 DEF LogInv
  <1>5. Ordered'
    BY <1>1 DEF LogInv, Ordered, Logged
  <1>6. ASSUME NEW g \in Files \ unsaved PROVE Stored(g)'
    <2>1. Stored(g) /\ Storing(g)' = Storing(g)
      BY <1>1 DEF LogInv, Storing
    <2>2. CASE g # f
      <3>1. \A v \in Storing(g) : at'[v] = at[v] /\ entry'[v] = entry[v]
        BY <1>1, <1>2, <2>2 DEF Storing, LogType, f
      <3>2. \A y \in Backends : snaps'[y][g] = snaps[y][g]
        BY <1>3, <2>2
      <3>3. top <= top' /\ written'[g] = written[g] /\ lastSeqs'[g] = lastSeqs[g]
        BY <1>1, <1>2 DEF LogType
      <3>. QED
        BY <1>1, <1>2, <1>4, <2>1, <3>1, <3>2, <3>3, StoredStays
    <2>3. CASE g = f
      <3>1. Storing(g) = {w} /\ at'[w] = at[w] + 1 /\ at[w] \in Nat
        BY <1>1, <1>2, <2>1, <2>3 DEF Storing, Stored, f, LogType
      <3>2. /\ entry[w] \in Entries /\ entry[w].edits # None /\ Divides(g, entry[w])
            /\ \A y \in Backends : /\ Edits(snaps[y][g]) <= Edits(entry[w])
                                   /\ snaps[y][g].seq <= entry[w].seq
            /\ \A i \in DOMAIN Providers : i < at[w] => snaps[Providers[i]][g] = entry[w]
        BY <1>2, <2>1, <3>1 DEF Stored, LogType
      <3>3. \A y \in Backends : snaps'[y][g] \in {entry[w], snaps[y][g]}
        BY <1>3, <2>3
      <3>4. \A y \in Backends : /\ Divides(g, snaps[y][g]) /\ lastSeqs[g] <= snaps[y][g].seq
                                /\ Edits(snaps[y][g]) \in Nat /\ snaps[y][g].seq \in Nat
        BY <1>2, <2>1, EntryParts DEF Stored, LogType
      <3>5. Edits(entry[w]) \in Nat /\ entry[w].seq \in Nat /\ lastSeqs[g] \in Nat
        BY <1>2, <3>2, EntryParts DEF LogType
      <3>6. ASSUME NEW y \in Backends
            PROVE  /\ Divides(g, snaps'[y][g]) /\ lastSeqs[g] <= snaps'[y][g].seq
                   /\ Edits(snaps[y][g]) <= Edits(snaps'[y][g])
                   /\ Edits(snaps'[y][g]) <= Edits(entry[w]) /\ snaps'[y][g].seq <= entry[w].seq
        <4>1. CASE snaps'[y][g] = entry[w]
          BY <3>2, <3>4, <3>5, <4>1
        <4>2. CASE snaps'[y][g] = snaps[y][g]
          BY <3>2, <3>4, <3>5, <4>2
        <4>. QED
          BY <3>3, <4>1, <4>2
      <3>7. ASSUME NEW i \in DOMAIN Providers, i < at[w] + 1
            PROVE  snaps'[Providers[i]][g] = entry[w]
        <4>1. CASE i = at[w]
          BY <1>3, <2>3, <4>1 DEF x
        <4>2. CASE i < at[w]
          BY <3>2, <3>3, <4>2, ProviderAt
        <4>. QED
          BY <3>1, <3>7, <4>1, <4>2, ProviderAt
      <3>8. /\ Divides(g, entry[w])' /\ \A y \in Backends : Divides(g, snaps[y][g])'
            /\ Edits(entry[w])' = Edits(entry[w])
            /\ \A y \in Backends : Edits(snaps[y][g])' = Edits(snaps'[y][g])
        BY <1>1, <3>2, <3>6 DEF Divides, Edits
      <3>9. \A e \in 1 .. written[g] : e \in Logged(g)' \/ \A y \in Backends : e <= Edits(snaps'[y][g])
        <4>1. ASSUME NEW e \in 1 .. written[g], NEW y \in Backends, e <= Edits(snaps[y][g])
              PROVE  e <= Edits(snaps'[y][g])
          <5>1. Edits(snaps'[y][g]) \in Nat
            BY <3>3, <3>4, <3>5
          <5>. QED
            BY <3>4, <3>6, <4>1, <5>1
        <4>2. Logged(g)' = Logged(g)
          BY <1>1 DEF Logged
        <4>. QED
          BY <2>1, <4>1, <4>2 DEF Stored
      <3>. HIDE DEF Edits
      <3>10. \A v, u \in Storing(g)' : v = u
        BY <2>1, <3>1
      <3>11. \A y \in Backends : Divides(g, snaps[y][g])' /\ lastSeqs'[g] <= snaps'[y][g].seq
        BY <1>1, <3>6, <3>8
      <3>12. ASSUME NEW v \in Storing(g)'
             PROVE  /\ entry'[v].edits # None /\ Divides(g, entry[v])'
                    /\ \A y \in Backends : /\ Edits(snaps[y][g])' <= Edits(entry[v])'
                                           /\ snaps'[y][g].seq <= entry'[v].seq
                    /\ \A i \in DOMAIN Providers : i < at'[v] => snaps'[Providers[i]][g] = entry'[v]
        BY <1>1, <2>1, <3>1, <3>2, <3>6, <3>7, <3>8
      <3>13. Storing(g)' # {}
        BY <2>1, <3>1
      <3>14. \A e \in 1 .. written'[g] :
                e \in Logged(g)' \/ \A y \in Backends : e <= Edits(snaps[y][g])'
        BY <1>1, <3>8, <3>9
      <3>. QED
        BY <3>10, <3>11, <3>12, <3>13, <3>14 DEF Stored
    <2>. QED
      BY <2>2, <2>3
  <1>. QED
    BY <1>5, <1>6


LEMMA PutFailsLog ==
  ASSUME LogInv, NEW w \in Writers, PutFails(w)
  PROVE  LogInv'
  <1>. DEFINE f == of[w]
              x == Providers[at[w]]
  <1>1. /\ at[w] \in DOMAIN Providers
        /\ at' = [at EXCEPT ![w] = @ + 1] /\ unsaved' = unsaved \cup {f}
        /\ UNCHANGED <<rows, num, target, lastSeqs, of, entry, written, top, reused>>
    BY DEF PutFails, appendVars
  <1>2. LogType /\ f \in Files /\ f # None /\ x \in Backends /\ at[w] \in 1 .. Len(Providers)
    BY <1>1, ProviderAt, PatchLogAssumption DEF LogInv, LogType
  <1>3. PICK e \in {entry[w], snaps[x][f]} : snaps' = [snaps EXCEPT ![x][f] = e]
    BY DEF PutFails
  <1>. HIDE DEF f, x
  <1>4. e \in Entries
    BY <1>2, <1>3 DEF LogType
  <1>5. LogType'
    <2>1. /\ at' \in [Writers -> Nat]
          /\ \A v \in Writers : (at'[v] = 0 <=> of'[v] = None) /\ at'[v] <= Len(Providers) + 1
      BY <1>1, <1>2, ProviderAt DEF LogType, f
    <2>2. snaps' \in [Backends -> [Files -> Entries]] /\ unsaved' \subseteq Files
      BY <1>1, <1>2, <1>3, <1>4 DEF LogType
    <2>. QED
      BY <1>1, <1>2, <2>1, <2>2 DEF LogType
  <1>. SUFFICES ASSUME ~reused PROVE Ordered' /\ \A g \in Files \ unsaved' : Stored(g)'
    BY <1>1, <1>5 DEF LogInv
  <1>6. Ordered'
    BY <1>1 DEF LogInv, Ordered, Logged
  <1>7. ASSUME NEW g \in Files \ unsaved' PROVE Stored(g)'
    <2>1. g # f /\ Stored(g) /\ Storing(g)' = Storing(g)
      BY <1>1 DEF LogInv, Storing
    <2>2. \A v \in Storing(g) : at'[v] = at[v] /\ entry'[v] = entry[v]
      BY <1>1, <1>2, <2>1 DEF Storing, LogType, f
    <2>3. \A y \in Backends : snaps'[y][g] = snaps[y][g]
      BY <1>2, <1>3, <2>1 DEF LogType
    <2>4. top <= top' /\ written'[g] = written[g] /\ lastSeqs'[g] = lastSeqs[g]
      BY <1>1, <1>2 DEF LogType
    <2>. QED
      BY <1>1, <1>2, <1>5, <2>1, <2>2, <2>3, <2>4, StoredStays
  <1>. QED
    BY <1>6, <1>7

LEMMA DoneLog ==
  ASSUME LogInv, NEW w \in Writers, Done(w)
  PROVE  LogInv'
  <1>. DEFINE f == of[w]
  <1>1. /\ at[w] = Len(Providers) + 1 /\ lastSeqs' = [lastSeqs EXCEPT ![f] = entry[w].seq]
        /\ at' = [at EXCEPT ![w] = 0] /\ of' = [of EXCEPT ![w] = None]
        /\ entry' = [entry EXCEPT ![w] = NoEntry]
        /\ UNCHANGED <<rows, num, target, snaps, written, top, reused, unsaved>>
    BY DEF Done, appendVars, history
  <1>2. LogType /\ f \in Files /\ f # None
    BY <1>1, ProviderAt, PatchLogAssumption DEF LogInv, LogType
  <1>. HIDE DEF f
  <1>3. entry[w] \in Entries /\ entry[w].seq \in Nat
    BY <1>2, EntryParts DEF LogType
  <1>4. LogType'
    <2>1. /\ at' \in [Writers -> Nat] /\ of' \in [Writers -> Files \cup {None}]
          /\ \A v \in Writers : (at'[v] = 0 <=> of'[v] = None) /\ at'[v] <= Len(Providers) + 1
      BY <1>1, <1>2, ProviderAt DEF LogType
    <2>2. lastSeqs' \in [Files -> Nat] /\ entry' \in [Writers -> Entries]
      BY <1>1, <1>2, <1>3 DEF LogType, Entries
    <2>. QED
      BY <1>1, <1>2, <2>1, <2>2 DEF LogType
  <1>. SUFFICES ASSUME ~reused PROVE Ordered' /\ \A g \in Files \ unsaved : Stored(g)'
    BY <1>1, <1>4 DEF LogInv
  <1>5. Ordered'
    BY <1>1 DEF LogInv, Ordered, Logged
  <1>6. ASSUME NEW g \in Files \ unsaved PROVE Stored(g)'
    <2>1. Stored(g)
      BY DEF LogInv
    <2>2. CASE g # f
      <3>1. Storing(g)' = Storing(g) /\ w \notin Storing(g)
        BY <1>1, <1>2, <2>2, PatchLogAssumption DEF Storing, LogType, f
      <3>2. \A v \in Storing(g) : at'[v] = at[v] /\ entry'[v] = entry[v]
        BY <1>1, <1>2, <3>1 DEF Storing, LogType
      <3>3. top <= top' /\ written'[g] = written[g] /\ lastSeqs'[g] = lastSeqs[g]
        BY <1>1, <1>2, <2>2 DEF LogType
      <3>. QED
        BY <1>1, <1>2, <1>4, <2>1, <3>1, <3>2, <3>3, StoredStays
    <2>3. CASE g = f
      <3>1. Storing(g) = {w} /\ Storing(g)' = {}
        BY <1>1, <1>2, <2>1, <2>3, PatchLogAssumption DEF Storing, Stored, f, LogType
      <3>2. \A x \in Backends : snaps[x][g] = entry[w]
        <4>1. \A i \in DOMAIN Providers : snaps[Providers[i]][g] = entry[w]
          BY <1>1, <2>1, <3>1, ProviderAt DEF Stored
        <4>. QED
          BY <4>1, ProviderAt
      <3>3. lastSeqs'[g] = entry[w].seq /\ lastSeqs'[g] <= entry[w].seq
        BY <1>1, <1>2, <1>3, <2>3 DEF LogType
      <3>4. \A x \in Backends : Divides(g, snaps[x][g])'
        <4>1. \A x \in Backends : Divides(g, snaps[x][g])
          BY <2>1 DEF Stored
        <4>. QED
          BY <1>1, <4>1 DEF Divides, Edits
      <3>5. \A e \in 1 .. written'[g] : e \in Logged(g)' \/ \A x \in Backends : e <= Edits(snaps[x][g])'
        BY <1>1, <2>1 DEF Stored, Logged, Edits
      <3>. QED
        BY <1>1, <3>1, <3>2, <3>3, <3>4, <3>5 DEF Stored
    <2>. QED
      BY <2>2, <2>3
  <1>. QED
    BY <1>5, <1>6

(* What the program holds is lost: the numbers of the last snapshots too.  *)
LEMMA RestartLog == LogInv /\ Restart => LogInv'
  <1>. SUFFICES ASSUME LogInv, Restart PROVE LogInv'
    OBVIOUS
  <1>1. /\ num' = [t \in Editors |-> 0] /\ target' = [t \in Editors |-> None]
        /\ lastSeqs' = [f \in Files |-> 0]
        /\ at' = [w \in Writers |-> 0] /\ of' = [w \in Writers |-> None]
        /\ entry' = [w \in Writers |-> NoEntry]
        /\ UNCHANGED <<rows, snaps, written, top, reused, unsaved>>
    BY DEF Restart, history
  <1>2. LogType
    BY DEF LogInv
  <1>3. LogType'
    <2>1. /\ at' \in [Writers -> Nat] /\ of' \in [Writers -> Files \cup {None}]
          /\ entry' \in [Writers -> Entries]
          /\ \A w \in Writers : (at'[w] = 0 <=> of'[w] = None) /\ at'[w] <= Len(Providers) + 1
      BY <1>1, ProviderAt DEF Entries
    <2>2. /\ num' \in [Editors -> Nat] /\ target' \in [Editors -> Files \cup {None}]
          /\ \A t \in Editors : num'[t] # 0 => target'[t] \in Files
          /\ lastSeqs' \in [Files -> Nat]
      BY <1>1
    <2>. QED
      BY <1>1, <1>2, <2>1, <2>2 DEF LogType
  <1>4. ~reused => Ordered'
    BY <1>1 DEF LogInv, Ordered, Logged
  <1>5. ASSUME ~reused, NEW g \in Files \ unsaved PROVE Stored(g)'
    <2>1. Stored(g)
      BY <1>5 DEF LogInv
    <2>2. Storing(g)' = {} /\ lastSeqs'[g] = 0
      BY <1>1, PatchLogAssumption DEF Storing
    <2>3. \A x \in Backends : snaps[x][g].seq \in Nat
      BY <1>2, EntryParts DEF LogType
    <2>4. \A x \in Backends : Divides(g, snaps[x][g])'
      <3>1. \A x \in Backends : Divides(g, snaps[x][g])
        BY <2>1 DEF Stored
      <3>. QED
        BY <1>1, <3>1 DEF Divides, Edits
    <2>5. \A e \in 1 .. written'[g] : e \in Logged(g)' \/ \A x \in Backends : e <= Edits(snaps[x][g])'
      BY <1>1, <2>1 DEF Stored, Logged, Edits
    <2>. QED
      BY <1>1, <2>2, <2>3, <2>4, <2>5 DEF Stored
  <1>. QED
    BY <1>1, <1>3, <1>4, <1>5 DEF LogInv

LEMMA NextLog == LogInv /\ [LogNext]_logVars => LogInv'
  <1>. SUFFICES ASSUME LogInv, [LogNext]_logVars PROVE LogInv'
    OBVIOUS
  <1>1. ASSUME NEW t \in Editors, Insert(t) PROVE LogInv'
    BY <1>1, InsertLog
  <1>2. ASSUME NEW t \in Editors, NEW f \in Files, Number(t, f) PROVE LogInv'
    BY <1>2, NumberLog
  <1>3. ASSUME NEW f \in Files, GarbageCollect(f) PROVE LogInv'
    BY <1>3, CollectLog
  <1>4. ASSUME NEW w \in Writers, NEW f \in Files, StartSnapshot(w, f) PROVE LogInv'
    BY <1>4, StartLog
  <1>5. ASSUME NEW w \in Writers, Put(w) \/ PutFails(w) \/ Done(w) PROVE LogInv'
    BY <1>5, PutLog, PutFailsLog, DoneLog
  <1>6. CASE Restart
    BY <1>6, RestartLog
  <1>7. CASE UNCHANGED logVars
    <2>1. UNCHANGED <<rows, num, target, snaps, lastSeqs, createVars, history>>
      BY <1>7 DEF logVars, appendVars
    <2>2. /\ num \in [Editors -> Nat] /\ target \in [Editors -> Files \cup {None}]
          /\ \A t \in Editors : num[t] # 0 => target[t] \in Files
      BY DEF LogInv, LogType
    <2>. QED
      BY <2>1, <2>2, SameLog
  <1>. QED
    BY <1>1, <1>2, <1>3, <1>4, <1>5, <1>6, <1>7 DEF LogNext

LEMMA AlwaysLog == LogSpec => []LogInv
  BY InitLog, NextLog, PTL DEF LogSpec

(* What a restore finds is some provider's: without a snapshot, no edits.  *)
LEMMA FirstFound ==
  ASSUME LogType, NEW f \in Files
  PROVE  \E x \in Backends : RestoreSnapshot(f) = Edits(snaps[x][f])
  <1>. DEFINE have == {i \in DOMAIN Providers : snaps[Providers[i]][f] # NoEntry}
  <1>1. have \subseteq Nat /\ \A i \in have : Providers[i] \in Backends
    BY ProviderAt
  <1>2. CASE have = {}
    <2>1. \A y \in Backends : snaps[y][f] = NoEntry
      BY <1>2, ProviderAt
    <2>2. 1 \in DOMAIN Providers /\ Edits(NoEntry) = 0
      BY ProviderAt, PatchLogAssumption DEF Edits, NoEntry, Entry
    <2>. QED
      BY <1>2, <2>1, <2>2, ProviderAt DEF RestoreSnapshot
  <1>3. CASE have # {}
    <2>. DEFINE m == Min(have)
    <2>1. m \in have
      BY <1>1, <1>3, LeastExists
    <2>2. snaps[Providers[m]][f] \in Entries /\ snaps[Providers[m]][f] # NoEntry
      BY <1>1, <2>1 DEF LogType
    <2>3. RestoreSnapshot(f) = snaps[Providers[m]][f].edits
      BY <1>3 DEF RestoreSnapshot
    <2>. HIDE DEF have, m
    <2>4. Edits(snaps[Providers[m]][f]) = snaps[Providers[m]][f].edits
      BY <2>2, PatchLogAssumption DEF Edits, Entries
    <2>. QED
      BY <1>1, <2>1, <2>2, <2>3, <2>4
  <1>. QED
    BY <1>2, <1>3

LEMMA NoneLost == LogInv => NothingLost
  <1>. SUFFICES ASSUME LogInv, ~reused, NEW f \in Files \ unsaved,
                       NEW e \in 1 .. written[f], e > RestoreSnapshot(f)
                PROVE  e \in Logged(f)
    BY DEF NothingLost, Lost
  <1>1. LogType /\ Stored(f)
    BY DEF LogInv
  <1>2. PICK x \in Backends : RestoreSnapshot(f) = Edits(snaps[x][f])
    BY <1>1, FirstFound
  <1>3. Edits(snaps[x][f]) \in Nat /\ e \in Nat
    BY <1>1, EntryParts DEF LogType
  <1>. QED
    BY <1>1, <1>2, <1>3 DEF Stored

LEMMA AllRecovered == LogInv => Recoverable
  <1>. SUFFICES ASSUME LogInv, ~reused, NEW f \in Files \ unsaved, lastSeqs[f] # 0,
                       \A w \in Writers : of[w] # f
                PROVE  Recovered(f) = RestoreSnapshot(f) + 1 .. written[f]
    BY DEF Recoverable
  <1>1. LogType /\ Stored(f) /\ Storing(f) = {} /\ Lost(f) = {}
    BY NoneLost DEF LogInv, Storing, NothingLost
  <1>2. PICK x \in Backends : RestoreSnapshot(f) = Edits(snaps[x][f])
    BY <1>1, FirstFound
  <1>3. /\ Edits(snaps[x][f]) \in Nat /\ snaps[x][f].seq = lastSeqs[f] /\ lastSeqs[f] \in Nat
        /\ written[f] \in Nat
    BY <1>1, EntryParts DEF LogType, Stored
  <1>4. ASSUME NEW r \in rows, r.file = f
        PROVE  r.seq > lastSeqs[f] <=> r.edit > RestoreSnapshot(f)
    <2>1. r.seq \in Nat /\ r.edit \in Nat
      BY <1>1, RowParts
    <2>. QED
      BY <1>1, <1>2, <1>3, <1>4, <2>1 DEF Stored, Divides
  <1>5. ASSUME NEW r \in PatchesSince(f, lastSeqs[f])
        PROVE  r.edit \in RestoreSnapshot(f) + 1 .. written[f]
    <2>1. r \in rows /\ r.file = f /\ r.seq > lastSeqs[f]
      BY DEF PatchesSince
    <2>2. r.edit \in Nat /\ r.edit <= written[f]
      BY <1>1, <2>1, RowParts DEF LogType
    <2>. QED
      BY <1>2, <1>3, <1>4, <2>1, <2>2
  <1>6. ASSUME NEW e \in RestoreSnapshot(f) + 1 .. written[f]
        PROVE  e \in Recovered(f)
    <2>1. e \in 1 .. written[f] /\ e > RestoreSnapshot(f)
      BY <1>2, <1>3
    <2>2. PICK r \in rows : r.file = f /\ r.edit = e
      BY <1>1, <2>1 DEF Lost, Logged
    <2>. QED
      BY <1>4, <2>1, <2>2 DEF Recovered, PatchesSince
  <1>. QED
    BY <1>5, <1>6 DEF Recovered

(* Each edit of a file is in the snapshot that a restore finds or in the   *)
(* patch log: while the log is collected as a snapshot is being stored,    *)
(* while edits go on, and after a restart.                                 *)
THEOREM NothingLostAlways == LogSpec => []NothingLost
  BY AlwaysLog, NoneLost, PTL

(* The snapshot that a restore finds and the patches since it make the     *)
(* file: none is missing, and none is applied a second time.               *)
THEOREM RecoverableAlways == LogSpec => []Recoverable
  BY AlwaysLog, AllRecovered, PTL

-----------------------------------------------------------------------------
(***************************************************************************)
(* The watcher.                                                            *)
(***************************************************************************)
Happening == [path : Paths, op : Ops, by : Origins]
Notice == [event : Happening, time : Nat]

WatchType ==
    /\ fsEvents \in Seq(Happening) /\ hand \in Notice \cup {NoEvent} /\ sent \in Seq(Notice)
    /\ now \in Nat
    /\ lastEvent \in [Paths -> Int] /\ \A p \in Paths : lastEvent[p] <= now

(* A write of the syncer that waits to be handled is of a marked path: the *)
(* mark came first, and is still there.                                    *)
SelfMarked == \A i \in DOMAIN fsEvents : fsEvents[i].by = "self" => fsEvents[i].path \in selfWrites

(* What was sent is not later than what the debouncing remembers.          *)
Remembered == \A i \in DOMAIN sent : sent[i].time <= lastEvent[sent[i].event.path]

(* What is about to be sent may be.                                        *)
HandFit ==
    hand # NoEvent =>
        /\ hand.event.by = "user" /\ hand.time = lastEvent[hand.event.path]
        /\ \A i \in DOMAIN sent :
              sent[i].event.path = hand.event.path => hand.time - sent[i].time >= Debounce

WatchInv == WatchType /\ SelfMarked /\ Remembered /\ HandFit /\ UserEdits

-----------------------------------------------------------------------------
LEMMA Appended ==
  ASSUME NEW S, NEW s \in Seq(S), NEW e \in S
  PROVE  /\ Append(s, e) \in Seq(S)
         /\ DOMAIN s = 1 .. Len(s) /\ Len(s) \in Nat
         /\ DOMAIN Append(s, e) = 1 .. Len(s) + 1
         /\ \A i \in 1 .. Len(s) + 1 :
               Append(s, e)[i] = IF i = Len(s) + 1 THEN e ELSE s[i]
  OBVIOUS

LEMMA Dropping ==
  ASSUME NEW S, NEW s \in Seq(S), s # << >>
  PROVE  /\ Head(s) \in S /\ Tail(s) \in Seq(S)
         /\ 1 \in DOMAIN s /\ Head(s) = s[1]
         /\ \A i \in DOMAIN Tail(s) : i + 1 \in DOMAIN s /\ Tail(s)[i] = s[i + 1]
  OBVIOUS

LEMMA InitWatch == WatchInit => WatchInv
  BY DEF WatchInit, WatchInv, WatchType, SelfMarked, Remembered, HandFit, UserEdits

LEMMA ChangeWatch ==
  ASSUME WatchInv, NEW p \in Paths, NEW op \in Ops, NEW by \in Origins, Change(p, op, by)
  PROVE  WatchInv'
  <1>1. Event(p, op, by) \in Happening
    BY DEF Event, Happening
  <1>2. /\ fsEvents \in Seq(Happening) /\ fsEvents' = Append(fsEvents, Event(p, op, by))
        /\ UNCHANGED <<hand, selfWrites, lastEvent, now, sent>>
    BY DEF WatchInv, WatchType, Change, watchHistory
  <1>3. SelfMarked'
    BY <1>1, <1>2, Appended DEF WatchInv, SelfMarked, Change, Event
  <1>4. WatchType'
    BY <1>1, <1>2, Appended DEF WatchInv, WatchType
  <1>5. Remembered' /\ HandFit' /\ UserEdits'
    BY <1>2 DEF WatchInv, Remembered, HandFit, UserEdits
  <1> QED BY <1>3, <1>4, <1>5 DEF WatchInv

LEMMA SkipWatch ==
  ASSUME WatchInv, Skip
  PROVE  WatchInv'
  <1>1. /\ fsEvents \in Seq(Happening) /\ fsEvents # << >> /\ fsEvents' = Tail(fsEvents)
        /\ UNCHANGED <<hand, selfWrites, lastEvent, now, sent>>
    BY DEF WatchInv, WatchType, Skip, Ready
  <1>2. WatchType' /\ SelfMarked'
    BY <1>1, Dropping DEF WatchInv, WatchType, SelfMarked
  <1>3. Remembered' /\ HandFit' /\ UserEdits'
    BY <1>1 DEF WatchInv, Remembered, HandFit, UserEdits
  <1> QED BY <1>2, <1>3 DEF WatchInv

LEMMA AdmitWatch ==
  ASSUME WatchInv, Admit
  PROVE  WatchInv'
  <1> DEFINE e == Head(fsEvents)
  <1>1. /\ fsEvents \in Seq(Happening) /\ fsEvents # << >> /\ fsEvents' = Tail(fsEvents)
        /\ hand = NoEvent /\ e.path \notin selfWrites /\ ~Recent(e.path)
        /\ lastEvent' = [lastEvent EXCEPT ![e.path] = now]
        /\ hand' = IF e.op = "Chmod" THEN NoEvent ELSE [event |-> e, time |-> now]
        /\ UNCHANGED <<selfWrites, now, sent>>
    BY DEF WatchInv, WatchType, Admit, Ready, watchHistory
  <1>2. e \in Happening /\ e.by = "user"
    <2>1. e \in Happening /\ 1 \in DOMAIN fsEvents /\ e = fsEvents[1]
      BY <1>1, Dropping
    <2>2. e.by # "self"
      BY <1>1, <2>1 DEF WatchInv, SelfMarked
    <2> QED BY <2>1, <2>2 DEF Happening, Origins
  <1> HIDE DEF e
  <1>3. e.path \in Paths /\ now \in Nat /\ Debounce \in Nat
    BY <1>2, WatcherAssumption DEF Happening, WatchInv, WatchType
  <1>4. WatchType'
    <2>1. lastEvent' \in [Paths -> Int] /\ \A p \in Paths : lastEvent'[p] <= now'
      BY <1>1, <1>3 DEF WatchInv, WatchType
    <2>2. hand' \in Notice \cup {NoEvent}
      BY <1>1, <1>2, <1>3 DEF Notice
    <2> QED BY <1>1, <2>1, <2>2, Dropping DEF WatchInv, WatchType
  <1>5. SelfMarked'
    BY <1>1, Dropping DEF WatchInv, SelfMarked
  <1>6. \A i \in DOMAIN sent :
           /\ sent[i].time \in Nat /\ sent[i].event.path \in Paths
           /\ sent[i].time <= lastEvent[sent[i].event.path]
    <2>1. sent \in Seq(Notice)
      BY DEF WatchInv, WatchType
    <2>2. \A i \in DOMAIN sent : sent[i] \in Notice
      BY <2>1, ElementOfSeq, LenProperties
    <2> QED BY <2>2 DEF WatchInv, Remembered, Notice, Happening
  <1>7. Remembered'
    <2> SUFFICES ASSUME NEW i \in DOMAIN sent
                 PROVE  sent[i].time <= lastEvent'[sent[i].event.path]
      BY <1>1 DEF Remembered
    <2> DEFINE p == sent[i].event.path
    <2>1. /\ p \in Paths /\ sent[i].time \in Nat /\ sent[i].time <= lastEvent[p]
          /\ lastEvent[p] \in Int /\ lastEvent[p] <= now
      BY <1>6 DEF WatchInv, WatchType
    <2>2. lastEvent'[p] = IF p = e.path THEN now ELSE lastEvent[p]
      BY <1>1, <2>1 DEF WatchInv, WatchType
    <2> HIDE DEF p
    <2>3. sent[i].time <= now
      BY <1>3, <2>1
    <2> QED BY <2>1, <2>2, <2>3 DEF p
  <1>8. HandFit'
    <2> SUFFICES ASSUME hand' # NoEvent PROVE HandFit'
      BY DEF HandFit
    <2>1. hand'.event = e /\ hand'.time = now
      BY <1>1
    <2>2. ASSUME NEW i \in DOMAIN sent, sent[i].event.path = e.path
          PROVE  now - sent[i].time >= Debounce
      <3>1. sent[i].time <= lastEvent[e.path] /\ sent[i].time \in Nat
        BY <1>6, <2>2
      <3>2. lastEvent[e.path] \in Int
        BY <1>3 DEF WatchInv, WatchType
      <3>3. now - lastEvent[e.path] >= Debounce
        BY <1>1, <1>3, <3>1, <3>2 DEF Recent
      <3> QED BY <1>3, <3>1, <3>2, <3>3
    <2>3. lastEvent'[e.path] = now
      BY <1>1, <1>3 DEF WatchInv, WatchType
    <2> QED BY <1>1, <1>2, <2>1, <2>2, <2>3 DEF HandFit
  <1>9. UserEdits'
    BY <1>1 DEF WatchInv, UserEdits
  <1> QED BY <1>4, <1>5, <1>7, <1>8, <1>9 DEF WatchInv

LEMMA SendWatch ==
  ASSUME WatchInv, Send
  PROVE  WatchInv'
  <1>1. /\ hand \in Notice /\ sent \in Seq(Notice) /\ hand' = NoEvent
        /\ sent' = sent \/ sent' = Append(sent, hand)
        /\ UNCHANGED <<fsEvents, selfWrites, lastEvent, now>>
    BY DEF WatchInv, WatchType, Send
  <1>2. WatchType'
    BY <1>1, Appended DEF WatchInv, WatchType
  <1>3. SelfMarked' /\ HandFit'
    BY <1>1 DEF WatchInv, SelfMarked, HandFit
  <1>4. CASE sent' = sent
    BY <1>1, <1>2, <1>3, <1>4 DEF WatchInv, Remembered, UserEdits
  <1>5. CASE sent' = Append(sent, hand)
    <2>1. /\ DOMAIN sent = 1 .. Len(sent) /\ Len(sent) \in Nat
          /\ DOMAIN sent' = 1 .. Len(sent) + 1
          /\ \A i \in 1 .. Len(sent) + 1 : sent'[i] = IF i = Len(sent) + 1 THEN hand ELSE sent[i]
      BY <1>1, <1>5, Appended
    <2>2. hand.time \in Nat /\ hand.event.path \in Paths
      BY <1>1 DEF Notice, Happening
    <2>3. Remembered'
      BY <1>1, <2>1, <2>2 DEF WatchInv, WatchType, Remembered, HandFit, Send
    <2>4. UserEdits'
      <3> SUFFICES ASSUME NEW i \in 1 .. Len(sent) + 1
                   PROVE  /\ sent'[i].event.by = "user"
                          /\ \A j \in 1 .. i - 1 :
                                sent'[j].event.path = sent'[i].event.path
                                => sent'[i].time - sent'[j].time >= Debounce
        BY <2>1 DEF UserEdits
      <3>1. CASE i = Len(sent) + 1
        BY <3>1, <2>1 DEF WatchInv, HandFit, Send
      <3>2. CASE i # Len(sent) + 1
        BY <3>2, <2>1 DEF WatchInv, UserEdits
      <3> QED BY <3>1, <3>2
    <2> QED BY <1>2, <1>3, <2>3, <2>4 DEF WatchInv
  <1> QED BY <1>1, <1>4, <1>5

(* The clock, readers, marks and the end of the goroutine.                 *)
LEMMA QuietWatch ==
  ASSUME WatchInv,
         \/ Elapse \/ Receive \/ Close \/ EndRun \/ UNCHANGED watchVars
         \/ \E p \in Paths : MarkSelfWrite(p)
  PROVE  WatchInv'
  <1>1. /\ UNCHANGED <<fsEvents, hand, lastEvent, sent>>
        /\ now' \in Nat /\ now <= now' /\ selfWrites \subseteq selfWrites'
    BY DEF Elapse, Receive, Close, EndRun, MarkSelfWrite, watchVars, watchHistory, WatchInv, WatchType
  <1>2. WatchType'
    BY <1>1 DEF WatchInv, WatchType
  <1>3. SelfMarked' /\ Remembered' /\ HandFit' /\ UserEdits'
    BY <1>1 DEF WatchInv, SelfMarked, Remembered, HandFit, UserEdits
  <1> QED BY <1>2, <1>3 DEF WatchInv

LEMMA NextWatch == WatchInv /\ [WatchNext]_watchVars => WatchInv'
  BY ChangeWatch, SkipWatch, AdmitWatch, SendWatch, QuietWatch DEF WatchNext, handleEvent

(* No write of the syncer comes back to live sync, and two events of one   *)
(* path that it is given are a debounce interval apart.                    *)
THEOREM UserEditsOnly == WatchSpec => []UserEdits
  <1>1. WatchInv => UserEdits
    BY DEF WatchInv
  <1> QED BY <1>1, InitWatch, NextWatch, PTL DEF WatchSpec
=============================================================================
