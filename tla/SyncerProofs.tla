---------------------------- MODULE SyncerProofs ----------------------------
(***************************************************************************)
(* What a device gets from its peers: no batch of its own, none twice, and *)
(* all that was there when it asked; for all numbers of devices, pushing   *)
(* goroutines, providers and faults.                                       *)
(***************************************************************************)
EXTENDS Syncer, SequenceTheorems, TLAPS

TypeOK ==
    /\ made \in 0 .. MaxBatches
    /\ pushSeq \in [Devices -> 0 .. MaxBatches]
    /\ pulled \in [Devices -> SUBSET Keys] /\ keys \in [Devices -> SUBSET Keys]
    /\ blobs \in [Backends -> [Keys -> Batches \cup {None}]]
    /\ pc \in [Devices -> [Pushers -> {"idle", "store", "key", "put", "mark"}]]
    /\ batch \in [Devices -> [Pushers -> Batches \cup {None}]]
    /\ num \in [Devices -> [Pushers -> 0 .. MaxBatches]]
    /\ at \in [Devices -> [Pushers -> 1 .. Len(Providers)]]
    /\ pullPc \in [Devices -> {"idle", "list", "get"}]
    /\ pullAt \in [Devices -> 1 .. Len(Providers)]
    /\ got \in [Devices -> Seq(Batches)]
    /\ uses \in [Keys -> SUBSET Batches]
    /\ owed \in [Devices -> SUBSET (Backends \X Batches)]

(* Whatever numbers two Pushes read from pushSeq, a batch has one key.     *)
Pushing(d, t) ==
    /\ pc[d][t] # "idle" => /\ batch[d][t] \in Batches
                            /\ batch[d][t][1] = d /\ batch[d][t][2] <= made
                            /\ \A u \in Pushers \ {t} : batch[d][u] # batch[d][t]
    /\ pc[d][t] = "idle" => batch[d][t] = None
    /\ pc[d][t] = "store" => num[d][t] + 1 <= made
    /\ pc[d][t] = "key" => pushSeq[d] >= 1
    /\ pc[d][t] \in {"store", "key"} => \A k \in Keys : batch[d][t] \notin uses[k]
    /\ pc[d][t] \in {"put", "mark"} =>
          num[d][t] >= 1 /\ \A k \in Keys : batch[d][t] \in uses[k] => k = KeyOf(d, t)

StoreInv ==
    /\ \A d \in Devices : pushSeq[d] <= made
    /\ \A k \in Keys : \A b \in uses[k] : b[1] = k[1] /\ b[2] <= made
    /\ \A k, l \in Keys : uses[k] \cap uses[l] # {} => k = l
    /\ \A x \in Backends, k \in Keys : blobs[x][k] \in uses[k] \cup {None}

(* The loop of Pull has still to come to a key at a provider.              *)
Ahead(d, x, k) ==
    /\ pullPc[d] # "idle"
    /\ \E i \in pullAt[d] .. Len(Providers) :
          Providers[i] = x /\ (i = pullAt[d] => pullPc[d] = "list" \/ k \in keys[d])

Traced(d, o, k) ==
    /\ o[2] \in uses[k] /\ blobs[o[1]][k] # None
    /\ k[1] = d \/ k \in pulled[d] \/ Ahead(d, o[1], k)

Pulling(d) ==
    /\ \A k \in pulled[d] : k[1] # d => uses[k] \cap ToSet(got[d]) # {}
    /\ \A b \in ToSet(got[d]) : b[1] # d /\ \E k \in pulled[d] : b \in uses[k]
    /\ IsInjective(got[d])
    /\ \A k \in keys[d] : k \notin pulled[d] /\ k[1] # d /\ blobs[Providers[pullAt[d]]][k] # None
    /\ pullPc[d] # "get" => keys[d] = {}
    /\ \A o \in owed[d] : \E k \in Keys : Traced(d, o, k)

PushInv == \A d \in Devices, t \in Pushers : Pushing(d, t)
PullInv == \A d \in Devices : Pulling(d)

IInv == TypeOK /\ PushInv /\ StoreInv /\ PullInv

-----------------------------------------------------------------------------
LEMMA Cell ==
  ASSUME NEW S, NEW f \in [Devices -> [Pushers -> S]], NEW d \in Devices, NEW t \in Pushers,
         NEW v \in S, NEW g, g = [f EXCEPT ![d][t] = v]
  PROVE  /\ g \in [Devices -> [Pushers -> S]]
         /\ \A e \in Devices, u \in Pushers : g[e][u] = IF e = d /\ u = t THEN v ELSE f[e][u]
  OBVIOUS

LEMMA ProvidersKnown ==
  /\ Len(Providers) \in Nat \ {0} /\ DOMAIN Providers = 1 .. Len(Providers)
  /\ \A i \in 1 .. Len(Providers) : Providers[i] \in Backends
  /\ \A i, j \in 1 .. Len(Providers) : Providers[i] = Providers[j] => i = j
  BY SyncerAssumption DEF Backends, IsInjective

LEMMA BatchNotNone ==
  /\ None \notin Batches
  /\ \A b \in Batches : b[1] \in Devices /\ b[2] \in 1 .. MaxBatches /\ b = <<b[1], b[2]>>
  /\ \A d \in Devices, n \in 1 .. MaxBatches : <<d, n>> \in Batches /\ <<d, n>>[1] = d
                                               /\ <<d, n>>[2] = n
  /\ Keys = Batches
  BY SyncerAssumption DEF Batches, Keys

LEMMA MadeNat == TypeOK => made \in Nat
  BY SyncerAssumption DEF TypeOK

LEMMA InitIInv == Init => IInv
  <1> SUFFICES ASSUME Init PROVE IInv
    OBVIOUS
  <1>1. MaxBatches \in Nat /\ 1 \in 1 .. Len(Providers)
    BY SyncerAssumption, ProvidersKnown
  <1>2. TypeOK
    BY <1>1 DEF Init, TypeOK, Each, Threads
  <1>3. PushInv
    BY DEF Init, PushInv, Pushing, Threads
  <1>4. StoreInv
    BY <1>1 DEF Init, StoreInv, Each
  <1>5. PullInv
    BY <1>1 DEF Init, PullInv, Pulling, Each, ToSet, IsInjective
  <1> QED BY <1>2, <1>3, <1>4, <1>5 DEF IInv

(* What a device has pulled stays right when batches are added, and when   *)
(* it marks keys of its own.                                               *)
LEMMA PullKept ==
  ASSUME TypeOK, NEW e \in Devices, Pulling(e),
         pullPc'[e] = pullPc[e], pullAt'[e] = pullAt[e], keys'[e] = keys[e],
         got'[e] = got[e], owed'[e] = owed[e],
         pulled[e] \subseteq pulled'[e], pulled'[e] \subseteq Keys,
         \A k \in pulled'[e] \ pulled[e] : k[1] = e,
         \A k \in Keys : uses[k] \subseteq uses'[k],
         \A x \in Backends, k \in Keys : blobs[x][k] # None => blobs'[x][k] # None
  PROVE  Pulling(e)'
  <1>1. \A k \in pulled'[e] : k[1] # e => uses'[k] \cap ToSet(got'[e]) # {}
    BY DEF Pulling, TypeOK
  <1>2. /\ \A b \in ToSet(got'[e]) : b[1] # e /\ \E k \in pulled'[e] : b \in uses'[k]
        /\ IsInjective(got'[e])
    BY DEF Pulling, TypeOK
  <1>3. \A k \in keys'[e] :
           k \notin pulled'[e] /\ k[1] # e /\ blobs'[Providers[pullAt'[e]]][k] # None
    BY ProvidersKnown DEF Pulling, TypeOK
  <1>4. ASSUME NEW o \in owed'[e] PROVE \E k \in Keys : Traced(e, o, k)'
    <2>1. PICK k \in Keys : Traced(e, o, k)
      BY <1>4 DEF Pulling
    <2>2. o[1] \in Backends
      BY <1>4 DEF TypeOK
    <2>3. Traced(e, o, k)'
      BY <2>1, <2>2 DEF Traced, Ahead
    <2> QED BY <2>3
  <1> QED BY <1>1, <1>2, <1>3, <1>4 DEF Pulling

(* The other Pushes while d's goroutine t takes a step.                    *)
LEMMA PushKept ==
  ASSUME TypeOK, NEW e \in Devices, NEW u \in Pushers, Pushing(e, u),
         pc'[e][u] = pc[e][u], batch'[e][u] = batch[e][u], num'[e][u] = num[e][u],
         made <= made', made' \in Nat, pushSeq[e] >= 1 => pushSeq'[e] >= 1,
         \A k \in Keys : batch[e][u] \in uses'[k] => batch[e][u] \in uses[k],
         pc[e][u] # "idle" => \A v \in Pushers \ {u} : batch'[e][v] # batch[e][u]
  PROVE  Pushing(e, u)'
  <1>1. pc[e][u] # "idle" => batch[e][u] \in Batches /\ batch[e][u][2] \in Nat
    BY BatchNotNone DEF Pushing
  <1>2. num[e][u] \in Nat /\ made \in Nat
    BY DEF TypeOK
  <1>3. pc'[e][u] # "idle" => /\ batch'[e][u] \in Batches
                              /\ batch'[e][u][1] = e /\ batch'[e][u][2] <= made'
                              /\ \A v \in Pushers \ {u} : batch'[e][v] # batch'[e][u]
    BY <1>1, <1>2 DEF Pushing
  <1>4. pc'[e][u] = "store" => num'[e][u] + 1 <= made'
    BY <1>2 DEF Pushing
  <1>5. pc'[e][u] \in {"store", "key"} => \A k \in Keys : batch'[e][u] \notin uses'[k]
    BY DEF Pushing
  <1>6. pc'[e][u] \in {"put", "mark"} =>
           num'[e][u] >= 1 /\ \A k \in Keys : batch'[e][u] \in uses'[k] => k = <<e, num'[e][u]>>
    BY DEF Pushing, KeyOf
  <1> QED BY <1>3, <1>4, <1>5, <1>6 DEF Pushing, KeyOf

LEMMA LoadIInv ==
  ASSUME IInv, NEW d \in Devices, NEW t \in Pushers, Load(d, t)
  PROVE  IInv'
  <1> DEFINE b == <<d, made + 1>>
  <1>1. /\ pc[d][t] = "idle" /\ made' = made + 1 /\ made + 1 <= MaxBatches /\ made \in Nat
        /\ b \in Batches /\ b[1] = d /\ b[2] = made + 1
        /\ UNCHANGED <<pushSeq, pulled, blobs, at, pullVars, faults, history>>
    <2>1. /\ pc[d][t] = "idle" /\ made' = made + 1 /\ made < MaxBatches
          /\ UNCHANGED <<pushSeq, pulled, blobs, at, pullVars, faults, history>>
      BY DEF Load
    <2>2. made \in Nat /\ MaxBatches \in Nat /\ made + 1 \in 1 .. MaxBatches
      BY <2>1, SyncerAssumption DEF IInv, TypeOK
    <2> QED BY <2>1, <2>2, BatchNotNone
  <1>2. /\ batch' \in [Devices -> [Pushers -> Batches \cup {None}]]
        /\ \A e \in Devices, u \in Pushers :
              batch'[e][u] = IF e = d /\ u = t THEN b ELSE batch[e][u]
    <2>1. b \in Batches \cup {None} /\ batch' = [batch EXCEPT ![d][t] = b]
      BY <1>1 DEF Load
    <2> HIDE DEF b
    <2> QED BY <2>1, Cell DEF IInv, TypeOK
  <1>3. /\ num' \in [Devices -> [Pushers -> 0 .. MaxBatches]]
        /\ \A e \in Devices, u \in Pushers :
              num'[e][u] = IF e = d /\ u = t THEN pushSeq[d] ELSE num[e][u]
    <2>1. pushSeq[d] \in 0 .. MaxBatches /\ num' = [num EXCEPT ![d][t] = pushSeq[d]]
      BY DEF Load, IInv, TypeOK
    <2> QED BY <2>1, Cell DEF IInv, TypeOK
  <1>4. /\ pc' \in [Devices -> [Pushers -> {"idle", "store", "key", "put", "mark"}]]
        /\ \A e \in Devices, u \in Pushers :
              pc'[e][u] = IF e = d /\ u = t THEN "store" ELSE pc[e][u]
    <2>1. pc' = [pc EXCEPT ![d][t] = "store"]
      BY DEF Load, Goto
    <2> QED BY <2>1, Cell DEF IInv, TypeOK
  <1> HIDE DEF b
  <1>5. TypeOK'
    BY <1>1, <1>2, <1>3, <1>4 DEF IInv, TypeOK, pullVars, history
  <1>6. \A k \in Keys : b \notin uses[k]
    BY <1>1 DEF IInv, StoreInv
  <1>7. \A u \in Pushers : batch[d][u] # b
    <2> SUFFICES ASSUME NEW u \in Pushers, batch[d][u] = b PROVE FALSE
      OBVIOUS
    <2>1. batch[d][u] # None
      BY <1>1, BatchNotNone
    <2>2. batch[d][u][2] <= made
      BY <2>1 DEF IInv, PushInv, Pushing
    <2> QED BY <2>2, <1>1
  <1>8. PushInv'
    <2> SUFFICES ASSUME NEW e \in Devices, NEW u \in Pushers PROVE Pushing(e, u)'
      BY DEF PushInv
    <2>1. CASE e = d /\ u = t
      <3>1. pushSeq[d] <= made
        BY DEF IInv, StoreInv
      <3> QED BY <2>1, <3>1, <1>1, <1>2, <1>3, <1>4, <1>6, <1>7
              DEF Pushing, history, IInv, TypeOK
    <2>2. CASE ~(e = d /\ u = t)
      <3>1. Pushing(e, u) /\ TypeOK
        BY DEF IInv, PushInv
      <3>2. pc[e][u] # "idle" => \A v \in Pushers \ {u} : batch'[e][v] # batch[e][u]
        BY <3>1, <1>2, <1>7 DEF Pushing
      <3> QED BY <2>2, <3>1, <3>2, <1>1, <1>2, <1>3, <1>4, PushKept DEF history
    <2> QED BY <2>1, <2>2
  <1>9. StoreInv'
    BY <1>1, BatchNotNone DEF IInv, TypeOK, StoreInv, history
  <1>10. PullInv'
    BY <1>1, PullKept DEF IInv, TypeOK, PullInv, pullVars, history
  <1> QED BY <1>5, <1>8, <1>9, <1>10 DEF IInv

LEMMA StoreIInv ==
  ASSUME IInv, NEW d \in Devices, NEW t \in Pushers, Store(d, t)
  PROVE  IInv'
  <1>1. /\ pc[d][t] = "store" /\ pushSeq' = [pushSeq EXCEPT ![d] = num[d][t] + 1]
        /\ num[d][t] \in Nat /\ num[d][t] + 1 <= made /\ made <= MaxBatches /\ made \in Nat
        /\ MaxBatches \in Nat
        /\ UNCHANGED <<pulled, blobs, made, batch, num, at, pullVars, faults, history>>
    BY SyncerAssumption DEF Store, IInv, TypeOK, PushInv, Pushing
  <1>2. /\ pc' \in [Devices -> [Pushers -> {"idle", "store", "key", "put", "mark"}]]
        /\ \A e \in Devices, u \in Pushers :
              pc'[e][u] = IF e = d /\ u = t THEN "key" ELSE pc[e][u]
    <2>1. pc' = [pc EXCEPT ![d][t] = "key"]
      BY DEF Store, Goto
    <2> QED BY <2>1, Cell DEF IInv, TypeOK
  <1>3. /\ pushSeq' \in [Devices -> 0 .. MaxBatches]
        /\ \A e \in Devices : pushSeq'[e] = IF e = d THEN num[d][t] + 1 ELSE pushSeq[e]
    BY <1>1 DEF IInv, TypeOK
  <1>4. TypeOK'
    BY <1>1, <1>2, <1>3 DEF IInv, TypeOK, pullVars, history
  <1>5. PushInv'
    <2> SUFFICES ASSUME NEW e \in Devices, NEW u \in Pushers PROVE Pushing(e, u)'
      BY DEF PushInv
    <2>1. Pushing(e, u) /\ TypeOK
      BY DEF IInv, PushInv
    <2>2. CASE e = d /\ u = t
      BY <2>1, <2>2, <1>1, <1>2, <1>3 DEF Pushing, history
    <2>3. CASE ~(e = d /\ u = t)
      <3>1. pushSeq[e] >= 1 => pushSeq'[e] >= 1
        BY <1>1, <1>3
      <3>2. pc[e][u] # "idle" => \A v \in Pushers \ {u} : batch'[e][v] # batch[e][u]
        BY <2>1, <1>1 DEF Pushing
      <3> QED BY <2>1, <2>3, <3>1, <3>2, <1>1, <1>2, PushKept DEF history
    <2> QED BY <2>2, <2>3
  <1>6. StoreInv'
    BY <1>1, <1>3 DEF IInv, StoreInv, history
  <1>7. PullInv'
    BY <1>1, PullKept DEF IInv, TypeOK, PullInv, pullVars, history
  <1> QED BY <1>4, <1>5, <1>6, <1>7 DEF IInv

LEMMA KeyIInv ==
  ASSUME IInv, NEW d \in Devices, NEW t \in Pushers, Key(d, t)
  PROVE  IInv'
  <1>1. /\ pc[d][t] = "key" /\ pushSeq[d] \in 0 .. MaxBatches /\ pushSeq[d] >= 1
        /\ UNCHANGED <<pushSeq, pulled, blobs, made, batch, pullVars, faults, history>>
        /\ made \in Nat
    BY DEF Key, IInv, TypeOK, PushInv, Pushing
  <1>2. /\ pc' \in [Devices -> [Pushers -> {"idle", "store", "key", "put", "mark"}]]
        /\ \A e \in Devices, u \in Pushers :
              pc'[e][u] = IF e = d /\ u = t THEN "put" ELSE pc[e][u]
    <2>1. pc' = [pc EXCEPT ![d][t] = "put"]
      BY DEF Key, Goto
    <2> QED BY <2>1, Cell DEF IInv, TypeOK
  <1>3. /\ num' \in [Devices -> [Pushers -> 0 .. MaxBatches]]
        /\ \A e \in Devices, u \in Pushers :
              num'[e][u] = IF e = d /\ u = t THEN pushSeq[d] ELSE num[e][u]
    <2>1. num' = [num EXCEPT ![d][t] = pushSeq[d]]
      BY DEF Key
    <2> QED BY <2>1, <1>1, Cell DEF IInv, TypeOK
  <1>4. at' \in [Devices -> [Pushers -> 1 .. Len(Providers)]]
    <2>1. at' = [at EXCEPT ![d][t] = 1] /\ 1 \in 1 .. Len(Providers)
      BY ProvidersKnown DEF Key
    <2> QED BY <2>1, Cell DEF IInv, TypeOK
  <1>5. TypeOK'
    BY <1>1, <1>2, <1>3, <1>4 DEF IInv, TypeOK, pullVars, history
  <1>6. PushInv'
    <2> SUFFICES ASSUME NEW e \in Devices, NEW u \in Pushers PROVE Pushing(e, u)'
      BY DEF PushInv
    <2>1. Pushing(e, u) /\ TypeOK
      BY DEF IInv, PushInv
    <2>2. CASE e = d /\ u = t
      BY <2>1, <2>2, <1>1, <1>2, <1>3 DEF Pushing, history
    <2>3. CASE ~(e = d /\ u = t)
      <3>1. pc[e][u] # "idle" => \A v \in Pushers \ {u} : batch'[e][v] # batch[e][u]
        BY <2>1, <1>1 DEF Pushing
      <3> QED BY <2>1, <2>3, <3>1, <1>1, <1>2, <1>3, PushKept DEF history
    <2> QED BY <2>2, <2>3
  <1>7. StoreInv'
    BY <1>1 DEF IInv, StoreInv, history
  <1>8. PullInv'
    BY <1>1, PullKept DEF IInv, TypeOK, PullInv, pullVars, history
  <1> QED BY <1>5, <1>6, <1>7, <1>8 DEF IInv

LEMMA PutIInv ==
  ASSUME IInv, NEW d \in Devices, NEW t \in Pushers, Put(d, t) \/ PutFails(d, t)
  PROVE  IInv'
  <1> DEFINE b == batch[d][t]
             key == KeyOf(d, t)
             x == Providers[at[d][t]]
  <1>1. /\ pc[d][t] = "put" /\ b \in Batches /\ b[1] = d /\ b[2] <= made
        /\ \A u \in Pushers \ {t} : batch[d][u] # b
        /\ \A k \in Keys : b \in uses[k] => k = key
        /\ num[d][t] \in 1 .. MaxBatches
    BY DEF Put, PutFails, IInv, TypeOK, PushInv, Pushing
  <1>2. key \in Keys /\ key[1] = d /\ x \in Backends
    BY <1>1, BatchNotNone, ProvidersKnown DEF KeyOf, IInv, TypeOK
  <1>3. PICK c \in {b, blobs[x][key]} : blobs' = [blobs EXCEPT ![x][key] = c]
    BY DEF Put, PutFails
  <1>4. /\ uses' = [uses EXCEPT ![key] = @ \cup {b}] /\ AfterPut(d, t)
        /\ UNCHANGED <<pushSeq, pulled, made, batch, num, got, owed>>
        /\ UNCHANGED <<pullPc, pullAt, keys>>
    BY DEF Put, PutFails, pullVars
  <1>5. /\ at' \in [Devices -> [Pushers -> 1 .. Len(Providers)]]
        /\ pc' \in [Devices -> [Pushers -> {"idle", "store", "key", "put", "mark"}]]
        /\ pc'[d][t] \in {"put", "mark"}
        /\ \A e \in Devices, u \in Pushers : ~(e = d /\ u = t) => pc'[e][u] = pc[e][u]
    <2>1. CASE at[d][t] < Len(Providers)
      <3>1. at[d][t] \in 1 .. Len(Providers) /\ Len(Providers) \in Nat
        BY ProvidersKnown DEF IInv, TypeOK
      <3>2. at[d][t] + 1 \in 1 .. Len(Providers) /\ pc' = pc
            /\ at' = [at EXCEPT ![d][t] = at[d][t] + 1]
        BY <2>1, <3>1, <1>4 DEF AfterPut
      <3> QED BY <3>2, <1>1, Cell DEF IInv, TypeOK
    <2>2. CASE ~ at[d][t] < Len(Providers)
      <3>1. at' = at /\ pc' = [pc EXCEPT ![d][t] = "mark"]
        BY <2>2, <1>4 DEF AfterPut, Goto
      <3> QED BY <3>1, Cell DEF IInv, TypeOK
    <2> QED BY <2>1, <2>2
  <1> HIDE DEF b, key, x
  <1>6. /\ uses' \in [Keys -> SUBSET Batches]
        /\ \A k \in Keys : uses'[k] = IF k = key THEN uses[k] \cup {b} ELSE uses[k]
    BY <1>1, <1>2, <1>4 DEF IInv, TypeOK
  <1>7. /\ blobs' \in [Backends -> [Keys -> Batches \cup {None}]]
        /\ \A y \in Backends, k \in Keys :
              blobs'[y][k] = IF y = x /\ k = key THEN c ELSE blobs[y][k]
    <2>1. /\ c \in Batches \cup {None}
          /\ blobs \in [Backends -> [Keys -> Batches \cup {None}]]
      BY <1>1, <1>2 DEF IInv, TypeOK
    <2> QED BY <2>1, <1>2, <1>3
  <1>8. TypeOK'
    BY <1>4, <1>5, <1>6, <1>7 DEF IInv, TypeOK
  <1>9. PushInv'
    <2> SUFFICES ASSUME NEW e \in Devices, NEW u \in Pushers PROVE Pushing(e, u)'
      BY DEF PushInv
    <2>1. Pushing(e, u) /\ TypeOK /\ made \in Nat
      BY MadeNat DEF IInv, PushInv
    <2>2. CASE e = d /\ u = t
      <3>1. \A k \in Keys : b \in uses'[k] => k = key
        BY <1>1, <1>6
      <3>2. KeyOf(d, t)' = key /\ b' = b
        BY <1>4 DEF KeyOf, key, b
      <3> QED BY <2>2, <3>1, <3>2, <1>1, <1>4, <1>5 DEF Pushing, b
    <2>3. CASE ~(e = d /\ u = t)
      <3>1. batch[e][u] # b
        BY <2>1, <2>3, <1>1, BatchNotNone DEF Pushing
      <3>2. \A k \in Keys : batch[e][u] \in uses'[k] => batch[e][u] \in uses[k]
        BY <3>1, <1>6
      <3>3. pc[e][u] # "idle" => \A v \in Pushers \ {u} : batch'[e][v] # batch[e][u]
        BY <2>1, <1>4 DEF Pushing
      <3> QED BY <2>1, <2>3, <3>2, <3>3, <1>4, <1>5, PushKept
    <2> QED BY <2>2, <2>3
  <1>10. StoreInv'
    <2>1. \A k \in Keys : \A a \in uses'[k] : a[1] = k[1] /\ a[2] <= made'
      BY <1>1, <1>2, <1>4, <1>6 DEF IInv, StoreInv
    <2>2. \A k, l \in Keys : uses'[k] \cap uses'[l] # {} => k = l
      BY <1>1, <1>6 DEF IInv, StoreInv
    <2>3. \A y \in Backends, k \in Keys : blobs'[y][k] \in uses'[k] \cup {None}
      BY <1>2, <1>6, <1>7 DEF IInv, StoreInv
    <2> QED BY <2>1, <2>2, <2>3, <1>4 DEF IInv, StoreInv
  <1>11. PullInv'
    <2>1. \A y \in Backends, k \in Keys : blobs[y][k] # None => blobs'[y][k] # None
      BY <1>1, <1>7, BatchNotNone
    <2>2. \A k \in Keys : uses[k] \subseteq uses'[k]
      BY <1>6
    <2> QED BY <2>1, <2>2, <1>4, PullKept DEF IInv, TypeOK, PullInv
  <1> QED BY <1>8, <1>9, <1>10, <1>11 DEF IInv

LEMMA MarkIInv ==
  ASSUME IInv, NEW d \in Devices, NEW t \in Pushers, Mark(d, t)
  PROVE  IInv'
  <1>1. /\ pc[d][t] = "mark" /\ pulled' = [pulled EXCEPT ![d] = @ \cup {KeyOf(d, t)}]
        /\ UNCHANGED <<pushSeq, blobs, made, got, uses, owed>>
        /\ UNCHANGED <<pullPc, pullAt, keys>>
    BY DEF Mark, pullVars, history
  <1>2. KeyOf(d, t) \in Keys /\ KeyOf(d, t)[1] = d
    <2>1. num[d][t] \in 1 .. MaxBatches
      BY <1>1 DEF IInv, TypeOK, PushInv, Pushing
    <2> QED BY <2>1, BatchNotNone DEF KeyOf
  <1>3. /\ batch' \in [Devices -> [Pushers -> Batches \cup {None}]]
        /\ \A e \in Devices, u \in Pushers :
              batch'[e][u] = IF e = d /\ u = t THEN None ELSE batch[e][u]
    <2>1. batch' = [batch EXCEPT ![d][t] = None] /\ None \in Batches \cup {None}
      BY DEF Mark
    <2> QED BY <2>1, Cell DEF IInv, TypeOK
  <1>4. /\ num' \in [Devices -> [Pushers -> 0 .. MaxBatches]]
        /\ \A e \in Devices, u \in Pushers :
              num'[e][u] = IF e = d /\ u = t THEN 0 ELSE num[e][u]
    <2>1. num' = [num EXCEPT ![d][t] = 0] /\ 0 \in 0 .. MaxBatches
      BY SyncerAssumption DEF Mark
    <2> QED BY <2>1, Cell DEF IInv, TypeOK
  <1>5. at' \in [Devices -> [Pushers -> 1 .. Len(Providers)]]
    <2>1. at' = [at EXCEPT ![d][t] = 1] /\ 1 \in 1 .. Len(Providers)
      BY ProvidersKnown DEF Mark
    <2> QED BY <2>1, Cell DEF IInv, TypeOK
  <1>6. /\ pc' \in [Devices -> [Pushers -> {"idle", "store", "key", "put", "mark"}]]
        /\ \A e \in Devices, u \in Pushers :
              pc'[e][u] = IF e = d /\ u = t THEN "idle" ELSE pc[e][u]
    <2>1. pc' = [pc EXCEPT ![d][t] = "idle"]
      BY DEF Mark, Goto
    <2> QED BY <2>1, Cell DEF IInv, TypeOK
  <1>7. /\ pulled' \in [Devices -> SUBSET Keys]
        /\ \A e \in Devices : pulled'[e] = IF e = d THEN pulled[d] \cup {KeyOf(d, t)} ELSE pulled[e]
    BY <1>1, <1>2 DEF IInv, TypeOK
  <1>8. TypeOK'
    BY <1>1, <1>3, <1>4, <1>5, <1>6, <1>7 DEF IInv, TypeOK
  <1>9. PushInv'
    <2> SUFFICES ASSUME NEW e \in Devices, NEW u \in Pushers PROVE Pushing(e, u)'
      BY DEF PushInv
    <2>1. Pushing(e, u) /\ TypeOK /\ made \in Nat
      BY MadeNat DEF IInv, PushInv
    <2>2. CASE e = d /\ u = t
      BY <2>2, <1>3, <1>6 DEF Pushing
    <2>3. CASE ~(e = d /\ u = t)
      <3>1. pc[e][u] # "idle" => \A v \in Pushers \ {u} : batch'[e][v] # batch[e][u]
        BY <2>1, <1>3, BatchNotNone DEF Pushing
      <3> QED BY <2>1, <2>3, <3>1, <1>1, <1>3, <1>4, <1>6, PushKept
    <2> QED BY <2>2, <2>3
  <1>10. StoreInv'
    BY <1>1 DEF IInv, StoreInv
  <1>11. PullInv'
    <2> SUFFICES ASSUME NEW e \in Devices PROVE Pulling(e)'
      BY DEF PullInv
    <2>1. \A k \in pulled'[e] \ pulled[e] : k[1] = e
      BY <1>2, <1>7
    <2>2. pulled[e] \subseteq pulled'[e] /\ pulled'[e] \subseteq Keys
      BY <1>7
    <2> QED BY <2>1, <2>2, <1>1, PullKept DEF IInv, PullInv
  <1> QED BY <1>8, <1>9, <1>10, <1>11 DEF IInv

LEMMA RestartIInv ==
  ASSUME IInv, NEW d \in Devices, Restart(d)
  PROVE  IInv'
  <1>1. \A e \in Devices :
           /\ e # d => /\ pushSeq'[e] = pushSeq[e] /\ pulled'[e] = pulled[e] /\ pc'[e] = pc[e]
                       /\ batch'[e] = batch[e] /\ num'[e] = num[e]
                       /\ pullPc'[e] = pullPc[e] /\ pullAt'[e] = pullAt[e]
                       /\ keys'[e] = keys[e] /\ got'[e] = got[e] /\ owed'[e] = owed[e]
           /\ e = d => /\ pushSeq'[e] = 0 /\ pulled'[e] = {} /\ pc'[e] = [t \in Pushers |-> "idle"]
                       /\ batch'[e] = [t \in Pushers |-> None]
                       /\ pullPc'[e] = "idle"
                       /\ keys'[e] = {} /\ got'[e] = << >> /\ owed'[e] = {}
    BY DEF Restart, IInv, TypeOK
  <1>2. UNCHANGED <<blobs, made, uses>> /\ made \in Nat
    BY DEF Restart, IInv, TypeOK
  <1>3. TypeOK'
    <2>1. 0 \in 0 .. MaxBatches /\ 1 \in 1 .. Len(Providers)
      BY SyncerAssumption, ProvidersKnown
    <2>2. /\ pushSeq' \in [Devices -> 0 .. MaxBatches] /\ pulled' \in [Devices -> SUBSET Keys]
          /\ pc' \in [Devices -> [Pushers -> {"idle", "store", "key", "put", "mark"}]]
          /\ batch' \in [Devices -> [Pushers -> Batches \cup {None}]]
          /\ num' \in [Devices -> [Pushers -> 0 .. MaxBatches]]
          /\ at' \in [Devices -> [Pushers -> 1 .. Len(Providers)]]
      BY <2>1 DEF Restart, IInv, TypeOK
    <2>3. /\ pullPc' \in [Devices -> {"idle", "list", "get"}]
          /\ pullAt' \in [Devices -> 1 .. Len(Providers)] /\ keys' \in [Devices -> SUBSET Keys]
          /\ got' \in [Devices -> Seq(Batches)]
          /\ owed' \in [Devices -> SUBSET (Backends \X Batches)]
      BY <2>1 DEF Restart, IInv, TypeOK
    <2> QED BY <1>2, <2>2, <2>3 DEF IInv, TypeOK
  <1>4. PushInv'
    <2> SUFFICES ASSUME NEW e \in Devices, NEW u \in Pushers PROVE Pushing(e, u)'
      BY DEF PushInv
    <2>1. CASE e = d
      BY <2>1, <1>1 DEF Pushing
    <2>2. CASE e # d
      <3>1. Pushing(e, u)
        BY DEF IInv, PushInv
      <3>2. pc[e][u] # "idle" => \A v \in Pushers \ {u} : batch'[e][v] # batch[e][u]
        BY <2>2, <3>1, <1>1 DEF Pushing
      <3> QED BY <2>2, <3>1, <3>2, <1>1, <1>2, PushKept DEF IInv
    <2> QED BY <2>1, <2>2
  <1>5. StoreInv'
    BY <1>1, <1>2 DEF IInv, StoreInv
  <1>6. PullInv'
    <2> SUFFICES ASSUME NEW e \in Devices PROVE Pulling(e)'
      BY DEF PullInv
    <2>1. CASE e = d
      BY <2>1, <1>1 DEF Pulling, ToSet, IsInjective
    <2>2. CASE e # d
      BY <2>2, <1>1, <1>2, PullKept DEF IInv, PullInv, TypeOK
    <2> QED BY <2>1, <2>2
  <1> QED BY <1>3, <1>4, <1>5, <1>6 DEF IInv

-----------------------------------------------------------------------------
(* A step of Pull leaves Push and the providers alone.                     *)
LEMMA PullStep ==
  ASSUME IInv, TypeOK', NEW d \in Devices, Pulling(d)',
         UNCHANGED <<pushSeq, blobs, made, pc, batch, num, uses>>,
         \A e \in Devices \ {d} :
            /\ pulled'[e] = pulled[e] /\ pullPc'[e] = pullPc[e] /\ pullAt'[e] = pullAt[e]
            /\ keys'[e] = keys[e] /\ got'[e] = got[e] /\ owed'[e] = owed[e]
  PROVE  IInv'
  <1>1. PushInv'
    BY DEF IInv, PushInv, Pushing, KeyOf
  <1>2. StoreInv'
    BY DEF IInv, StoreInv
  <1>3. PullInv'
    BY PullKept DEF IInv, TypeOK, PullInv
  <1> QED BY <1>1, <1>2, <1>3 DEF IInv

(* What Continue does, and that it loses nothing it has still to come to.  *)
LEMMA Continued ==
  ASSUME TypeOK, NEW d \in Devices, NEW left \in SUBSET Keys, Continue(d, left)
  PROVE  /\ keys' \in [Devices -> SUBSET Keys] /\ pullPc' \in [Devices -> {"idle", "list", "get"}]
         /\ pullAt' \in [Devices -> 1 .. Len(Providers)]
         /\ \A e \in Devices \ {d} : /\ keys'[e] = keys[e] /\ pullPc'[e] = pullPc[e]
                                     /\ pullAt'[e] = pullAt[e]
         /\ keys'[d] = left
         /\ left # {} => pullPc'[d] = "get" /\ pullAt'[d] = pullAt[d]
         /\ left = {} /\ pullAt[d] < Len(Providers) =>
               pullPc'[d] = "list" /\ pullAt'[d] = pullAt[d] + 1
         /\ left = {} /\ ~ pullAt[d] < Len(Providers) => pullPc'[d] = "idle"
  <1>1. pullAt[d] \in 1 .. Len(Providers) /\ Len(Providers) \in Nat
    BY ProvidersKnown DEF TypeOK
  <1>2. keys' = [keys EXCEPT ![d] = left]
    BY DEF Continue
  <1>3. CASE left # {}
    <2>1. pullPc' = [pullPc EXCEPT ![d] = "get"] /\ pullAt' = pullAt
      BY <1>3 DEF Continue
    <2> QED BY <1>2, <1>3, <2>1 DEF TypeOK
  <1>4. CASE left = {} /\ pullAt[d] < Len(Providers)
    <2>1. pullAt[d] + 1 \in 1 .. Len(Providers)
      BY <1>1, <1>4
    <2>2. /\ pullPc' = [pullPc EXCEPT ![d] = "list"]
          /\ pullAt' = [pullAt EXCEPT ![d] = pullAt[d] + 1]
      BY <1>4 DEF Continue
    <2> QED BY <1>2, <1>4, <2>1, <2>2 DEF TypeOK
  <1>5. CASE left = {} /\ ~ pullAt[d] < Len(Providers)
    <2>1. pullPc' = [pullPc EXCEPT ![d] = "idle"] /\ pullAt' = pullAt
      BY <1>5 DEF Continue
    <2> QED BY <1>2, <1>5, <2>1 DEF TypeOK
  <1> QED BY <1>3, <1>4, <1>5

LEMMA ContinuedAhead ==
  ASSUME TypeOK, NEW d \in Devices, NEW left \in SUBSET Keys, Continue(d, left),
         NEW x \in Backends, NEW k \in Keys, Ahead(d, x, k),
         x = Providers[pullAt[d]] => k \in left
  PROVE  Ahead(d, x, k)'
  <1>1. PICK i \in pullAt[d] .. Len(Providers) : Providers[i] = x
    BY DEF Ahead
  <1>2. pullAt[d] \in 1 .. Len(Providers) /\ Len(Providers) \in Nat /\ i \in 1 .. Len(Providers)
    BY ProvidersKnown DEF TypeOK
  <1>3. CASE left # {}
    <2>1. pullPc'[d] = "get" /\ pullAt'[d] = pullAt[d] /\ keys'[d] = left
      BY <1>3, Continued
    <2> QED BY <2>1, <1>1 DEF Ahead
  <1>4. CASE left = {}
    <2>1. i > pullAt[d] /\ pullAt[d] < Len(Providers)
      BY <1>1, <1>2, <1>4
    <2>2. pullPc'[d] = "list" /\ pullAt'[d] = pullAt[d] + 1
      BY <2>1, <1>4, Continued
    <2>3. i \in pullAt'[d] .. Len(Providers)
      BY <2>1, <2>2, <1>2
    <2> QED BY <2>2, <2>3, <1>1 DEF Ahead
  <1> QED BY <1>3, <1>4

LEMMA StartPullIInv ==
  ASSUME IInv, NEW d \in Devices, StartPull(d)
  PROVE  IInv'
  <1> DEFINE there == UNION {{<<x, blobs[x][k]>> : k \in At(x)} : x \in Backends}
  <1>1. /\ pullPc[d] = "idle" /\ pullPc' = [pullPc EXCEPT ![d] = "list"]
        /\ pullAt' = [pullAt EXCEPT ![d] = 1] /\ owed' = [owed EXCEPT ![d] = there]
        /\ UNCHANGED <<pushSeq, pulled, blobs, made, pc, batch, num, at, keys, got, uses>>
    BY DEF StartPull, pushVars
  <1>2. \A o \in there : \E x \in Backends, k \in Keys :
           o = <<x, blobs[x][k]>> /\ blobs[x][k] # None /\ blobs[x][k] \in Batches
    BY DEF At, IInv, TypeOK
  <1>3. there \subseteq Backends \X Batches
    BY <1>2
  <1> HIDE DEF there
  <1>4. TypeOK'
    <2>1. 1 \in 1 .. Len(Providers)
      BY ProvidersKnown
    <2> QED BY <1>1, <1>3, <2>1 DEF IInv, TypeOK
  <1>5. Pulling(d)'
    <2>0. Pulling(d) /\ pullPc[d] = "idle"
      BY <1>1 DEF IInv, PullInv
    <2>1. pullPc'[d] = "list" /\ pullAt'[d] = 1 /\ owed'[d] = there /\ keys[d] = {} /\ Pulling(d)
      BY <1>1, <2>0 DEF IInv, TypeOK, Pulling
    <2>2. ASSUME NEW o \in there PROVE \E k \in Keys : Traced(d, o, k)'
      <3>1. PICK x \in Backends, k \in Keys : o = <<x, blobs[x][k]>> /\ blobs[x][k] # None
        BY <1>2, <2>2
      <3>2. PICK i \in 1 .. Len(Providers) : Providers[i] = x
        BY ProvidersKnown DEF Backends, ToSet
      <3>3. Ahead(d, x, k)'
        BY <2>1, <3>2 DEF Ahead
      <3>4. blobs[x][k] \in uses[k]
        BY <3>1 DEF IInv, StoreInv
      <3>5. o[1] = x /\ o[2] = blobs[x][k]
        BY <3>1
      <3> QED BY <3>1, <3>3, <3>4, <3>5, <1>1 DEF Traced
    <2> QED BY <2>1, <2>2, <1>1 DEF Pulling
  <1>6. \A e \in Devices \ {d} :
           pullPc'[e] = pullPc[e] /\ pullAt'[e] = pullAt[e] /\ owed'[e] = owed[e]
    BY <1>1 DEF IInv, TypeOK
  <1> QED BY <1>1, <1>4, <1>5, <1>6, PullStep

LEMMA ListIInv ==
  ASSUME IInv, NEW d \in Devices, List(d)
  PROVE  IInv'
  <1> DEFINE x == Providers[pullAt[d]]
             own == {k \in At(x) : k[1] = d}
             left == Wanted(d, x)
  <1>1. /\ pullPc[d] = "list" /\ pulled' = [pulled EXCEPT ![d] = @ \cup own] /\ Continue(d, left)
        /\ UNCHANGED <<pushSeq, blobs, made, pc, batch, num, at, got, uses, owed>>
    BY DEF List, pushVars, history
  <1>2. own \subseteq Keys /\ left \in SUBSET Keys /\ x \in Backends
    BY ProvidersKnown DEF At, Wanted, IInv, TypeOK
  <1>3. \A k \in left : k \notin pulled[d] /\ k[1] # d /\ blobs[x][k] # None
    BY DEF Wanted, At
  <1>4. \A k \in Keys : blobs[x][k] # None => k[1] = d \/ k \in pulled[d] \/ k \in left
    BY DEF Wanted, At
  <1>5. \A k \in own : k[1] = d
    OBVIOUS
  <1> HIDE DEF own, left
  <1>6. /\ pulled' \in [Devices -> SUBSET Keys] /\ pulled'[d] = pulled[d] \cup own
        /\ \A e \in Devices \ {d} : pulled'[e] = pulled[e]
    BY <1>1, <1>2 DEF IInv, TypeOK
  <1>7. TypeOK'
    BY <1>1, <1>2, <1>6, Continued DEF IInv, TypeOK
  <1>8. Pulling(d)'
    <2>1. Pulling(d)
      BY DEF IInv, PullInv
    <2>2. \A k \in pulled'[d] : k[1] # d => uses[k] \cap ToSet(got[d]) # {}
      BY <2>1, <1>5, <1>6 DEF Pulling
    <2>3. \A b \in ToSet(got[d]) : b[1] # d /\ \E k \in pulled'[d] : b \in uses[k]
      BY <2>1, <1>6 DEF Pulling
    <2>4. /\ keys'[d] = left
          /\ left # {} => pullPc'[d] = "get" /\ pullAt'[d] = pullAt[d]
      BY <1>1, <1>2, Continued DEF IInv
    <2>5. \A k \in keys'[d] :
             k \notin pulled'[d] /\ k[1] # d /\ blobs[Providers[pullAt'[d]]][k] # None
      BY <2>4, <1>3, <1>5, <1>6
    <2>6. ASSUME NEW o \in owed[d] PROVE \E k \in Keys : Traced(d, o, k)'
      <3>1. PICK k \in Keys : Traced(d, o, k)
        BY <2>1, <2>6 DEF Pulling
      <3>2. o[1] \in Backends /\ blobs[o[1]][k] # None /\ o[2] \in uses[k]
        BY <3>1, <2>6 DEF Traced, IInv, TypeOK
      <3>3. CASE k[1] = d \/ k \in pulled[d]
        BY <3>2, <3>3, <1>1, <1>6 DEF Traced
      <3>4. CASE k[1] # d /\ k \notin pulled[d]
        <4>1. o[1] = x => k \in left
          BY <3>2, <3>4, <1>4
        <4>2. Ahead(d, o[1], k)'
          BY <3>1, <3>2, <3>4, <4>1, <1>1, <1>2, ContinuedAhead DEF Traced, IInv
        <4> QED BY <3>2, <4>2, <1>1 DEF Traced
      <3> QED BY <3>3, <3>4
    <2> QED BY <2>1, <2>2, <2>3, <2>4, <2>5, <2>6, <1>1 DEF Pulling
  <1> QED BY <1>1, <1>2, <1>6, <1>7, <1>8, Continued, PullStep DEF IInv

(* A batch that was not pulled is not in what the device has got: it has   *)
(* one key, and that key would have been marked.                           *)
LEMMA NewBatch ==
  ASSUME IInv, NEW d \in Devices, NEW k \in Keys, k \notin pulled[d], NEW b \in uses[k]
  PROVE  b \notin ToSet(got[d])
  <1> SUFFICES ASSUME b \in ToSet(got[d]) PROVE FALSE
    OBVIOUS
  <1>1. PICK l \in pulled[d] : b \in uses[l]
    BY DEF IInv, PullInv, Pulling
  <1>2. l \in Keys
    BY <1>1 DEF IInv, TypeOK
  <1>3. l = k
    BY <1>1, <1>2 DEF IInv, StoreInv
  <1> QED BY <1>1, <1>3

LEMMA Appending ==
  ASSUME NEW S, NEW s \in Seq(S), NEW e \in S
  PROVE  /\ Append(s, e) \in Seq(S)
         /\ ToSet(Append(s, e)) = ToSet(s) \cup {e}
         /\ e \notin ToSet(s) /\ IsInjective(s) => IsInjective(Append(s, e))
  <1> DEFINE r == Append(s, e)
  <1>1. /\ r \in Seq(S) /\ Len(r) = Len(s) + 1 /\ Len(s) \in Nat
        /\ DOMAIN s = 1 .. Len(s) /\ DOMAIN r = 1 .. Len(r)
        /\ \A i \in 1 .. Len(s) : r[i] = s[i]
        /\ r[Len(s) + 1] = e
    OBVIOUS
  <1> HIDE DEF r
  <1>2. ToSet(s) \cup {e} \subseteq ToSet(r)
    BY <1>1 DEF ToSet
  <1>3. ToSet(r) \subseteq ToSet(s) \cup {e}
    BY <1>1 DEF ToSet
  <1>4. e \notin ToSet(s) /\ IsInjective(s) => IsInjective(r)
    BY <1>1 DEF ToSet, IsInjective
  <1> QED BY <1>1, <1>2, <1>3, <1>4 DEF r

LEMMA GetIInv ==
  ASSUME IInv, NEW d \in Devices, Get(d)
  PROVE  IInv'
  <1> DEFINE x == Providers[pullAt[d]]
  <1>1. PICK k \in keys[d] :
          /\ got' = [got EXCEPT ![d] = Append(@, blobs[x][k])]
          /\ pulled' = [pulled EXCEPT ![d] = @ \cup {k}]
          /\ Continue(d, keys[d] \ {k})
    BY DEF Get
  <1> DEFINE b == blobs[x][k]
             left == keys[d] \ {k}
  <1>2. /\ pullPc[d] = "get"
        /\ UNCHANGED <<pushSeq, blobs, made, pc, batch, num, at, uses, owed>>
    BY DEF Get, pushVars
  <1>3. /\ k \in Keys /\ k \notin pulled[d] /\ k[1] # d /\ x \in Backends
        /\ left \in SUBSET Keys
    BY ProvidersKnown DEF IInv, TypeOK, PullInv, Pulling
  <1>4. b \in Batches /\ b \in uses[k] /\ b[1] # d
    BY <1>3 DEF IInv, TypeOK, PullInv, Pulling, StoreInv
  <1>5. Continue(d, left)
    BY <1>1
  <1> HIDE DEF b, left
  <1>6. got[d] \in Seq(Batches) /\ got' = [got EXCEPT ![d] = Append(got[d], b)]
    BY <1>1 DEF IInv, TypeOK, b
  <1>7. /\ Append(got[d], b) \in Seq(Batches)
        /\ ToSet(Append(got[d], b)) = ToSet(got[d]) \cup {b}
        /\ b \notin ToSet(got[d]) /\ IsInjective(got[d]) => IsInjective(Append(got[d], b))
    BY <1>4, <1>6, Appending
  <1>8. /\ got' \in [Devices -> Seq(Batches)] /\ got'[d] = Append(got[d], b)
        /\ \A e \in Devices \ {d} : got'[e] = got[e]
    BY <1>6, <1>7 DEF IInv, TypeOK
  <1>9. /\ pulled' \in [Devices -> SUBSET Keys] /\ pulled'[d] = pulled[d] \cup {k}
        /\ \A e \in Devices \ {d} : pulled'[e] = pulled[e]
    BY <1>1, <1>3 DEF IInv, TypeOK
  <1>10. TypeOK'
    BY <1>2, <1>3, <1>5, <1>8, <1>9, Continued DEF IInv, TypeOK
  <1>11. Pulling(d)'
    <2>1. Pulling(d)
      BY DEF IInv, PullInv
    <2>2. \A l \in pulled'[d] : l[1] # d => uses[l] \cap ToSet(got'[d]) # {}
      BY <2>1, <1>4, <1>7, <1>8, <1>9 DEF Pulling
    <2>3. \A c \in ToSet(got'[d]) : c[1] # d /\ \E l \in pulled'[d] : c \in uses[l]
      BY <2>1, <1>4, <1>7, <1>8, <1>9 DEF Pulling
    <2>4. IsInjective(got'[d])
      BY <2>1, <1>3, <1>4, <1>7, <1>8, NewBatch DEF Pulling
    <2>5. /\ keys'[d] = left
          /\ left # {} => pullPc'[d] = "get" /\ pullAt'[d] = pullAt[d]
      BY <1>3, <1>5, Continued DEF IInv
    <2>6. \A l \in keys'[d] :
             l \notin pulled'[d] /\ l[1] # d /\ blobs[Providers[pullAt'[d]]][l] # None
      BY <2>1, <2>5, <1>9 DEF Pulling, left
    <2>7. ASSUME NEW o \in owed[d] PROVE \E l \in Keys : Traced(d, o, l)'
      <3>1. PICK l \in Keys : Traced(d, o, l)
        BY <2>1, <2>7 DEF Pulling
      <3>2. o[1] \in Backends /\ blobs[o[1]][l] # None /\ o[2] \in uses[l]
        BY <3>1, <2>7 DEF Traced, IInv, TypeOK
      <3>3. CASE l[1] = d \/ l \in pulled[d] \/ l = k
        BY <3>2, <3>3, <1>2, <1>9 DEF Traced
      <3>4. CASE l[1] # d /\ l \notin pulled[d] /\ l # k
        <4>1. Ahead(d, o[1], l)
          BY <3>1, <3>4 DEF Traced
        <4>2. o[1] = x => l \in left
          <5> SUFFICES ASSUME o[1] = x PROVE l \in keys[d]
            BY <3>4 DEF left
          <5>1. PICK i \in pullAt[d] .. Len(Providers) :
                  Providers[i] = x /\ (i = pullAt[d] => pullPc[d] = "list" \/ l \in keys[d])
            BY <4>1 DEF Ahead
          <5>2. pullAt[d] \in 1 .. Len(Providers) /\ i \in 1 .. Len(Providers)
            BY ProvidersKnown DEF IInv, TypeOK
          <5>3. i = pullAt[d]
            BY <5>1, <5>2, ProvidersKnown
          <5> QED BY <5>1, <5>3, <1>2
        <4>3. Ahead(d, o[1], l)'
          BY <3>2, <4>1, <4>2, <1>3, <1>5, ContinuedAhead DEF IInv
        <4> QED BY <3>2, <4>3, <1>2 DEF Traced
      <3> QED BY <3>3, <3>4
    <2> QED BY <2>2, <2>3, <2>4, <2>5, <2>6, <2>7, <1>2 DEF Pulling
  <1> QED BY <1>2, <1>3, <1>5, <1>8, <1>9, <1>10, <1>11, Continued, PullStep DEF IInv

(* A failure excuses the provider it comes from, and only that.            *)
LEMMA FailsIInv ==
  ASSUME IInv, NEW d \in Devices, NEW left \in SUBSET keys[d], Continue(d, left), Excuse(d),
         left # {} => pullPc[d] = "get",
         UNCHANGED <<pushSeq, pulled, blobs, made, pushVars, got, uses>>
  PROVE  IInv'
  <1> DEFINE x == Providers[pullAt[d]]
  <1>1. UNCHANGED <<pc, batch, num, at>> /\ left \in SUBSET Keys
    BY DEF pushVars, IInv, TypeOK
  <1>2. /\ owed' \in [Devices -> SUBSET (Backends \X Batches)]
        /\ owed'[d] = {o \in owed[d] : o[1] # x}
        /\ \A e \in Devices \ {d} : owed'[e] = owed[e]
    BY DEF Excuse, IInv, TypeOK
  <1>3. TypeOK'
    BY <1>1, <1>2, Continued DEF IInv, TypeOK
  <1>4. Pulling(d)'
    <2>1. Pulling(d)
      BY DEF IInv, PullInv
    <2>2. /\ keys'[d] = left
          /\ left # {} => pullPc'[d] = "get" /\ pullAt'[d] = pullAt[d]
      BY <1>1, Continued DEF IInv
    <2>3. \A l \in keys'[d] :
             l \notin pulled[d] /\ l[1] # d /\ blobs[Providers[pullAt'[d]]][l] # None
      BY <2>1, <2>2 DEF Pulling
    <2>4. ASSUME NEW o \in owed'[d] PROVE \E l \in Keys : Traced(d, o, l)'
      <3>1. o \in owed[d] /\ o[1] # x
        BY <2>4, <1>2
      <3>2. PICK l \in Keys : Traced(d, o, l)
        BY <2>1, <3>1 DEF Pulling
      <3>3. o[1] \in Backends
        BY <3>1 DEF IInv, TypeOK
      <3>4. Ahead(d, o[1], l) => Ahead(d, o[1], l)'
        BY <3>1, <3>3, <1>1, ContinuedAhead DEF IInv
      <3> QED BY <3>2, <3>4 DEF Traced
    <2> QED BY <2>1, <2>2, <2>3, <2>4 DEF Pulling
  <1> QED BY <1>1, <1>2, <1>3, <1>4, Continued, PullStep DEF IInv

LEMMA NextIInv == IInv /\ [Next]_vars => IInv'
  <1> SUFFICES ASSUME IInv, [Next]_vars PROVE IInv'
    OBVIOUS
  <1>1. ASSUME NEW d \in Devices, ListFails(d) PROVE IInv'
    BY <1>1, FailsIInv DEF ListFails
  <1>2. ASSUME NEW d \in Devices, GetFails(d) PROVE IInv'
    <2>1. PICK k \in keys[d] : Continue(d, keys[d] \ {k})
      BY <1>2 DEF GetFails
    <2> QED BY <2>1, <1>2, FailsIInv DEF GetFails
  <1>3. CASE UNCHANGED vars
    <2>1. TypeOK' /\ PushInv' /\ StoreInv'
      BY <1>3 DEF vars, pushVars, pullVars, history, IInv, TypeOK, PushInv, Pushing, KeyOf, StoreInv
    <2>2. PullInv'
      BY <1>3, PullKept DEF vars, pushVars, pullVars, history, IInv, TypeOK, PullInv
    <2> QED BY <2>1, <2>2 DEF IInv
  <1> QED BY <1>1, <1>2, <1>3, LoadIInv, StoreIInv, KeyIInv, PutIInv, MarkIInv, StartPullIInv,
             ListIInv, GetIInv, RestartIInv
          DEF Next, Push, Pull

LEMMA Invariance == Spec => []IInv
  BY InitIInv, NextIInv, PTL DEF Spec

(* A device is never given a batch of its own, whatever restarts and       *)
(* whatever two Pushes make of one key.                                    *)
THEOREM NeverEchoed == Spec => []NoEcho
  <1>1. IInv => NoEcho
    BY DEF IInv, PullInv, Pulling, NoEcho
  <1> QED BY <1>1, Invariance, PTL

(* As long as a device runs, no batch is returned to it twice.             *)
THEOREM NeverReturnedTwice == Spec => []ReturnedOnce
  <1>1. IInv => ReturnedOnce
    BY DEF IInv, PullInv, Pulling, ReturnedOnce
  <1> QED BY <1>1, Invariance, PTL

(* What was at a provider when Pull began has been returned when it ends,  *)
(* unless a call to that provider failed or its key was used again.        *)
THEOREM PullsAreComplete == Spec => []PullComplete
  <1>1. IInv => PullComplete
    <2> SUFFICES ASSUME IInv, NEW d \in Devices, pullPc[d] = "idle", NEW o \in owed[d],
                        o[2][1] # d, SingleUse(o[2])
                 PROVE  o[2] \in ToSet(got[d])
      BY DEF PullComplete
    <2>1. PICK k \in Keys : Traced(d, o, k)
      BY DEF IInv, PullInv, Pulling
    <2>2. o[2] \in uses[k] /\ uses[k] = {o[2]}
      BY <2>1 DEF Traced, SingleUse
    <2>3. k[1] # d
      BY <2>2 DEF IInv, StoreInv
    <2>4. k \in pulled[d]
      BY <2>1, <2>3 DEF Traced, Ahead
    <2> QED BY <2>2, <2>3, <2>4 DEF IInv, PullInv, Pulling
  <1> QED BY <1>1, Invariance, PTL
=============================================================================
