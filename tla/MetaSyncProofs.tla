--------------------------- MODULE MetaSyncProofs ---------------------------
(***************************************************************************)
(* The exchange of the operations logs: what a provider holds is never     *)
(* lost, what counts as pushed is stored, and imports come in order; for   *)
(* all numbers of devices, handlers, providers, operations and faults.     *)
(***************************************************************************)
EXTENDS MetaSync, FiniteSetTheorems, SequenceTheorems, WellFoundedInduction, TLAPS

TypeOK ==
    /\ ops \in [Devices -> Seq(Rows)]
    /\ number \in [Devices -> [Callers -> Nat]]
    /\ pushed \in [Devices -> Nat]
    /\ pulled \in [Devices -> [Devices -> Nat]]
    /\ blobs \in [Backends -> [Keys -> Seq(Records)]]
    /\ pc \in [Devices -> {"idle", "put", "list", "get", "import"}]
    /\ at \in [Devices -> 1 .. Len(Providers)]
    /\ keys \in [Devices -> SUBSET Keys]
    /\ file \in [Devices -> Seq(Records)]
    /\ kept \in [Devices -> Nat]
    /\ fetched \in [Devices -> SUBSET OpIds]

(* The bound on the operations, and with it on the sequence numbers.       *)
CountInv ==
    /\ IsFiniteSet(Own) /\ IsFiniteSet(Appending)
    /\ Cardinality(Own) + Cardinality(Appending) <= MaxOps
    /\ \A d \in Devices : \A i \in RowsOf(d, d) : ops[d][i].seq <= Cardinality(Own)
    /\ \A d \in Devices, c \in Callers : number[d][c] <= Cardinality(Own) + 1

(* The row that an imported row, or a record, stands for.                  *)
Sound(d, i) ==
    /\ ops[d][i].id = <<d, i>>
    /\ ops[d][i].dev # d => /\ ops[d][i].of[1] = ops[d][i].dev
                            /\ ops[d][i].of[2] \in RowsOf(ops[d][i].dev, ops[d][i].dev)

Recorded(rec) ==
    /\ rec.id[1] = rec.dev /\ rec.id[2] \in RowsOf(rec.dev, rec.dev)
    /\ rec.seq = ops[rec.dev][rec.id[2]].seq

RowInv == \A d \in Devices : \A i \in DOMAIN ops[d] : Sound(d, i)

BlobInv ==
    \A x \in Backends, k \in Keys :
        /\ \A i \in DOMAIN blobs[x][k] : Recorded(blobs[x][k][i]) /\ blobs[x][k][i].dev = k[1]
        /\ blobs[x][k] # << >> => Last(blobs[x][k]).seq = k[2]

FileOf(d) ==
    /\ \A i \in DOMAIN file[d] : Recorded(file[d][i])
    /\ pc[d] = "put" => /\ file[d] # << >>
                        /\ \A i \in DOMAIN file[d] :
                              /\ file[d][i].dev = d
                              /\ file[d][i].seq \in pushed[d] + 1 .. Last(file[d]).seq
    /\ pc[d] = "import" => file[d] # << >> /\ \A i \in DOMAIN file[d] : file[d][i].dev # d
    /\ \A k \in keys[d] :
          /\ k[1] # d
          /\ pc[d] \in {"get", "import"} => blobs[Providers[at[d]]][k] # << >>

(* ImportedInOrder, for one device, and that the next import stays behind. *)
OrderOf(d) ==
    /\ kept[d] <= Len(ops[d])
    /\ \A e \in Devices \ {d} : \A i \in RowsOf(d, e) : i > kept[d] =>
          /\ Origin(ops[d][i]) <= pulled[d][e]
          /\ \A j \in RowsOf(d, e) : j < i /\ j > kept[d] => Origin(ops[d][j]) < Origin(ops[d][i])

(* A provider has an operation, or its last Put there failed.              *)
Covered(x, id) == id \in Held(x) \/ <<x, id>> \in missed

Marked(d) == pushed[d] = 0 \/ \E i \in RowsOf(d, d) : ops[d][i].seq = pushed[d]

(* An ops file with a number above the mark is covered by the Push that    *)
(* is under way.                                                           *)
Above(d) ==
    \A x \in Backends, k \in Keys :
        k[1] = d /\ blobs[x][k] # << >> =>
            IF pc[d] = "put" THEN k[2] <= pushed[d] \/ Ids(blobs[x][k]) \subseteq Ids(file[d])
            ELSE pushed[d] = 0 \/ k[2] <= pushed[d]

(* An own row above the mark is in the file, or it came after its last one.*)
InFile(d) ==
    pc[d] = "put" =>
        \A i \in RowsOf(d, d) : ops[d][i].seq > pushed[d] =>
            <<d, i>> \in Ids(file[d]) \/ Last(file[d]).id[2] < i

SoFar(d) ==
    pc[d] = "put" => \A n \in 1 .. at[d] - 1 : \A id \in Ids(file[d]) : Covered(Providers[n], id)

(* PushedStored, for one device.                                           *)
Stored(d) ==
    \A i \in RowsOf(d, d) : \A x \in Backends :
        InTurn(d, i) /\ ops[d][i].seq <= pushed[d] => Covered(x, <<d, i>>)

PushOf(d) == Marked(d) /\ Above(d) /\ InFile(d) /\ SoFar(d) /\ Stored(d)

FileInv  == \A d \in Devices : FileOf(d)
OrderInv == \A d \in Devices : OrderOf(d)
PushInv  == \A d \in Devices : PushOf(d)

IInv == TypeOK /\ CountInv /\ RowInv /\ BlobInv /\ FileInv /\ OrderInv /\ PushInv

-----------------------------------------------------------------------------
(* Operators of the model.                                                 *)
LEMMA ProvidersKnown ==
  /\ Len(Providers) \in Nat \ {0} /\ DOMAIN Providers = 1 .. Len(Providers)
  /\ \A i \in 1 .. Len(Providers) : Providers[i] \in Backends
  /\ \A x \in Backends : \E i \in 1 .. Len(Providers) : Providers[i] = x
  BY SyncAssumption DEF Backends, ToSet

(* By the least number of elements of a set without a maximum.             *)
LEMMA MaxOfFinite ==
  ASSUME NEW S, S \subseteq Nat, IsFiniteSet(S), S # {}
  PROVE  Max(S) \in S /\ \A y \in S : y <= Max(S)
  <1> DEFINE Bounded(T) == \E x \in T : \A y \in T : x >= y
             Sizes == {n \in Nat : \E T \in SUBSET Nat :
                          IsFiniteSet(T) /\ T # {} /\ Cardinality(T) = n /\ ~Bounded(T)}
  <1>1. Sizes = {}
    <2> SUFFICES ASSUME Sizes # {} PROVE FALSE
      OBVIOUS
    <2>1. PICK n \in Sizes : \A m \in Sizes : ~ (<<m, n>> \in OpToRel(<, Nat))
      <3>1. Sizes \subseteq Nat
        OBVIOUS
      <3> HIDE DEF Sizes
      <3> QED BY <3>1, NatLessThanWellFounded, WFMin
    <2>2. \A m \in Sizes : ~(m < n)
      BY <2>1 DEF OpToRel
    <2>3. PICK T \in SUBSET Nat : IsFiniteSet(T) /\ T # {} /\ Cardinality(T) = n /\ ~Bounded(T)
      OBVIOUS
    <2>4. PICK x \in T : TRUE
      BY <2>3
    <2> DEFINE R == T \ {x}
    <2>5. IsFiniteSet(R) /\ Cardinality(R) = n - 1 /\ n \in Nat /\ Cardinality(R) \in Nat
      BY <2>3, <2>4, FS_RemoveElement, FS_CardinalityType
    <2>6. R # {}
      <3> SUFFICES ASSUME R = {} PROVE FALSE
        OBVIOUS
      <3>1. T = {x} /\ x \in Nat
        BY <2>3, <2>4
      <3>2. x >= x
        BY <3>1
      <3> QED BY <2>3, <3>1, <3>2
    <2>7. Bounded(R)
      <3>1. Cardinality(R) \notin Sizes
        <4>1. n - 1 < n /\ Cardinality(R) = n - 1
          BY <2>5
        <4> HIDE DEF R, Sizes
        <4> QED BY <4>1, <2>2
      <3> QED BY <3>1, <2>5, <2>6, <2>3
    <2>8. PICK z \in R : \A y \in R : z >= y
      BY <2>7
    <2>9. x \in Nat /\ z \in Nat /\ z \in T /\ \A y \in T : y = x \/ y \in R
      BY <2>3, <2>4, <2>8
    <2>10. CASE z >= x
      BY <2>10, <2>9, <2>8, <2>3
    <2>11. CASE x >= z
      <3>1. \A y \in T : x >= y
        <4> TAKE y \in T
        <4>1. y \in Nat /\ (y = x \/ z >= y)
          BY <2>3, <2>8, <2>9
        <4> QED BY <4>1, <2>9, <2>11
      <3> QED BY <3>1, <2>3, <2>4
    <2> QED BY <2>9, <2>10, <2>11
  <1>2. Cardinality(S) \in Nat
    BY FS_CardinalityType
  <1>3. \E x \in S : \A y \in S : x >= y
    BY <1>1, <1>2
  <1>4. Max(S) \in S /\ \A y \in S : Max(S) >= y
    BY <1>3 DEF Max
  <1> QED BY <1>4

LEMMA RowFields ==
  ASSUME TypeOK, NEW d \in Devices
  PROVE  /\ Len(ops[d]) \in Nat /\ DOMAIN ops[d] = 1 .. Len(ops[d])
         /\ \A i \in DOMAIN ops[d] :
               /\ i \in Nat \ {0} /\ ops[d][i] \in Rows
               /\ ops[d][i].id \in OpIds /\ ops[d][i].of \in OpIds
               /\ ops[d][i].dev \in Devices /\ ops[d][i].seq \in Nat \ {0}
  <1>1. ops[d] \in Seq(Rows)
    BY DEF TypeOK
  <1>2. Len(ops[d]) \in Nat /\ DOMAIN ops[d] = 1 .. Len(ops[d])
    BY <1>1, LenProperties
  <1>3. ASSUME NEW i \in DOMAIN ops[d] PROVE ops[d][i] \in Rows /\ i \in Nat \ {0}
    BY <1>1, <1>2, ElementOfSeq
  <1> QED BY <1>2, <1>3 DEF Rows

LEMMA NextIsHigher ==
  ASSUME TypeOK, NEW d \in Devices, NEW e \in Devices
  PROVE  /\ NextSeq(d, e) \in Nat \ {0}
         /\ \A n \in Nat : (\A i \in RowsOf(d, e) : ops[d][i].seq <= n) => NextSeq(d, e) <= n + 1
  <1> DEFINE S == {ops[d][i].seq : i \in RowsOf(d, e)}
  <1>1. IsFiniteSet(RowsOf(d, e))
    <2>1. RowsOf(d, e) \in SUBSET (1 .. Len(ops[d])) /\ Len(ops[d]) \in Nat
      BY RowFields DEF RowsOf
    <2>2. IsFiniteSet(1 .. Len(ops[d]))
      BY <2>1, FS_Interval
    <2> QED BY <2>1, <2>2, FS_Subset
  <1>2. IsFiniteSet(S)
    <2> DEFINE f == [i \in RowsOf(d, e) |-> ops[d][i].seq]
    <2>1. f \in Surjection(RowsOf(d, e), S)
      BY DEF Surjection
    <2> HIDE DEF f, S
    <2> QED BY <2>1, <1>1, FS_Surjection
  <1>3. S \subseteq Nat
    BY RowFields DEF RowsOf
  <1>4. IsFiniteSet(S \cup {0}) /\ S \cup {0} \subseteq Nat /\ S \cup {0} # {}
    BY <1>2, <1>3, FS_AddElement
  <1> DEFINE M == Max(S \cup {0})
  <1>5. M \in S \cup {0}
    BY <1>4, MaxOfFinite
  <1>6. NextSeq(d, e) = M + 1
    BY DEF NextSeq
  <1>7. ASSUME NEW n \in Nat, \A i \in RowsOf(d, e) : ops[d][i].seq <= n PROVE M <= n
    BY <1>5, <1>7
  <1>8. M \in Nat
    BY <1>4, <1>5
  <1> HIDE DEF M
  <1> QED BY <1>6, <1>7, <1>8

(* The rows found are all in the sequence, and none has a higher number    *)
(* than the last.                                                          *)
LEMMA ReadSinceIsSorted ==
  ASSUME TypeOK, NEW d \in Devices, NEW e \in Devices, NEW n \in Nat,
         NEW s \in ReadSince(d, e, n)
  PROVE  LET hits == Since(d, e, n)
             N == Cardinality(hits)
         IN  /\ N \in Nat /\ s \in [1 .. N -> hits]
             /\ \A i \in hits : \E m \in 1 .. N : s[m] = i
             /\ \A m \in 1 .. N : ops[d][s[m]].seq <= ops[d][s[N]].seq
  <1> DEFINE hits == Since(d, e, n)
             N == Cardinality(hits)
  <1>1. hits \in SUBSET (1 .. Len(ops[d])) /\ Len(ops[d]) \in Nat /\ hits \in SUBSET DOMAIN ops[d]
    BY RowFields DEF RowsOf, Since
  <1>2. IsFiniteSet(hits) /\ N \in Nat
    <2>1. IsFiniteSet(1 .. Len(ops[d]))
      BY <1>1, FS_Interval
    <2> HIDE DEF hits
    <2>2. IsFiniteSet(hits)
      BY <1>1, <2>1, FS_Subset
    <2> QED BY <2>2, FS_CardinalityType
  <1>3. s \in [1 .. N -> hits] /\ \A k, m \in 1 .. N : k < m => Before(d, s[k], s[m])
    BY DEF ReadSince
  <1> HIDE DEF hits, N
  <1>4. \A m \in 1 .. N : s[m] \in DOMAIN ops[d] /\ s[m] \in Nat /\ ops[d][s[m]].seq \in Nat
    <2> TAKE m \in 1 .. N
    <2>1. s[m] \in DOMAIN ops[d]
      BY <1>1, <1>3
    <2> QED BY <2>1, RowFields
  <1>5. \A k, m \in 1 .. N : s[k] = s[m] => k = m
    <2> SUFFICES ASSUME NEW k \in 1 .. N, NEW m \in 1 .. N, s[k] = s[m], k < m PROVE FALSE
      BY <1>2
    <2>1. Before(d, s[k], s[m])
      BY <1>3
    <2> QED BY <2>1, <1>4 DEF Before
  <1>6. s \in Surjection(1 .. N, hits)
    <2>1. s \in Injection(1 .. N, hits)
      BY <1>3, <1>5 DEF Injection, IsInjective
    <2>2. Cardinality(1 .. N) = N /\ IsFiniteSet(1 .. N)
      BY <1>2, FS_Interval
    <2> QED BY <2>1, <2>2, <1>2, FS_Injection DEF N
  <1>7. \A i \in hits : \E m \in 1 .. N : s[m] = i
    BY <1>6 DEF Surjection
  <1>8. \A m \in 1 .. N : ops[d][s[m]].seq <= ops[d][s[N]].seq
    <2> TAKE m \in 1 .. N
    <2>1. N \in 1 .. N /\ (m = N \/ m < N)
      BY <1>2
    <2>2. m < N => Before(d, s[m], s[N])
      BY <2>1, <1>3
    <2> QED BY <2>1, <2>2, <1>4 DEF Before
  <1> QED BY <1>2, <1>3, <1>7, <1>8 DEF hits, N

LEMMA InitIInv == Init => IInv
  <1> SUFFICES ASSUME Init PROVE IInv
    OBVIOUS
  <1>1. \A d \in Devices : \A e \in Devices : RowsOf(d, e) = {}
    BY DEF Init, RowsOf
  <1>2. Own = {} /\ Appending = {}
    BY <1>1 DEF Init, Own, Appending
  <1>3. MaxOps \in Nat /\ 1 \in 1 .. Len(Providers) /\ << >> \in Seq(Rows) /\ << >> \in Seq(Records)
    BY SyncAssumption, ProvidersKnown
  <1>4. TypeOK
    BY <1>3 DEF Init, TypeOK
  <1>5. CountInv
    BY <1>1, <1>2, <1>3, FS_EmptySet DEF Init, CountInv
  <1>6. RowInv /\ BlobInv
    BY DEF Init, RowInv, BlobInv
  <1>7. FileInv
    BY DEF Init, FileInv, FileOf
  <1>8. OrderInv
    BY <1>1 DEF Init, OrderInv, OrderOf
  <1>9. PushInv
    BY <1>1 DEF Init, PushInv, PushOf, Marked, Above, InFile, SoFar, Stored
  <1> QED BY <1>4, <1>5, <1>6, <1>7, <1>8, <1>9 DEF IInv

-----------------------------------------------------------------------------
(* The log only grows: what a step keeps as long as the rest is unchanged. *)
Grows == \A d \in Devices : \A i \in DOMAIN ops[d] : i \in DOMAIN ops'[d] /\ ops'[d][i] = ops[d][i]

LEMMA AppendRow ==
  ASSUME TypeOK, NEW d \in Devices, NEW row \in Rows,
         ops' = [ops EXCEPT ![d] = Append(ops[d], row)]
  PROVE  LET n == Len(ops[d]) + 1
         IN  /\ ops' \in [Devices -> Seq(Rows)] /\ n \in Nat \ {0}
             /\ DOMAIN ops'[d] = DOMAIN ops[d] \cup {n} /\ Len(ops'[d]) = n
             /\ ops'[d][n] = row
             /\ \A i \in DOMAIN ops[d] : i < n
             /\ \A e \in Devices \ {d} : ops'[e] = ops[e]
             /\ Grows
  <1> DEFINE n == Len(ops[d]) + 1
  <1>1. /\ ops[d] \in Seq(Rows) /\ ops'[d] = Append(ops[d], row)
        /\ \A e \in Devices \ {d} : ops'[e] = ops[e]
    BY DEF TypeOK
  <1>2. /\ ops'[d] \in Seq(Rows) /\ Len(ops'[d]) = n /\ ops'[d][n] = row
        /\ \A i \in 1 .. Len(ops[d]) : ops'[d][i] = ops[d][i]
    BY <1>1, AppendProperties
  <1>3. ops' \in [Devices -> Seq(Rows)]
    BY <1>1, <1>2 DEF TypeOK
  <1>4. /\ Len(ops[d]) \in Nat /\ DOMAIN ops[d] = 1 .. Len(ops[d])
        /\ DOMAIN ops'[d] = 1 .. n
    BY <1>1, <1>2, LenProperties
  <1>5. Grows
    BY <1>1, <1>2, <1>4 DEF Grows
  <1> QED BY <1>1, <1>2, <1>3, <1>4, <1>5

LEMMA RowsGrow ==
  ASSUME Grows, NEW d \in Devices, NEW e \in Devices
  PROVE  /\ RowsOf(d, e) \subseteq RowsOf(d, e)'
         /\ \A i \in RowsOf(d, e) : i \in DOMAIN ops[d] /\ ops'[d][i] = ops[d][i]
  BY DEF Grows, RowsOf

LEMMA RecordParts ==
  ASSUME NEW b \in Seq(Records)
  PROVE  /\ Len(b) \in Nat /\ DOMAIN b = 1 .. Len(b)
         /\ \A i \in DOMAIN b : /\ b[i] \in Records /\ b[i].id \in OpIds /\ b[i].dev \in Devices
                                /\ b[i].seq \in Nat \ {0}
         /\ b # << >> => Len(b) \in DOMAIN b /\ Last(b) = b[Len(b)] /\ Len(b) > 0
  <1>1. Len(b) \in Nat /\ DOMAIN b = 1 .. Len(b) /\ (b # << >> => Len(b) > 0)
    BY LenProperties, EmptySeq
  <1>2. \A i \in DOMAIN b : b[i] \in Records
    BY <1>1, ElementOfSeq
  <1> QED BY <1>1, <1>2 DEF Records, Last

LEMMA RecordedKept ==
  ASSUME Grows, NEW rec \in Records, Recorded(rec)
  PROVE  Recorded(rec)'
  <1>1. rec.dev \in Devices
    BY DEF Records
  <1> QED BY <1>1, RowsGrow DEF Recorded

LEMMA SoundKept ==
  ASSUME TypeOK, Grows, NEW d \in Devices, NEW i \in DOMAIN ops[d], Sound(d, i)
  PROVE  Sound(d, i)'
  <1>1. ops'[d][i] = ops[d][i] /\ ops[d][i].dev \in Devices
    BY RowFields DEF Grows
  <1> QED BY <1>1, RowsGrow DEF Sound

LEMMA OriginKept ==
  ASSUME TypeOK, RowInv, Grows, NEW d \in Devices, NEW e \in Devices \ {d},
         NEW i \in RowsOf(d, e)
  PROVE  Origin(ops[d][i])' = Origin(ops[d][i]) /\ Origin(ops[d][i]) \in Nat
  <1>1. ops'[d][i] = ops[d][i] /\ i \in DOMAIN ops[d]
    BY RowsGrow
  <1>2. ops[d][i].of[1] = e /\ ops[d][i].of[2] \in RowsOf(e, e)
    BY <1>1 DEF RowInv, Sound, RowsOf
  <1>3. ops'[e][ops[d][i].of[2]] = ops[e][ops[d][i].of[2]] /\ ops[d][i].of[2] \in DOMAIN ops[e]
    BY <1>2, RowsGrow
  <1> QED BY <1>1, <1>2, <1>3, RowFields DEF Origin

LEMMA BlobsKept ==
  ASSUME IInv, Grows, blobs' = blobs
  PROVE  BlobInv'
  <1> SUFFICES ASSUME NEW x \in Backends, NEW k \in Keys
               PROVE  /\ \A i \in DOMAIN blobs[x][k] :
                             Recorded(blobs[x][k][i])' /\ blobs[x][k][i].dev = k[1]
                      /\ blobs[x][k] # << >> => Last(blobs[x][k]).seq = k[2]
    BY DEF BlobInv, Recorded
  <1>1. blobs[x][k] \in Seq(Records) /\ BlobInv
    BY DEF IInv, TypeOK
  <1>2. ASSUME NEW i \in DOMAIN blobs[x][k] PROVE Recorded(blobs[x][k][i])'
    <2>1. blobs[x][k][i] \in Records /\ Recorded(blobs[x][k][i])
      BY <1>1, RecordParts DEF BlobInv
    <2>2. PICK rec \in Records : rec = blobs[x][k][i] /\ Recorded(rec)
      BY <2>1
    <2>3. Recorded(rec)'
      BY <2>2, RecordedKept
    <2> QED BY <2>2, <2>3
  <1> QED BY <1>1, <1>2 DEF BlobInv

LEMMA FileKept ==
  ASSUME TypeOK, Grows, NEW d \in Devices, FileOf(d),
         file'[d] = file[d], pc'[d] = pc[d], pushed'[d] = pushed[d],
         at'[d] = at[d] \/ pc[d] \notin {"get", "import"}, keys'[d] = keys[d],
         \A x \in Backends, k \in Keys : blobs[x][k] # << >> => blobs'[x][k] # << >>
  PROVE  FileOf(d)'
  <1>1. file[d] \in Seq(Records) /\ keys[d] \subseteq Keys /\ Providers[at[d]] \in Backends
    BY ProvidersKnown DEF TypeOK
  <1>2. ASSUME NEW i \in DOMAIN file'[d] PROVE Recorded(file[d][i])'
    <2>1. PICK rec \in Records : rec = file[d][i] /\ Recorded(rec)
      BY <1>1, RecordParts DEF FileOf
    <2>2. Recorded(rec)'
      BY <2>1, RecordedKept
    <2> QED BY <2>1, <2>2
  <1>3. \A k \in keys'[d] :
          /\ k[1] # d
          /\ pc'[d] \in {"get", "import"} => blobs'[Providers[at'[d]]][k] # << >>
    BY <1>1 DEF FileOf
  <1> QED BY <1>2, <1>3 DEF FileOf

LEMMA OrderKept ==
  ASSUME TypeOK, RowInv, Grows, NEW d \in Devices, OrderOf(d),
         kept'[d] = kept[d], Len(ops'[d]) \in Nat, Len(ops'[d]) >= Len(ops[d]),
         \A e \in Devices \ {d} : RowsOf(d, e)' = RowsOf(d, e) /\ pulled'[d][e] = pulled[d][e]
  PROVE  OrderOf(d)'
  <1>1. kept'[d] <= Len(ops'[d])
    BY RowFields DEF OrderOf, TypeOK
  <1>2. ASSUME NEW e \in Devices \ {d}, NEW i \in RowsOf(d, e)', i > kept'[d]
        PROVE  /\ Origin(ops[d][i])' <= pulled'[d][e]
               /\ \A j \in RowsOf(d, e)' :
                     j < i /\ j > kept'[d] => Origin(ops[d][j])' < Origin(ops[d][i])'
    <2>1. \A j \in RowsOf(d, e)' : Origin(ops[d][j])' = Origin(ops[d][j])
      BY OriginKept
    <2> QED BY <1>2, <2>1 DEF OrderOf
  <1> QED BY <1>1, <1>2 DEF OrderOf

LEMMA PushKept ==
  ASSUME TypeOK, Grows, NEW d \in Devices, PushOf(d), RowsOf(d, d)' = RowsOf(d, d),
         file'[d] = file[d], pc'[d] = pc[d], pushed'[d] = pushed[d], at'[d] = at[d],
         \A x \in Backends : \A id : Covered(x, id) => Covered(x, id)',
         \A x \in Backends, k \in Keys : k[1] = d => blobs'[x][k] = blobs[x][k]
  PROVE  PushOf(d)'
  <1>1. \A i \in RowsOf(d, d) : ops'[d][i] = ops[d][i]
    BY RowsGrow
  <1>2. Marked(d)' /\ InFile(d)'
    BY <1>1 DEF PushOf, Marked, InFile
  <1>3. Above(d)'
    BY DEF PushOf, Above
  <1>4. SoFar(d)'
    <2>1. \A n \in 1 .. at[d] - 1 : Providers[n] \in Backends
      BY ProvidersKnown DEF TypeOK
    <2> QED BY <2>1 DEF PushOf, SoFar
  <1>5. \A i \in RowsOf(d, d) : InTurn(d, i)' <=> InTurn(d, i)
    BY <1>1 DEF InTurn
  <1>6. Stored(d)'
    BY <1>1, <1>5 DEF PushOf, Stored
  <1> QED BY <1>2, <1>3, <1>4, <1>6 DEF PushOf

LEMMA CoveredKept ==
  ASSUME missed \subseteq missed', blobs' = blobs, NEW x, NEW id, Covered(x, id)
  PROVE  Covered(x, id)'
  BY DEF Covered, Held

LEMMA CountKept ==
  ASSUME TypeOK, CountInv, Grows, \A d \in Devices : RowsOf(d, d)' = RowsOf(d, d),
         \A d \in Devices, c \in Callers : number'[d][c] \in {0, number[d][c]}
  PROVE  CountInv'
  <1>1. Own' = Own
    BY DEF Own
  <1>2. Appending' \subseteq Appending
    BY DEF Appending
  <1>3. /\ IsFiniteSet(Appending') /\ Cardinality(Appending') <= Cardinality(Appending)
        /\ Cardinality(Appending') \in Nat /\ Cardinality(Appending) \in Nat
        /\ Cardinality(Own) \in Nat /\ IsFiniteSet(Own)
    BY <1>2, FS_Subset, FS_CardinalityType DEF CountInv
  <1>4. Cardinality(Own) + Cardinality(Appending') <= MaxOps
    BY <1>3, SyncAssumption DEF CountInv
  <1>5. \A d \in Devices : \A i \in RowsOf(d, d)' : ops'[d][i].seq <= Cardinality(Own)
    BY RowsGrow DEF CountInv
  <1>6. \A d \in Devices, c \in Callers : number'[d][c] <= Cardinality(Own) + 1
    BY <1>3 DEF CountInv
  <1> QED BY <1>1, <1>3, <1>4, <1>5, <1>6 DEF CountInv

-----------------------------------------------------------------------------
(* The file system's handlers.                                             *)
LEMMA Still ==
  ASSUME ops' = ops
  PROVE  Grows /\ \A d, e : RowsOf(d, e)' = RowsOf(d, e)
  BY DEF Grows, RowsOf

LEMMA RowInvKept ==
  ASSUME TypeOK, RowInv, ops' = ops
  PROVE  RowInv'
  BY Still, SoundKept DEF RowInv

(* A device that takes no part in a step.                                  *)
LEMMA RestKept ==
  ASSUME IInv, Grows, NEW d \in Devices, ops'[d] = ops[d], file'[d] = file[d], pc'[d] = pc[d],
         pushed'[d] = pushed[d], pulled'[d] = pulled[d], at'[d] = at[d], keys'[d] = keys[d],
         kept'[d] = kept[d], \A x \in Backends : \A id : Covered(x, id) => Covered(x, id)',
         \A x \in Backends, k \in Keys : k[1] = d => blobs'[x][k] = blobs[x][k],
         \A x \in Backends, k \in Keys : blobs[x][k] # << >> => blobs'[x][k] # << >>
  PROVE  FileOf(d)' /\ OrderOf(d)' /\ PushOf(d)'
  <1>1. /\ TypeOK /\ RowInv /\ FileOf(d) /\ OrderOf(d) /\ PushOf(d)
        /\ \A e \in Devices : RowsOf(d, e)' = RowsOf(d, e)
    BY DEF IInv, FileInv, OrderInv, PushInv, RowsOf
  <1>2. FileOf(d)'
    BY <1>1, FileKept
  <1>3. OrderOf(d)'
    <2>1. Len(ops'[d]) \in Nat /\ Len(ops'[d]) >= Len(ops[d])
      BY <1>1, RowFields
    <2> QED BY <1>1, <2>1, OrderKept
  <1>4. PushOf(d)'
    BY <1>1, PushKept
  <1> QED BY <1>2, <1>3, <1>4

LEMMA NumberCell ==
  ASSUME TypeOK, NEW d \in Devices, NEW c \in Callers, NEW n \in Nat,
         number' = [number EXCEPT ![d][c] = n]
  PROVE  /\ number' \in [Devices -> [Callers -> Nat]]
         /\ \A e \in Devices, b \in Callers :
               number'[e][b] = IF e = d /\ b = c THEN n ELSE number[e][b]
  BY DEF TypeOK

LEMMA NumberIInv ==
  ASSUME IInv, NEW d \in Devices, NEW c \in Callers, Number(d, c)
  PROVE  IInv' /\ blobs' = blobs
  <1> DEFINE next == NextSeq(d, d)
  <1>1. /\ number[d][c] = 0 /\ Cardinality(Own) + Cardinality(Appending) < MaxOps
        /\ number' = [number EXCEPT ![d][c] = next]
        /\ ops' = ops /\ pushed' = pushed /\ pulled' = pulled /\ blobs' = blobs /\ pc' = pc
        /\ at' = at /\ keys' = keys /\ file' = file
        /\ kept' = kept /\ missed' = missed /\ fetched' = fetched
    BY DEF Number, engineVars, loopVars, history
  <1>2. /\ next \in Nat \ {0}
        /\ \A n \in Nat : (\A i \in RowsOf(d, d) : ops[d][i].seq <= n) => next <= n + 1
    BY NextIsHigher DEF IInv
  <1> HIDE DEF next
  <1>3. /\ number' \in [Devices -> [Callers -> Nat]]
        /\ \A e \in Devices, b \in Callers :
              number'[e][b] = IF e = d /\ b = c THEN next ELSE number[e][b]
    BY <1>1, <1>2, NumberCell DEF IInv
  <1>4. TypeOK'
    BY <1>1, <1>3 DEF IInv, TypeOK
  <1>5. CountInv'
    <2>1. Own' = Own
      BY <1>1 DEF Own, RowsOf
    <2>2. Appending' = Appending \cup {<<d, c>>} /\ <<d, c>> \notin Appending
      <3>1. <<d, c>> \in Devices \X Callers /\ <<d, c>>[1] = d /\ <<d, c>>[2] = c
        OBVIOUS
      <3>2. \A p \in Devices \X Callers :
               /\ p[1] \in Devices /\ p[2] \in Callers
               /\ p[1] = d /\ p[2] = c <=> p = <<d, c>>
        OBVIOUS
      <3>3. \A p \in Devices \X Callers :
               number'[p[1]][p[2]] # 0 <=> p = <<d, c>> \/ number[p[1]][p[2]] # 0
        BY <3>2, <1>2, <1>3
      <3> QED BY <3>1, <3>3, <1>1 DEF Appending
    <2>3. /\ IsFiniteSet(Appending') /\ Cardinality(Appending') = Cardinality(Appending) + 1
          /\ Cardinality(Appending) \in Nat /\ Cardinality(Own) \in Nat
      BY <2>2, FS_AddElement, FS_CardinalityType DEF IInv, CountInv
    <2>4. Cardinality(Own) + Cardinality(Appending') <= MaxOps
      BY <2>3, <1>1, SyncAssumption
    <2>5. next <= Cardinality(Own) + 1
      BY <2>3, <1>2 DEF IInv, CountInv
    <2>6. \A e \in Devices, b \in Callers : number'[e][b] <= Cardinality(Own) + 1
      BY <2>5, <1>3 DEF IInv, CountInv
    <2>7. \A e \in Devices : \A i \in RowsOf(e, e)' : ops'[e][i].seq <= Cardinality(Own)
      BY <1>1, Still DEF IInv, CountInv
    <2> QED BY <2>1, <2>3, <2>4, <2>6, <2>7 DEF IInv, CountInv
  <1>6. RowInv' /\ BlobInv'
    BY <1>1, Still, RowInvKept, BlobsKept DEF IInv
  <1>7. FileInv' /\ OrderInv' /\ PushInv'
    <2>1. \A x \in Backends : \A id : Covered(x, id) => Covered(x, id)'
      BY <1>1, CoveredKept
    <2> QED BY <1>1, <2>1, Still, RestKept DEF FileInv, OrderInv, PushInv
  <1> QED BY <1>1, <1>4, <1>5, <1>6, <1>7 DEF IInv

LEMMA InsertIInv ==
  ASSUME IInv, NEW d \in Devices, NEW c \in Callers, Insert(d, c)
  PROVE  IInv' /\ blobs' = blobs
  <1> DEFINE n == Len(ops[d]) + 1
             row == Row(d, d, number[d][c], << >>)
  <1>1. /\ number[d][c] # 0
        /\ ops' = [ops EXCEPT ![d] = Append(ops[d], row)]
        /\ number' = [number EXCEPT ![d][c] = 0]
        /\ pushed' = pushed /\ pulled' = pulled /\ blobs' = blobs /\ pc' = pc
        /\ at' = at /\ keys' = keys /\ file' = file
        /\ kept' = kept /\ missed' = missed /\ fetched' = fetched
    BY DEF Insert, engineVars, loopVars, history
  <1>2. /\ TypeOK /\ CountInv /\ RowInv /\ n \in Nat \ {0} /\ Len(ops[d]) \in Nat
        /\ number[d][c] \in Nat \ {0}
    BY <1>1, RowFields DEF IInv, TypeOK
  <1>3. /\ row \in Rows /\ row.id = <<d, n>> /\ row.dev = d /\ row.seq = number[d][c]
    BY <1>2 DEF Row, Rows, OpIds
  <1> HIDE DEF row
  <1>4. /\ ops' \in [Devices -> Seq(Rows)]
        /\ DOMAIN ops'[d] = DOMAIN ops[d] \cup {n} /\ Len(ops'[d]) = n
        /\ ops'[d][n] = row
        /\ \A i \in DOMAIN ops[d] : i < n
        /\ \A e \in Devices \ {d} : ops'[e] = ops[e]
        /\ Grows
    BY <1>1, <1>2, <1>3, AppendRow
  <1> HIDE DEF n
  <1>5. /\ \A i \in DOMAIN ops[d] : ops'[d][i] = ops[d][i]
        /\ n \notin DOMAIN ops[d]
    BY <1>4, <1>2 DEF Grows
  <1>6. /\ RowsOf(d, d)' = RowsOf(d, d) \cup {n} /\ n \notin RowsOf(d, d)
        /\ \A e \in Devices \ {d} : RowsOf(d, e)' = RowsOf(d, e)
        /\ \A e \in Devices \ {d}, f \in Devices : RowsOf(e, f)' = RowsOf(e, f)
        /\ \A i \in RowsOf(d, d) : i \in DOMAIN ops[d] /\ i < n /\ i \in Nat
    BY <1>2, <1>3, <1>4, <1>5, RowFields DEF RowsOf
  <1>7. /\ number' \in [Devices -> [Callers -> Nat]]
        /\ \A e \in Devices, b \in Callers :
              number'[e][b] = IF e = d /\ b = c THEN 0 ELSE number[e][b]
    BY <1>1, <1>2, NumberCell
  <1>8. TypeOK'
    BY <1>1, <1>2, <1>4, <1>7 DEF TypeOK
  <1>9. CountInv'
    <2>1. Own' = Own \cup {<<d, n>>} /\ <<d, n>> \notin Own
      <3>1. \A p : p \in Own <=> \E e \in Devices : \E i \in RowsOf(e, e) : p = <<e, i>>
        BY DEF Own
      <3>2. \A p : p \in Own' <=> \E e \in Devices : \E i \in RowsOf(e, e)' : p = <<e, i>>
        BY DEF Own
      <3>3. \A p : p \in Own' <=> p \in Own \/ p = <<d, n>>
        <4> TAKE p
        <4>1. p \in Own' => p \in Own \/ p = <<d, n>>
          BY <3>1, <3>2, <1>6
        <4>2. p \in Own => p \in Own'
          BY <3>1, <3>2, <1>6
        <4>3. p = <<d, n>> => p \in Own'
          BY <3>2, <1>6
        <4> QED BY <4>1, <4>2, <4>3
      <3>4. <<d, n>> \notin Own
        BY <3>1, <1>6
      <3> QED BY <3>3, <3>4
    <2>2. Appending' = Appending \ {<<d, c>>} /\ <<d, c>> \in Appending
      <3>1. <<d, c>> \in Devices \X Callers /\ <<d, c>>[1] = d /\ <<d, c>>[2] = c
        OBVIOUS
      <3>2. \A p \in Devices \X Callers :
               /\ p[1] \in Devices /\ p[2] \in Callers
               /\ p[1] = d /\ p[2] = c <=> p = <<d, c>>
        OBVIOUS
      <3>3. \A p \in Devices \X Callers :
               number'[p[1]][p[2]] # 0 <=> p # <<d, c>> /\ number[p[1]][p[2]] # 0
        BY <3>2, <1>7
      <3> QED BY <3>1, <3>3, <1>1 DEF Appending
    <2>3. /\ IsFiniteSet(Appending') /\ Cardinality(Appending') = Cardinality(Appending) - 1
          /\ IsFiniteSet(Own') /\ Cardinality(Own') = Cardinality(Own) + 1
          /\ Cardinality(Appending) \in Nat /\ Cardinality(Own) \in Nat
      BY <2>1, <2>2, <1>2, FS_AddElement, FS_RemoveElement, FS_CardinalityType DEF CountInv
    <2>4. Cardinality(Own') + Cardinality(Appending') <= MaxOps
      BY <2>3, <1>2, SyncAssumption DEF CountInv
    <2>5. \A e \in Devices : \A i \in RowsOf(e, e)' : ops'[e][i].seq <= Cardinality(Own) + 1
      <3> TAKE e \in Devices
      <3> TAKE i \in RowsOf(e, e)'
      <3>1. CASE e = d /\ i = n
        BY <3>1, <1>2, <1>3, <1>4 DEF CountInv
      <3>2. CASE ~(e = d /\ i = n)
        <4>1. i \in RowsOf(e, e) /\ ops'[e][i] = ops[e][i] /\ ops[e][i].seq \in Nat
          BY <3>2, <1>2, <1>4, <1>6, RowsGrow, RowFields
        <4> QED BY <4>1, <2>3, <1>2 DEF CountInv
      <3> QED BY <3>1, <3>2
    <2>6. \A e \in Devices, b \in Callers : number'[e][b] <= Cardinality(Own) + 2
      <3> TAKE e \in Devices, b \in Callers
      <3>1. number[e][b] <= Cardinality(Own) + 1 /\ number[e][b] \in Nat
        BY <1>2 DEF CountInv, TypeOK
      <3> QED BY <3>1, <2>3, <1>7
    <2>7. Cardinality(Own') + 1 = Cardinality(Own) + 2
      BY <2>3
    <2> QED BY <2>3, <2>4, <2>5, <2>6, <2>7 DEF CountInv
  <1>10. RowInv'
    <2> SUFFICES ASSUME NEW e \in Devices, NEW i \in DOMAIN ops'[e] PROVE Sound(e, i)'
      BY DEF RowInv
    <2>1. CASE e = d /\ i = n
      BY <2>1, <1>3, <1>4 DEF Sound
    <2>2. CASE ~(e = d /\ i = n)
      <3>1. i \in DOMAIN ops[e]
        BY <2>2, <1>4
      <3> QED BY <3>1, <1>2, <1>4, SoundKept DEF RowInv
    <2> QED BY <2>1, <2>2
  <1>11. BlobInv'
    BY <1>1, <1>4, BlobsKept
  <1>12. \A x \in Backends : \A id : Covered(x, id) => Covered(x, id)'
    BY <1>1, CoveredKept
  <1>13. \A e \in Devices \ {d} : FileOf(e)' /\ OrderOf(e)' /\ PushOf(e)'
    BY <1>1, <1>4, <1>12, RestKept
  <1>14. FileOf(d)'
    BY <1>1, <1>2, <1>4, FileKept DEF IInv, FileInv
  <1>15. OrderOf(d)'
    <2>1. Len(ops'[d]) \in Nat /\ Len(ops'[d]) >= Len(ops[d])
      BY <1>2, <1>4 DEF n
    <2> QED BY <1>1, <1>2, <1>4, <1>6, <2>1, OrderKept DEF IInv, OrderInv
  <1>16. PushOf(d)'
    <2>1. PushOf(d) /\ FileOf(d) /\ file[d] \in Seq(Records)
      BY <1>2 DEF IInv, PushInv, FileInv, TypeOK
    <2>2. \A i \in RowsOf(d, d) : ops'[d][i] = ops[d][i]
      BY <1>5, <1>6
    <2>3. Marked(d)'
      BY <2>1, <2>2, <1>1, <1>6 DEF PushOf, Marked
    <2>4. Above(d)' /\ SoFar(d)'
      <3>1. \A m \in 1 .. at[d] - 1 : Providers[m] \in Backends
        BY <1>2, ProvidersKnown DEF TypeOK
      <3> QED BY <3>1, <2>1, <1>1, <1>12 DEF PushOf, Above, SoFar
    <2>5. InFile(d)'
      <3> SUFFICES ASSUME pc[d] = "put", NEW i \in RowsOf(d, d)', ops'[d][i].seq > pushed[d]
                   PROVE  <<d, i>> \in Ids(file[d]) \/ Last(file[d]).id[2] < i
        BY <1>1 DEF InFile
      <3>1. CASE i = n
        <4>1. Last(file[d]).id[2] \in RowsOf(d, d)
          BY <2>1, RecordParts DEF FileOf, Recorded
        <4> QED BY <3>1, <4>1, <1>6
      <3>2. CASE i # n
        BY <3>2, <2>1, <2>2, <1>6 DEF PushOf, InFile
      <3> QED BY <3>1, <3>2
    <2>6. Stored(d)'
      <3> SUFFICES ASSUME NEW i \in RowsOf(d, d)', NEW x \in Backends,
                          InTurn(d, i)', ops'[d][i].seq <= pushed[d]
                   PROVE  Covered(x, <<d, i>>)'
        BY <1>1 DEF Stored
      <3>1. CASE i = n
        <4>1. pushed[d] \in Nat /\ ops'[d][n].seq \in Nat \ {0}
          BY <1>2, <1>3, <1>4 DEF TypeOK
        <4>2. PICK j \in RowsOf(d, d) : ops[d][j].seq = pushed[d]
          BY <2>1, <3>1, <4>1 DEF PushOf, Marked
        <4>3. j < n /\ ops'[d][j].seq = pushed[d] /\ j \in RowsOf(d, d)'
          BY <4>2, <2>2, <1>6
        <4>4. ops'[d][j].seq < ops'[d][i].seq
          BY <4>3, <3>1 DEF InTurn
        <4> QED BY <4>1, <4>3, <4>4, <3>1
      <3>2. CASE i # n
        <4>1. i \in RowsOf(d, d) /\ ops'[d][i] = ops[d][i]
          BY <3>2, <2>2, <1>6
        <4>2. InTurn(d, i)
          BY <4>1, <2>2, <1>6 DEF InTurn
        <4>3. Covered(x, <<d, i>>)
          BY <4>1, <4>2, <2>1 DEF PushOf, Stored
        <4> QED BY <4>3, <1>12
      <3> QED BY <3>1, <3>2
    <2> QED BY <2>3, <2>4, <2>5, <2>6 DEF PushOf
  <1> QED BY <1>1, <1>8, <1>9, <1>10, <1>11, <1>13, <1>14, <1>15, <1>16
          DEF IInv, FileInv, OrderInv, PushInv

-----------------------------------------------------------------------------
(* Push.                                                                   *)
LEMMA StartPushIInv ==
  ASSUME IInv, NEW d \in Devices, StartPush(d)
  PROVE  IInv' /\ blobs' = blobs
  <1>1. PICK new \in ReadSince(d, d, pushed[d]) :
           /\ new # << >>
           /\ file' = [file EXCEPT ![d] = [n \in DOMAIN new |-> Record(ops[d][new[n]])]]
    BY DEF StartPush
  <1>2. /\ pc[d] = "idle" /\ pc' = [pc EXCEPT ![d] = "put"] /\ at' = [at EXCEPT ![d] = 1]
        /\ ops' = ops /\ number' = number /\ pushed' = pushed /\ pulled' = pulled
        /\ blobs' = blobs /\ keys' = keys
        /\ kept' = kept /\ missed' = missed /\ fetched' = fetched
    BY DEF StartPush, Goto, logVars, engineVars, history
  <1>3. TypeOK /\ RowInv /\ CountInv /\ pushed[d] \in Nat /\ Grows
    BY <1>2, Still DEF IInv, TypeOK
  <1> DEFINE hits == Since(d, d, pushed[d])
             N == Cardinality(hits)
             f == [n \in DOMAIN new |-> Record(ops[d][new[n]])]
  <1>4. /\ N \in Nat /\ new \in [1 .. N -> hits]
        /\ \A i \in hits : \E m \in 1 .. N : new[m] = i
        /\ \A m \in 1 .. N : ops[d][new[m]].seq <= ops[d][new[N]].seq
    BY <1>3, ReadSinceIsSorted
  <1>5. \A i \in hits : /\ i \in RowsOf(d, d) /\ i \in DOMAIN ops[d] /\ ops[d][i].id = <<d, i>>
                        /\ ops[d][i].dev = d /\ ops[d][i].seq > pushed[d]
    BY <1>3 DEF Since, RowsOf, RowInv, Sound
  <1>6. \A i \in RowsOf(d, d) : ops[d][i].seq > pushed[d] => i \in hits
    BY DEF Since
  <1> HIDE DEF hits, N
  <1>7. N > 0
    <2> SUFFICES ASSUME N = 0 PROVE FALSE
      BY <1>4
    <2>1. DOMAIN new = {}
      BY <1>4
    <2> QED BY <2>1, <1>1, <1>4
  <1>8. /\ DOMAIN f = 1 .. N
        /\ \A m \in 1 .. N : /\ f[m] \in Records /\ f[m].id = <<d, new[m]>> /\ f[m].dev = d
                             /\ f[m].seq = ops[d][new[m]].seq
    <2>1. DOMAIN f = 1 .. N /\ \A m \in 1 .. N : f[m] = Record(ops[d][new[m]])
      BY <1>4
    <2>2. ASSUME NEW m \in 1 .. N
          PROVE  /\ f[m] \in Records /\ f[m].id = <<d, new[m]>> /\ f[m].dev = d
                 /\ f[m].seq = ops[d][new[m]].seq
      <3>1. new[m] \in hits
        BY <1>4
      <3>2. ops[d][new[m]] \in Rows
        BY <3>1, <1>3, <1>5, RowFields
      <3> QED BY <2>1, <3>1, <3>2, <1>5 DEF Record, Records, Rows
    <2> QED BY <2>1, <2>2
  <1>9. f \in Seq(Records) /\ f # << >> /\ Len(f) = N /\ Last(f) = f[N]
    <2>1. f \in [1 .. N -> Records]
      BY <1>8
    <2>2. f \in Seq(Records)
      BY <2>1, <1>4, IsASeq
    <2>3. Len(f) = N
      BY <2>2, <1>4, <1>8, LenProperties
    <2> HIDE DEF f
    <2>4. f # << >>
      BY <2>3, <1>7, EmptySeq
    <2> QED BY <2>2, <2>3, <2>4 DEF Last
  <1>10. file'[d] = f /\ pc'[d] = "put" /\ at'[d] = 1
         /\ \A e \in Devices \ {d} : file'[e] = file[e] /\ pc'[e] = pc[e] /\ at'[e] = at[e]
    BY <1>1, <1>2, <1>3 DEF TypeOK
  <1>11. TypeOK'
    <2>1. file' \in [Devices -> Seq(Records)]
      BY <1>1, <1>3, <1>9 DEF TypeOK
    <2>2. 1 \in 1 .. Len(Providers)
      BY ProvidersKnown
    <2> QED BY <2>1, <2>2, <1>2, <1>3 DEF TypeOK
  <1> HIDE DEF f
  <1>12. CountInv'
    BY <1>2, <1>3, Still, CountKept
  <1>13. RowInv' /\ BlobInv'
    BY <1>2, <1>3, RowInvKept, BlobsKept
  <1>14. \A x \in Backends : \A id : Covered(x, id) => Covered(x, id)'
    BY <1>2, CoveredKept
  <1>15. \A e \in Devices \ {d} : FileOf(e)' /\ OrderOf(e)' /\ PushOf(e)'
    BY <1>2, <1>3, <1>10, <1>14, RestKept
  <1>16. FileOf(d)'
    <2>1. ASSUME NEW m \in 1 .. N
          PROVE  /\ Recorded(file[d][m])' /\ f[m].dev = d
                 /\ f[m].seq \in pushed[d] + 1 .. Last(f).seq
      <3>1. new[m] \in hits /\ new[m] \in RowsOf(d, d) /\ N \in 1 .. N /\ new[N] \in hits
        BY <1>4, <1>5, <1>7
      <3>2. Recorded(f[m])
        BY <3>1, <1>8 DEF Recorded
      <3>3. Recorded(file[d][m])'
        <4>1. PICK rec \in Records : rec = f[m] /\ Recorded(rec)
          BY <3>2, <1>8
        <4>2. Recorded(rec)'
          BY <4>1, <1>3, RecordedKept
        <4>3. file'[d][m] = rec
          BY <4>1, <1>10
        <4> QED BY <4>2, <4>3 DEF Recorded
      <3>4. ops[d][new[m]].seq \in Nat /\ ops[d][new[N]].seq \in Nat
        BY <3>1, <1>3, <1>5, RowFields
      <3> QED BY <3>1, <3>3, <3>4, <1>3, <1>4, <1>5, <1>8, <1>9
    <2>2. \A k \in keys'[d] : k[1] # d
      BY <1>2 DEF IInv, FileInv, FileOf
    <2> QED BY <2>1, <2>2, <1>2, <1>8, <1>9, <1>10 DEF FileOf
  <1>17. OrderOf(d)'
    <2>1. Len(ops'[d]) \in Nat /\ Len(ops'[d]) >= Len(ops[d])
      BY <1>2, <1>3, RowFields
    <2> QED BY <2>1, <1>2, <1>3, Still, OrderKept DEF IInv, OrderInv
  <1>18. \A i \in hits : <<d, i>> \in Ids(f)
    BY <1>4, <1>8 DEF Ids
  <1>19. PushOf(d)'
    <2>1. PushOf(d) /\ RowsOf(d, d)' = RowsOf(d, d)
      BY <1>2, Still DEF IInv, PushInv
    <2>2. Marked(d)'
      BY <2>1, <1>2 DEF PushOf, Marked
    <2>3. Above(d)'
      <3> SUFFICES ASSUME NEW x \in Backends, NEW k \in Keys, k[1] = d, blobs[x][k] # << >>
                   PROVE  k[2] <= pushed[d] \/ Ids(blobs[x][k]) \subseteq Ids(f)
        BY <1>2, <1>10 DEF Above
      <3>1. CASE pushed[d] = 0
        <4> SUFFICES ASSUME NEW m \in DOMAIN blobs[x][k] PROVE blobs[x][k][m].id \in Ids(f)
          BY DEF Ids
        <4> DEFINE rec == blobs[x][k][m]
        <4>1. rec \in Records /\ rec.id \in OpIds /\ Recorded(rec) /\ rec.dev = d /\ rec.seq > 0
          <5>1. blobs[x][k] \in Seq(Records)
            BY <1>3 DEF TypeOK
          <5>2. Recorded(rec) /\ rec.dev = k[1]
            BY DEF IInv, BlobInv
          <5>3. rec \in Records /\ rec.id \in OpIds /\ rec.seq \in Nat \ {0}
            BY <5>1, RecordParts
          <5> QED BY <5>2, <5>3
        <4>2. rec.id = <<d, rec.id[2]>> /\ rec.id[2] \in hits
          BY <4>1, <3>1, <1>6 DEF Recorded, OpIds
        <4> QED BY <4>2, <1>18
      <3>2. CASE pushed[d] # 0
        BY <3>2, <2>1, <1>2 DEF PushOf, Above
      <3> QED BY <3>1, <3>2
    <2>4. InFile(d)'
      BY <2>1, <1>2, <1>6, <1>10, <1>18 DEF InFile
    <2>5. SoFar(d)'
      BY <1>10 DEF SoFar
    <2>6. Stored(d)'
      BY <2>1, <1>2, <1>14 DEF PushOf, Stored, InTurn
    <2> QED BY <2>2, <2>3, <2>4, <2>5, <2>6 DEF PushOf
  <1> QED BY <1>2, <1>11, <1>12, <1>13, <1>15, <1>16, <1>17, <1>19
          DEF IInv, FileInv, OrderInv, PushInv

LEMMA BlobCell ==
  ASSUME NEW S, NEW g \in [Backends -> [Keys -> S]], NEW x \in Backends, NEW key \in Keys,
         NEW v \in S, NEW h, h = [g EXCEPT ![x][key] = v]
  PROVE  /\ h \in [Backends -> [Keys -> S]]
         /\ \A y \in Backends, k \in Keys : h[y][k] = IF y = x /\ k = key THEN v ELSE g[y][k]
  OBVIOUS

(* A provider's ops files only get more records, by a Put or without one.  *)
LEMMA PutIInv ==
  ASSUME IInv, NEW d \in Devices, Put(d) \/ PutFails(d)
  PROVE  IInv' /\ \A y \in Backends : Held(y) \subseteq Held(y)'
  <1>f. PICK f : f = file[d]
    OBVIOUS
  <1>x. PICK x, L : x = Providers[at[d]] /\ L = Last(f).seq
    OBVIOUS
  <1> DEFINE key == <<d, L>>
  <1>1. /\ pc[d] = "put" /\ AfterPut(d)
        /\ ops' = ops /\ number' = number /\ pulled' = pulled /\ keys' = keys
        /\ kept' = kept /\ fetched' = fetched
        /\ \/ /\ blobs' = [blobs EXCEPT ![x][key] = f] /\ missed' = missed \ ({x} \X Ids(f))
           \/ /\ blobs' = blobs /\ missed' = missed \cup ({x} \X Ids(f))
    BY <1>f, <1>x DEF Put, PutFails, logVars
  <1>2. /\ TypeOK /\ CountInv /\ RowInv /\ BlobInv /\ FileOf(d) /\ PushOf(d) /\ Grows
        /\ \A e, g : RowsOf(e, g)' = RowsOf(e, g)
    BY <1>1, Still DEF IInv, FileInv, PushInv
  <1>3. /\ f \in Seq(Records) /\ f # << >> /\ x \in Backends /\ pushed[d] \in Nat
        /\ at[d] \in 1 .. Len(Providers) /\ Len(Providers) \in Nat
    BY <1>f, <1>x, <1>1, <1>2, ProvidersKnown DEF TypeOK, FileOf
  <1>4. /\ \A i \in DOMAIN f : /\ f[i] \in Records /\ f[i].id \in OpIds /\ f[i].dev = d
                              /\ Recorded(f[i]) /\ f[i].seq \in pushed[d] + 1 .. L
        /\ Len(f) \in DOMAIN f /\ Last(f) = f[Len(f)]
    BY <1>f, <1>x, <1>1, <1>2, <1>3, RecordParts DEF FileOf
  <1>5. /\ Last(f) \in Records /\ Recorded(Last(f)) /\ Last(f).dev = d
        /\ L \in Nat /\ L > pushed[d]
        /\ Last(f).id[2] \in RowsOf(d, d) /\ ops[d][Last(f).id[2]].seq = L
    <2>1. /\ Last(f) \in Records /\ Recorded(Last(f)) /\ Last(f).dev = d
          /\ L \in pushed[d] + 1 .. L
      BY <1>4, <1>x
    <2>2. L \in Nat
      BY <2>1, <1>x DEF Records
    <2> QED BY <2>1, <2>2, <1>3, <1>x DEF Recorded
  <1>6. key \in Keys /\ key[1] = d /\ key[2] = L
    <2>1. L <= Cardinality(Own)
      BY <1>2, <1>5 DEF CountInv
    <2>2. L \in 1 .. MaxOps
      BY <2>1, <1>2, <1>3, <1>5, SyncAssumption, FS_CardinalityType DEF CountInv
    <2> QED BY <2>2 DEF Keys
  <1> HIDE DEF key
  <1>7. PICK put \in BOOLEAN :
           \A y \in Backends, k \in Keys :
              blobs'[y][k] = IF put /\ y = x /\ k = key THEN f ELSE blobs[y][k]
    <2>1. blobs \in [Backends -> [Keys -> Seq(Records)]]
      BY <1>2 DEF TypeOK
    <2>2. CASE blobs' = [blobs EXCEPT ![x][key] = f]
      <3>1. \A y \in Backends, k \in Keys :
              blobs'[y][k] = IF TRUE /\ y = x /\ k = key THEN f ELSE blobs[y][k]
        BY <2>1, <2>2, <1>3, <1>6, BlobCell
      <3> QED BY <3>1
    <2>3. CASE blobs' = blobs
      <3>1. \A y \in Backends, k \in Keys :
              blobs'[y][k] = IF FALSE /\ y = x /\ k = key THEN f ELSE blobs[y][k]
        BY <2>3
      <3> QED BY <3>1
    <2> QED BY <2>2, <2>3, <1>1
  <1>8. blobs' \in [Backends -> [Keys -> Seq(Records)]]
    <2>1. blobs \in [Backends -> [Keys -> Seq(Records)]]
      BY <1>2 DEF TypeOK
    <2>2. CASE blobs' = [blobs EXCEPT ![x][key] = f]
      BY <2>1, <2>2, <1>3, <1>6, BlobCell
    <2>3. CASE blobs' = blobs
      BY <2>1, <2>3
    <2> QED BY <2>2, <2>3, <1>1
  <1>9. \A y \in Backends, k \in Keys : Ids(blobs[y][k]) \subseteq Ids(blobs'[y][k])
    <2> SUFFICES ASSUME NEW y \in Backends, NEW k \in Keys, y = x, k = key, put
                 PROVE  Ids(blobs[x][key]) \subseteq Ids(f)
      BY <1>7
    <2>1. CASE blobs[x][key] = << >>
      BY <2>1 DEF Ids
    <2>2. CASE blobs[x][key] # << >>
      BY <2>2, <1>f, <1>1, <1>2, <1>3, <1>5, <1>6 DEF PushOf, Above
    <2> QED BY <2>1, <2>2
  <1>10. \A y \in Backends : Held(y) \subseteq Held(y)'
    BY <1>9 DEF Held
  <1>11. blobs' = [blobs EXCEPT ![x][key] = f] => Ids(f) \subseteq Held(x)'
    <2>1. blobs' = [blobs EXCEPT ![x][key] = f] => blobs'[x][key] = f
      BY <1>2, <1>3, <1>6 DEF TypeOK
    <2> QED BY <2>1, <1>6 DEF Held
  <1>12. \A y \in Backends : \A id : Covered(y, id) => Covered(y, id)'
    <2> SUFFICES ASSUME NEW y \in Backends, NEW id, Covered(y, id) PROVE Covered(y, id)'
      OBVIOUS
    <2>1. CASE id \in Held(y)
      BY <2>1, <1>10 DEF Covered
    <2>2. CASE <<y, id>> \in missed
      <3>1. CASE missed' = missed \cup ({x} \X Ids(f))
        BY <3>1, <2>2 DEF Covered
      <3>2. CASE blobs' = [blobs EXCEPT ![x][key] = f] /\ missed' = missed \ ({x} \X Ids(f))
        <4>1. <<y, id>> \in missed' \/ <<y, id>> \in {x} \X Ids(f)
          BY <3>2, <2>2
        <4>2. <<y, id>> \in {x} \X Ids(f) => y = x /\ id \in Ids(f)
          OBVIOUS
        <4> QED BY <4>1, <4>2, <3>2, <1>11 DEF Covered
      <3> QED BY <3>1, <3>2, <1>1
    <2> QED BY <2>1, <2>2 DEF Covered
  <1>13. \A id \in Ids(f) : Covered(x, id)'
    <2>1. CASE blobs' = [blobs EXCEPT ![x][key] = f]
      BY <2>1, <1>11 DEF Covered
    <2>2. CASE missed' = missed \cup ({x} \X Ids(f))
      BY <2>2 DEF Covered
    <2> QED BY <2>1, <2>2, <1>1
  <1>14. BlobInv'
    <2> SUFFICES ASSUME NEW y \in Backends, NEW k \in Keys
                 PROVE  /\ \A i \in DOMAIN blobs'[y][k] :
                              Recorded(blobs[y][k][i])' /\ blobs'[y][k][i].dev = k[1]
                        /\ blobs'[y][k] # << >> => Last(blobs'[y][k]).seq = k[2]
      BY DEF BlobInv
    <2>1. \A rec : Recorded(rec) => Recorded(rec)'
      BY <1>1, <1>2 DEF Recorded
    <2>2. CASE blobs'[y][k] = f /\ k = key
      <3>1. ASSUME NEW i \in DOMAIN f PROVE Recorded(blobs[y][k][i])'
        <4>1. PICK rec : rec = f[i] /\ Recorded(rec)
          BY <1>4
        <4>2. blobs'[y][k][i] = rec /\ Recorded(rec)'
          BY <4>1, <2>1, <2>2
        <4> QED BY <4>2 DEF Recorded
      <3> QED BY <3>1, <2>2, <1>4, <1>6, <1>x
    <2>3. CASE blobs'[y][k] = blobs[y][k]
      <3>1. ASSUME NEW i \in DOMAIN blobs[y][k] PROVE Recorded(blobs[y][k][i])'
        <4>1. PICK rec : rec = blobs[y][k][i] /\ Recorded(rec)
          BY <1>2 DEF BlobInv
        <4>2. blobs'[y][k][i] = rec /\ Recorded(rec)'
          BY <4>1, <2>1, <2>3
        <4> QED BY <4>2 DEF Recorded
      <3> QED BY <3>1, <2>3, <1>2 DEF BlobInv
    <2> QED BY <2>2, <2>3, <1>7
  <1>15. /\ \A e \in Devices \ {d} : /\ file'[e] = file[e] /\ pc'[e] = pc[e] /\ at'[e] = at[e]
                                     /\ pushed'[e] = pushed[e]
         /\ \/ /\ at[d] < Len(Providers) /\ at'[d] = at[d] + 1
               /\ pc'[d] = "put" /\ file'[d] = f /\ pushed'[d] = pushed[d]
            \/ /\ at[d] = Len(Providers) /\ pc'[d] = "idle" /\ file'[d] = << >>
               /\ pushed'[d] = L
    <2>1. CASE at[d] < Len(Providers)
      <3>1. at' = [at EXCEPT ![d] = at[d] + 1] /\ pc' = pc /\ file' = file /\ pushed' = pushed
        BY <2>1, <1>1 DEF AfterPut
      <3> QED BY <3>1, <2>1, <1>f, <1>1, <1>2 DEF TypeOK
    <2>2. CASE at[d] = Len(Providers)
      <3>1. /\ at' = at /\ pc' = [pc EXCEPT ![d] = "idle"] /\ file' = [file EXCEPT ![d] = << >>]
            /\ pushed' = [pushed EXCEPT ![d] = L]
        BY <2>2, <1>f, <1>x, <1>1, <1>3 DEF AfterPut, Goto
      <3> QED BY <3>1, <2>2, <1>2 DEF TypeOK
    <2> QED BY <2>1, <2>2, <1>3
  <1>16. TypeOK'
    <2>1. CASE at[d] < Len(Providers)
      <3>1. /\ at' = [at EXCEPT ![d] = at[d] + 1] /\ pc' = pc /\ file' = file /\ pushed' = pushed
            /\ at[d] + 1 \in 1 .. Len(Providers)
        BY <2>1, <1>1, <1>3 DEF AfterPut
      <3> QED BY <3>1, <1>1, <1>2, <1>8 DEF TypeOK
    <2>2. CASE at[d] = Len(Providers)
      <3>1. /\ at' = at /\ pc' = [pc EXCEPT ![d] = "idle"] /\ file' = [file EXCEPT ![d] = << >>]
            /\ pushed' = [pushed EXCEPT ![d] = L] /\ << >> \in Seq(Records)
        BY <2>2, <1>f, <1>x, <1>1, <1>3 DEF AfterPut, Goto
      <3> QED BY <3>1, <1>1, <1>2, <1>5, <1>8 DEF TypeOK
    <2> QED BY <2>1, <2>2, <1>3
  <1>17. CountInv' /\ RowInv'
    BY <1>1, <1>2, CountKept, RowInvKept
  <1>18. /\ \A y \in Backends, k \in Keys : blobs[y][k] # << >> => blobs'[y][k] # << >>
         /\ \A y \in Backends, k \in Keys : k[1] # d => blobs'[y][k] = blobs[y][k]
    BY <1>3, <1>6, <1>7
  <1>19. /\ \A k \in keys'[d] : k[1] # d
         /\ \A rec : Recorded(rec) => Recorded(rec)'
    BY <1>1, <1>2 DEF FileOf, Recorded
  <1>20. \A e \in Devices \ {d} : FileOf(e)' /\ OrderOf(e)' /\ PushOf(e)'
    <2> TAKE e \in Devices \ {d}
    <2>1. /\ ops'[e] = ops[e] /\ pulled'[e] = pulled[e] /\ keys'[e] = keys[e] /\ kept'[e] = kept[e]
          /\ file'[e] = file[e] /\ pc'[e] = pc[e] /\ at'[e] = at[e] /\ pushed'[e] = pushed[e]
      BY <1>1, <1>15
    <2>2. \A y \in Backends, k \in Keys : k[1] = e => blobs'[y][k] = blobs[y][k]
      BY <1>18
    <2> QED BY <2>1, <2>2, <1>2, <1>12, <1>18, RestKept
  <1>21. FileOf(d)'
    <2>1. CASE file'[d] = f /\ pc'[d] = "put" /\ pushed'[d] = pushed[d]
      BY <2>1, <1>f, <1>1, <1>2, <1>18, FileKept
    <2>2. CASE file'[d] = << >> /\ pc'[d] = "idle"
      BY <2>2, <1>19 DEF FileOf
    <2> QED BY <2>1, <2>2, <1>15
  <1>22. OrderOf(d)'
    <2>1. Len(ops'[d]) \in Nat /\ Len(ops'[d]) >= Len(ops[d]) /\ OrderOf(d)
      BY <1>1, <1>2, RowFields DEF IInv, OrderInv
    <2> QED BY <2>1, <1>1, <1>2, OrderKept
  <1>23. PushOf(d)'
    <2>1. /\ Marked(d) /\ Above(d) /\ InFile(d) /\ SoFar(d) /\ Stored(d)
          /\ \A i : InTurn(d, i)' <=> InTurn(d, i)
      BY <1>1, <1>2 DEF PushOf, InTurn
    <2>2. CASE /\ at[d] < Len(Providers) /\ at'[d] = at[d] + 1
               /\ pc'[d] = "put" /\ file'[d] = f /\ pushed'[d] = pushed[d]
      <3>1. Marked(d)' /\ InFile(d)'
        BY <2>1, <2>2, <1>f, <1>1, <1>2 DEF Marked, InFile
      <3>2. Above(d)'
        BY <2>1, <2>2, <1>f, <1>1, <1>7 DEF Above
      <3>3. SoFar(d)'
        <4> SUFFICES ASSUME NEW n \in 1 .. at[d], NEW id \in Ids(f) PROVE Covered(Providers[n], id)'
          BY <2>2, <1>3 DEF SoFar
        <4>1. CASE n = at[d]
          BY <4>1, <1>x, <1>13
        <4>2. CASE n # at[d]
          <5>1. Covered(Providers[n], id) /\ Providers[n] \in Backends
            BY <4>2, <2>1, <1>f, <1>1, <1>3, ProvidersKnown DEF SoFar
          <5> QED BY <5>1, <1>12
        <4> QED BY <4>1, <4>2
      <3>4. Stored(d)'
        BY <2>1, <2>2, <1>1, <1>2, <1>12 DEF Stored
      <3> QED BY <3>1, <3>2, <3>3, <3>4 DEF PushOf
    <2>3. CASE /\ at[d] = Len(Providers) /\ pc'[d] = "idle" /\ file'[d] = << >>
               /\ pushed'[d] = L
      <3>1. Marked(d)'
        BY <2>3, <1>1, <1>2, <1>5 DEF Marked
      <3>2. InFile(d)' /\ SoFar(d)'
        BY <2>3 DEF InFile, SoFar
      <3>3. Above(d)'
        <4> SUFFICES ASSUME NEW y \in Backends, NEW k \in Keys, k[1] = d, blobs'[y][k] # << >>
                     PROVE  k[2] <= L
          BY <2>3 DEF Above
        <4>1. CASE k = key
          BY <4>1, <1>5, <1>6
        <4>2. CASE k # key
          <5> DEFINE b == blobs[y][k]
          <5>1. b # << >> /\ b \in Seq(Records) /\ k[2] \in Nat
            BY <4>2, <1>2, <1>7 DEF TypeOK, Keys
          <5>2. /\ Len(b) \in DOMAIN b /\ Last(b) = b[Len(b)] /\ Last(b).seq = k[2]
                /\ Recorded(Last(b))
            BY <5>1, <1>2, RecordParts DEF BlobInv
          <5>3. CASE Ids(b) \subseteq Ids(f)
            <6>1. Last(b).id \in Ids(f)
              BY <5>2, <5>3 DEF Ids
            <6>2. PICK m \in DOMAIN f : f[m].id = Last(b).id
              BY <6>1 DEF Ids
            <6>3. f[m].seq = Last(b).seq
              BY <6>2, <5>2, <1>4 DEF Recorded
            <6> QED BY <6>3, <5>2, <1>4
          <5>4. CASE k[2] <= pushed[d]
            BY <5>4, <5>1, <1>3, <1>5
          <5> QED BY <5>1, <5>3, <5>4, <2>1, <1>f, <1>1 DEF Above
        <4> QED BY <4>1, <4>2
      <3>4. Stored(d)'
        <4> SUFFICES ASSUME NEW i \in RowsOf(d, d), NEW y \in Backends, InTurn(d, i),
                            ops[d][i].seq <= L
                     PROVE  Covered(y, <<d, i>>)'
          BY <2>1, <2>3, <1>1, <1>2 DEF Stored
        <4>1. i \in Nat /\ ops[d][i].seq \in Nat
          BY <1>2, RowFields DEF RowsOf
        <4>2. CASE ops[d][i].seq <= pushed[d]
          BY <4>2, <2>1, <1>12 DEF Stored
        <4>3. CASE ops[d][i].seq > pushed[d]
          <5>1. <<d, i>> \in Ids(f) \/ Last(f).id[2] < i
            BY <4>3, <2>1, <1>f, <1>1 DEF InFile
          <5>2. ~ Last(f).id[2] < i
            <6> SUFFICES ASSUME Last(f).id[2] < i PROVE FALSE
              OBVIOUS
            <6>1. L < ops[d][i].seq
              BY <1>5 DEF InTurn
            <6> QED BY <6>1, <4>1, <1>5
          <5>3. <<d, i>> \in Ids(f)
            BY <5>1, <5>2
          <5>4. CASE y = x
            BY <5>3, <5>4, <1>13
          <5>5. CASE y # x
            <6>1. PICK n \in 1 .. Len(Providers) : Providers[n] = y
              BY ProvidersKnown
            <6>2. n \in 1 .. at[d] - 1
              BY <6>1, <5>5, <2>3, <1>x, <1>3
            <6>3. Covered(y, <<d, i>>)
              BY <6>1, <6>2, <5>3, <2>1, <1>f, <1>1 DEF SoFar
            <6> QED BY <6>3, <1>12
          <5> QED BY <5>4, <5>5
        <4> QED BY <4>1, <4>2, <4>3, <1>3
      <3> QED BY <3>1, <3>2, <3>3, <3>4 DEF PushOf
    <2> QED BY <2>2, <2>3, <1>15
  <1> QED BY <1>10, <1>14, <1>16, <1>17, <1>20, <1>21, <1>22, <1>23
          DEF IInv, FileInv, OrderInv, PushInv

-----------------------------------------------------------------------------
(* Pull, and a restart.                                                    *)
LEMMA NoPush ==
  ASSUME IInv, Grows, NEW d \in Devices, RowsOf(d, d)' = RowsOf(d, d), pushed'[d] = pushed[d],
         pc[d] # "put", pc'[d] # "put", blobs' = blobs, missed' = missed
  PROVE  PushOf(d)'
  <1>1. PushOf(d) /\ \A i \in RowsOf(d, d) : ops'[d][i] = ops[d][i]
    BY RowsGrow DEF IInv, PushInv
  <1>2. Marked(d)'
    BY <1>1 DEF PushOf, Marked
  <1>3. Above(d)' /\ InFile(d)' /\ SoFar(d)'
    BY <1>1 DEF PushOf, Above, InFile, SoFar
  <1>4. \A i \in RowsOf(d, d) : InTurn(d, i)' <=> InTurn(d, i)
    BY <1>1 DEF InTurn
  <1>5. \A x, id : Covered(x, id) => Covered(x, id)'
    BY CoveredKept
  <1>6. Stored(d)'
    BY <1>1, <1>4, <1>5 DEF PushOf, Stored
  <1> QED BY <1>2, <1>3, <1>6 DEF PushOf

LEMMA Continues ==
  ASSUME TypeOK, NEW d \in Devices, NEW left \in SUBSET Keys, Continue(d, left)
  PROVE  /\ keys' \in [Devices -> SUBSET Keys] /\ keys'[d] = left
         /\ pc' \in [Devices -> {"idle", "put", "list", "get", "import"}]
         /\ pc'[d] \in {"idle", "list", "get"}
         /\ at' \in [Devices -> 1 .. Len(Providers)]
         /\ left # {} => at'[d] = at[d]
         /\ \A e \in Devices \ {d} : keys'[e] = keys[e] /\ pc'[e] = pc[e] /\ at'[e] = at[e]
  <1>1. keys' = [keys EXCEPT ![d] = left]
    BY DEF Continue
  <1>2. CASE left # {}
    <2>1. pc' = [pc EXCEPT ![d] = "get"] /\ at' = at
      BY <1>2 DEF Continue, Goto
    <2> QED BY <1>1, <1>2, <2>1 DEF TypeOK
  <1>3. CASE left = {} /\ at[d] < Len(Providers)
    <2>1. /\ pc' = [pc EXCEPT ![d] = "list"] /\ at' = [at EXCEPT ![d] = at[d] + 1]
          /\ at[d] + 1 \in 1 .. Len(Providers)
      BY <1>3, ProvidersKnown DEF Continue, Goto, TypeOK
    <2> QED BY <1>1, <1>3, <2>1 DEF TypeOK
  <1>4. CASE left = {} /\ ~ at[d] < Len(Providers)
    <2>1. pc' = [pc EXCEPT ![d] = "idle"] /\ at' = at
      BY <1>4 DEF Continue, Goto
    <2> QED BY <1>1, <1>4, <2>1 DEF TypeOK
  <1> QED BY <1>2, <1>3, <1>4

(* A step of Pull that imports nothing.                                    *)
LEMMA PullKept ==
  ASSUME IInv, NEW d \in Devices, ops' = ops, number' = number, pushed' = pushed,
         pulled' = pulled, blobs' = blobs, kept' = kept, missed' = missed,
         pc[d] # "put", pc'[d] # "put",
         \A e \in Devices \ {d} :
            keys'[e] = keys[e] /\ pc'[e] = pc[e] /\ at'[e] = at[e] /\ file'[e] = file[e],
         TypeOK', FileOf(d)'
  PROVE  IInv'
  <1>1. Grows /\ TypeOK /\ RowInv /\ CountInv /\ \A e, g : RowsOf(e, g)' = RowsOf(e, g)
    BY Still DEF IInv
  <1>2. CountInv' /\ RowInv' /\ BlobInv'
    <2>1. \A e \in Devices, c \in Callers : number'[e][c] \in {0, number[e][c]}
      OBVIOUS
    <2> QED BY <2>1, <1>1, CountKept, RowInvKept, BlobsKept
  <1>3. \A x, id : Covered(x, id) => Covered(x, id)'
    BY CoveredKept
  <1>4. \A e \in Devices \ {d} : FileOf(e)' /\ OrderOf(e)' /\ PushOf(e)'
    BY <1>1, <1>3, RestKept
  <1>5. OrderOf(d)'
    <2>1. Len(ops'[d]) \in Nat /\ Len(ops'[d]) >= Len(ops[d])
      BY <1>1, RowFields
    <2> QED BY <2>1, <1>1, OrderKept DEF IInv, OrderInv
  <1>6. PushOf(d)'
    BY <1>1, NoPush
  <1> QED BY <1>2, <1>4, <1>5, <1>6 DEF IInv, FileInv, OrderInv, PushInv

LEMMA ContinueIInv ==
  ASSUME IInv, NEW d \in Devices, NEW left \in SUBSET Keys, Continue(d, left),
         pc[d] \in {"list", "get"}, ops' = ops, number' = number, pushed' = pushed,
         pulled' = pulled, blobs' = blobs, kept' = kept, missed' = missed, file' = file,
         fetched' = fetched,
         \A k \in left : k[1] # d /\ blobs[Providers[at[d]]][k] # << >>
  PROVE  IInv'
  <1>1. TypeOK /\ FileOf(d)
    BY DEF IInv, FileInv
  <1>2. /\ keys' \in [Devices -> SUBSET Keys] /\ keys'[d] = left
        /\ pc' \in [Devices -> {"idle", "put", "list", "get", "import"}]
        /\ pc'[d] \in {"idle", "list", "get"}
        /\ at' \in [Devices -> 1 .. Len(Providers)]
        /\ left # {} => at'[d] = at[d]
        /\ \A e \in Devices \ {d} : keys'[e] = keys[e] /\ pc'[e] = pc[e] /\ at'[e] = at[e]
    BY <1>1, Continues
  <1>3. TypeOK'
    BY <1>1, <1>2 DEF TypeOK
  <1>4. FileOf(d)'
    <2>1. \A i \in DOMAIN file'[d] : Recorded(file[d][i])'
      BY <1>1 DEF FileOf, Recorded, RowsOf
    <2> QED BY <1>2, <2>1 DEF FileOf
  <1> QED BY <1>2, <1>3, <1>4, PullKept

LEMMA StartPullIInv ==
  ASSUME IInv, NEW d \in Devices, StartPull(d)
  PROVE  IInv' /\ blobs' = blobs
  <1>1. /\ pc[d] = "idle" /\ pc' = [pc EXCEPT ![d] = "list"] /\ at' = [at EXCEPT ![d] = 1]
        /\ ops' = ops /\ number' = number /\ pushed' = pushed /\ pulled' = pulled
        /\ blobs' = blobs /\ keys' = keys /\ file' = file
        /\ kept' = kept /\ missed' = missed /\ fetched' = fetched
    BY DEF StartPull, Goto, logVars, engineVars, history
  <1>2. TypeOK /\ FileOf(d) /\ 1 \in 1 .. Len(Providers)
    BY ProvidersKnown DEF IInv, FileInv
  <1>3. /\ TypeOK' /\ pc'[d] = "list"
        /\ \A e \in Devices \ {d} : pc'[e] = pc[e] /\ at'[e] = at[e]
    BY <1>1, <1>2 DEF TypeOK
  <1>4. FileOf(d)'
    <2>1. \A i \in DOMAIN file'[d] : Recorded(file[d][i])'
      BY <1>1, <1>2 DEF FileOf, Recorded, RowsOf
    <2> QED BY <1>1, <1>2, <1>3, <2>1 DEF FileOf
  <1> QED BY <1>1, <1>3, <1>4, PullKept

LEMMA ListIInv ==
  ASSUME IInv, NEW d \in Devices, List(d) \/ ListFails(d) \/ GetFails(d)
  PROVE  IInv' /\ blobs' = blobs
  <1>1. /\ ops' = ops /\ number' = number /\ pushed' = pushed /\ pulled' = pulled
        /\ blobs' = blobs /\ file' = file
        /\ kept' = kept /\ missed' = missed /\ fetched' = fetched
        /\ pc[d] \in {"list", "get"}
    BY DEF List, ListFails, GetFails, logVars, engineVars, history
  <1>2. PICK left \in SUBSET Keys :
           /\ Continue(d, left)
           /\ \A k \in left : k[1] # d /\ blobs[Providers[at[d]]][k] # << >>
    <2>1. CASE List(d)
      <3> DEFINE left == {k \in Keys : k[1] # d /\ blobs[Providers[at[d]]][k] # << >>}
      <3>1. Continue(d, left) /\ left \in SUBSET Keys
        BY <2>1 DEF List
      <3> QED BY <3>1
    <2>2. CASE ListFails(d)
      BY <2>2 DEF ListFails
    <2>3. CASE GetFails(d)
      <3>1. PICK k \in keys[d] : Continue(d, keys[d] \ {k})
        BY <2>3 DEF GetFails
      <3>2. keys[d] \in SUBSET Keys /\ FileOf(d) /\ pc[d] = "get"
        BY <2>3 DEF GetFails, IInv, TypeOK, FileInv
      <3> QED BY <3>1, <3>2 DEF FileOf
    <2> QED BY <2>1, <2>2, <2>3
  <1> QED BY <1>1, <1>2, ContinueIInv

LEMMA GetIInv ==
  ASSUME IInv, NEW d \in Devices, Get(d)
  PROVE  IInv' /\ blobs' = blobs
  <1>0. PICK k \in keys[d] :
           LET recs == blobs[Providers[at[d]]][k]
           IN  /\ file' = [file EXCEPT ![d] = recs]
               /\ fetched' = [fetched EXCEPT ![d] = @ \cup Ids(recs)]
               /\ keys' = [keys EXCEPT ![d] = @ \ {k}]
    BY DEF Get
  <1>1. PICK recs :
           /\ recs = blobs[Providers[at[d]]][k]
           /\ file' = [file EXCEPT ![d] = recs]
           /\ fetched' = [fetched EXCEPT ![d] = @ \cup Ids(recs)]
           /\ keys' = [keys EXCEPT ![d] = @ \ {k}]
    BY <1>0
  <1>2. /\ pc[d] = "get" /\ pc' = [pc EXCEPT ![d] = "import"]
        /\ ops' = ops /\ number' = number /\ pushed' = pushed /\ pulled' = pulled
        /\ blobs' = blobs /\ at' = at /\ kept' = kept /\ missed' = missed
    BY DEF Get, Goto, logVars, engineVars
  <1>3. /\ TypeOK /\ FileOf(d) /\ BlobInv /\ k \in Keys
        /\ Providers[at[d]] \in Backends
    BY ProvidersKnown DEF IInv, TypeOK, FileInv
  <1>4. /\ recs \in Seq(Records) /\ recs # << >> /\ k[1] # d
        /\ \A i \in DOMAIN recs : Recorded(recs[i]) /\ recs[i].dev # d
    BY <1>1, <1>2, <1>3 DEF TypeOK, FileOf, BlobInv
  <1>5. Ids(recs) \subseteq OpIds
    BY <1>4, RecordParts DEF Ids
  <1>6. /\ file' \in [Devices -> Seq(Records)] /\ file'[d] = recs
        /\ \A e \in Devices \ {d} : file'[e] = file[e]
    BY <1>1, <1>3, <1>4 DEF TypeOK
  <1>7. /\ fetched' \in [Devices -> SUBSET OpIds]
        /\ keys' \in [Devices -> SUBSET Keys] /\ keys'[d] = keys[d] \ {k}
        /\ pc' \in [Devices -> {"idle", "put", "list", "get", "import"}] /\ pc'[d] = "import"
        /\ \A e \in Devices \ {d} : keys'[e] = keys[e] /\ pc'[e] = pc[e]
    BY <1>1, <1>2, <1>3, <1>5 DEF TypeOK
  <1>8. TypeOK'
    BY <1>2, <1>3, <1>6, <1>7 DEF TypeOK
  <1>9. FileOf(d)'
    <2>1. \A i \in DOMAIN file'[d] : Recorded(file[d][i])'
      BY <1>2, <1>4, <1>6 DEF Recorded, RowsOf
    <2> QED BY <2>1, <1>2, <1>3, <1>4, <1>6, <1>7 DEF FileOf
  <1> QED BY <1>2, <1>6, <1>7, <1>8, <1>9, PullKept

(* What an import does to the log and the mark: nothing, the mark alone is *)
(* raised, or a row for the record comes last.                             *)
LEMMA ImportRow ==
  ASSUME IInv, NEW d \in Devices, NEW rec \in Records, Recorded(rec), rec.dev # d,
         kept' = kept, blobs' = blobs, missed' = missed,
         IF Seen(d, rec)
         THEN UNCHANGED <<ops, pulled>>
         ELSE /\ Raise(d, rec)
              /\ IF AlreadyHave(d, rec) THEN UNCHANGED ops
                 ELSE ops' = [ops EXCEPT ![d] =
                              Append(@, Row(d, rec.dev, NextSeq(d, rec.dev), rec.id))]
  PROVE  /\ Grows /\ RowInv' /\ OrderOf(d)' /\ \A e \in Devices : RowsOf(e, e)' = RowsOf(e, e)
         /\ ops' \in [Devices -> Seq(Rows)] /\ pulled' \in [Devices -> [Devices -> Nat]]
         /\ \A e \in Devices \ {d} : ops'[e] = ops[e] /\ pulled'[e] = pulled[e]
  <1>f. PICK f : f = rec.dev
    OBVIOUS
  <1> DEFINE row == Row(d, f, NextSeq(d, f), rec.id)
  <1>1. /\ TypeOK /\ RowInv /\ OrderOf(d) /\ f \in Devices \ {d} /\ rec.seq \in Nat
        /\ rec.id \in OpIds /\ pulled[d][f] \in Nat /\ rec.id[1] = f
        /\ rec.id[2] \in RowsOf(f, f) /\ ops[f][rec.id[2]].seq = rec.seq
    <2>1. /\ TypeOK /\ RowInv /\ OrderOf(d) /\ f \in Devices \ {d}
          /\ rec.seq \in Nat /\ rec.id \in OpIds
      BY <1>f DEF IInv, OrderInv, Records
    <2>2. pulled[d][f] \in Nat
      BY <2>1 DEF TypeOK
    <2>3. /\ rec.id[1] = f /\ rec.id[2] \in RowsOf(f, f) /\ ops[f][rec.id[2]].seq = rec.seq
      BY <1>f DEF Recorded
    <2> QED BY <2>1, <2>2, <2>3
  <1>2. CASE Seen(d, rec)
    <2>1. ops' = ops /\ pulled' = pulled
      BY <1>2
    <2>2. Len(ops'[d]) \in Nat /\ Len(ops'[d]) >= Len(ops[d])
      BY <2>1, <1>1, RowFields
    <2>3. Grows /\ \A e, g : RowsOf(e, g)' = RowsOf(e, g)
      BY <2>1, Still
    <2> QED BY <2>1, <2>2, <2>3, <1>1, RowInvKept, OrderKept DEF TypeOK
  <1>3. CASE ~Seen(d, rec)
    <2>1. pulled' = [pulled EXCEPT ![d][f] = rec.seq] /\ rec.seq > pulled[d][f]
      BY <1>f, <1>1, <1>3 DEF Raise, Seen
    <2>2. /\ pulled' \in [Devices -> [Devices -> Nat]]
          /\ \A e, g \in Devices :
                pulled'[e][g] = IF e = d /\ g = f THEN rec.seq ELSE pulled[e][g]
          /\ \A e \in Devices \ {d} : pulled'[e] = pulled[e]
          /\ \A e \in Devices : pulled[d][e] \in Nat
      <3>1. pulled \in [Devices -> [Devices -> Nat]]
        BY <1>1 DEF TypeOK
      <3> QED BY <3>1, <2>1, <1>1
    <2>3. CASE ops' = ops
      <3>1. Grows /\ \A e, g : RowsOf(e, g)' = RowsOf(e, g)
        BY <2>3, Still
      <3>2. OrderOf(d)'
        <4> SUFFICES ASSUME NEW e \in Devices \ {d}, NEW i \in RowsOf(d, e), i > kept[d]
                     PROVE  /\ Origin(ops[d][i])' <= pulled'[d][e]
                            /\ \A j \in RowsOf(d, e) : j < i /\ j > kept[d] =>
                                  Origin(ops[d][j])' < Origin(ops[d][i])'
          BY <2>3, <3>1, <1>1 DEF OrderOf
        <4>1. \A j \in RowsOf(d, e) : /\ Origin(ops[d][j])' = Origin(ops[d][j])
                                      /\ Origin(ops[d][j]) \in Nat
          BY <3>1, <1>1, OriginKept
        <4>2. pulled[d][e] <= pulled'[d][e] /\ pulled[d][e] \in Nat /\ pulled'[d][e] \in Nat
          BY <2>1, <2>2, <1>1
        <4>3. /\ Origin(ops[d][i]) <= pulled[d][e]
              /\ \A j \in RowsOf(d, e) :
                    j < i /\ j > kept[d] => Origin(ops[d][j]) < Origin(ops[d][i])
          BY <1>1 DEF OrderOf
        <4>4. Origin(ops[d][i]) <= pulled'[d][e]
          BY <4>1, <4>2, <4>3
        <4> QED BY <4>1, <4>3, <4>4
      <3> QED BY <3>1, <3>2, <2>2, <2>3, <1>1, RowInvKept DEF TypeOK
    <2>4. CASE ops' = [ops EXCEPT ![d] = Append(ops[d], row)]
      <3>n. PICK n : n = Len(ops[d]) + 1
        OBVIOUS
      <3>1. NextSeq(d, f) \in Nat \ {0} /\ Len(ops[d]) \in Nat
        BY <1>1, NextIsHigher, RowFields
      <3>2. rec.id # << >>
        BY <1>1 DEF OpIds
      <3>3. row \in Rows /\ row.id = <<d, n>> /\ row.dev = f /\ row.of = rec.id
        BY <3>n, <3>1, <3>2, <1>1 DEF Row, Rows, OpIds
      <3> HIDE DEF row
      <3>4. /\ ops' \in [Devices -> Seq(Rows)] /\ n \in Nat \ {0}
            /\ DOMAIN ops'[d] = DOMAIN ops[d] \cup {n} /\ Len(ops'[d]) = n
            /\ ops'[d][n] = row
            /\ \A i \in DOMAIN ops[d] : i < n
            /\ \A e \in Devices \ {d} : ops'[e] = ops[e]
            /\ Grows
        BY <2>4, <3>n, <3>3, <1>1, AppendRow
      <3>5. kept[d] < n /\ kept[d] <= n
        <4>1. kept[d] <= Len(ops[d]) /\ kept[d] \in Nat
          BY <1>1 DEF OrderOf, TypeOK
        <4> QED BY <4>1, <3>n, <3>1
      <3>6. n \notin DOMAIN ops[d] /\ \A i \in DOMAIN ops[d] : ops'[d][i] = ops[d][i]
        BY <3>4 DEF Grows
      <3>7. /\ RowsOf(d, f)' = RowsOf(d, f) \cup {n} /\ n \notin RowsOf(d, f)
            /\ \A e \in Devices \ {f} : RowsOf(d, e)' = RowsOf(d, e)
            /\ \A e \in Devices \ {d}, g \in Devices : RowsOf(e, g)' = RowsOf(e, g)
            /\ \A e \in Devices : \A i \in RowsOf(d, e) : i < n /\ i \in Nat
        BY <3>3, <3>4, <3>6, <1>1, RowFields DEF RowsOf
      <3>8. \A e \in Devices : RowsOf(e, e)' = RowsOf(e, e)
        BY <3>7, <1>1
      <3>9. Origin(ops[d][n])' = rec.seq
        <4>1. Origin(ops[d][n])' = ops'[f][rec.id[2]].seq
          BY <3>3, <3>4, <1>1 DEF Origin
        <4> QED BY <4>1, <3>4, <1>1
      <3>10. RowInv'
        <4> SUFFICES ASSUME NEW e \in Devices, NEW i \in DOMAIN ops'[e] PROVE Sound(e, i)'
          BY DEF RowInv
        <4>1. CASE e = d /\ i = n
          BY <4>1, <3>3, <3>4, <3>8, <1>1 DEF Sound
        <4>2. CASE ~(e = d /\ i = n)
          <5>1. i \in DOMAIN ops[e]
            BY <4>2, <3>4
          <5> QED BY <5>1, <3>4, <1>1, SoundKept DEF RowInv
        <4> QED BY <4>1, <4>2
      <3>11. OrderOf(d)'
        <4> SUFFICES ASSUME NEW e \in Devices \ {d}, NEW i \in RowsOf(d, e)', i > kept[d]
                     PROVE  /\ Origin(ops[d][i])' <= pulled'[d][e]
                            /\ \A j \in RowsOf(d, e)' : j < i /\ j > kept[d] =>
                                  Origin(ops[d][j])' < Origin(ops[d][i])'
          BY <3>4, <3>5 DEF OrderOf
        <4>1. \A j \in RowsOf(d, e) : /\ Origin(ops[d][j])' = Origin(ops[d][j])
                                      /\ Origin(ops[d][j]) \in Nat
          BY <3>4, <1>1, OriginKept
        <4>2. \A j \in RowsOf(d, e) : j > kept[d] =>
                 /\ Origin(ops[d][j]) <= pulled[d][e]
                 /\ \A m \in RowsOf(d, e) :
                       m < j /\ m > kept[d] => Origin(ops[d][m]) < Origin(ops[d][j])
          BY <1>1 DEF OrderOf
        <4>3. pulled[d][e] <= pulled'[d][e] /\ pulled[d][e] \in Nat /\ pulled'[d][e] \in Nat
          BY <2>1, <2>2, <1>1
        <4>4. CASE i \in RowsOf(d, e)
          <5>1. \A j \in RowsOf(d, e)' : j < i => j \in RowsOf(d, e)
            BY <4>4, <3>4, <3>7
          <5>2. Origin(ops[d][i])' <= pulled'[d][e]
            BY <4>1, <4>2, <4>3, <4>4
          <5> QED BY <5>1, <5>2, <4>1, <4>2, <4>4
        <4>5. CASE e = f /\ i = n
          <5>1. pulled'[d][e] = rec.seq /\ Origin(ops[d][i])' = rec.seq
            BY <4>5, <2>2, <3>9
          <5>2. ASSUME NEW j \in RowsOf(d, e), j > kept[d]
                PROVE  Origin(ops[d][j])' < rec.seq
            BY <5>2, <4>1, <4>2, <4>5, <2>1, <1>1
          <5>3. \A j \in RowsOf(d, e)' : j < i => j \in RowsOf(d, e)
            BY <4>5, <3>4, <3>7
          <5> QED BY <5>1, <5>2, <5>3, <1>1
        <4> QED BY <4>4, <4>5, <3>7
      <3> QED BY <2>2, <3>4, <3>8, <3>10, <3>11
    <2> QED BY <2>3, <2>4, <1>3, <1>f
  <1> QED BY <1>2, <1>3

LEMMA ImportIInv ==
  ASSUME IInv, NEW d \in Devices, Import(d)
  PROVE  IInv' /\ blobs' = blobs
  <1>1. /\ pc[d] = "import" /\ file' = [file EXCEPT ![d] = Tail(file[d])]
        /\ IF Len(file[d]) > 1 THEN UNCHANGED <<pc, at, keys>> ELSE Continue(d, keys[d])
        /\ number' = number /\ pushed' = pushed /\ blobs' = blobs
        /\ kept' = kept /\ missed' = missed /\ fetched' = fetched
    BY DEF Import, history
  <1>2. /\ TypeOK /\ FileOf(d) /\ file[d] \in Seq(Records) /\ file[d] # << >>
        /\ keys[d] \in SUBSET Keys
    BY <1>1 DEF IInv, FileInv, FileOf, TypeOK
  <1>3. /\ Head(file[d]) \in Records /\ Recorded(Head(file[d])) /\ Head(file[d]).dev # d
        /\ Tail(file[d]) \in Seq(Records)
        /\ \A i \in DOMAIN Tail(file[d]) :
              i + 1 \in DOMAIN file[d] /\ Tail(file[d])[i] = file[d][i + 1]
        /\ Len(file[d]) > 1 => Tail(file[d]) # << >>
    <2>1. /\ Head(file[d]) = file[d][1] /\ 1 \in DOMAIN file[d]
          /\ Tail(file[d]) \in Seq(Records) /\ Len(Tail(file[d])) = Len(file[d]) - 1
          /\ \A i \in 1 .. Len(Tail(file[d])) : Tail(file[d])[i] = file[d][i + 1]
          /\ Len(file[d]) \in Nat /\ DOMAIN file[d] = 1 .. Len(file[d])
          /\ DOMAIN Tail(file[d]) = 1 .. Len(Tail(file[d]))
      BY <1>2, HeadTailProperties, RecordParts
    <2>2. Len(file[d]) > 1 => Tail(file[d]) # << >>
      <3>1. PICK t : t = Tail(file[d])
        OBVIOUS
      <3>2. t = << >> => Len(t) = 0
        OBVIOUS
      <3>3. PICK k \in Nat : k = Len(file[d]) /\ Len(t) = k - 1
        BY <2>1, <3>1
      <3>4. k > 1 => k - 1 # 0
        OBVIOUS
      <3>5. Len(file[d]) > 1 => t # << >>
        BY <3>2, <3>3, <3>4
      <3> QED BY <3>1, <3>5
    <2> QED BY <2>1, <2>2, <1>1, <1>2, RecordParts DEF FileOf
  <1>4. PICK rec \in Records : rec = Head(file[d])
    BY <1>3
  <1>5. Recorded(rec) /\ rec.dev # d
    BY <1>3, <1>4
  <1>6. IF Seen(d, rec)
        THEN UNCHANGED <<ops, pulled>>
        ELSE /\ Raise(d, rec)
             /\ IF AlreadyHave(d, rec) THEN UNCHANGED ops
                ELSE ops' = [ops EXCEPT ![d] =
                             Append(@, Row(d, rec.dev, NextSeq(d, rec.dev), rec.id))]
    BY <1>4 DEF Import
  <1>7. /\ Grows /\ RowInv' /\ OrderOf(d)' /\ \A e \in Devices : RowsOf(e, e)' = RowsOf(e, e)
        /\ ops' \in [Devices -> Seq(Rows)] /\ pulled' \in [Devices -> [Devices -> Nat]]
        /\ \A e \in Devices \ {d} : ops'[e] = ops[e] /\ pulled'[e] = pulled[e]
    BY <1>1, <1>5, <1>6, ImportRow
  <1>8. /\ file' \in [Devices -> Seq(Records)] /\ file'[d] = Tail(file[d])
        /\ \A e \in Devices \ {d} : file'[e] = file[e]
    BY <1>1, <1>2, <1>3 DEF TypeOK
  <1>9. /\ keys' \in [Devices -> SUBSET Keys] /\ keys'[d] = keys[d]
        /\ pc' \in [Devices -> {"idle", "put", "list", "get", "import"}]
        /\ at' \in [Devices -> 1 .. Len(Providers)]
        /\ keys[d] # {} => at'[d] = at[d]
        /\ \/ pc'[d] = "import" /\ Len(file[d]) > 1
           \/ pc'[d] \in {"idle", "list", "get"}
        /\ \A e \in Devices \ {d} : keys'[e] = keys[e] /\ pc'[e] = pc[e] /\ at'[e] = at[e]
    <2>1. CASE Len(file[d]) > 1
      BY <2>1, <1>1, <1>2 DEF TypeOK
    <2>2. CASE ~(Len(file[d]) > 1)
      BY <2>2, <1>1, <1>2, Continues
    <2> QED BY <2>1, <2>2
  <1>10. TypeOK'
    BY <1>1, <1>2, <1>7, <1>8, <1>9 DEF TypeOK
  <1>11. CountInv'
    <2>1. \A e \in Devices, c \in Callers : number'[e][c] \in {0, number[e][c]}
      BY <1>1
    <2> QED BY <2>1, <1>7, CountKept DEF IInv
  <1>12. BlobInv'
    BY <1>1, <1>7, BlobsKept
  <1>13. FileOf(d)'
    <2>1. ASSUME NEW i \in DOMAIN file'[d]
          PROVE  Recorded(file[d][i])' /\ file'[d][i].dev # d
      <3>1. i + 1 \in DOMAIN file[d] /\ file'[d][i] = file[d][i + 1]
        BY <1>3, <1>8
      <3>2. PICK r \in Records : r = file[d][i + 1] /\ Recorded(r) /\ r.dev # d
        BY <3>1, <1>1, <1>2, RecordParts DEF FileOf
      <3>3. Recorded(r)'
        BY <3>2, <1>7, RecordedKept
      <3>4. file'[d][i] = r
        BY <3>1, <3>2
      <3> QED BY <3>2, <3>3, <3>4 DEF Recorded
    <2>2. pc'[d] = "import" => file'[d] # << >>
      BY <1>3, <1>8, <1>9
    <2>3. \A k \in keys'[d] :
             /\ k[1] # d
             /\ pc'[d] \in {"get", "import"} => blobs'[Providers[at'[d]]][k] # << >>
      BY <1>1, <1>2, <1>9 DEF FileOf
    <2> QED BY <2>1, <2>2, <2>3, <1>9 DEF FileOf
  <1>14. PushOf(d)'
    BY <1>1, <1>7, <1>9, NoPush
  <1>15. \A e \in Devices \ {d} : FileOf(e)' /\ OrderOf(e)' /\ PushOf(e)'
    <2>1. \A x, id : Covered(x, id) => Covered(x, id)'
      BY <1>1, CoveredKept
    <2> QED BY <2>1, <1>1, <1>7, <1>8, <1>9, RestKept
  <1> QED BY <1>1, <1>7, <1>10, <1>11, <1>12, <1>13, <1>14, <1>15
          DEF IInv, FileInv, OrderInv, PushInv

LEMMA RestartIInv ==
  ASSUME IInv, NEW d \in Devices, Restart(d)
  PROVE  IInv' /\ blobs' = blobs
  <1>1. /\ number' = [number EXCEPT ![d] = [c \in Callers |-> 0]]
        /\ pushed' = [pushed EXCEPT ![d] = 0]
        /\ pulled' = [pulled EXCEPT ![d] = [e \in Devices |-> 0]]
        /\ pc' = [pc EXCEPT ![d] = "idle"] /\ at' = [at EXCEPT ![d] = 1]
        /\ keys' = [keys EXCEPT ![d] = {}] /\ file' = [file EXCEPT ![d] = << >>]
        /\ kept' = [kept EXCEPT ![d] = Len(ops[d])] /\ fetched' = [fetched EXCEPT ![d] = {}]
        /\ ops' = ops /\ blobs' = blobs /\ missed' = missed
    BY DEF Restart, Goto
  <1>2. /\ TypeOK /\ CountInv /\ RowInv /\ Grows /\ 1 \in 1 .. Len(Providers)
        /\ \A e, g : RowsOf(e, g)' = RowsOf(e, g)
        /\ Len(ops[d]) \in Nat /\ DOMAIN ops[d] = 1 .. Len(ops[d])
    BY <1>1, Still, ProvidersKnown, RowFields DEF IInv
  <1>3. /\ pushed'[d] = 0 /\ pc'[d] = "idle" /\ keys'[d] = {} /\ file'[d] = << >>
        /\ kept'[d] = Len(ops[d])
        /\ \A e \in Devices \ {d} :
              /\ pushed'[e] = pushed[e] /\ pulled'[e] = pulled[e] /\ pc'[e] = pc[e] /\ at'[e] = at[e]
              /\ keys'[e] = keys[e] /\ file'[e] = file[e] /\ kept'[e] = kept[e]
    BY <1>1, <1>2 DEF TypeOK
  <1>4. \A e \in Devices, c \in Callers : number'[e][c] \in {0, number[e][c]}
    BY <1>1, <1>2 DEF TypeOK
  <1>5. TypeOK'
    <2>1. ops' \in [Devices -> Seq(Rows)] /\ blobs' \in [Backends -> [Keys -> Seq(Records)]]
      BY <1>1, <1>2 DEF TypeOK
    <2>2. /\ number' \in [Devices -> [Callers -> Nat]] /\ pushed' \in [Devices -> Nat]
          /\ pulled' \in [Devices -> [Devices -> Nat]]
      BY <1>1, <1>2 DEF TypeOK
    <2>3. /\ pc' \in [Devices -> {"idle", "put", "list", "get", "import"}]
          /\ at' \in [Devices -> 1 .. Len(Providers)]
          /\ keys' \in [Devices -> SUBSET Keys] /\ file' \in [Devices -> Seq(Records)]
      BY <1>1, <1>2 DEF TypeOK
    <2>4. kept' \in [Devices -> Nat] /\ fetched' \in [Devices -> SUBSET OpIds]
      BY <1>1, <1>2 DEF TypeOK
    <2> QED BY <2>1, <2>2, <2>3, <2>4 DEF TypeOK
  <1>6. CountInv' /\ RowInv' /\ BlobInv'
    BY <1>1, <1>2, <1>4, CountKept, RowInvKept, BlobsKept
  <1>7. FileOf(d)'
    BY <1>3 DEF FileOf
  <1>8. OrderOf(d)'
    <2>1. \A e \in Devices \ {d} : \A i \in RowsOf(d, e) : ~ i > Len(ops[d])
      BY <1>2 DEF RowsOf
    <2> QED BY <2>1, <1>1, <1>2, <1>3 DEF OrderOf
  <1>9. PushOf(d)'
    <2>1. Marked(d)' /\ Above(d)' /\ InFile(d)' /\ SoFar(d)'
      BY <1>3 DEF Marked, Above, InFile, SoFar
    <2>2. \A i \in RowsOf(d, d) : ops[d][i].seq \in Nat \ {0}
      BY <1>2, RowFields DEF RowsOf
    <2>3. Stored(d)'
      BY <2>2, <1>1, <1>2, <1>3 DEF Stored
    <2> QED BY <2>1, <2>3 DEF PushOf
  <1>10. \A e \in Devices \ {d} : FileOf(e)' /\ OrderOf(e)' /\ PushOf(e)'
    <2>1. \A x, id : Covered(x, id) => Covered(x, id)'
      BY <1>1, CoveredKept
    <2> QED BY <2>1, <1>1, <1>2, <1>3, RestKept
  <1> QED BY <1>1, <1>5, <1>6, <1>7, <1>8, <1>9, <1>10 DEF IInv, FileInv, OrderInv, PushInv

-----------------------------------------------------------------------------
(* Every step keeps the invariant, and what the providers hold.            *)
LEMMA NextIInv == IInv /\ [Next]_vars => IInv' /\ \A x \in Backends : Held(x) \subseteq Held(x)'
  <1> SUFFICES ASSUME IInv, [Next]_vars
               PROVE  IInv' /\ \A x \in Backends : Held(x) \subseteq Held(x)'
    OBVIOUS
  <1>1. blobs' = blobs => \A x \in Backends : Held(x) \subseteq Held(x)'
    BY DEF Held
  <1>2. ASSUME NEW d \in Devices, NEW c \in Callers, Number(d, c)
        PROVE  IInv' /\ \A x \in Backends : Held(x) \subseteq Held(x)'
    BY <1>1, <1>2, NumberIInv
  <1>3. ASSUME NEW d \in Devices, NEW c \in Callers, Insert(d, c)
        PROVE  IInv' /\ \A x \in Backends : Held(x) \subseteq Held(x)'
    BY <1>1, <1>3, InsertIInv
  <1>4. ASSUME NEW d \in Devices, StartPush(d)
        PROVE  IInv' /\ \A x \in Backends : Held(x) \subseteq Held(x)'
    BY <1>1, <1>4, StartPushIInv
  <1>5. ASSUME NEW d \in Devices, Put(d) \/ PutFails(d)
        PROVE  IInv' /\ \A x \in Backends : Held(x) \subseteq Held(x)'
    BY <1>5, PutIInv
  <1>6. ASSUME NEW d \in Devices, StartPull(d)
        PROVE  IInv' /\ \A x \in Backends : Held(x) \subseteq Held(x)'
    BY <1>1, <1>6, StartPullIInv
  <1>7. ASSUME NEW d \in Devices, List(d) \/ ListFails(d) \/ GetFails(d)
        PROVE  IInv' /\ \A x \in Backends : Held(x) \subseteq Held(x)'
    BY <1>1, <1>7, ListIInv
  <1>8. ASSUME NEW d \in Devices, Get(d)
        PROVE  IInv' /\ \A x \in Backends : Held(x) \subseteq Held(x)'
    BY <1>1, <1>8, GetIInv
  <1>9. ASSUME NEW d \in Devices, Import(d)
        PROVE  IInv' /\ \A x \in Backends : Held(x) \subseteq Held(x)'
    BY <1>1, <1>9, ImportIInv
  <1>10. ASSUME NEW d \in Devices, Restart(d)
         PROVE  IInv' /\ \A x \in Backends : Held(x) \subseteq Held(x)'
    BY <1>1, <1>10, RestartIInv
  <1>11. CASE UNCHANGED vars
    <2>1. /\ ops' = ops /\ number' = number /\ pushed' = pushed /\ pulled' = pulled
          /\ blobs' = blobs /\ pc' = pc /\ at' = at /\ keys' = keys /\ file' = file
          /\ kept' = kept /\ missed' = missed /\ fetched' = fetched
      BY <1>11 DEF vars, logVars, engineVars, loopVars, history
    <2>2. TypeOK' /\ Grows
      BY <2>1, Still DEF IInv, TypeOK
    <2>3. CountInv' /\ RowInv' /\ BlobInv'
      <3>1. \A e \in Devices, c \in Callers : number'[e][c] \in {0, number[e][c]}
        BY <2>1
      <3> QED BY <3>1, <2>1, <2>2, Still, CountKept, RowInvKept, BlobsKept DEF IInv
    <2>4. \A x, id : Covered(x, id) => Covered(x, id)'
      BY <2>1, CoveredKept
    <2>5. FileInv' /\ OrderInv' /\ PushInv'
      BY <2>1, <2>2, <2>4, RestKept DEF FileInv, OrderInv, PushInv
    <2> QED BY <1>1, <2>1, <2>2, <2>3, <2>5 DEF IInv
  <1> QED BY <1>2, <1>3, <1>4, <1>5, <1>6, <1>7, <1>8, <1>9, <1>10, <1>11 DEF Next

LEMMA Invariant == Spec => []IInv
  <1>1. IInv /\ [Next]_vars => IInv'
    BY NextIInv
  <1> QED BY <1>1, InitIInv, PTL DEF Spec

(* While a device runs, it imports the operations of another in the order  *)
(* of their numbers, and none twice (Pull, pulledSeq).                     *)
THEOREM ImportsAreInOrder == Spec => []ImportedInOrder
  <1>1. IInv => ImportedInOrder
    <2> SUFFICES ASSUME IInv, NEW d \in Devices, NEW e \in Devices \ {d},
                        NEW i \in RowsOf(d, e), NEW j \in RowsOf(d, e),
                        i > kept[d], j > kept[d], i < j
                 PROVE  Origin(ops[d][i]) < Origin(ops[d][j])
      BY DEF ImportedInOrder
    <2>1. OrderOf(d)
      BY DEF IInv, OrderInv
    <2> QED BY <2>1 DEF OrderOf
  <1> QED BY <1>1, Invariant, PTL

(* What counts as pushed is stored at every provider, but where its last   *)
(* Put failed (Push, pushedSeq).                                           *)
THEOREM PushedIsStored == Spec => []PushedStored
  <1>1. IInv => PushedStored
    <2> SUFFICES ASSUME IInv, NEW d \in Devices, NEW i \in RowsOf(d, d), NEW x \in Backends,
                        InTurn(d, i), ops[d][i].seq <= pushed[d]
                 PROVE  ops[d][i].id \in Held(x) \/ <<x, ops[d][i].id>> \in missed
      BY DEF PushedStored
    <2>1. Stored(d) /\ ops[d][i].id = <<d, i>>
      BY DEF IInv, PushInv, PushOf, RowInv, Sound, RowsOf
    <2> QED BY <2>1 DEF Stored, Covered
  <1> QED BY <1>1, Invariant, PTL

(* No operation that a provider holds is lost there when a later Push,     *)
(* also after a restart, writes under a key that is in use.                *)
THEOREM NothingForgotten == Spec => NeverForgotten
  <1>1. IInv /\ [Next]_vars => [\A x \in Backends : Held(x) \subseteq Held(x)']_vars
    BY NextIInv
  <1> QED BY <1>1, Invariant, PTL DEF Spec, NeverForgotten
=============================================================================
