--------------------------- MODULE DecisionsProofs --------------------------
(***************************************************************************)
(* What a device decides by itself, for all contents, texts, operations,   *)
(* providers and readers.                                                  *)
(***************************************************************************)
EXTENDS Decisions, FiniteSetTheorems, SequenceTheorems, WellFoundedInduction, TLAPS

-----------------------------------------------------------------------------
(***************************************************************************)
(* Counting up to a bound.                                                 *)
(***************************************************************************)
LEMMA LeastExists ==
  ASSUME NEW S \in SUBSET Nat, S # {}
  PROVE  \E n \in S : \A m \in S : n <= m
  <1>1. S \subseteq Nat
    OBVIOUS
  <1>2. PICK n \in S : \A m \in S : ~ (<<m, n>> \in OpToRel(<, Nat))
    BY <1>1, NatLessThanWellFounded, WFMin
  <1>3. \A m \in S : ~(m < n)
    BY <1>2 DEF OpToRel
  <1>. QED
    BY <1>1, <1>3

(* What holds of 0, and of each number up to n if of the one before.       *)
LEMMA CountUp ==
  ASSUME NEW n \in Nat, NEW S, 0 \in S, \A j \in 1 .. n : j - 1 \in S => j \in S
  PROVE  \A j \in 0 .. n : j \in S
  <1>. DEFINE B == (0 .. n) \ S
  <1>. SUFFICES ASSUME B # {} PROVE FALSE
    OBVIOUS
  <1>1. PICK j \in B : \A m \in B : j <= m
    <2>. HIDE DEF B
    <2>. QED
      BY LeastExists, B \subseteq Nat DEF B
  <1>2. j \in 1 .. n /\ j - 1 \in 0 .. n /\ ~(j <= j - 1)
    OBVIOUS
  <1>3. j - 1 \in S
    BY <1>1, <1>2
  <1>. QED
    BY <1>1, <1>2, <1>3

(* The greatest of some positions.                                         *)
LEMMA MaxUpTo ==
  ASSUME NEW j \in Nat, NEW S \in SUBSET (1 .. j), S # {}
  PROVE  Max(S) \in S /\ \A i \in S : i <= Max(S)
  <1>. DEFINE B == {n \in Nat : \A i \in S : i <= n}
  <1>1. PICK n \in B : \A m \in B : n <= m
    <2>1. j \in B
      OBVIOUS
    <2>. HIDE DEF B
    <2>. QED
      BY <2>1, LeastExists, B \subseteq Nat DEF B
  <1>2. n \in S
    <2>. SUFFICES ASSUME n \notin S PROVE FALSE
      OBVIOUS
    <2>1. \A i \in S : i \in Nat /\ i >= 1 /\ i <= n /\ i # n
      OBVIOUS
    <2>2. n >= 1 /\ n \in Nat
      <3>1. PICK i \in S : TRUE
        OBVIOUS
      <3>. QED
        BY <2>1, <3>1
    <2>3. n - 1 \in B
      BY <2>1, <2>2
    <2>. QED
      BY <1>1, <2>2, <2>3
  <1>3. \E m \in S : \A i \in S : m >= i
    BY <1>2
  <1>. HIDE DEF B
  <1>4. Max(S) \in S /\ \A i \in S : Max(S) >= i
    BY <1>3 DEF Max
  <1>. QED
    BY <1>4

-----------------------------------------------------------------------------
(***************************************************************************)
(* Pieces in a row.  FlattenSeq is a recursion on the number of pieces.    *)
(***************************************************************************)
IsFlat(f, s, n) == f = [i \in 1 .. n |-> IF i = 1 THEN s[i] ELSE f[i - 1] \o s[i]]

LEMMA FlatExists ==
  ASSUME NEW s, NEW n \in Nat
  PROVE  \E f : IsFlat(f, s, n)
  <1>. DEFINE S == {j \in Nat : \E f : IsFlat(f, s, j)}
  <1>1. 0 \in S
    <2>1. IsFlat([i \in 1 .. 0 |-> 0], s, 0)
      BY 1 .. 0 = {} DEF IsFlat
    <2>. QED
      BY <2>1
  <1>2. ASSUME NEW j \in 1 .. n, j - 1 \in S PROVE j \in S
    <2>1. PICK f : IsFlat(f, s, j - 1)
      BY <1>2
    <2>. DEFINE g == [i \in 1 .. j |-> IF i < j THEN f[i]
                                      ELSE IF i = 1 THEN s[i] ELSE f[i - 1] \o s[i]]
    <2>2. ASSUME NEW i \in 1 .. j
          PROVE  g[i] = IF i = 1 THEN s[i] ELSE g[i - 1] \o s[i]
      <3>1. CASE i < j
        <4>1. i \in 1 .. j - 1
          BY <3>1
        <4>2. f[i] = IF i = 1 THEN s[i] ELSE f[i - 1] \o s[i]
          BY <2>1, <4>1, Zenon DEF IsFlat
        <4>3. g[i] = f[i] /\ (i # 1 => g[i - 1] = f[i - 1])
          BY <3>1
        <4>. HIDE DEF g
        <4>. QED
          BY <4>2, <4>3
      <3>2. CASE i = j
        <4>1. i # 1 => g[i - 1] = f[i - 1]
          BY <3>2
        <4>2. g[i] = IF i = 1 THEN s[i] ELSE f[i - 1] \o s[i]
          BY <3>2
        <4>. HIDE DEF g
        <4>. QED
          BY <4>1, <4>2
      <3>. QED
        BY <3>1, <3>2
    <2>3. g = [i \in 1 .. j |-> g[i]]
      OBVIOUS
    <2>. HIDE DEF g
    <2>4. IsFlat(g, s, j)
      BY <2>2, <2>3, Zenon DEF IsFlat
    <2>. QED
      BY <2>4
  <1>. HIDE DEF S
  <1>3. n \in S
    BY <1>1, <1>2, CountUp
  <1>. QED
    BY <1>3 DEF S

(* What is there after each piece.                                         *)
IsRow(g, s, n) == /\ DOMAIN g = 0 .. n /\ g[0] = <<>> /\ g[n] = FlattenSeq(s)
                  /\ \A j \in 1 .. n : g[j] = g[j - 1] \o s[j]

LEMMA RowExists ==
  ASSUME NEW X, NEW s \in Seq(Seq(X))
  PROVE  \E g : IsRow(g, s, Len(s))
  <1>. DEFINE n == Len(s)
              f == CHOOSE h : IsFlat(h, s, n)
              g == [j \in 0 .. n |-> IF j = 0 THEN <<>> ELSE f[j]]
  <1>1. n \in Nat /\ IsFlat(f, s, n)
    BY FlatExists
  <1>2. n # 0 => FlattenSeq(s) = f[n]
    BY Zenon DEF FlattenSeq, IsFlat
  <1>3. n = 0 => FlattenSeq(s) = <<>>
    BY DEF FlattenSeq
  <1>4. ASSUME NEW j \in 1 .. n PROVE f[j] = IF j = 1 THEN s[j] ELSE f[j - 1] \o s[j]
    BY <1>1, Zenon DEF IsFlat
  <1>. HIDE DEF f
  <1>5. ASSUME NEW j \in 1 .. n PROVE g[j] = g[j - 1] \o s[j]
    <2>1. CASE j = 1
      <3>1. s[1] \in Seq(X) /\ g[0] = <<>> /\ g[1] = f[1] /\ f[1] = s[1]
        BY <2>1, <1>4
      <3>2. <<>> \o s[1] = s[1]
        BY <3>1, ConcatEmptySeq
      <3>3. j - 1 = 0
        BY <2>1
      <3>. HIDE DEF g
      <3>4. g[j] = s[1] /\ g[j - 1] \o s[j] = <<>> \o s[1]
        BY <2>1, <3>1, <3>3
      <3>. QED
        BY <3>2, <3>4
    <2>2. CASE j # 1
      <3>1. g[j] = f[j] /\ g[j - 1] = f[j - 1]
        BY <2>2
      <3>. HIDE DEF g
      <3>. QED
        BY <1>4, <2>2, <3>1
    <2>. QED
      BY <2>1, <2>2
  <1>6. g[0] = <<>> /\ DOMAIN g = 0 .. n /\ g[n] = FlattenSeq(s)
    BY <1>1, <1>2, <1>3
  <1>. HIDE DEF g, n
  <1>7. IsRow(g, s, n)
    BY <1>5, <1>6 DEF IsRow
  <1>. QED
    BY <1>7 DEF n

LEMMA ConcatElements ==
  ASSUME NEW X, NEW a \in Seq(X), NEW b \in Seq(X)
  PROVE  \A x : x \in Range(a \o b) <=> x \in Range(a) \/ x \in Range(b)
  <1>. DEFINE c == a \o b
  <1>1. c \in Seq(X) /\ Len(c) = Len(a) + Len(b)
    OBVIOUS
  <1>2. \A i \in 1 .. Len(a) : c[i] = a[i]
    OBVIOUS
  <1>3. \A i \in 1 .. Len(b) : c[Len(a) + i] = b[i]
    OBVIOUS
  <1>4. \A i \in 1 .. Len(c) : i \in 1 .. Len(a) \/ (i - Len(a) \in 1 .. Len(b) /\ c[i] = b[i - Len(a)])
    OBVIOUS
  <1>5. /\ DOMAIN c = 1 .. Len(c) /\ DOMAIN a = 1 .. Len(a) /\ DOMAIN b = 1 .. Len(b)
        /\ Len(a) \in Nat /\ Len(b) \in Nat
    OBVIOUS
  <1>. HIDE DEF c
  <1>6. ASSUME NEW x, x \in Range(c) PROVE x \in Range(a) \/ x \in Range(b)
    BY <1>2, <1>4, <1>5, <1>6 DEF Range
  <1>7. ASSUME NEW x, x \in Range(a) PROVE x \in Range(c)
    BY <1>1, <1>2, <1>5, <1>7 DEF Range
  <1>8. ASSUME NEW x, x \in Range(b) PROVE x \in Range(c)
    <2>1. PICK i \in 1 .. Len(b) : x = b[i]
      BY <1>5, <1>8 DEF Range
    <2>2. Len(a) + i \in DOMAIN c /\ c[Len(a) + i] = x
      BY <1>1, <1>3, <1>5, <2>1
    <2>. QED
      BY <2>2 DEF Range
  <1>. QED
    BY <1>6, <1>7, <1>8 DEF c

(* The elements of a row are those of its pieces.                          *)
LEMMA RowElements ==
  ASSUME NEW X, NEW s \in Seq(Seq(X))
  PROVE  /\ FlattenSeq(s) \in Seq(X)
         /\ \A x : x \in Range(FlattenSeq(s)) <=> \E i \in DOMAIN s : x \in Range(s[i])
  <1>. DEFINE n == Len(s)
  <1>1. PICK g : IsRow(g, s, n)
    BY RowExists
  <1>. DEFINE Here(j) == /\ g[j] \in Seq(X)
                         /\ \A x : x \in Range(g[j]) <=> \E i \in 1 .. j : x \in Range(s[i])
              S == {j \in 0 .. n : Here(j)}
  <1>2. 0 \in S
    <2>1. g[0] = <<>> /\ n \in Nat
      BY <1>1 DEF IsRow
    <2>2. Range(<<>>) = {} /\ 1 .. 0 = {}
      BY DEF Range
    <2>3. Here(0)
      BY <2>1, <2>2
    <2>4. 0 \in 0 .. n
      OBVIOUS
    <2>. QED
      BY <2>3, <2>4
  <1>3. ASSUME NEW j \in 1 .. n, j - 1 \in S PROVE j \in S
    <2>1. j - 1 \in 0 .. n /\ Here(j - 1) /\ s[j] \in Seq(X)
      BY <1>3
    <2>2. g[j] = g[j - 1] \o s[j]
      BY <1>1 DEF IsRow
    <2>3. g[j] \in Seq(X)
      BY <2>1, <2>2
    <2>4. \A x : x \in Range(g[j]) <=> x \in Range(g[j - 1]) \/ x \in Range(s[j])
      BY <2>1, <2>2, ConcatElements
    <2>5. \A x : x \in Range(g[j]) <=> \E i \in 1 .. j : x \in Range(s[i])
      <3>1. \A i : i \in 1 .. j <=> i \in 1 .. j - 1 \/ i = j
        OBVIOUS
      <3>. QED
        BY <2>1, <2>4, <3>1
    <2>. QED
      BY <2>3, <2>5
  <1>. HIDE DEF S
  <1>4. n \in Nat /\ n \in 0 .. n /\ DOMAIN s = 1 .. n
    OBVIOUS
  <1>5. n \in S
    BY <1>2, <1>3, <1>4, CountUp
  <1>6. Here(n) /\ g[n] = FlattenSeq(s)
    BY <1>1, <1>5 DEF S, IsRow
  <1>. QED
    BY <1>4, <1>6

-----------------------------------------------------------------------------
(***************************************************************************)
(* Conflicts.  The log of a device is in the order of its times, and says  *)
(* of each path that no rename was from or to how the device came to have  *)
(* the file or not to have it.                                             *)
(***************************************************************************)
Operation == [device : {deviceID}, type : {"create", "update", "delete", "rename"},
              path : Paths, to : Paths, time : Nat]

LogsType == /\ base \in SUBSET Paths /\ files \in [Devices -> SUBSET Paths]
            /\ ops \in [Devices -> Seq(Operation)] /\ clock \in Nat

Stamped == \A d \in Devices : \A i \in DOMAIN ops[d] :
               /\ ops[d][i].time <= clock
               /\ \A j \in 1 .. i - 1 : ops[d][j].time < ops[d][i].time

Has(d, p, type)  == \E o \in OpsOf(d) : o.path = p /\ o.type = type
RenamedBy(d, p) == \E o \in OpsOf(d) : o.type = "rename" /\ p \in {o.path, o.to}

Accounted == \A d \in Devices, p \in Paths : ~RenamedBy(d, p) =>
                 /\ p \in files[d] \ base => Has(d, p, "create")
                 /\ p \in base \ files[d] => Has(d, p, "delete")
                 /\ p \in base /\ Has(d, p, "create") => Has(d, p, "delete")
                 /\ p \notin base /\ Has(d, p, "update") => Has(d, p, "create")

LogsInv == LogsType /\ Stamped /\ Accounted

LEMMA OperationAt ==
  ASSUME NEW s \in Seq(Operation), NEW i \in DOMAIN s
  PROVE  s[i] \in Operation /\ s[i].time \in Nat
  <1>1. s[i] \in Operation
    OBVIOUS
  <1>. QED
    BY <1>1 DEF Operation

LEMMA TwoDevices ==
  ASSUME NEW d \in Devices
  PROVE  /\ Other(d) \in Devices \ {d}
         /\ \A e \in Devices : e = d \/ e = Other(d)
  <1>1. IsFiniteSet(Devices \ {d}) /\ Cardinality(Devices \ {d}) = 1
    BY ConflictsAssumption, FS_RemoveElement
  <1>2. PICK e : Devices \ {d} = {e}
    BY <1>1, FS_Singleton
  <1>3. \E x \in Devices : x # d
    BY <1>2
  <1>4. Other(d) \in Devices /\ Other(d) # d
    BY <1>3 DEF Other
  <1>. QED
    BY <1>2, <1>4

LEMMA InitLogs == OpsInit => LogsInv
  <1>. SUFFICES ASSUME OpsInit PROVE LogsInv
    OBVIOUS
  <1>1. LogsType
    BY DEF OpsInit, LogsType
  <1>2. \A d \in Devices : ops[d] = <<>> /\ OpsOf(d) = {} /\ files[d] = base
    BY DEF OpsInit, OpsOf, ToSet
  <1>3. Stamped
    BY <1>2 DEF Stamped
  <1>4. Accounted
    BY <1>2 DEF Accounted, Has
  <1>. QED
    BY <1>1, <1>3, <1>4 DEF LogsInv

(* The operation that is logged, as the last one of its device.            *)
Logged(type, p, to) == [device |-> deviceID, type |-> type, path |-> p, to |-> to, time |-> clock + 1]

LEMMA LogOpIs ==
  ASSUME LogsInv, NEW d \in Devices, NEW type, NEW p \in Paths, NEW to \in Paths,
         type \in {"create", "update", "delete", "rename"}, LogOp(d, type, p, to)
  PROVE  /\ ops' \in [Devices -> Seq(Operation)] /\ clock' \in Nat /\ base' = base
         /\ OpsOf(d)' = OpsOf(d) \cup {Logged(type, p, to)}
         /\ \A e \in Devices \ {d} : OpsOf(e)' = OpsOf(e)
         /\ Stamped'
  <1>. DEFINE o == Logged(type, p, to)
              s == ops[d]
  <1>1. /\ clock \in Nat /\ clock' = clock + 1 /\ base' = base /\ s \in Seq(Operation)
        /\ ops' = [ops EXCEPT ![d] = Append(s, o)]
    BY DEF LogOp, LogsInv, LogsType, Logged
  <1>2. o \in Operation /\ o.time = clock + 1
    BY <1>1 DEF Logged, Operation
  <1>3. ops \in [Devices -> Seq(Operation)]
    BY DEF LogsInv, LogsType
  <1>. HIDE DEF o
  <1>4. /\ ops'[d] = Append(s, o) /\ \A e \in Devices \ {d} : ops'[e] = ops[e]
        /\ ops' \in [Devices -> Seq(Operation)]
    BY <1>1, <1>2, <1>3
  <1>5. /\ DOMAIN Append(s, o) = 1 .. Len(s) + 1 /\ Append(s, o)[Len(s) + 1] = o
        /\ DOMAIN s = 1 .. Len(s) /\ \A i \in 1 .. Len(s) : Append(s, o)[i] = s[i]
        /\ Len(s) \in Nat
    BY <1>1, <1>2
  <1>6. OpsOf(d)' = OpsOf(d) \cup {o}
    <2>1. OpsOf(d)' = {Append(s, o)[i] : i \in 1 .. Len(s) + 1}
      BY <1>4, <1>5 DEF OpsOf, ToSet
    <2>2. OpsOf(d) = {s[i] : i \in 1 .. Len(s)}
      BY <1>5 DEF OpsOf, ToSet
    <2>3. \A i : i \in 1 .. Len(s) + 1 <=> i \in 1 .. Len(s) \/ i = Len(s) + 1
      BY <1>5
    <2>. QED
      BY <1>5, <2>1, <2>2, <2>3
  <1>7. \A e \in Devices \ {d} : OpsOf(e)' = OpsOf(e)
    BY <1>4 DEF OpsOf, ToSet
  <1>8. Stamped'
    <2>. SUFFICES ASSUME NEW e \in Devices, NEW i \in DOMAIN ops'[e]
                  PROVE  /\ ops'[e][i].time <= clock'
                         /\ \A j \in 1 .. i - 1 : ops'[e][j].time < ops'[e][i].time
      BY DEF Stamped
    <2>1. \A x \in Devices : \A n \in DOMAIN ops[x] :
             /\ ops[x][n].time <= clock
             /\ \A j \in 1 .. n - 1 : ops[x][j].time < ops[x][n].time
      BY DEF LogsInv, Stamped
    <2>2. \A x \in Devices : \A n \in DOMAIN ops[x] : ops[x][n].time \in Nat
      <3>1. \A x \in Devices : ops[x] \in Seq(Operation)
        BY <1>3
      <3>. QED
        BY <3>1, OperationAt
    <2>3. CASE e # d
      BY <1>1, <1>4, <2>1, <2>2, <2>3
    <2>4. CASE e = d /\ i = Len(s) + 1
      <3>1. \A j \in 1 .. i - 1 : j \in DOMAIN s /\ ops'[e][j] = s[j]
        BY <1>4, <1>5, <2>4
      <3>2. ops'[e][i] = o
        BY <1>4, <1>5, <2>4
      <3>. QED
        BY <1>1, <1>2, <2>1, <2>2, <2>4, <3>1, <3>2
    <2>5. CASE e = d /\ i # Len(s) + 1
      <3>1. i \in DOMAIN s /\ ops'[e][i] = s[i]
        BY <1>4, <1>5, <2>5
      <3>2. \A j \in 1 .. i - 1 : j \in DOMAIN s /\ ops'[e][j] = s[j]
        BY <1>4, <1>5, <2>5, <3>1
      <3>. QED
        BY <1>1, <2>1, <2>2, <2>5, <3>1, <3>2
    <2>. QED
      BY <2>3, <2>4, <2>5
  <1>. QED
    BY <1>1, <1>4, <1>6, <1>7, <1>8 DEF o

(* What a call does to the files of its device is logged with it.          *)
LEMMA AccountedFor ==
  ASSUME LogsInv, NEW d \in Devices, NEW p \in Paths, NEW to \in Paths, NEW type,
         type \in {"create", "update", "delete", "rename"}, LogOp(d, type, p, to),
         files' \in [Devices -> SUBSET Paths],
         \A e \in Devices \ {d} : files'[e] = files[e],
         \A q \in Paths : q # p /\ (type = "rename" => q # to) =>
                              (q \in files'[d] <=> q \in files[d]),
         type \in {"create", "update"} => p \in files'[d] /\ (type = "update" <=> p \in files[d]),
         type = "delete" => p \notin files'[d]
  PROVE  LogsInv'
  <1>. DEFINE o == Logged(type, p, to)
  <1>1. /\ ops' \in [Devices -> Seq(Operation)] /\ clock' \in Nat /\ base' = base
        /\ OpsOf(d)' = OpsOf(d) \cup {o} /\ Stamped'
        /\ \A e \in Devices \ {d} : OpsOf(e)' = OpsOf(e)
    BY LogOpIs
  <1>2. o.type = type /\ o.path = p /\ o.to = to
    BY DEF Logged
  <1>3. LogsType'
    BY <1>1 DEF LogsType, LogsInv
  <1>4. ASSUME NEW e \in Devices, NEW q \in Paths, ~RenamedBy(e, q)'
        PROVE  /\ q \in files'[e] \ base' => Has(e, q, "create")'
               /\ q \in base' \ files'[e] => Has(e, q, "delete")'
               /\ q \in base' /\ Has(e, q, "create")' => Has(e, q, "delete")'
               /\ q \notin base' /\ Has(e, q, "update")' => Has(e, q, "create")'
    <2>. HIDE DEF o
    <2>1. ~RenamedBy(e, q)
      BY <1>1, <1>4 DEF RenamedBy
    <2>2. /\ q \in files[e] \ base => Has(e, q, "create")
          /\ q \in base \ files[e] => Has(e, q, "delete")
          /\ q \in base /\ Has(e, q, "create") => Has(e, q, "delete")
          /\ q \notin base /\ Has(e, q, "update") => Has(e, q, "create")
      BY <2>1 DEF LogsInv, Accounted
    <2>3. CASE e # d
      BY <1>1, <2>2, <2>3 DEF Has
    <2>4. CASE e = d /\ (q # p \/ type = "rename")
      <3>1. q # p /\ (type = "rename" => q # to)
        BY <1>1, <1>2, <1>4, <2>4 DEF RenamedBy
      <3>2. \A t : Has(d, q, t)' <=> Has(d, q, t)
        BY <1>1, <1>2, <3>1 DEF Has
      <3>3. q \in files'[d] <=> q \in files[d]
        BY <3>1
      <3>. HIDE DEF Has
      <3>. QED
        BY <1>1, <2>2, <2>4, <3>2, <3>3
    <2>5. CASE e = d /\ q = p /\ type # "rename"
      <3>1. \A t : Has(d, p, t)' <=> Has(d, p, t) \/ t = type
        BY <1>1, <1>2 DEF Has
      <3>. HIDE DEF Has
      <3>. QED
        BY <1>1, <2>2, <2>5, <3>1
    <2>. QED
      BY <2>3, <2>4, <2>5
  <1>5. Accounted'
    BY <1>4 DEF Accounted
  <1>. QED
    BY <1>1, <1>3, <1>5 DEF LogsInv

LEMMA WriteLogs ==
  ASSUME LogsInv, NEW d \in Devices, NEW p \in Paths, Write(d, p)
  PROVE  LogsInv'
  <1>. DEFINE type == IF p \in files[d] THEN "update" ELSE "create"
  <1>1. LogOp(d, type, p, p) /\ files' = [files EXCEPT ![d] = @ \cup {p}]
    BY DEF Write
  <1>2. files \in [Devices -> SUBSET Paths]
    BY DEF LogsInv, LogsType
  <1>3. files' \in [Devices -> SUBSET Paths]
    BY <1>1, <1>2
  <1>4. files'[d] = files[d] \cup {p} /\ \A e \in Devices \ {d} : files'[e] = files[e]
    BY <1>1, <1>2
  <1>5. type \in {"create", "update"} /\ (type = "update" <=> p \in files[d])
    OBVIOUS
  <1>. HIDE DEF type
  <1>. QED
    BY <1>1, <1>3, <1>4, <1>5, AccountedFor

LEMMA DeleteLogs ==
  ASSUME LogsInv, NEW d \in Devices, NEW p \in Paths, Delete(d, p)
  PROVE  LogsInv'
  <1>1. LogOp(d, "delete", p, p) /\ files' = [files EXCEPT ![d] = @ \ {p}]
    BY DEF Delete
  <1>2. files \in [Devices -> SUBSET Paths]
    BY DEF LogsInv, LogsType
  <1>3. files' \in [Devices -> SUBSET Paths]
    BY <1>1, <1>2
  <1>4. files'[d] = files[d] \ {p} /\ \A e \in Devices \ {d} : files'[e] = files[e]
    BY <1>1, <1>2
  <1>. QED
    BY <1>1, <1>3, <1>4, AccountedFor

LEMMA RenameLogs ==
  ASSUME LogsInv, NEW d \in Devices, NEW p \in Paths, NEW q \in Paths, Rename(d, p, q)
  PROVE  LogsInv'
  <1>1. /\ LogOp(d, "rename", p, q)
        /\ files' = [files EXCEPT ![d] = IF p \in @ THEN (@ \ {p}) \cup {q} ELSE @]
    BY DEF Rename
  <1>2. files \in [Devices -> SUBSET Paths]
    BY DEF LogsInv, LogsType
  <1>3. files' \in [Devices -> SUBSET Paths]
    BY <1>1, <1>2
  <1>4. /\ files'[d] = IF p \in files[d] THEN (files[d] \ {p}) \cup {q} ELSE files[d]
        /\ \A e \in Devices \ {d} : files'[e] = files[e]
    BY <1>1, <1>2
  <1>5. \A x \in Paths : x # p /\ x # q => (x \in files'[d] <=> x \in files[d])
    BY <1>4
  <1>. QED
    BY <1>1, <1>3, <1>4, <1>5, AccountedFor

LEMMA UnchangedLogs ==
  ASSUME LogsInv, UNCHANGED opsVars
  PROVE  LogsInv'
  BY DEF LogsInv, opsVars, LogsType, Stamped, Accounted, RenamedBy, Has, OpsOf

LEMMA NextLogs == LogsInv /\ [Next]_vars => LogsInv'
  <1>. SUFFICES ASSUME LogsInv, [Next]_vars PROVE LogsInv'
    OBVIOUS
  <1>1. CASE UNCHANGED vars
    BY <1>1, UnchangedLogs DEF vars
  <1>2. CASE Next
    <2>1. CASE UNCHANGED opsVars
      BY <2>1, UnchangedLogs
    <2>2. CASE \E d \in Devices, p \in Paths :
                  Write(d, p) \/ Delete(d, p) \/ \E q \in Paths : Rename(d, p, q)
      BY <2>2, WriteLogs, DeleteLogs, RenameLogs
    <2>. QED
      BY <1>2, <2>1, <2>2 DEF Next, Reading
  <1>. QED
    BY <1>1, <1>2

LEMMA AlwaysLogs == Spec => []LogsInv
  <1>1. Init => LogsInv
    BY InitLogs DEF Init
  <1>. QED
    BY <1>1, NextLogs, PTL DEF Spec

-----------------------------------------------------------------------------
(***************************************************************************)
(* What DetectConflicts finds.                                             *)
(***************************************************************************)

(* The entry of the index by path is the latest operation there.           *)
LEMMA LatestIs ==
  ASSUME LogsInv, NEW d \in Devices, NEW p, p \in PathsOf(ops[d])
  PROVE  /\ Latest(d, p) = LastAt(ops[d], p)
         /\ \E i \in DOMAIN ops[d] : ops[d][i] = LastAt(ops[d], p)
         /\ LastAt(ops[d], p).path = p
  <1>. DEFINE s == ops[d]
              S == {i \in DOMAIN s : s[i].path = p}
              o == s[Max(S)]
  <1>1. s \in Seq(Operation) /\ Len(s) \in Nat /\ DOMAIN s = 1 .. Len(s)
    BY DEF LogsInv, LogsType
  <1>2. S # {} /\ S \in SUBSET (1 .. Len(s))
    BY <1>1 DEF PathsOf
  <1>3. Max(S) \in S /\ \A i \in S : i <= Max(S)
    <2>. HIDE DEF S
    <2>. QED
      BY <1>1, <1>2, MaxUpTo
  <1>4. \A i \in S : i # Max(S) => s[i].time < o.time
    <2>1. \A i \in S : i \in 1 .. Len(s) /\ (i # Max(S) => i \in 1 .. Max(S) - 1)
      <3>1. \A i \in S : i \in 1 .. Len(s) /\ i <= Max(S)
        BY <1>2, <1>3
      <3>2. Max(S) \in 1 .. Len(s)
        BY <1>3, <3>1
      <3>. HIDE DEF S
      <3>. QED
        BY <1>1, <3>1, <3>2
    <2>2. Max(S) \in DOMAIN s
      BY <1>3
    <2>. HIDE DEF S, o
    <2>3. \A i \in 1 .. Max(S) - 1 : s[i].time < s[Max(S)].time
      BY <2>2 DEF LogsInv, Stamped
    <2>. QED
      BY <2>1, <2>3 DEF o
  <1>5. \A i \in DOMAIN s : s[i].time \in Nat
    BY <1>1, OperationAt
  <1>6. o \in OpsOf(d) /\ o.path = p /\ \A n \in OpsOf(d) : n.path = p => n.time <= o.time
    <2>1. Max(S) \in DOMAIN s /\ s[Max(S)].path = p
      BY <1>3
    <2>2. \A i \in DOMAIN s : s[i].path = p => i \in S
      OBVIOUS
    <2>. HIDE DEF S
    <2>. QED
      BY <1>4, <1>5, <2>1, <2>2 DEF OpsOf, ToSet
  <1>7. ASSUME NEW x \in OpsOf(d), x.path = p, \A n \in OpsOf(d) : n.path = p => n.time <= x.time
        PROVE  x = o
    <2>1. PICK i \in DOMAIN s : s[i] = x
      BY DEF OpsOf, ToSet
    <2>2. i \in S
      BY <1>7, <2>1
    <2>3. o.time <= x.time /\ o.time \in Nat /\ x.time \in Nat
      BY <1>3, <1>5, <1>6, <1>7, <2>1
    <2>. HIDE DEF S, o
    <2>4. i = Max(S)
      BY <1>4, <2>1, <2>2, <2>3
    <2>. QED
      BY <2>1, <2>4 DEF o
  <1>8. Latest(d, p) = o
    <2>. HIDE DEF o, S, s
    <2>. QED
      BY <1>6, <1>7 DEF Latest
  <1>9. LastAt(s, p) = o
    BY DEF LastAt
  <1>. QED
    BY <1>3, <1>8, <1>9

Pair(a, B) == [opA |-> a, opB |-> LastAt(B, a.path)]

LEMMA FoundIs ==
  ASSUME LogsInv, NEW d \in Devices
  PROVE  \A c : c \in Range(Found(d)) <=>
                  \E i \in DOMAIN ops[d] : /\ Hit(ops[d][i], ops[Other(d)])
                                           /\ c = Pair(ops[d][i], ops[Other(d)])
  <1>. DEFINE A == ops[d]
              B == ops[Other(d)]
              s == [i \in DOMAIN A |-> IF Hit(A[i], B) THEN <<Pair(A[i], B)>> ELSE <<>>]
              X == {Pair(A[i], B) : i \in DOMAIN A}
  <1>1. A \in Seq(Operation)
    BY DEF LogsInv, LogsType
  <1>2. ASSUME NEW i \in DOMAIN A
        PROVE  s[i] \in Seq(X) /\ \A c : c \in Range(s[i]) <=> Hit(A[i], B) /\ c = Pair(A[i], B)
    <2>1. CASE Hit(A[i], B)
      <3>1. s[i] = <<Pair(A[i], B)>> /\ Pair(A[i], B) \in X
        BY <2>1
      <3>. HIDE DEF s, X
      <3>. QED
        BY <2>1, <3>1 DEF Range
    <2>2. CASE ~Hit(A[i], B)
      <3>1. s[i] = <<>>
        BY <2>2
      <3>. HIDE DEF s, X
      <3>. QED
        BY <2>2, <3>1 DEF Range
    <2>. QED
      BY <2>1, <2>2
  <1>3. DOMAIN s = DOMAIN A /\ DOMAIN A = 1 .. Len(A) /\ Len(A) \in Nat
    BY <1>1
  <1>4. s \in Seq(Seq(X))
    <2>1. \A i \in 1 .. Len(A) : s[i] \in Seq(X)
      BY <1>2, <1>3
    <2>2. s = [i \in 1 .. Len(A) |-> s[i]]
      BY <1>3
    <2>. HIDE DEF s, X
    <2>. QED
      BY <1>3, <2>1, <2>2
  <1>5. Found(d) = FlattenSeq(s)
    BY DEF Found, DetectConflicts, Pair
  <1>. HIDE DEF s, X
  <1>6. \A c : c \in Range(FlattenSeq(s)) <=> \E i \in DOMAIN s : c \in Range(s[i])
    BY <1>4, RowElements
  <1>. QED
    BY <1>2, <1>3, <1>5, <1>6

LEMMA KindsAre ==
  /\ \A t : (\E kind \in DOMAIN Kinds : t \in Kinds[kind]) <=>
               t \in {<<"update", "update">>, <<"create", "create">>,
                      <<"update", "delete">>, <<"delete", "update">>}
  /\ Kinds.ed = {<<"update", "delete">>, <<"delete", "update">>}
  <1>1. DOMAIN Kinds = {"ee", "cc", "ed"}
    BY DEF Kinds
  <1>2. /\ Kinds["ee"] = {<<"update", "update">>} /\ Kinds["cc"] = {<<"create", "create">>}
        /\ Kinds["ed"] = {<<"update", "delete">>, <<"delete", "update">>}
    BY DEF Kinds
  <1>. QED
    BY <1>1, <1>2

(* The latest operations of the two devices at a path that both touched.   *)
LEMMA BothLatest ==
  ASSUME LogsInv, NEW d \in Devices, NEW p \in Shared
  PROVE  /\ LastTypes(p) = {Latest(d, p).type, Latest(Other(d), p).type}
         /\ Other(d) \in Devices /\ p \in PathsOf(ops[Other(d)])
         /\ LastAt(ops[Other(d)], p) = Latest(Other(d), p)
         /\ Latest(d, p).path = p
         /\ \E i \in DOMAIN ops[d] : ops[d][i] = Latest(d, p)
  <1>1. /\ Other(d) \in Devices /\ \A e \in Devices : e = d \/ e = Other(d)
        /\ p \in PathsOf(ops[d]) /\ p \in PathsOf(ops[Other(d)])
    BY TwoDevices DEF Shared
  <1>2. LastTypes(p) = {Latest(d, p).type, Latest(Other(d), p).type}
    BY <1>1 DEF LastTypes
  <1>3. /\ Latest(d, p) = LastAt(ops[d], p) /\ LastAt(ops[d], p).path = p
        /\ \E i \in DOMAIN ops[d] : ops[d][i] = LastAt(ops[d], p)
    BY <1>1, LatestIs
  <1>4. /\ Latest(Other(d), p) = LastAt(ops[Other(d)], p)
        /\ \E i \in DOMAIN ops[Other(d)] : ops[Other(d)][i] = LastAt(ops[Other(d)], p)
    BY <1>1, LatestIs
  <1>. QED
    BY <1>1, <1>2, <1>3, <1>4

(* What is found at a path, and what becomes of it.                        *)
LEMMA FoundPairs ==
  ASSUME LogsInv, NEW d \in Devices, NEW i \in DOMAIN Found(d)
  PROVE  /\ \E a \in OpsOf(d) : Hit(a, ops[Other(d)]) /\ Found(d)[i] = Pair(a, ops[Other(d)])
         /\ Resolved(d)[i].applied = Applied(Found(d)[i])
         /\ Resolved(d)[i].copy =
               IF Types(Found(d)[i].opA, Found(d)[i].opB) \in Kinds.ed THEN {}
               ELSE {Found(d)[i].opB.device}
  <1>1. Found(d)[i] \in Range(Found(d))
    BY DEF Range
  <1>2. \E j \in DOMAIN ops[d] : /\ Hit(ops[d][j], ops[Other(d)])
                                 /\ Found(d)[i] = Pair(ops[d][j], ops[Other(d)])
    BY <1>1, FoundIs
  <1>3. \E a \in OpsOf(d) : Hit(a, ops[Other(d)]) /\ Found(d)[i] = Pair(a, ops[Other(d)])
    BY <1>2 DEF OpsOf, ToSet
  <1>4. Resolved(d)[i] = [applied |-> Applied(Found(d)[i]),
                          copy |-> IF Types(Found(d)[i].opA, Found(d)[i].opB) \in Kinds.ed THEN {}
                                   ELSE {Found(d)[i].opB.device}]
    BY DEF Resolved, ResolveConflicts
  <1>. QED
    BY <1>3, <1>4

LEMMA HitsAreFound ==
  ASSUME LogsInv, NEW d \in Devices, NEW p \in Shared, NEW a \in OpsOf(d), a.path = p,
         \E kind \in DOMAIN Kinds : <<a.type, Latest(Other(d), p).type>> \in Kinds[kind]
  PROVE  /\ FoundAt(d, p)
         /\ \E i \in DOMAIN Found(d) :
               Found(d)[i].opA = a /\ Found(d)[i].opB = Latest(Other(d), p)
  <1>1. p \in PathsOf(ops[Other(d)]) /\ LastAt(ops[Other(d)], p) = Latest(Other(d), p)
    BY BothLatest
  <1>2. Hit(a, ops[Other(d)])
    BY <1>1, Zenon DEF Hit, Types
  <1>3. \E j \in DOMAIN ops[d] : ops[d][j] = a
    BY DEF OpsOf, ToSet
  <1>4. Pair(a, ops[Other(d)]) \in Range(Found(d))
    BY <1>2, <1>3, FoundIs
  <1>5. PICK i \in DOMAIN Found(d) : Found(d)[i] = Pair(a, ops[Other(d)])
    BY <1>4 DEF Range
  <1>6. Found(d)[i].opA = a /\ Found(d)[i].opB = Latest(Other(d), p)
    BY <1>1, <1>5 DEF Pair
  <1>. QED
    BY <1>6 DEF FoundAt

LEMMA EditsSurvive == LogsInv => EditSurvives
  <1>. SUFFICES ASSUME LogsInv, NEW d \in Devices, NEW p \in Shared,
                       LastTypes(p) = {"update", "delete"}
                PROVE  /\ FoundAt(d, p)
                       /\ \A i \in DOMAIN Found(d) : Found(d)[i].opA.path = p =>
                             Resolved(d)[i].applied.type # "delete"
    BY DEF EditSurvives
  <1>. DEFINE b == Latest(Other(d), p)
  <1>1. /\ {Latest(d, p).type, b.type} = {"update", "delete"}
        /\ LastAt(ops[Other(d)], p) = b
        /\ Latest(d, p).path = p /\ Latest(d, p) \in OpsOf(d)
    BY BothLatest DEF OpsOf, ToSet
  <1>. HIDE DEF b
  <1>2. FoundAt(d, p)
    <2>1. <<Latest(d, p).type, b.type>> \in {<<"update", "delete">>, <<"delete", "update">>}
      BY <1>1
    <2>2. \E kind \in DOMAIN Kinds : <<Latest(d, p).type, b.type>> \in Kinds[kind]
      BY <2>1, KindsAre
    <2>. QED
      BY <1>1, <2>2, HitsAreFound DEF b
  <1>3. ASSUME NEW i \in DOMAIN Found(d), Found(d)[i].opA.path = p
        PROVE  Resolved(d)[i].applied.type # "delete"
    <2>1. PICK a \in OpsOf(d) : Hit(a, ops[Other(d)]) /\ Found(d)[i] = Pair(a, ops[Other(d)])
      BY FoundPairs
    <2>2. Found(d)[i].opA = a /\ a.path = p /\ Found(d)[i].opB = b
      BY <1>1, <1>3, <2>1 DEF Pair
    <2>3. <<a.type, b.type>> \in {<<"update", "update">>, <<"create", "create">>,
                                  <<"update", "delete">>, <<"delete", "update">>}
      BY <1>1, <2>1, <2>2, KindsAre DEF Hit, Types
    <2>4. b.type \in {"update", "delete"}
      BY <1>1
    <2>5. Applied(Found(d)[i]) = IF <<a.type, b.type>> \in Kinds.ed /\ a.type = "delete" THEN b ELSE a
      BY <2>2 DEF Applied, Types
    <2>6. Applied(Found(d)[i]).type # "delete"
      BY <2>3, <2>4, <2>5, KindsAre
    <2>. QED
      BY <2>6, FoundPairs
  <1>. QED
    BY <1>2, <1>3

(* EditSurvives (DetectConflicts, ResolveConflicts): a file that one       *)
(* device has edited last and the other has deleted last is found by both, *)
(* and no resolution of it applies the deletion.                           *)
THEOREM EditSurvivesAlways == Spec => []EditSurvives
  BY AlwaysLogs, EditsSurvive, PTL

LEMMA BothAreKept == LogsInv => BothKept
  <1>. SUFFICES ASSUME LogsInv, NEW d \in Devices, NEW p \in Shared, LastTypes(p) = {"update"}
                PROVE  \E i \in DOMAIN Found(d) :
                          /\ Resolved(d)[i].applied = Latest(d, p)
                          /\ Found(d)[i].opB = Latest(Other(d), p)
                          /\ Resolved(d)[i].copy # {}
    BY DEF BothKept
  <1>1. /\ {Latest(d, p).type, Latest(Other(d), p).type} = {"update"}
        /\ Latest(d, p).path = p /\ Latest(d, p) \in OpsOf(d)
    BY BothLatest DEF OpsOf, ToSet
  <1>2. Latest(d, p).type = "update" /\ Latest(Other(d), p).type = "update"
    BY <1>1
  <1>3. \E kind \in DOMAIN Kinds : <<Latest(d, p).type, Latest(Other(d), p).type>> \in Kinds[kind]
    BY <1>2, KindsAre
  <1>4. PICK i \in DOMAIN Found(d) :
           Found(d)[i].opA = Latest(d, p) /\ Found(d)[i].opB = Latest(Other(d), p)
    BY <1>1, <1>3, HitsAreFound
  <1>5. Types(Found(d)[i].opA, Found(d)[i].opB) \notin Kinds.ed
    BY <1>2, <1>4, KindsAre DEF Types
  <1>6. Applied(Found(d)[i]) = Latest(d, p)
    BY <1>4, <1>5 DEF Applied
  <1>7. /\ Resolved(d)[i].applied = Latest(d, p)
        /\ Resolved(d)[i].copy = {Latest(Other(d), p).device}
    BY <1>4, <1>5, <1>6, FoundPairs
  <1>. QED
    BY <1>1, <1>4, <1>7

(* BothKept (ResolveConflicts): of two edits the one is applied, and of    *)
(* the last of the other device a copy is made.                            *)
THEOREM BothKeptAlways == Spec => []BothKept
  BY AlwaysLogs, BothAreKept, PTL

(* If the one device has created the file last and the other has updated   *)
(* it, either the other has created it too or the one has deleted it.      *)
LEMMA CreateMeetsUpdate ==
  ASSUME LogsInv, NEW d \in Devices, NEW p \in Shared, ~RenamedAt(p),
         Latest(d, p).type = "create", Latest(Other(d), p).type = "update"
  PROVE  \E e \in Devices : FoundAt(e, p)
  <1>. DEFINE x == Other(d)
  <1>1. /\ x \in Devices /\ Other(x) = d /\ p \in Paths
        /\ Latest(d, p) \in OpsOf(d) /\ Latest(x, p) \in OpsOf(x)
        /\ Latest(d, p).path = p /\ Latest(x, p).path = p
    <2>1. x \in Devices /\ x # d
      BY TwoDevices
    <2>2. Other(x) \in Devices \ {x} /\ \A e \in Devices : e = d \/ e = x
      BY <2>1, TwoDevices
    <2>. HIDE DEF x
    <2>3. /\ Latest(d, p) \in OpsOf(d) /\ Latest(x, p) \in OpsOf(x)
          /\ Latest(d, p).path = p /\ Latest(x, p).path = p
      BY <2>1, BothLatest DEF OpsOf, ToSet
    <2>. QED
      BY <2>1, <2>2, <2>3 DEF Shared
  <1>2. ~RenamedBy(d, p) /\ ~RenamedBy(x, p)
    BY <1>1 DEF RenamedAt, RenamedBy
  <1>3. Has(d, p, "create") /\ Has(x, p, "update")
    BY <1>1 DEF Has
  <1>4. /\ p \in base => Has(d, p, "delete")
        /\ p \notin base => Has(x, p, "create")
    BY <1>1, <1>2, <1>3 DEF LogsInv, Accounted
  <1>5. CASE p \in base
    <2>1. PICK o \in OpsOf(d) : o.path = p /\ o.type = "delete"
      BY <1>4, <1>5 DEF Has
    <2>2. \E kind \in DOMAIN Kinds : <<o.type, Latest(Other(d), p).type>> \in Kinds[kind]
      BY <2>1, KindsAre
    <2>. QED
      BY <2>1, <2>2, HitsAreFound
  <1>6. CASE p \notin base
    <2>1. PICK o \in OpsOf(x) : o.path = p /\ o.type = "create"
      BY <1>4, <1>6 DEF Has
    <2>2. \E kind \in DOMAIN Kinds : <<o.type, Latest(Other(x), p).type>> \in Kinds[kind]
      BY <1>1, <2>1, KindsAre
    <2>. HIDE DEF x
    <2>. QED
      BY <1>1, <2>1, <2>2, HitsAreFound
  <1>. QED
    BY <1>5, <1>6

LEMMA OneFinds == LogsInv => FoundByOne
  <1>. SUFFICES ASSUME LogsInv, NEW p \in Shared,
                       LastTypes(p) \subseteq {"create", "update"}, ~RenamedAt(p)
                PROVE  \E d \in Devices : FoundAt(d, p)
    BY DEF FoundByOne
  <1>1. PICK d \in Devices : TRUE
    BY ConflictsAssumption, FS_EmptySet
  <1>. DEFINE x == Other(d)
  <1>2. /\ x \in Devices /\ Other(x) = d
        /\ Latest(d, p) \in OpsOf(d) /\ Latest(d, p).path = p
        /\ Latest(d, p).type \in {"create", "update"}
        /\ Latest(x, p).type \in {"create", "update"}
    <2>1. x \in Devices /\ x # d
      BY TwoDevices
    <2>2. Other(x) \in Devices \ {x} /\ \A e \in Devices : e = d \/ e = x
      BY <2>1, TwoDevices
    <2>3. /\ {Latest(d, p).type, Latest(x, p).type} \subseteq {"create", "update"}
          /\ Latest(d, p) \in OpsOf(d) /\ Latest(d, p).path = p
      BY BothLatest DEF OpsOf, ToSet
    <2>. HIDE DEF x
    <2>. QED
      BY <2>1, <2>2, <2>3
  <1>3. CASE Latest(d, p).type = Latest(x, p).type
    <2>1. \E kind \in DOMAIN Kinds : <<Latest(d, p).type, Latest(x, p).type>> \in Kinds[kind]
      BY <1>2, <1>3, KindsAre
    <2>. QED
      BY <1>2, <2>1, HitsAreFound
  <1>4. CASE Latest(d, p).type = "create" /\ Latest(x, p).type = "update"
    BY <1>4, CreateMeetsUpdate
  <1>5. CASE Latest(x, p).type = "create" /\ Latest(d, p).type = "update"
    <2>. HIDE DEF x
    <2>. QED
      BY <1>2, <1>5, CreateMeetsUpdate
  <1>. QED
    BY <1>2, <1>3, <1>4, <1>5

(* FoundByOne (DetectConflicts): a file that both devices have written     *)
(* last, and that no rename was from or to, is found by one of them.       *)
THEOREM FoundByOneAlways == Spec => []FoundByOne
  BY AlwaysLogs, OneFinds, PTL

-----------------------------------------------------------------------------
(***************************************************************************)
(* Reading.  A reader that is still to download from a provider has been   *)
(* promised a byte of it, and downloads at most one shard from it.         *)
(***************************************************************************)
Places == 0 .. K + M - 1

Awaiting(x) == {r \in Readers : \E i \in targets[r] : map[r][i] = x}

EngineType == /\ k \in {0, K + M - 2} /\ now \in Nat
              /\ used \in [Providers -> Nat] /\ nextReset \in [Providers -> Nat]
              /\ map \in [Readers -> Maps]
              /\ targets \in [Readers -> SUBSET Places] /\ chosen \in [Readers -> SUBSET Places]

Picked == \A r \in Readers : /\ targets[r] \subseteq chosen[r]
                             /\ targets[r] = {} => chosen[r] = {}
                             /\ M >= 2 /\ chosen[r] # {} => Cardinality(chosen[r]) >= K

Promised == \A x \in Providers : Limit[x] # 0 =>
                used[x] + Cardinality(Awaiting(x)) * Size < Limit[x] + Cardinality(Readers) * Size

EngineInv == EngineType /\ Picked /\ Promised

LEMMA MapsAre ==
  ASSUME NEW pm \in Maps
  PROVE  /\ DOMAIN pm = Places /\ \A i \in Places : pm[i] \in Providers
         /\ \A i, j \in Places : pm[i] = pm[j] => i = j
  <1>1. /\ pm \in [Places -> Providers]
        /\ \A i \in Places :
              pm[i] \in Pick(i, K + M - 2, Free([n \in Places |-> Size][i], Avail, Before(pm, i)))
    <2>1. K + M - 2 + 2 - 1 = K + M - 1
      BY CodecAssumption
    <2>. QED
      BY <2>1 DEF Maps, Place, Places
  <1>2. \A i \in Places : pm[i] \notin Before(pm, i)
    BY <1>1 DEF Pick, Forwards, Backwards, Free
  <1>3. \A i \in Places : \A j \in 0 .. i - 1 : pm[i] # pm[j]
    BY <1>2 DEF Before
  <1>4. \A i, j \in Places : i # j => j \in 0 .. i - 1 \/ i \in 0 .. j - 1
    BY CodecAssumption DEF Places
  <1>. QED
    BY <1>1, <1>3, <1>4

LEMMA AwaitingFinite ==
  ASSUME NEW x
  PROVE  /\ IsFiniteSet(Awaiting(x)) /\ Cardinality(Awaiting(x)) \in Nat
         /\ Cardinality(Readers) \in Nat /\ Cardinality(Awaiting(x)) <= Cardinality(Readers)
         /\ Size \in Nat \ {0}
  <1>1. Awaiting(x) \in SUBSET Readers /\ IsFiniteSet(Readers) /\ Size \in Nat \ {0}
    BY EngineAssumption DEF Awaiting
  <1>. QED
    BY <1>1, FS_Subset, FS_CardinalityType

LEMMA Scaled ==
  ASSUME NEW a \in Nat, NEW b \in Nat, a <= b, NEW s \in Nat
  PROVE  a * s \in Nat /\ b * s \in Nat /\ a * s <= b * s
  <1>1. PICK c \in Nat : b = a + c
    <2>1. b = a + (b - a) /\ b - a \in Nat
      OBVIOUS
    <2>. QED
      BY <2>1
  <1>2. b * s = a * s + c * s /\ c * s \in Nat /\ a * s \in Nat
    BY <1>1
  <1>. QED
    BY <1>2

LEMMA UsedIs ==
  ASSUME EngineType, NEW x \in Providers
  PROVE  used[x] \in Nat /\ Used(x) \in Nat /\ Used(x) <= used[x] /\ Limit[x] \in Nat
  BY EngineAssumption DEF EngineType, Used

LEMMA ResetType ==
  ASSUME EngineType, NEW X, maybeReset(X)
  PROVE  nextReset' \in [Providers -> Nat]
  <1>1. now + Day \in Nat /\ \A x \in Providers : nextReset[x] \in Nat
    BY EngineAssumption DEF EngineType
  <1>. QED
    BY <1>1 DEF maybeReset

(* No more is used of any provider, and no reader waits for it anew.       *)
LEMMA PromiseKept ==
  ASSUME EngineInv, EngineType', NEW x \in Providers, used'[x] <= used[x],
         Awaiting(x)' \subseteq Awaiting(x), Limit[x] # 0
  PROVE  used'[x] + Cardinality(Awaiting(x)') * Size < Limit[x] + Cardinality(Readers) * Size
  <1>. DEFINE a == Cardinality(Awaiting(x)')
              b == Cardinality(Awaiting(x))
  <1>1. /\ IsFiniteSet(Awaiting(x)) /\ b \in Nat /\ Size \in Nat /\ Cardinality(Readers) \in Nat
        /\ Limit[x] \in Nat /\ used[x] \in Nat /\ used'[x] \in Nat
    BY AwaitingFinite, EngineAssumption DEF EngineInv, EngineType
  <1>2. a \in Nat /\ a <= b
    BY <1>1, FS_Subset, FS_CardinalityType
  <1>3. used[x] + b * Size < Limit[x] + Cardinality(Readers) * Size
    BY DEF EngineInv, Promised
  <1>. HIDE DEF a, b
  <1>4. /\ a * Size \in Nat /\ b * Size \in Nat /\ a * Size <= b * Size
        /\ Cardinality(Readers) * Size \in Nat
    BY <1>1, <1>2, Scaled
  <1>5. used'[x] + a * Size < Limit[x] + Cardinality(Readers) * Size
    BY <1>1, <1>3, <1>4
  <1>. QED
    BY <1>5 DEF a

LEMMA MaxPlace == Max(Places) = K + M - 1 /\ K + M - 1 \in Places
  <1>1. K + M - 1 \in Places /\ \A i \in Places : i <= K + M - 1 /\ i \in Nat
    BY CodecAssumption DEF Places
  <1>2. Max(Places) \in Places /\ \A i \in Places : Max(Places) >= i
    BY <1>1 DEF Max
  <1>. QED
    BY <1>1, <1>2

LEMMA SelectKeeps ==
  ASSUME EngineInv, NEW r \in Readers, NEW pm \in Maps, NEW unavailable,
         SelectForRead(r, pm, unavailable)
  PROVE  EngineInv'
  <1>. DEFINE S == Candidates(pm, unavailable)
  <1>1. /\ targets[r] = {} /\ Reset(Asked(pm, unavailable))
        /\ map' = [map EXCEPT ![r] = pm] /\ k' = k /\ now' = now
    BY DEF SelectForRead
  <1>2. /\ DOMAIN pm = Places /\ \A i \in Places : pm[i] \in Providers
        /\ \A i, j \in Places : pm[i] = pm[j] => i = j
    BY MapsAre
  <1>3. \A x \in Providers : used'[x] = IF x \in Asked(pm, unavailable) THEN Used(x) ELSE used[x]
    BY <1>1 DEF Reset
  <1>4. \A x \in Providers : used'[x] \in Nat /\ used'[x] <= used[x]
    BY <1>3, UsedIs DEF EngineInv
  <1>5. /\ used' \in [Providers -> Nat] /\ nextReset' \in [Providers -> Nat]
        /\ map' \in [Readers -> Maps] /\ map'[r] = pm
        /\ \A e \in Readers \ {r} : map'[e] = map[e]
    BY <1>1, <1>4, ResetType DEF Reset, EngineInv, EngineType
  <1>6. CASE UNCHANGED <<targets, chosen>>
    <2>1. EngineType' /\ Picked'
      BY <1>1, <1>5, <1>6 DEF EngineInv, EngineType, Picked
    <2>2. ASSUME NEW x PROVE Awaiting(x)' \subseteq Awaiting(x)
      BY <1>1, <1>5, <1>6 DEF Awaiting
    <2>3. Promised'
      BY <1>4, <2>1, <2>2, PromiseKept DEF Promised
    <2>. QED
      BY <2>1, <2>3 DEF EngineInv
  <1>7. CASE \E T \in FirstOf(Needed(pm), S, pm) :
                /\ targets' = [targets EXCEPT ![r] = T]
                /\ chosen' = [chosen EXCEPT ![r] = T]
    <2>1. PICK T : /\ T \in SUBSET S /\ Cardinality(T) = Needed(pm)
                   /\ targets' = [targets EXCEPT ![r] = T]
                   /\ chosen' = [chosen EXCEPT ![r] = T]
      BY <1>7 DEF FirstOf, kSubset
    <2>2. T \in SUBSET Places
      BY <1>2, <2>1 DEF Candidates
    <2>3. (M >= 2 => Cardinality(T) >= K) /\ T # {}
      <3>1. /\ Needed(pm) \in {K + M - 2, K + M} \ {0} /\ K \in Nat \ {0} /\ M \in Nat
        BY <1>2, MaxPlace, CodecAssumption DEF Needed, EngineInv, EngineType
      <3>. QED
        BY <2>1, <3>1, FS_EmptySet
    <2>4. /\ targets'[r] = T /\ chosen'[r] = T
          /\ \A e \in Readers \ {r} : targets'[e] = targets[e] /\ chosen'[e] = chosen[e]
          /\ targets' \in [Readers -> SUBSET Places] /\ chosen' \in [Readers -> SUBSET Places]
      BY <2>1, <2>2 DEF EngineInv, EngineType
    <2>5. EngineType'
      BY <1>1, <1>5, <2>4 DEF EngineInv, EngineType
    <2>6. Picked'
      BY <2>3, <2>4 DEF EngineInv, Picked
    <2>7. ASSUME NEW x \in Providers, Limit[x] # 0
          PROVE  used'[x] + Cardinality(Awaiting(x)') * Size
                    < Limit[x] + Cardinality(Readers) * Size
      <3>1. CASE \E i \in T : pm[i] = x
        <4>1. PICK i \in T : pm[i] = x
          BY <3>1
        <4>2. x \in Asked(pm, unavailable) /\ CanDownload(x, 1)
          BY <1>2, <2>1, <4>1 DEF Candidates, Asked
        <4>3. used'[x] + 1 <= Limit[x] /\ used'[x] \in Nat /\ Limit[x] \in Nat
          BY <1>3, <2>7, <4>2, UsedIs DEF CanDownload, EngineInv
        <4>4. /\ Cardinality(Awaiting(x)') \in Nat /\ Cardinality(Readers) \in Nat
              /\ Cardinality(Awaiting(x)') <= Cardinality(Readers) /\ Size \in Nat
          <5>1. Awaiting(x)' \in SUBSET Readers /\ IsFiniteSet(Readers) /\ Size \in Nat
            BY EngineAssumption DEF Awaiting
          <5>. QED
            BY <5>1, FS_Subset, FS_CardinalityType
        <4>5. /\ Cardinality(Awaiting(x)') * Size \in Nat /\ Cardinality(Readers) * Size \in Nat
              /\ Cardinality(Awaiting(x)') * Size <= Cardinality(Readers) * Size
          BY <4>4, Scaled
        <4>. QED
          BY <4>3, <4>5
      <3>2. CASE ~\E i \in T : pm[i] = x
        <4>1. Awaiting(x)' \subseteq Awaiting(x)
          BY <1>5, <2>4, <3>2 DEF Awaiting
        <4>. QED
          BY <1>4, <2>5, <2>7, <4>1, PromiseKept
      <3>. QED
        BY <3>1, <3>2
    <2>. QED
      BY <2>5, <2>6, <2>7 DEF EngineInv, Promised
  <1>. QED
    BY <1>6, <1>7 DEF SelectForRead

LEMMA DownloadKeeps ==
  ASSUME EngineInv, NEW r \in Readers, Download(r)
  PROVE  EngineInv'
  <1>1. PICK i \in targets[r] :
          /\ Record(map[r][i], Size)
          /\ targets' = [targets EXCEPT ![r] = @ \ {i}]
          /\ chosen' = IF targets[r] = {i} THEN [chosen EXCEPT ![r] = {}] ELSE chosen
    BY DEF Download
  <1>2. k' = k /\ now' = now /\ map' = map
    BY DEF Download
  <1>0. PICK x : x = map[r][i]
    OBVIOUS
  <1>3. /\ map[r] \in Maps /\ i \in Places /\ x \in Providers
        /\ \A n \in Places : map[r][n] = x => n = i
    <2>1. map[r] \in Maps /\ i \in Places
      BY <1>1 DEF EngineInv, EngineType
    <2>. QED
      BY <1>0, <2>1, MapsAre
  <1>4. used' = [used EXCEPT ![x] = Used(x) + Size] /\ maybeReset({x})
    BY <1>1, <1>0 DEF Record
  <1>5. Size \in Nat \ {0} /\ Used(x) \in Nat /\ Used(x) <= used[x] /\ used[x] \in Nat
    BY <1>3, UsedIs, EngineAssumption DEF EngineInv
  <1>6. /\ used' \in [Providers -> Nat] /\ nextReset' \in [Providers -> Nat]
        /\ used'[x] = Used(x) + Size
        /\ \A y \in Providers \ {x} : used'[y] = used[y]
    BY <1>3, <1>4, <1>5, ResetType DEF EngineInv, EngineType
  <1>7. /\ targets' \in [Readers -> SUBSET Places] /\ targets'[r] = targets[r] \ {i}
        /\ \A e \in Readers \ {r} : targets'[e] = targets[e]
    BY <1>1 DEF EngineInv, EngineType
  <1>8. /\ chosen' \in [Readers -> SUBSET Places]
        /\ chosen'[r] = IF targets[r] = {i} THEN {} ELSE chosen[r]
        /\ \A e \in Readers \ {r} : chosen'[e] = chosen[e]
    BY <1>1 DEF EngineInv, EngineType
  <1>9. EngineType'
    BY <1>2, <1>6, <1>7, <1>8 DEF EngineInv, EngineType
  <1>10. Picked'
    <2>1. targets[r] = {i} <=> targets'[r] = {}
      BY <1>1, <1>7
    <2>. QED
      BY <1>7, <1>8, <2>1 DEF EngineInv, Picked
  <1>11. ASSUME NEW y \in Providers, Limit[y] # 0
         PROVE  used'[y] + Cardinality(Awaiting(y)') * Size
                   < Limit[y] + Cardinality(Readers) * Size
    <2>1. CASE y # x
      <3>1. Awaiting(y)' \subseteq Awaiting(y)
        BY <1>2, <1>7 DEF Awaiting
      <3>2. used'[y] <= used[y]
        BY <1>6, <1>9, <2>1 DEF EngineType
      <3>. QED
        BY <1>9, <1>11, <3>1, <3>2, PromiseKept
    <2>2. CASE y = x
      <3>1. r \in Awaiting(x) /\ Awaiting(x)' = Awaiting(x) \ {r}
        <4>1. r \in Awaiting(x)
          BY <1>1, <1>0 DEF Awaiting
        <4>2. ~\E n \in targets'[r] : map'[r][n] = x
          <5>1. targets'[r] \subseteq Places \ {i} /\ map'[r] = map[r]
            BY <1>2, <1>7, <1>9 DEF EngineType
          <5>. QED
            BY <1>3, <5>1
        <4>3. \A e \in Readers \ {r} : e \in Awaiting(x)' <=> e \in Awaiting(x)
          BY <1>2, <1>7 DEF Awaiting
        <4>4. r \notin Awaiting(x)'
          BY <4>2 DEF Awaiting
        <4>5. Awaiting(x) \subseteq Readers /\ Awaiting(x)' \subseteq Readers
          BY DEF Awaiting
        <4>. QED
          BY <4>1, <4>3, <4>4, <4>5
      <3>. DEFINE c == Cardinality(Awaiting(x))
      <3>2. c \in Nat /\ IsFiniteSet(Awaiting(x)) /\ Cardinality(Readers) \in Nat
        BY AwaitingFinite
      <3>3. Cardinality(Awaiting(x)') = c - 1
        BY <3>1, <3>2, FS_RemoveElement
      <3>4. used[x] + c * Size < Limit[x] + Cardinality(Readers) * Size
        BY <1>3, <1>11, <2>2 DEF EngineInv, Promised
      <3>. HIDE DEF c
      <3>5. (c - 1) * Size = c * Size - Size /\ c * Size \in Nat
        BY <1>5, <3>2
      <3>6. Limit[x] \in Nat /\ Cardinality(Readers) * Size \in Nat
        BY <1>3, <1>5, <3>2, EngineAssumption, Scaled
      <3>7. Used(x) + Size + (c - 1) * Size < Limit[x] + Cardinality(Readers) * Size
        BY <1>5, <3>4, <3>5, <3>6
      <3>. QED
        BY <1>6, <2>2, <3>3, <3>7
    <2>. QED
      BY <2>1, <2>2
  <1>. QED
    BY <1>9, <1>10, <1>11 DEF EngineInv, Promised

LEMMA RestartKeeps ==
  ASSUME EngineInv, Restart
  PROVE  EngineInv'
  <1>1. EngineType' /\ Picked'
    BY EngineAssumption DEF EngineInv, EngineType, Picked, Restart
  <1>2. \A x \in Providers : used'[x] = 0 /\ used[x] \in Nat
    BY DEF EngineInv, EngineType, Restart
  <1>3. \A x \in Providers : Awaiting(x)' = {}
    BY DEF Restart, Awaiting
  <1>4. Promised'
    BY <1>1, <1>2, <1>3, PromiseKept DEF Promised
  <1>. QED
    BY <1>1, <1>4 DEF EngineInv

LEMMA SameEngine ==
  ASSUME EngineInv, UNCHANGED <<used, nextReset, map, targets, chosen>>,
         k' \in {0, K + M - 2}, now' \in Nat
  PROVE  EngineInv'
  BY DEF EngineInv, EngineType, Picked, Promised, Awaiting

LEMMA InitEngine ==
  ASSUME EngineInit
  PROVE  EngineInv
  <1>1. EngineType /\ Picked
    BY EngineAssumption DEF EngineInit, EngineType, Picked
  <1>2. ASSUME NEW x \in Providers, Limit[x] # 0
        PROVE  used[x] + Cardinality(Awaiting(x)) * Size < Limit[x] + Cardinality(Readers) * Size
    <2>1. Awaiting(x) = {} /\ used[x] = 0
      BY DEF EngineInit, Awaiting
    <2>2. Cardinality(Awaiting(x)) = 0
      BY <2>1, FS_EmptySet
    <2>3. Cardinality(Readers) * Size \in Nat /\ Limit[x] \in Nat /\ Size \in Nat
      BY AwaitingFinite, Scaled, EngineAssumption
    <2>. QED
      BY <1>2, <2>1, <2>2, <2>3
  <1>. QED
    BY <1>1, <1>2 DEF EngineInv, Promised

LEMMA NextEngine == EngineInv /\ [Next]_vars => EngineInv'
  <1>. SUFFICES ASSUME EngineInv, [Next]_vars PROVE EngineInv'
    OBVIOUS
  <1>1. k \in {0, K + M - 2} /\ now \in Nat
    BY DEF EngineInv, EngineType
  <1>2. CASE UNCHANGED engineVars
    BY <1>1, <1>2, SameEngine DEF engineVars
  <1>3. CASE PlaceFile \/ Tick
    BY <1>1, <1>3, SameEngine DEF PlaceFile, Tick
  <1>4. CASE Restart
    BY <1>4, RestartKeeps
  <1>5. CASE \E r \in Readers, pm \in Maps, unavailable \in SUBSET Providers :
                SelectForRead(r, pm, unavailable)
    BY <1>5, SelectKeeps
  <1>6. CASE \E r \in Readers : Download(r)
    BY <1>6, DownloadKeeps
  <1>. QED
    BY <1>2, <1>3, <1>4, <1>5, <1>6 DEF Next, vars, Comparing

LEMMA AlwaysEngine == Spec => []EngineInv
  <1>1. Init => EngineInv
    BY InitEngine DEF Init
  <1>. QED
    BY <1>1, NextEngine, PTL DEF Spec

(* BoundedOverrun (Engine.SelectForRead, BandwidthTracker): however many   *)
(* readers select and download at once, a provider is used beyond its      *)
(* limit by less than a shard for each of them.                            *)
THEOREM BoundedOverrunAlways == Spec => []BoundedOverrun
  <1>1. EngineInv => BoundedOverrun
    <2>. SUFFICES ASSUME EngineInv, NEW x \in Providers, Limit[x] # 0
                  PROVE  used[x] < Limit[x] + Cardinality(Readers) * Size
      BY DEF BoundedOverrun
    <2>1. /\ Cardinality(Awaiting(x)) * Size \in Nat /\ Cardinality(Readers) * Size \in Nat
          /\ Limit[x] \in Nat /\ used[x] \in Nat
      BY AwaitingFinite, Scaled, EngineAssumption DEF EngineInv, EngineType
    <2>2. used[x] + Cardinality(Awaiting(x)) * Size < Limit[x] + Cardinality(Readers) * Size
      BY DEF EngineInv, Promised
    <2>. QED
      BY <2>1, <2>2
  <1>. QED
    BY <1>1, AlwaysEngine, PTL

-----------------------------------------------------------------------------
(***************************************************************************)
(* Decoding.  The blocks of a sequence in a row are that sequence.         *)
(***************************************************************************)
LEMMA Divided ==
  ASSUME NEW a \in Nat, NEW b \in Nat \ {0}
  PROVE  a \div b \in Nat /\ a % b \in 0 .. b - 1 /\ a = (a \div b) * b + (a % b)
  OBVIOUS

LEMMA JoinSubSeqs ==
  ASSUME NEW X, NEW s \in Seq(X), NEW a \in Nat, NEW b \in Nat, a <= b, b <= Len(s)
  PROVE  SubSeq(s, 1, a) \o SubSeq(s, a + 1, b) = SubSeq(s, 1, b)
  <1>1. 1 \in 1 .. Len(s) + 1 /\ a \in 1 - 1 .. Len(s) /\ b \in a .. Len(s)
    OBVIOUS
  <1>. QED
    BY <1>1, ConcatAdjacentSubSeq

Blocks(s, n, size) == [i \in 1 .. n |-> SubSeq(s, (i - 1) * size + 1, i * size)]

LEMMA BlocksInARow ==
  ASSUME NEW X, NEW s \in Seq(X), NEW n \in Nat, NEW size \in Nat, n * size = Len(s)
  PROVE  FlattenSeq(Blocks(s, n, size)) = s
  <1>. DEFINE t == Blocks(s, n, size)
  <1>1. ASSUME NEW i \in 1 .. n
        PROVE  /\ (i - 1) * size \in Nat /\ i * size \in Nat /\ i * size <= Len(s)
               /\ (i - 1) * size <= i * size
    <2>1. i - 1 \in Nat /\ i \in Nat /\ i - 1 <= i /\ i <= n
      OBVIOUS
    <2>. QED
      BY <2>1, Scaled
  <1>2. ASSUME NEW i \in 1 .. n
        PROVE  t[i] = SubSeq(s, (i - 1) * size + 1, i * size) /\ t[i] \in Seq(X)
    <2>1. t[i] = SubSeq(s, (i - 1) * size + 1, i * size)
      BY DEF Blocks
    <2>. HIDE DEF t
    <2>. DEFINE a == (i - 1) * size
                b == i * size
    <2>2. a \in Nat /\ b \in Nat /\ b <= Len(s)
      BY <1>1
    <2>. HIDE DEF a, b
    <2>3. SubSeq(s, a + 1, b) \in Seq(X)
      BY <2>2
    <2>. QED
      BY <2>1, <2>3 DEF a, b
  <1>3. t \in Seq(Seq(X)) /\ Len(t) = n
    <2>1. t = [i \in 1 .. n |-> t[i]]
      BY DEF Blocks
    <2>. HIDE DEF t
    <2>2. \A i \in 1 .. n : t[i] \in Seq(X)
      BY <1>2
    <2>3. t \in [1 .. n -> Seq(X)]
      BY <2>1, <2>2
    <2>. QED
      BY <2>3
  <1>. HIDE DEF t
  <1>4. PICK g : IsRow(g, t, n)
    BY <1>3, RowExists
  <1>. DEFINE S == {j \in 0 .. n : g[j] = SubSeq(s, 1, j * size)}
  <1>5. 0 \in S
    <2>1. g[0] = <<>> /\ 0 * size = 0 /\ 0 \in 0 .. n
      BY <1>4 DEF IsRow
    <2>2. SubSeq(s, 1, 0) = <<>>
      OBVIOUS
    <2>. QED
      BY <2>1, <2>2
  <1>6. ASSUME NEW j \in 1 .. n, j - 1 \in S PROVE j \in S
    <2>. DEFINE a == (j - 1) * size
                b == j * size
    <2>1. g[j] = g[j - 1] \o t[j] /\ j \in 0 .. n
      <3>1. g[j] = g[j - 1] \o t[j]
        BY <1>4, Zenon DEF IsRow
      <3>. HIDE DEF S
      <3>. QED
        BY <3>1
    <2>2. g[j] = SubSeq(s, 1, a) \o SubSeq(s, a + 1, b)
      BY <1>2, <1>6, <2>1
    <2>3. a \in Nat /\ b \in Nat /\ a <= b /\ b <= Len(s)
      BY <1>1
    <2>. HIDE DEF a, b
    <2>4. g[j] = SubSeq(s, 1, b)
      BY <2>2, <2>3, JoinSubSeqs
    <2>. QED
      BY <2>1, <2>4 DEF b
  <1>. HIDE DEF S
  <1>7. n \in S
    BY <1>5, <1>6, CountUp
  <1>8. g[n] = SubSeq(s, 1, Len(s)) /\ g[n] = FlattenSeq(t)
    BY <1>4, <1>7 DEF S, IsRow
  <1>9. SubSeq(s, 1, Len(s)) = s
    OBVIOUS
  <1>. QED
    BY <1>8, <1>9 DEF t

(* Any K shards of a segment give it back.                                 *)
LEMMA SegmentDecodes ==
  ASSUME NEW X, NEW segment \in Seq(X), Len(segment) = SegmentSize,
         NEW S \in SUBSET Places, Cardinality(S) >= K
  PROVE  Decode([i \in S |-> Encode(segment)[i]]) = segment
  <1>. DEFINE shards == [i \in S |-> Encode(segment)[i]]
              size == SegmentSize \div K
  <1>1. /\ K \in Nat \ {0} /\ M \in Nat /\ SegmentSize \in Nat \ {0} /\ SegmentSize % K = 0
    BY CodecAssumption
  <1>2. size \in Nat /\ K * size = Len(segment)
    BY <1>1, Divided
  <1>. HIDE DEF size
  <1>3. DataShards(segment) = [i \in 0 .. K - 1 |-> SubSeq(segment, i * size + 1, (i + 1) * size)]
    BY DEF DataShards, size
  <1>4. Encode(segment) = [i \in Places |-> IF i < K THEN DataShards(segment)[i]
                                            ELSE Parity(i, DataShards(segment))]
    BY DEF Encode, Places
  <1>5. Reconstruct(shards) = DataShards(segment)
    <2>1. CASE 0 .. K - 1 \subseteq S
      <3>1. Reconstruct(shards) = [i \in 0 .. K - 1 |-> shards[i]]
        BY <2>1 DEF Reconstruct
      <3>2. \A i \in 0 .. K - 1 : shards[i] = DataShards(segment)[i]
        BY <1>1, <1>4, <2>1
      <3>3. DataShards(segment) = [i \in 0 .. K - 1 |-> DataShards(segment)[i]]
        BY DEF DataShards
      <3>. HIDE DEF shards
      <3>. QED
        BY <3>1, <3>2, <3>3
    <2>2. CASE ~(0 .. K - 1 \subseteq S)
      <3>1. \E i \in S : i >= K
        <4>. SUFFICES ASSUME \A i \in S : ~(i >= K) PROVE FALSE
          OBVIOUS
        <4>1. S \in SUBSET (0 .. K - 1)
          BY <1>1 DEF Places
        <4>2. IsFiniteSet(0 .. K - 1) /\ Cardinality(0 .. K - 1) = K
          BY <1>1, FS_Interval
        <4>3. IsFiniteSet(S) /\ Cardinality(S) <= K /\ Cardinality(S) \in Nat
          BY <4>1, <4>2, FS_Subset, FS_CardinalityType
        <4>4. S = 0 .. K - 1
          <5>1. Cardinality(0 .. K - 1) = Cardinality(S)
            BY <1>1, <4>2, <4>3
          <5>. QED
            BY <4>1, <4>2, <5>1, FS_Subset
        <4>. QED
          BY <2>2, <4>4
      <3>. DEFINE j == CHOOSE i \in DOMAIN shards : i >= K
      <3>2. j \in S /\ j >= K
        BY <3>1
      <3>3. Reconstruct(shards) = shards[j].of
        BY <2>2 DEF Reconstruct
      <3>4. shards[j] = Encode(segment)[j]
        BY <3>2
      <3>. HIDE DEF j, shards
      <3>5. Encode(segment)[j] = Parity(j, DataShards(segment))
        BY <1>1, <1>4, <3>2 DEF Places
      <3>. QED
        BY <3>3, <3>4, <3>5 DEF Parity
    <2>. QED
      BY <2>1, <2>2
  <1>6. Decode(shards) = FlattenSeq([i \in 1 .. K |-> Reconstruct(shards)[i - 1]])
    <2>1. DOMAIN shards = S /\ ~(Cardinality(S) < K)
      <3>1. IsFiniteSet(S) /\ Cardinality(S) \in Nat
        <4>1. IsFiniteSet(Places)
          BY <1>1, FS_Interval DEF Places
        <4>. QED
          BY <4>1, FS_Subset, FS_CardinalityType
      <3>. QED
        BY <1>1, <3>1
    <2>. HIDE DEF shards
    <2>. QED
      BY <2>1 DEF Decode
  <1>7. [i \in 1 .. K |-> Reconstruct(shards)[i - 1]] = Blocks(segment, K, size)
    <2>. HIDE DEF shards
    <2>1. \A i \in 1 .. K : Reconstruct(shards)[i - 1] = SubSeq(segment, (i - 1) * size + 1, i * size)
      <3>1. \A i \in 1 .. K : i - 1 \in 0 .. K - 1 /\ i - 1 + 1 = i
        BY <1>1
      <3>. QED
        BY <1>3, <1>5, <3>1
    <2>. QED
      BY <2>1 DEF Blocks
  <1>8. FlattenSeq(Blocks(segment, K, size)) = segment
    BY <1>1, <1>2, BlocksInARow
  <1>. HIDE DEF shards
  <1>9. Decode(shards) = segment
    BY <1>6, <1>7, <1>8
  <1>. QED
    BY <1>9 DEF shards

(* Contents with the padding of their last segment.                        *)
Chunks(data) == (Len(data) + SegmentSize - 1) \div SegmentSize
Padded(data) == [i \in 1 .. Chunks(data) * SegmentSize |-> IF i <= Len(data) THEN data[i] ELSE Zero]

LEMMA PaddedIs ==
  ASSUME NEW X, NEW data \in Seq(X)
  PROVE  /\ Chunks(data) \in Nat /\ Padded(data) \in Seq(X \cup {Zero})
         /\ Len(Padded(data)) = Chunks(data) * SegmentSize
         /\ Len(data) <= Len(Padded(data))
         /\ SubSeq(Padded(data), 1, Len(data)) = data
  <1>. DEFINE n == Chunks(data)
              len == Len(data)
              all == n * SegmentSize
              s == Padded(data)
  <1>1. SegmentSize \in Nat \ {0} /\ len \in Nat
    BY CodecAssumption
  <1>2. n \in Nat /\ len <= n * SegmentSize /\ n * SegmentSize \in Nat
    <2>. DEFINE a == len + SegmentSize - 1
    <2>1. a \in Nat
      BY <1>1
    <2>2. n = a \div SegmentSize
      BY DEF Chunks
    <2>. HIDE DEF a, n
    <2>3. /\ n \in Nat /\ a % SegmentSize \in 0 .. SegmentSize - 1
          /\ a = n * SegmentSize + (a % SegmentSize)
      BY <1>1, <2>1, <2>2, Divided
    <2>. DEFINE r == a % SegmentSize
                q == n * SegmentSize
    <2>4. q \in Nat
      BY <1>1, <2>3, Scaled
    <2>5. r \in 0 .. SegmentSize - 1 /\ a = q + r
      BY <2>3
    <2>. HIDE DEF r, q
    <2>6. len <= q
      BY <1>1, <2>4, <2>5 DEF a
    <2>. QED
      BY <2>3, <2>4, <2>6 DEF q
  <1>. HIDE DEF n
  <1>3. all \in Nat /\ len <= all
    BY <1>2
  <1>4. s = [i \in 1 .. all |-> IF i <= len THEN data[i] ELSE Zero]
    BY DEF Padded, n
  <1>. HIDE DEF all, s
  <1>5. \A i \in 1 .. all : i <= len => i \in 1 .. len /\ data[i] \in X
    BY <1>1
  <1>6. \A i \in 1 .. all : s[i] \in X \cup {Zero}
    BY <1>4, <1>5
  <1>7. s \in Seq(X \cup {Zero}) /\ Len(s) = all
    <2>1. s \in [1 .. all -> X \cup {Zero}]
      BY <1>4, <1>6
    <2>. QED
      BY <1>3, <2>1
  <1>8. SubSeq(s, 1, len) = data
    <2>1. \A i \in 1 .. len : i \in 1 .. all /\ s[i] = data[i]
      BY <1>1, <1>3, <1>4
    <2>2. /\ SubSeq(s, 1, len) \in Seq(X \cup {Zero}) /\ Len(SubSeq(s, 1, len)) = len
          /\ \A i \in 1 .. len : SubSeq(s, 1, len)[i] = s[i]
      BY <1>1, <1>3, <1>7
    <2>3. data \in Seq(X \cup {Zero})
      BY SeqMonotonic
    <2>. HIDE DEF len
    <2>4. Len(data) = len
      BY DEF len
    <2>. QED
      BY <2>1, <2>2, <2>3, <2>4, SeqEqual
  <1>. QED
    BY <1>2, <1>3, <1>7, <1>8 DEF n, all, s

LEMMA ChunksAreBlocks ==
  ASSUME NEW X, NEW data \in Seq(X)
  PROVE  /\ Chunk(data) = Blocks(Padded(data), Chunks(data), SegmentSize)
         /\ DOMAIN Chunk(data) = 1 .. Chunks(data)
         /\ \A i \in 1 .. Chunks(data) : /\ Chunk(data)[i] \in Seq(X \cup {Zero})
                                         /\ Len(Chunk(data)[i]) = SegmentSize
  <1>. DEFINE n == Chunks(data)
              s == Padded(data)
  <1>1. /\ n \in Nat /\ s \in Seq(X \cup {Zero}) /\ Len(s) = n * SegmentSize
        /\ SegmentSize \in Nat \ {0}
    BY PaddedIs, CodecAssumption
  <1>2. ASSUME NEW i \in 1 .. n
        PROVE  /\ Chunk(data)[i] = SubSeq(s, (i - 1) * SegmentSize + 1, i * SegmentSize)
               /\ Chunk(data)[i] \in Seq(X \cup {Zero}) /\ Len(Chunk(data)[i]) = SegmentSize
    <2>. DEFINE a == (i - 1) * SegmentSize
                b == i * SegmentSize
                c == Chunk(data)[i]
    <2>1. c = [j \in 1 .. SegmentSize |-> IF a + j <= Len(data) THEN data[a + j] ELSE Zero]
      BY DEF Chunk, Chunks
    <2>2. a \in Nat /\ b = a + SegmentSize /\ b <= Len(s)
      <3>1. i - 1 \in Nat /\ i \in Nat /\ i <= n
        BY <1>1
      <3>2. a \in Nat /\ b <= n * SegmentSize
        BY <1>1, <3>1, Scaled
      <3>3. b = a + SegmentSize
        BY <1>1, <3>1
      <3>. QED
        BY <1>1, <3>2, <3>3
    <2>3. \A j \in 1 .. Len(s) : s[j] = IF j <= Len(data) THEN data[j] ELSE Zero
      BY <1>1 DEF Padded
    <2>. HIDE DEF a, b, c, s
    <2>4. \A j \in 1 .. SegmentSize : a + j \in 1 .. Len(s) /\ c[j] = s[a + j]
      BY <1>1, <2>1, <2>2, <2>3
    <2>5. c \in Seq(X \cup {Zero}) /\ Len(c) = SegmentSize
      <3>1. \A j \in 1 .. SegmentSize : c[j] \in X \cup {Zero}
        BY <1>1, <2>4, ElementOfSeq
      <3>2. c \in [1 .. SegmentSize -> X \cup {Zero}]
        BY <2>1, <3>1
      <3>. QED
        BY <1>1, <3>2
    <2>6. /\ SubSeq(s, a + 1, b) \in Seq(X \cup {Zero}) /\ Len(SubSeq(s, a + 1, b)) = SegmentSize
          /\ \A j \in 1 .. SegmentSize : SubSeq(s, a + 1, b)[j] = s[a + j]
      <3>1. \A j \in a + 1 .. b : s[j] \in X \cup {Zero}
        BY <1>1, <2>2, ElementOfSeq
      <3>2. a + 1 \in Int /\ b \in Int /\ a + 1 <= b /\ b - (a + 1) + 1 = SegmentSize
        BY <1>1, <2>2
      <3>. DEFINE t == SubSeq(s, a + 1, b)
      <3>3. /\ t \in Seq(X \cup {Zero}) /\ Len(t) = SegmentSize
            /\ \A j \in 1 .. SegmentSize : t[j] = s[a + 1 + j - 1]
        BY <3>1, <3>2, SubSeqProperties
      <3>4. \A j \in 1 .. SegmentSize : a + 1 + j - 1 = a + j
        BY <1>1, <2>2
      <3>. QED
        BY <3>3, <3>4
    <2>7. c = SubSeq(s, a + 1, b)
      BY <2>4, <2>5, <2>6, SeqEqual
    <2>. QED
      BY <2>5, <2>7 DEF a, b, c
  <1>3. Chunk(data) = [i \in 1 .. n |-> Chunk(data)[i]]
    BY DEF Chunk, Chunks
  <1>. QED
    BY <1>2, <1>3 DEF Blocks

(* What is read from K shards of each segment is what was written.         *)
LEMMA ReadsBack ==
  ASSUME NEW X, NEW data \in Seq(X), NEW S \in SUBSET Places, Cardinality(S) >= K
  PROVE  ReadFrom(data, S) = data
  <1>. DEFINE t == [i \in DOMAIN Chunk(data) |->
                       LET all == Encode(Chunk(data)[i]) IN Decode([s \in S |-> all[s]])]
              p == Padded(data)
  <1>1. \A i \in DOMAIN Chunk(data) : t[i] = Chunk(data)[i]
    BY ChunksAreBlocks, SegmentDecodes
  <1>2. t = Chunk(data)
    <2>1. Chunk(data) = [i \in DOMAIN Chunk(data) |-> Chunk(data)[i]]
      BY DEF Chunk
    <2>2. t = [i \in DOMAIN Chunk(data) |-> t[i]]
      OBVIOUS
    <2>. HIDE DEF t
    <2>. QED
      BY <1>1, <2>1, <2>2
  <1>3. /\ p \in Seq(X \cup {Zero}) /\ Chunks(data) \in Nat
        /\ Chunks(data) * SegmentSize = Len(p) /\ Len(data) <= Len(p)
        /\ SubSeq(p, 1, Len(data)) = data /\ SegmentSize \in Nat
    BY PaddedIs, CodecAssumption
  <1>4. ReadFrom(data, S) = Reassemble(t, Len(data))
    BY DEF ReadFrom
  <1>. HIDE DEF t, p
  <1>5. FlattenSeq(t) = p
    BY <1>2, <1>3, ChunksAreBlocks, BlocksInARow DEF p
  <1>6. Min({Len(data), Len(p)}) = Len(data)
    <2>. DEFINE a == Len(data)
                b == Len(p)
                m == Min({a, b})
    <2>1. a \in Nat /\ b \in Nat /\ a <= b
      BY <1>3
    <2>. HIDE DEF a, b
    <2>2. m \in {a, b} /\ \A x \in {a, b} : m <= x
      <3>1. \E x \in {a, b} : \A y \in {a, b} : x <= y
        BY <2>1
      <3>. QED
        BY <3>1 DEF Min
    <2>. HIDE DEF m
    <2>3. m = a
      BY <2>1, <2>2
    <2>. QED
      BY <2>3 DEF m, a, b
  <1>7. Reassemble(t, Len(data)) = SubSeq(p, 1, Min({Len(data), Len(p)}))
    BY <1>5 DEF Reassemble
  <1>. QED
    BY <1>3, <1>4, <1>6, <1>7

(* Decodable (Engine.SelectForRead, erasure.Encoder, erasure.Chunker):     *)
(* for every code with two parity shards or more what a selection names    *)
(* gives back any contents, and for every code it is on as many providers  *)
(* as it has shards.                                                       *)
THEOREM DecodableAlways == Spec => []Decodable
  <1>1. EngineInv => Decodable
    <2>. SUFFICES ASSUME EngineInv, NEW r \in Readers, chosen[r] # {}
                  PROVE  /\ M >= 2 => Decodes(r)
                         /\ Cardinality({map[r][i] : i \in chosen[r]}) = Cardinality(chosen[r])
      BY DEF Decodable
    <2>. DEFINE S == chosen[r]
                pm == map[r]
                T == {pm[i] : i \in S}
    <2>1. S \in SUBSET Places /\ (M >= 2 => Cardinality(S) >= K) /\ pm \in Maps
      BY DEF EngineInv, EngineType, Picked
    <2>2. M >= 2 => \A data \in Contents : ReadFrom(data, S) = data
      <3>1. \A data \in Contents : data \in Seq(Range(data))
        BY EngineAssumption
      <3>. QED
        BY <2>1, <3>1, ReadsBack
    <2>3. Cardinality(T) = Cardinality(S)
      <3>. DEFINE f == [i \in S |-> pm[i]]
      <3>1. \A i, j \in S : pm[i] = pm[j] => i = j
        BY <2>1, MapsAre
      <3>2. f \in Injection(S, T)
        BY <3>1 DEF Injection, IsInjective
      <3>3. f \in Surjection(S, T)
        BY DEF Surjection
      <3>4. IsFiniteSet(S)
        <4>1. IsFiniteSet(Places)
          BY CodecAssumption, FS_Interval DEF Places
        <4>. QED
          BY <2>1, <4>1, FS_Subset
      <3>. HIDE DEF f, S, T
      <3>. QED
        BY <3>2, <3>3, <3>4, FS_Surjection
    <2>. QED
      BY <2>2, <2>3 DEF Decodes
  <1>. QED
    BY <1>1, AlwaysEngine, PTL

-----------------------------------------------------------------------------
(***************************************************************************)
(* Merging.  FoldLeft is a recursion on sets of positions; what is added   *)
(* line by line is put in a row as the pieces above.                       *)
(***************************************************************************)
IsSum(g, b, s, D) ==
    g = [S \in SUBSET D |-> IF S = {} THEN b ELSE AddLine(g[S \ {Max(S)}], s[Max(S)])]
SumAt(g, b, s, S) ==
    g[S] = IF S = {} THEN b ELSE AddLine(g[S \ {Max(S)}], s[Max(S)])

LEMMA SumIs ==
  ASSUME NEW b, NEW s
  PROVE  FoldLeft(AddLine, b, s) = (CHOOSE g : IsSum(g, b, s, DOMAIN s))[DOMAIN s]
  BY Zenon DEF FoldLeft, MapThenFoldSet, IsSum

LEMMA SumOf ==
  ASSUME NEW g, NEW b, NEW s, NEW D, IsSum(g, b, s, D), NEW S \in SUBSET D
  PROVE  SumAt(g, b, s, S)
  <1>. DEFINE G == [T \in SUBSET D |-> IF T = {} THEN b ELSE AddLine(g[T \ {Max(T)}], s[Max(T)])]
  <1>1. g = G
    BY DEF IsSum
  <1>2. G[S] = IF S = {} THEN b ELSE AddLine(g[S \ {Max(S)}], s[Max(S)])
    OBVIOUS
  <1>. HIDE DEF G
  <1>. QED
    BY <1>1, <1>2, Zenon DEF SumAt

LEMMA SumExists ==
  ASSUME NEW b, NEW s, NEW n \in Nat
  PROVE  \E g : IsSum(g, b, s, 1 .. n)
  <1>. DEFINE P == {j \in Nat : \E g : IsSum(g, b, s, 1 .. j)}
  <1>1. 0 \in P
    <2>1. IsSum([S \in SUBSET {} |-> b], b, s, {})
      BY Zenon DEF IsSum
    <2>2. 1 .. 0 = {}
      OBVIOUS
    <2>. QED
      BY <2>1, <2>2
  <1>2. ASSUME NEW j \in 1 .. n, j - 1 \in P PROVE j \in P
    <2>1. PICK g : IsSum(g, b, s, 1 .. j - 1)
      BY <1>2
    <2>. DEFINE h == [S \in SUBSET (1 .. j) |-> IF j \in S THEN AddLine(g[S \ {j}], s[j]) ELSE g[S]]
    <2>. HIDE DEF P
    <2>2. ASSUME NEW S \in SUBSET (1 .. j)
          PROVE  h[S] = IF S = {} THEN b ELSE AddLine(h[S \ {Max(S)}], s[Max(S)])
      <3>1. CASE j \in S
        <4>1. Max(S) = j
          <5>1. Max(S) \in S /\ j <= Max(S)
            <6>1. j \in Nat
              OBVIOUS
            <6>. HIDE DEF h
            <6>. QED
              BY <3>1, <6>1, MaxUpTo
          <5>2. Max(S) \in 1 .. j
            BY <5>1
          <5>. QED
            BY <5>1, <5>2
        <4>2. S \ {j} \in SUBSET (1 .. j) /\ j \notin S \ {j}
          OBVIOUS
        <4>3. h[S \ {j}] = g[S \ {j}]
          BY <4>2
        <4>4. h[S] = AddLine(g[S \ {j}], s[j])
          BY <3>1
        <4>. HIDE DEF h
        <4>. QED
          BY <3>1, <4>1, <4>3, <4>4
      <3>2. CASE j \notin S
        <4>1. S \in SUBSET (1 .. j - 1)
          BY <3>2
        <4>2. h[S] = g[S]
          BY <3>2
        <4>3. h[S \ {Max(S)}] = g[S \ {Max(S)}]
          <5>1. S \ {Max(S)} \in SUBSET (1 .. j) /\ j \notin S \ {Max(S)}
            BY <3>2
          <5>. QED
            BY <5>1
        <4>. HIDE DEF h
        <4>4. SumAt(g, b, s, S)
          BY <2>1, <4>1, SumOf
        <4>. QED
          BY <4>2, <4>3, <4>4, Zenon DEF SumAt
      <3>. QED
        BY <3>1, <3>2
    <2>3. h = [S \in SUBSET (1 .. j) |-> h[S]]
      OBVIOUS
    <2>. HIDE DEF h
    <2>4. IsSum(h, b, s, 1 .. j)
      BY <2>2, <2>3, Zenon DEF IsSum
    <2>. QED
      BY <2>4 DEF P
  <1>. HIDE DEF P
  <1>3. n \in P
    BY <1>1, <1>2, CountUp
  <1>. QED
    BY <1>3 DEF P

(* The text after each line that is added.                                 *)
IsGrowth(g, b, s, n) == /\ g[0] = b /\ g[n] = FoldLeft(AddLine, b, s)
                        /\ \A j \in 1 .. n : g[j] = AddLine(g[j - 1], s[j])

LEMMA GrowthExists ==
  ASSUME NEW X, NEW b, NEW s \in Seq(X)
  PROVE  \E g : IsGrowth(g, b, s, Len(s))
  <1>. DEFINE n == Len(s)
              f == CHOOSE h : IsSum(h, b, s, 1 .. n)
              g == [j \in 0 .. n |-> f[1 .. j]]
  <1>1. n \in Nat /\ DOMAIN s = 1 .. n
    OBVIOUS
  <1>2. IsSum(f, b, s, 1 .. n)
    BY <1>1, SumExists
  <1>3. FoldLeft(AddLine, b, s) = f[1 .. n]
    BY <1>1, SumIs, Zenon
  <1>. HIDE DEF f
  <1>4. f[{}] = b
    BY <1>2, SumOf DEF SumAt
  <1>5. ASSUME NEW j \in 1 .. n PROVE f[1 .. j] = AddLine(f[1 .. j - 1], s[j])
    <2>. DEFINE S == 1 .. j
    <2>1. S \in SUBSET (1 .. n) /\ S # {} /\ S \ {j} = 1 .. j - 1 /\ j \in S
      <3>1. j \in Nat /\ j >= 1 /\ j <= n
        BY <1>1
      <3>. HIDE DEF n
      <3>2. (1 .. j) \ {j} = 1 .. j - 1 /\ j \in 1 .. j
        BY <3>1
      <3>3. 1 .. j \subseteq 1 .. n
        BY <1>1, <3>1
      <3>. QED
        BY <3>2, <3>3
    <2>2. Max(S) = j
      <3>1. S \in SUBSET (1 .. j) /\ \A i \in S : i <= j /\ i \in Nat
        OBVIOUS
      <3>. HIDE DEF S
      <3>2. Max(S) \in S /\ \A i \in S : i <= Max(S)
        BY <1>1, <2>1, <3>1, MaxUpTo
      <3>. QED
        BY <2>1, <3>1, <3>2
    <2>. HIDE DEF S
    <2>3. SumAt(f, b, s, S)
      BY <1>2, <2>1, SumOf
    <2>. QED
      BY <2>1, <2>2, <2>3, Zenon DEF S, SumAt
  <1>6. g[0] = b /\ g[n] = FoldLeft(AddLine, b, s)
    <2>1. 1 .. 0 = {} /\ 0 \in 0 .. n /\ n \in 0 .. n
      BY <1>1
    <2>. QED
      BY <1>3, <1>4, <2>1
  <1>7. ASSUME NEW j \in 1 .. n PROVE g[j] = AddLine(g[j - 1], s[j])
    <2>1. j \in 0 .. n /\ j - 1 \in 0 .. n
      BY <1>1
    <2>. QED
      BY <1>5, <2>1
  <1>. HIDE DEF g, n
  <1>8. IsGrowth(g, b, s, n)
    BY <1>6, <1>7 DEF IsGrowth
  <1>. QED
    BY <1>8 DEF n

LEMMA AddLineIs ==
  ASSUME NEW X, NEW s \in Seq(X), NEW x \in X
  PROVE  /\ AddLine(s, x) \in Seq(X)
         /\ \A y : y \in Range(AddLine(s, x)) <=> y \in Range(s) \/ y = x
  <1>1. CASE x \in Range(s)
    BY <1>1 DEF AddLine
  <1>2. CASE x \notin Range(s)
    <2>1. AddLine(s, x) = Append(s, x)
      BY <1>2 DEF AddLine
    <2>2. /\ Append(s, x) \in Seq(X) /\ Len(Append(s, x)) = Len(s) + 1
          /\ Append(s, x)[Len(s) + 1] = x /\ \A i \in 1 .. Len(s) : Append(s, x)[i] = s[i]
          /\ DOMAIN s = 1 .. Len(s) /\ DOMAIN Append(s, x) = 1 .. Len(s) + 1
          /\ Len(s) \in Nat
      OBVIOUS
    <2>. DEFINE t == Append(s, x)
    <2>. HIDE DEF t
    <2>3. \A i : i \in 1 .. Len(s) + 1 <=> i \in 1 .. Len(s) \/ i = Len(s) + 1
      BY <2>2
    <2>4. \A y : y \in Range(t) <=> y \in Range(s) \/ y = x
      BY <2>2, <2>3 DEF Range, t
    <2>. QED
      BY <2>1, <2>2, <2>4 DEF t
  <1>. QED
    BY <1>1, <1>2

(* No line gets lost, neither of the text nor of those that are added.     *)
LEMMA GrownElements ==
  ASSUME NEW X, NEW b \in Seq(X), NEW s \in Seq(X)
  PROVE  /\ FoldLeft(AddLine, b, s) \in Seq(X)
         /\ Range(b) \subseteq Range(FoldLeft(AddLine, b, s))
  <1>. DEFINE n == Len(s)
  <1>1. PICK g : IsGrowth(g, b, s, n)
    BY GrowthExists
  <1>. DEFINE P == {j \in 0 .. n : g[j] \in Seq(X) /\ Range(b) \subseteq Range(g[j])}
  <1>2. 0 \in P /\ n \in Nat
    <2>1. g[0] = b /\ 0 \in 0 .. n /\ n \in Nat
      BY <1>1 DEF IsGrowth
    <2>. QED
      BY <2>1
  <1>3. ASSUME NEW j \in 1 .. n, j - 1 \in P PROVE j \in P
    <2>1. g[j] = AddLine(g[j - 1], s[j])
      BY <1>1, Zenon DEF IsGrowth
    <2>2. j \in 0 .. n /\ s[j] \in X
      OBVIOUS
    <2>3. g[j - 1] \in Seq(X) /\ Range(b) \subseteq Range(g[j - 1])
      BY <1>3
    <2>4. g[j] \in Seq(X) /\ Range(b) \subseteq Range(g[j])
      BY <2>1, <2>2, <2>3, AddLineIs
    <2>. QED
      BY <2>2, <2>4
  <1>. HIDE DEF P, n
  <1>4. n \in P
    <2>1. n \in 0 .. n
      BY <1>2
    <2>. QED
      BY <1>2, <1>3, <2>1, CountUp
  <1>. QED
    BY <1>1, <1>4 DEF P, IsGrowth

(* If of what is added only a blank line can be new, it depends on nothing *)
(* but whether there is one.                                               *)
LEMMA GrownByBlank ==
  ASSUME NEW X, Blank \in X, NEW b \in Seq(X), NEW s \in Seq(X),
         \A x \in Range(s) : x \in Range(b) \/ x = Blank
  PROVE  FoldLeft(AddLine, b, s) =
            IF Blank \in Range(s) /\ Blank \notin Range(b) THEN Append(b, Blank) ELSE b
  <1>. DEFINE n == Len(s)
              Here(j) == \E i \in 1 .. j : s[i] = Blank
              Grown(j) == IF Here(j) /\ Blank \notin Range(b) THEN Append(b, Blank) ELSE b
  <1>1. PICK g : IsGrowth(g, b, s, n)
    BY GrowthExists
  <1>. DEFINE P == {j \in 0 .. n : g[j] = Grown(j)}
  <1>2. 0 \in P /\ n \in Nat
    <2>1. g[0] = b /\ 0 \in 0 .. n /\ n \in Nat
      BY <1>1 DEF IsGrowth
    <2>2. 1 .. 0 = {}
      OBVIOUS
    <2>3. ~Here(0)
      BY <2>2
    <2>. QED
      BY <2>1, <2>3
  <1>3. ASSUME NEW j \in 1 .. n, j - 1 \in P PROVE j \in P
    <2>1. g[j] = AddLine(g[j - 1], s[j])
      BY <1>1, Zenon DEF IsGrowth
    <2>2. j \in 0 .. n /\ s[j] \in X /\ s[j] \in Range(s)
      BY DEF Range
    <2>3. g[j - 1] = Grown(j - 1)
      BY <1>3
    <2>4. Here(j) <=> Here(j - 1) \/ s[j] = Blank
      <3>1. \A i : i \in 1 .. j <=> i \in 1 .. j - 1 \/ i = j
        OBVIOUS
      <3>. QED
        BY <3>1
    <2>. HIDE DEF P, Here
    <2>5. g[j] = Grown(j)
      <3>1. CASE s[j] # Blank
        <4>1. s[j] \in Range(b)
          BY <2>2, <3>1
        <4>2. s[j] \in Range(Append(b, Blank)) \/ Blank \in Range(b)
          <5>1. \A y : y \in Range(AddLine(b, Blank)) <=> y \in Range(b) \/ y = Blank
            BY AddLineIs
          <5>. QED
            BY <4>1, <5>1 DEF AddLine
        <4>3. s[j] \in Range(g[j - 1])
          BY <2>3, <4>1, <4>2
        <4>4. g[j] = g[j - 1]
          BY <2>1, <4>3 DEF AddLine
        <4>. QED
          BY <2>3, <2>4, <3>1, <4>4
      <3>2. CASE s[j] = Blank
        <4>1. Here(j)
          BY <2>4, <3>2
        <4>2. CASE Blank \in Range(b)
          BY <2>1, <2>3, <3>2, <4>2 DEF AddLine
        <4>3. CASE Blank \notin Range(b) /\ ~Here(j - 1)
          BY <2>1, <2>3, <3>2, <4>1, <4>3 DEF AddLine
        <4>4. CASE Blank \notin Range(b) /\ Here(j - 1)
          <5>1. AddLine(b, Blank) = Append(b, Blank)
            BY <4>4 DEF AddLine
          <5>2. Blank \in Range(Append(b, Blank))
            BY <5>1, AddLineIs
          <5>. QED
            BY <2>1, <2>3, <3>2, <4>1, <4>4, <5>2 DEF AddLine
        <4>. QED
          BY <4>2, <4>3, <4>4
      <3>. QED
        BY <3>1, <3>2
    <2>. QED
      BY <2>2, <2>5 DEF P
  <1>. HIDE DEF P, n
  <1>4. n \in P
    <2>1. n \in 0 .. n
      BY <1>2
    <2>. QED
      BY <1>2, <1>3, <2>1, CountUp
  <1>5. Here(n) <=> Blank \in Range(s)
    <2>1. DOMAIN s = 1 .. n
      BY DEF n
    <2>. QED
      BY <2>1 DEF Range
  <1>. QED
    BY <1>1, <1>4, <1>5 DEF P, IsGrowth

(* The lines that stand at their places.                                   *)
AllLines == Lines \cup {Blank}
PlacesOf(b, o, t) == 1 .. Max({Len(b), Len(o), Len(t)})
InPlace(b, o, t) == FlattenSeq([i \in PlacesOf(b, o, t) |-> LineAt(b, o, t, i)])
Added(b, o, t) == Beyond(b, o) \o Beyond(b, t)

LEMMA MaxOfThree ==
  ASSUME NEW x \in Nat, NEW y \in Nat, NEW z \in Nat
  PROVE  Max({x, y, z}) \in {x, y, z} /\ \A a \in {x, y, z} : Max({x, y, z}) >= a
  <1>1. \E m \in {x, y, z} : \A a \in {x, y, z} : m >= a
    <2>1. CASE x >= y /\ x >= z
      BY <2>1
    <2>2. CASE y >= x /\ y >= z
      BY <2>2
    <2>3. CASE z >= x /\ z >= y
      BY <2>3
    <2>. QED
      BY <2>1, <2>2, <2>3
  <1>. QED
    BY <1>1 DEF Max

LEMMA PlacesAre ==
  ASSUME NEW b \in Seq(AllLines), NEW o \in Seq(AllLines), NEW t \in Seq(AllLines)
  PROVE  /\ \A i : i \in PlacesOf(b, o, t) <=>
                      i \in 1 .. Len(b) \/ i \in 1 .. Len(o) \/ i \in 1 .. Len(t)
         /\ \E n \in Nat : PlacesOf(b, o, t) = 1 .. n
  <1>. DEFINE m == Max({Len(b), Len(o), Len(t)})
  <1>1. Len(b) \in Nat /\ Len(o) \in Nat /\ Len(t) \in Nat
    OBVIOUS
  <1>2. m \in {Len(b), Len(o), Len(t)} /\ m >= Len(b) /\ m >= Len(o) /\ m >= Len(t)
    BY <1>1, MaxOfThree
  <1>. HIDE DEF m
  <1>3. m \in Nat
    BY <1>1, <1>2
  <1>4. \A i : i \in 1 .. m <=> i \in 1 .. Len(b) \/ i \in 1 .. Len(o) \/ i \in 1 .. Len(t)
    BY <1>1, <1>2, <1>3
  <1>. QED
    BY <1>3, <1>4 DEF PlacesOf, m

LEMMA ConflictingIs ==
  ASSUME NEW b \in Seq(AllLines), NEW o \in Seq(AllLines), NEW t \in Seq(AllLines)
  PROVE  /\ Conflicting(b, o, t) = {i \in PlacesOf(b, o, t) : Changed(b, o, i) /\ Changed(b, t, i)}
         /\ Conflicting(b, o, t) = Conflicting(b, t, o)
         /\ PlacesOf(b, o, t) = PlacesOf(b, t, o)
  <1>1. {Len(o), Len(t), Len(b)} = {Len(b), Len(o), Len(t)}
    OBVIOUS
  <1>2. {Len(t), Len(o), Len(b)} = {Len(b), Len(o), Len(t)}
    OBVIOUS
  <1>3. {Len(b), Len(t), Len(o)} = {Len(b), Len(o), Len(t)}
    OBVIOUS
  <1>. QED
    BY <1>1, <1>2, <1>3 DEF Conflicting, PlacesOf

LEMMA InPlaceIs ==
  ASSUME NEW b \in Seq(AllLines), NEW o \in Seq(AllLines), NEW t \in Seq(AllLines)
  PROVE  /\ InPlace(b, o, t) \in Seq(AllLines)
         /\ \A i \in PlacesOf(b, o, t) : \A x : LineAt(b, o, t, i) = <<x>> => x \in Range(InPlace(b, o, t))
  <1>. DEFINE P == PlacesOf(b, o, t)
              s == [i \in P |-> LineAt(b, o, t, i)]
  <1>1. PICK n \in Nat : P = 1 .. n
    BY PlacesAre
  <1>2. ASSUME NEW i \in P PROVE s[i] \in Seq(AllLines)
    <2>. DEFINE by == IF Changed(b, o, i) THEN o ELSE IF Changed(b, t, i) THEN t ELSE b
    <2>1. by \in Seq(AllLines) /\ i \in Nat \ {0}
      BY <1>1
    <2>2. s[i] = IF i > Len(by) \/ (i \in Conflicting(b, o, t) /\ by[i] = Blank) THEN <<>>
                 ELSE <<by[i]>>
      BY DEF LineAt
    <2>. HIDE DEF by, s
    <2>3. ~(i > Len(by)) => by[i] \in AllLines
      BY <2>1
    <2>. QED
      BY <2>2, <2>3
  <1>3. s \in Seq(Seq(AllLines)) /\ DOMAIN s = P
    <2>1. s = [i \in P |-> s[i]]
      OBVIOUS
    <2>. HIDE DEF s
    <2>2. s \in [1 .. n -> Seq(AllLines)]
      BY <1>1, <1>2, <2>1
    <2>. QED
      BY <1>1, <2>1, <2>2
  <1>4. InPlace(b, o, t) = FlattenSeq(s)
    BY DEF InPlace
  <1>5. \A i \in P : s[i] = LineAt(b, o, t, i)
    OBVIOUS
  <1>. HIDE DEF s, P
  <1>6. /\ FlattenSeq(s) \in Seq(AllLines)
        /\ \A x : x \in Range(FlattenSeq(s)) <=> \E i \in DOMAIN s : x \in Range(s[i])
    BY <1>3, RowElements
  <1>7. \A x : x \in Range(<<x>>)
    BY DEF Range
  <1>. QED
    BY <1>3, <1>4, <1>5, <1>6, <1>7 DEF P

(* What either has and the base has not stands at its place, unless theirs *)
(* is in conflict.                                                         *)
LEMMA ChangedInPlace ==
  ASSUME NEW b \in Seq(AllLines), NEW o \in Seq(AllLines), NEW t \in Seq(AllLines), NEW i \in Nat \ {0}
  PROVE  /\ getLine(o, i) \notin {Blank, getLine(b, i)} => getLine(o, i) \in Range(InPlace(b, o, t))
         /\ getLine(t, i) \notin {Blank, getLine(b, i)} =>
               getLine(t, i) \in Range(InPlace(b, o, t)) \/ i \in Conflicting(b, o, t)
  <1>1. ASSUME getLine(o, i) \notin {Blank, getLine(b, i)}
        PROVE  getLine(o, i) \in Range(InPlace(b, o, t))
    <2>1. i <= Len(o) /\ getLine(o, i) = o[i] /\ o[i] # Blank /\ Changed(b, o, i)
      BY <1>1 DEF getLine, Changed
    <2>2. i \in PlacesOf(b, o, t) /\ ~(i > Len(o))
      <3>1. i \in 1 .. Len(o) /\ ~(i > Len(o))
        BY <2>1
      <3>2. i \in PlacesOf(b, o, t)
        BY <3>1, PlacesAre
      <3>. QED
        BY <3>1, <3>2
    <2>3. LineAt(b, o, t, i) = <<o[i]>>
      BY <2>1, <2>2 DEF LineAt
    <2>. QED
      BY <2>1, <2>2, <2>3, InPlaceIs
  <1>2. ASSUME getLine(t, i) \notin {Blank, getLine(b, i)}, i \notin Conflicting(b, o, t)
        PROVE  getLine(t, i) \in Range(InPlace(b, o, t))
    <2>1. i <= Len(t) /\ getLine(t, i) = t[i] /\ t[i] # Blank /\ Changed(b, t, i)
      BY <1>2 DEF getLine, Changed
    <2>2. i \in PlacesOf(b, o, t) /\ ~(i > Len(t))
      <3>1. i \in 1 .. Len(t) /\ ~(i > Len(t))
        BY <2>1
      <3>2. i \in PlacesOf(b, o, t)
        BY <3>1, PlacesAre
      <3>. QED
        BY <3>1, <3>2
    <2>3. ~Changed(b, o, i)
      BY <1>2, <2>1, <2>2, ConflictingIs
    <2>4. LineAt(b, o, t, i) = <<t[i]>>
      BY <2>1, <2>2, <2>3 DEF LineAt
    <2>. QED
      BY <2>1, <2>2, <2>4, InPlaceIs
  <1>. QED
    BY <1>1, <1>2

LEMMA BeyondIs ==
  ASSUME NEW b \in Seq(AllLines), NEW o \in Seq(AllLines)
  PROVE  /\ Beyond(b, o) \in Seq(AllLines)
         /\ \A x \in Range(Beyond(b, o)) : \E i \in Nat \ {0} : /\ i > Len(b)
                                                               /\ x = getLine(o, i)
  <1>. DEFINE s == Beyond(b, o)
              m == Len(b) + 1
              n == Len(o)
  <1>1. m \in Nat \ {0} /\ n \in Nat /\ s = SubSeq(o, m, n)
    BY DEF Beyond
  <1>2. \A i \in m .. n : o[i] \in AllLines
    OBVIOUS
  <1>. HIDE DEF m, n
  <1>3. SubSeq(o, m, n) \in Seq(AllLines)
    BY <1>1, <1>2, SubSeqProperties
  <1>4. Len(SubSeq(o, m, n)) = IF m <= n THEN n - m + 1 ELSE 0
    BY <1>1, <1>2, SubSeqProperties
  <1>5. \A i \in 1 .. n - m + 1 : SubSeq(o, m, n)[i] = o[m + i - 1]
    BY <1>1, <1>2, SubSeqProperties
  <1>. HIDE DEF s
  <1>6. ASSUME NEW x \in Range(s)
        PROVE  \E i \in Nat \ {0} : i > Len(b) /\ x = getLine(o, i)
    <2>1. PICK j \in DOMAIN s : x = s[j]
      BY DEF Range
    <2>2. j \in 1 .. n - m + 1
      BY <1>1, <1>3, <1>4, <2>1
    <2>3. x = o[m + j - 1]
      BY <1>1, <1>5, <2>1, <2>2
    <2>4. m + j - 1 \in Nat \ {0} /\ m + j - 1 >= m /\ m + j - 1 <= n
      BY <1>1, <2>2
    <2>5. m + j - 1 > Len(b) /\ m + j - 1 <= Len(o)
      BY <2>4 DEF m, n
    <2>. QED
      BY <2>3, <2>4, <2>5 DEF getLine
  <1>. QED
    BY <1>1, <1>3, <1>6 DEF s

LEMMA EditsAre ==
  ASSUME NEW e \in Edits
  PROVE  e.base \in Seq(AllLines) /\ e.ours \in Seq(AllLines) /\ e.theirs \in Seq(AllLines)
  <1>1. \A s \in MergeTexts(MaxLines) : s \in Seq(AllLines)
    BY DecisionsAssumption DEF MergeTexts, SeqOf, AllLines
  <1>. QED
    BY <1>1 DEF Edits

(* The merged text is what stands in place with what is added, but for a   *)
(* text of one blank line.                                                 *)
LEMMA MergedIs ==
  ASSUME NEW b \in Seq(AllLines), NEW o \in Seq(AllLines), NEW t \in Seq(AllLines), o # t
  PROVE  /\ ThreeWayMerge(b, o, t).merged = TextOf(FoldLeft(AddLine, InPlace(b, o, t), Added(b, o, t)))
         /\ \A i \in Conflicting(b, o, t) : \E c \in ThreeWayMerge(b, o, t).conflicts :
               c.at = i /\ c.theirs = getLine(t, i)
         /\ {c.at : c \in ThreeWayMerge(b, o, t).conflicts} = Conflicting(b, o, t)
  <1>. DEFINE C == {[at |-> i, ours |-> getLine(o, i), theirs |-> getLine(t, i)] :
                       i \in Conflicting(b, o, t)}
  <1>1. ThreeWayMerge(b, o, t) = [merged |-> TextOf(FoldLeft(AddLine, InPlace(b, o, t), Added(b, o, t))),
                                  conflicts |-> C]
    BY Zenon DEF ThreeWayMerge, InPlace, PlacesOf, Added
  <1>2. /\ ThreeWayMerge(b, o, t).merged = TextOf(FoldLeft(AddLine, InPlace(b, o, t), Added(b, o, t)))
        /\ ThreeWayMerge(b, o, t).conflicts = C
    BY <1>1
  <1>. DEFINE R(i) == [at |-> i, ours |-> getLine(o, i), theirs |-> getLine(t, i)]
  <1>3. C = {R(i) : i \in Conflicting(b, o, t)}
    OBVIOUS
  <1>4. \A i : R(i).at = i /\ R(i).theirs = getLine(t, i)
    OBVIOUS
  <1>. HIDE DEF C, R
  <1>5. {c.at : c \in C} = Conflicting(b, o, t)
    BY <1>3, <1>4
  <1>6. \A i \in Conflicting(b, o, t) : \E c \in C : c.at = i /\ c.theirs = getLine(t, i)
    BY <1>3, <1>4
  <1>. QED
    BY <1>2, <1>5, <1>6

LEMMA Kept ==
  ASSUME NEW b \in Seq(AllLines), NEW o \in Seq(AllLines), NEW t \in Seq(AllLines), o # t,
         NEW x \in Range(InPlace(b, o, t)), x # Blank
  PROVE  x \in Range(ThreeWayMerge(b, o, t).merged)
  <1>. DEFINE r == FoldLeft(AddLine, InPlace(b, o, t), Added(b, o, t))
  <1>1. Added(b, o, t) \in Seq(AllLines) /\ InPlace(b, o, t) \in Seq(AllLines)
    BY BeyondIs, InPlaceIs DEF Added
  <1>2. x \in Range(r)
    BY <1>1, GrownElements
  <1>3. ThreeWayMerge(b, o, t).merged = TextOf(r)
    BY MergedIs
  <1>. HIDE DEF r
  <1>4. r # <<Blank>>
    <2>1. Range(<<Blank>>) = {Blank}
      BY DEF Range
    <2>. QED
      BY <1>2, <2>1
  <1>. QED
    BY <1>2, <1>3, <1>4 DEF TextOf

LEMMA EditsAreKept ==
  ASSUME NEW e \in Edits, NEW i \in Nat \ {0}
  PROVE  LET Merge == ThreeWayMerge(e.base, e.ours, e.theirs)
         IN  /\ getLine(e.theirs, i) \notin {Blank, getLine(e.base, i)} =>
                   \/ getLine(e.theirs, i) \in Range(Merge.merged)
                   \/ \E c \in Merge.conflicts : c.at = i /\ c.theirs = getLine(e.theirs, i)
             /\ getLine(e.ours, i) \notin {Blank, getLine(e.base, i)} =>
                   getLine(e.ours, i) \in Range(Merge.merged)
  <1>1. PICK b \in Seq(AllLines), o \in Seq(AllLines), t \in Seq(AllLines) :
           b = e.base /\ o = e.ours /\ t = e.theirs
    BY EditsAre
  <1>. DEFINE Merge == ThreeWayMerge(b, o, t)
  <1>2. CASE o = t
    <2>1. Merge.merged = o
      BY <1>2 DEF ThreeWayMerge
    <2>2. getLine(o, i) # Blank => getLine(o, i) \in Range(o)
      BY DEF getLine, Range
    <2>. QED
      BY <1>1, <1>2, <2>1, <2>2
  <1>3. CASE o # t
    <2>. HIDE DEF Merge
    <2>1. getLine(t, i) \notin {Blank, getLine(b, i)} =>
             \/ getLine(t, i) \in Range(Merge.merged)
             \/ \E c \in Merge.conflicts : c.at = i /\ c.theirs = getLine(t, i)
      BY <1>3, ChangedInPlace, Kept, MergedIs DEF Merge
    <2>2. getLine(o, i) \notin {Blank, getLine(b, i)} => getLine(o, i) \in Range(Merge.merged)
      BY <1>3, ChangedInPlace, Kept DEF Merge
    <2>. QED
      BY <1>1, <2>1, <2>2 DEF Merge
  <1>. QED
    BY <1>2, <1>3

InputOK == part = "merge" => input \in Edits

LEMMA AlwaysInput == Spec => []InputOK
  <1>1. Init => InputOK
    BY DEF Init, InputOK
  <1>2. InputOK /\ [Next]_vars => InputOK'
    BY DEF InputOK, Next, vars, Reading, Comparing
  <1>. QED
    BY <1>1, <1>2, PTL DEF Spec

(* NoEditLost (ThreeWayMerge): no line that either side has written is     *)
(* dropped, but for a line of theirs that a conflict reports.              *)
THEOREM NoEditLostAlways == Spec => []NoEditLost
  <1>1. InputOK => NoEditLost
    <2>1. 1 .. MaxLines \subseteq Nat \ {0}
      BY DecisionsAssumption
    <2>. QED
      BY <2>1, EditsAreKept DEF InputOK, NoEditLost, Ours
  <1>. QED
    BY <1>1, AlwaysInput, PTL

(* Without conflicts, each line that was added beyond the base already     *)
(* stands in place, but for a blank one.                                   *)
LEMMA NothingNew ==
  ASSUME NEW b \in Seq(AllLines), NEW o \in Seq(AllLines), NEW t \in Seq(AllLines),
         Conflicting(b, o, t) = {}
  PROVE  /\ Added(b, o, t) \in Seq(AllLines)
         /\ \A x : x \in Range(Added(b, o, t)) <=> x \in Range(Beyond(b, o)) \/ x \in Range(Beyond(b, t))
         /\ \A x \in Range(Added(b, o, t)) : x \in Range(InPlace(b, o, t)) \/ x = Blank
  <1>1. Beyond(b, o) \in Seq(AllLines) /\ Beyond(b, t) \in Seq(AllLines)
    BY BeyondIs
  <1>2. \A x : x \in Range(Added(b, o, t)) <=> x \in Range(Beyond(b, o)) \/ x \in Range(Beyond(b, t))
    BY <1>1, ConcatElements DEF Added
  <1>3. ASSUME NEW x \in Range(Beyond(b, o)), x # Blank PROVE x \in Range(InPlace(b, o, t))
    <2>1. PICK i \in Nat \ {0} : i > Len(b) /\ x = getLine(o, i)
      BY BeyondIs
    <2>2. getLine(b, i) = Blank
      BY <2>1 DEF getLine
    <2>. QED
      BY <1>3, <2>1, <2>2, ChangedInPlace
  <1>4. ASSUME NEW x \in Range(Beyond(b, t)), x # Blank PROVE x \in Range(InPlace(b, o, t))
    <2>1. PICK i \in Nat \ {0} : i > Len(b) /\ x = getLine(t, i)
      BY BeyondIs
    <2>2. getLine(b, i) = Blank
      BY <2>1 DEF getLine
    <2>. QED
      BY <1>4, <2>1, <2>2, ChangedInPlace
  <1>5. Added(b, o, t) \in Seq(AllLines)
    BY <1>1 DEF Added
  <1>. QED
    BY <1>2, <1>3, <1>4, <1>5

LEMMA InPlaceEitherWay ==
  ASSUME NEW b \in Seq(AllLines), NEW o \in Seq(AllLines), NEW t \in Seq(AllLines),
         Conflicting(b, o, t) = {}
  PROVE  InPlace(b, o, t) = InPlace(b, t, o)
  <1>1. PlacesOf(b, o, t) = PlacesOf(b, t, o) /\ Conflicting(b, t, o) = {}
    BY ConflictingIs
  <1>2. ASSUME NEW i \in PlacesOf(b, o, t) PROVE LineAt(b, o, t, i) = LineAt(b, t, o, i)
    <2>1. ~(Changed(b, o, i) /\ Changed(b, t, i))
      BY ConflictingIs
    <2>. QED
      BY <1>1, <2>1, Zenon DEF LineAt
  <1>. QED
    BY <1>1, <1>2, Zenon DEF InPlace

(* Converges (ThreeWayMerge): two devices that merge each other's edits    *)
(* report conflicts at the same places, and get the same text if there are *)
(* none.                                                                   *)
THEOREM ConvergesAlways == Spec => []Converges
  <1>1. InputOK => Converges
    <2>. SUFFICES ASSUME input \in Edits
                  PROVE  /\ {c.at : c \in Ours.conflicts} = {c.at : c \in Theirs.conflicts}
                         /\ Ours.conflicts = {} => Ours.merged = Theirs.merged
      BY DEF InputOK, Converges
    <2>1. PICK b \in Seq(AllLines), o \in Seq(AllLines), t \in Seq(AllLines) :
             b = input.base /\ o = input.ours /\ t = input.theirs
      BY EditsAre
    <2>2. Ours = ThreeWayMerge(b, o, t) /\ Theirs = ThreeWayMerge(b, t, o)
      BY <2>1 DEF Ours, Theirs
    <2>3. CASE o = t
      BY <2>2, <2>3
    <2>4. CASE o # t
      <3>1. /\ {c.at : c \in Ours.conflicts} = Conflicting(b, o, t)
            /\ {c.at : c \in Theirs.conflicts} = Conflicting(b, t, o)
        BY <2>2, <2>4, MergedIs
      <3>2. ASSUME Ours.conflicts = {} PROVE Ours.merged = Theirs.merged
        <4>1. Conflicting(b, o, t) = {} /\ Conflicting(b, t, o) = {}
          BY <3>1, <3>2, ConflictingIs
        <4>. DEFINE x == InPlace(b, o, t)
                    Grown(s) == IF Blank \in Range(s) /\ Blank \notin Range(x)
                                THEN Append(x, Blank) ELSE x
        <4>2. x \in Seq(AllLines) /\ x = InPlace(b, t, o) /\ Blank \in AllLines
          BY <4>1, InPlaceIs, InPlaceEitherWay DEF AllLines
        <4>3. FoldLeft(AddLine, x, Added(b, o, t)) = Grown(Added(b, o, t))
          BY <4>1, <4>2, NothingNew, GrownByBlank
        <4>4. FoldLeft(AddLine, x, Added(b, t, o)) = Grown(Added(b, t, o))
          BY <4>1, <4>2, NothingNew, GrownByBlank
        <4>5. Blank \in Range(Added(b, o, t)) <=> Blank \in Range(Added(b, t, o))
          BY <4>1, NothingNew
        <4>6. Grown(Added(b, o, t)) = Grown(Added(b, t, o))
          BY <4>5
        <4>7. /\ Ours.merged = TextOf(FoldLeft(AddLine, x, Added(b, o, t)))
              /\ Theirs.merged = TextOf(FoldLeft(AddLine, x, Added(b, t, o)))
          BY <2>2, <2>4, <4>2, MergedIs
        <4>. HIDE DEF x, Grown
        <4>. QED
          BY <4>3, <4>4, <4>6, <4>7
      <3>. QED
        BY <3>1, <3>2, ConflictingIs
    <2>. QED
      BY <2>3, <2>4
  <1>. QED
    BY <1>1, AlwaysInput, PTL
=============================================================================
