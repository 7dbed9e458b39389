--------------------------- MODULE ServicesProofs ---------------------------
(***************************************************************************)
(* Proofs about the parts of the program that share no state: the file     *)
(* calls of MatrixFS, for every width of a word, every string and every    *)
(* request FUSE may make; the store, for every set of keys and values;     *)
(* Hasher, for every folder; and the Logiqx parser, for every document.    *)
(***************************************************************************)
EXTENDS HelloFile, LevelDBStore, Hasher, Logiqx, DataLemmas

\* Reducing a number below the modulus changes nothing.
LEMMA SmallMod ==
  ASSUME NEW W \in Nat, NEW n \in Nat, n < W
  PROVE  n % W = n
  OBVIOUS

LEMMA LenNat == len \in Nat
  BY FuseAssumption DEF len

\* Within FUSE's limits read() computes what one would expect of numbers
\* without a width.
LEMMA ReadSizeExact ==
  ASSUME NEW asked \in Request, NEW offset \in Nat, offset <= len \/ offset \in Offset
  PROVE  ReadSize(asked, offset) =
           IF offset < len THEN IF offset + asked > len THEN len - offset ELSE asked ELSE 0
<1>1. asked \in Nat /\ Word \in Nat /\ len \in Nat /\ asked + len < Word
  BY FuseAssumption, LenNat
<1>2. offset < Word
  <2>1. offset \in Offset => offset \in 0..(Word \div 2 - 1)
    BY FuseAssumption
  <2> QED BY <1>1, <2>1
<1>3. Unsigned(offset) = offset
  BY <1>1, <1>2, SmallMod DEF Unsigned
<1>4. offset < len => (Unsigned(offset) + asked) % Word = offset + asked
  <2> SUFFICES ASSUME offset < len
               PROVE  (offset + asked) % Word = offset + asked
    BY <1>3
  <2>1. offset + asked \in Nat /\ offset + asked < Word
    BY <1>1
  <2> QED BY <1>1, <2>1, SmallMod
<1> QED BY <1>1, <1>3, <1>4 DEF ReadSize

\* A copy within the string is that part of it.
LEMMA CopiedPart ==
  ASSUME NEW asked \in Request, NEW offset \in Nat,
         ReadSize(asked, offset) \in Nat, offset + ReadSize(asked, offset) <= len
  PROVE  /\ Copied(asked, offset) \in Seq(Nat)
         /\ Copied(asked, offset) = SubSeq(hello_str, offset + 1, offset + ReadSize(asked, offset))
<1> DEFINE n == ReadSize(asked, offset)
<1>1. len \in Nat /\ n \in Nat
  BY LenNat
<1>2. \A i \in 1..n : Memory(offset + i) = hello_str[offset + i]
  BY <1>1 DEF Memory
<1>3. \A i \in 1..n : hello_str[offset + i] \in Nat
  BY <1>1, FuseAssumption DEF len
<1>4. Copied(asked, offset) = [i \in 1..n |-> hello_str[offset + i]]
  BY <1>2 DEF Copied
<1> HIDE DEF n
<1>5. SubSeq(hello_str, offset + 1, offset + n) = [i \in 1..n |-> hello_str[offset + i]]
  BY <1>1, FuseAssumption DEF len
<1>6. [i \in 1..n |-> hello_str[offset + i]] \in Seq(Nat)
  BY <1>1, <1>3
<1> QED BY <1>4, <1>5, <1>6 DEF n

(***************************************************************************)
(* Type correctness of the readers: none is ever past the end of the file. *)
(***************************************************************************)
THEOREM TypeCorrect == Spec => []TypeOK
<1>1. Init => TypeOK
  BY LenNat DEF Init, TypeOK
<1>2. TypeOK /\ [Next]_vars => TypeOK'
  <2> SUFFICES ASSUME TypeOK, [Next]_vars
               PROVE  TypeOK'
    OBVIOUS
  <2>1. ASSUME NEW r \in Reader, Open(r) PROVE TypeOK'
    BY <2>1, LenNat DEF TypeOK, Open, OpenResult, OK, ENOENT, EACCES
  <2>2. ASSUME NEW r \in Reader, ReadNext(r) PROVE TypeOK'
    <3>1. PICK asked \in Request :
            /\ buf' = [buf EXCEPT ![r] = @ \o Copied(asked, position[r])]
            /\ position' = [position EXCEPT ![r] = @ + ReadSize(asked, position[r])]
      BY <2>2 DEF ReadNext
    <3>2. asked \in Nat /\ position[r] \in Nat /\ position[r] <= len /\ len \in Nat
      BY FuseAssumption, LenNat DEF TypeOK
    <3>3. position[r] + ReadSize(asked, position[r]) \in 0..len
      BY <3>2, ReadSizeExact
    <3>4. Copied(asked, position[r]) \in Seq(Nat)
      <4>1. /\ ReadSize(asked, position[r]) \in Nat
            /\ position[r] + ReadSize(asked, position[r]) <= len
        BY <3>2, ReadSizeExact
      <4> QED BY <4>1, <3>2, CopiedPart
    <3>5. buf' \in [Reader -> Seq(Nat)]
      BY <3>1, <3>4 DEF TypeOK
    <3>6. position' \in [Reader -> 0..len]
      BY <3>1, <3>3 DEF TypeOK
    <3> QED BY <2>2, <3>5, <3>6 DEF TypeOK, ReadNext
  <2>3. ASSUME NEW r \in Reader, Close(r) PROVE TypeOK'
    BY <2>3 DEF TypeOK, Close
  <2>4. CASE UNCHANGED vars
    BY <2>4 DEF TypeOK, vars
  <2> QED BY <2>1, <2>2, <2>3, <2>4 DEF Next
<1> QED BY <1>1, <1>2, PTL DEF Spec

(***************************************************************************)
(* Every read that FUSE may ask for, and every read that continues one,    *)
(* stays in bounds: read() of main.cpp.                                    *)
(***************************************************************************)
THEOREM ReadsInBoundsAlways == Spec => []ReadsInBounds
<1>1. TypeOK => ReadsInBounds
  <2> SUFFICES ASSUME TypeOK, NEW r \in Reader, NEW asked \in Request,
                      NEW offset \in Offset \cup {position[r]}
               PROVE  LET n == ReadSize(asked, offset) IN
                      /\ 0 <= n /\ n <= asked
                      /\ n # 0 => offset + n <= len
                      /\ n < asked => offset + n >= len
    BY DEF ReadsInBounds
  <2>1. /\ asked \in Nat /\ len \in Nat
        /\ offset \in Nat /\ (offset <= len \/ offset \in Offset)
    BY FuseAssumption, LenNat DEF TypeOK
  <2>2. ReadSize(asked, offset) =
          IF offset < len THEN IF offset + asked > len THEN len - offset ELSE asked ELSE 0
    BY <2>1, ReadSizeExact
  <2> QED BY <2>1, <2>2
<1> QED BY <1>1, TypeCorrect, PTL

\* Two adjacent parts of a sequence make one.
LEMMA AdjacentParts ==
  ASSUME NEW S, NEW s \in Seq(S), NEW m \in Nat, NEW n \in Nat, m + n <= Len(s)
  PROVE  SubSeq(s, 1, m) \o SubSeq(s, m + 1, m + n) = SubSeq(s, 1, m + n)
<1> DEFINE a == SubSeq(s, 1, m)
           b == SubSeq(s, m + 1, m + n)
           c == SubSeq(s, 1, m + n)
<1>1. a \in Seq(S) /\ Len(a) = m /\ \A i \in 1..m : a[i] = s[i]
  OBVIOUS
<1>2. b \in Seq(S) /\ Len(b) = n /\ \A i \in 1..n : b[i] = s[m + i]
  OBVIOUS
<1>3. c \in Seq(S) /\ Len(c) = m + n /\ \A i \in 1..(m + n) : c[i] = s[i]
  OBVIOUS
<1> HIDE DEF a, b, c
<1>4. /\ a \o b \in Seq(S) /\ Len(a \o b) = m + n
      /\ \A i \in 1..(m + n) : (a \o b)[i] = IF i <= m THEN a[i] ELSE b[i - m]
  BY <1>1, <1>2, ConcatProperties
<1>5. ASSUME NEW i \in 1..(m + n) PROVE (a \o b)[i] = c[i]
  <2>0. i \in Nat /\ (a \o b)[i] = IF i <= m THEN a[i] ELSE b[i - m]
    BY <1>4, <1>5
  <2>1. CASE i <= m
    <3>1. i \in 1..m
      BY <2>0, <2>1, <1>5
    <3> QED BY <1>1, <1>3, <2>0, <2>1, <3>1, <1>5
  <2>2. CASE i > m
    <3>1. (a \o b)[i] = b[i - m]
      BY <2>0, <2>2
    <3>2. i - m \in 1..n /\ m + (i - m) = i
      BY <2>2, <1>5
    <3> QED BY <1>2, <1>3, <3>1, <3>2, <1>5
  <2> QED BY <2>0, <2>1, <2>2
<1>6. Len(a \o b) = Len(c) /\ \A i \in 1..Len(a \o b) : (a \o b)[i] = c[i]
  BY <1>3, <1>4, <1>5
<1>7. a \o b = c
  BY <1>3, <1>4, <1>6, SeqEqual
<1> QED BY <1>7 DEF a, b, c

(***************************************************************************)
(* What a program has read is the start of the file, of the length its     *)
(* position says.                                                          *)
(***************************************************************************)
THEOREM PrefixReadAlways == Spec => []PrefixRead
<1>1. Init => PrefixRead
  <2> SUFFICES ASSUME Init PROVE PrefixRead
    OBVIOUS
  <2>1. SubSeq(hello_str, 1, 0) = <<>>
    BY FuseAssumption
  <2> QED BY <2>1 DEF Init, PrefixRead
<1>2. TypeOK /\ PrefixRead /\ [Next]_vars => PrefixRead'
  <2> SUFFICES ASSUME TypeOK, PrefixRead, [Next]_vars
               PROVE  PrefixRead'
    OBVIOUS
  <2>1. ASSUME NEW r \in Reader, Open(r) PROVE PrefixRead'
    <3>1. SubSeq(hello_str, 1, 0) = <<>>
      BY FuseAssumption
    <3> QED BY <2>1, <3>1 DEF TypeOK, Open, PrefixRead
  <2>2. ASSUME NEW r \in Reader, ReadNext(r) PROVE PrefixRead'
    <3>1. PICK asked \in Request :
            /\ buf' = [buf EXCEPT ![r] = @ \o Copied(asked, position[r])]
            /\ position' = [position EXCEPT ![r] = @ + ReadSize(asked, position[r])]
      BY <2>2 DEF ReadNext
    <3>2. asked \in Nat /\ position[r] \in Nat /\ position[r] <= len /\ len \in Nat
      BY FuseAssumption, LenNat DEF TypeOK
    <3>3. /\ ReadSize(asked, position[r]) \in Nat
          /\ position[r] + ReadSize(asked, position[r]) <= len
      BY <3>2, ReadSizeExact
    <3>4. SubSeq(hello_str, 1, position[r]) \o Copied(asked, position[r])
            = SubSeq(hello_str, 1, position[r] + ReadSize(asked, position[r]))
      <4> DEFINE p == position[r]
                 n == ReadSize(asked, position[r])
      <4>1. p \in Nat /\ n \in Nat /\ p + n <= Len(hello_str)
        BY <3>2, <3>3 DEF len
      <4>2. Copied(asked, p) = SubSeq(hello_str, p + 1, p + n)
        BY <3>2, <3>3, CopiedPart
      <4> HIDE DEF p, n
      <4>3. SubSeq(hello_str, 1, p) \o SubSeq(hello_str, p + 1, p + n) = SubSeq(hello_str, 1, p + n)
        <5>1. hello_str \in Seq(Nat)
          BY FuseAssumption
        <5> QED BY <4>1, <5>1, AdjacentParts
      <4> QED BY <4>2, <4>3 DEF p, n
    <3>5. buf'[r] = SubSeq(hello_str, 1, position'[r])
      BY <3>1, <3>4 DEF TypeOK, PrefixRead
    <3> QED BY <3>1, <3>5 DEF TypeOK, PrefixRead
  <2>3. ASSUME NEW r \in Reader, Close(r) PROVE PrefixRead'
    BY <2>3 DEF PrefixRead, Close
  <2>4. CASE UNCHANGED vars
    BY <2>4 DEF PrefixRead, vars
  <2> QED BY <2>1, <2>2, <2>3, <2>4 DEF Next
<1> QED BY <1>1, <1>2, TypeCorrect, PTL DEF Spec

(***************************************************************************)
(* So open() and read() serve the file, whole and nothing else, to every   *)
(* program, for every string and word width.                               *)
(***************************************************************************)
THEOREM ReadsAreTheFileAlways == Spec => []ReadsAreTheFile
<1>1. TypeOK /\ ReadsInBounds /\ PrefixRead => ReadsAreTheFile
  BY DEF ReadsAreTheFile
<1> QED BY <1>1, TypeCorrect, ReadsInBoundsAlways, PrefixReadAlways, PTL
-----------------------------------------------------------------------------
(***************************************************************************)
(* LevelDBStore.                                                           *)
(***************************************************************************)
\* Keys and ValueOf, of any sequence of records.
KeysIn(s) == {s[i].key : i \in DOMAIN s}

Latest(s, k, i) == s[i].key = k /\ \A j \in DOMAIN s : s[j].key = k => j <= i

ValueIn(s, k) == s[CHOOSE i \in DOMAIN s : Latest(s, k, i)].value

LEMMA StoreViews ==
  /\ Keys = KeysIn(log)
  /\ \A k : ValueOf(k) = ValueIn(log, k)
BY DEF Keys, ValueOf, KeysIn, ValueIn, Latest

LEMMA LatestExists ==
  ASSUME NEW s \in Seq(Record), NEW k \in KeysIn(s)
  PROVE  \E i \in DOMAIN s : Latest(s, k, i)
<1> DEFINE T == {i \in 1..Len(s) : s[i].key = k}
<1>1. T \subseteq 0..Len(s) /\ T # {} /\ Len(s) \in Nat
  BY DEF KeysIn
<1>2. PICK i \in T : \A j \in T : j <= i
  BY <1>1, SetMax
<1>3. QED
  BY <1>2 DEF Latest

\* The choice in ValueOf is no choice.
LEMMA LatestValue ==
  ASSUME NEW s \in Seq(Record), NEW k, NEW i \in DOMAIN s, Latest(s, k, i)
  PROVE  ValueIn(s, k) = s[i].value /\ ValueIn(s, k) \in Value
<1> DEFINE c == CHOOSE j \in DOMAIN s : Latest(s, k, j)
<1>1. c \in DOMAIN s /\ Latest(s, k, c)
  OBVIOUS
<1> HIDE DEF c
<1>2. c = i
  BY <1>1 DEF Latest
<1>3. s[i] \in Record
  OBVIOUS
<1>4. QED
  BY <1>2, <1>3 DEF ValueIn, c, Record

\* A put decides the value of its own key and of no other.
LEMMA AppendValue ==
  ASSUME NEW s \in Seq(Record), NEW r \in Record
  PROVE  /\ Append(s, r) \in Seq(Record)
         /\ KeysIn(Append(s, r)) = KeysIn(s) \cup {r.key}
         /\ ValueIn(Append(s, r), r.key) = r.value
         /\ \A k \in KeysIn(s) : k # r.key => ValueIn(Append(s, r), k) = ValueIn(s, k)
<1> DEFINE a == Append(s, r)
           n == Len(s)
<1>1. /\ a \in Seq(Record) /\ n \in Nat
      /\ DOMAIN s = 1..n /\ DOMAIN a = 1..(n + 1)
      /\ a[n + 1] = r /\ \A i \in 1..n : a[i] = s[i]
  OBVIOUS
<1> HIDE DEF a, n
<1>2. KeysIn(a) = KeysIn(s) \cup {r.key}
  BY <1>1 DEF KeysIn
<1>3. ValueIn(a, r.key) = r.value
  <2>1. n + 1 \in DOMAIN a /\ Latest(a, r.key, n + 1)
    BY <1>1 DEF Latest
  <2>2. QED
    BY <1>1, <2>1, LatestValue
<1>4. ASSUME NEW k \in KeysIn(s), k # r.key
      PROVE  ValueIn(a, k) = ValueIn(s, k)
  <2>1. PICK i \in DOMAIN s : Latest(s, k, i)
    BY LatestExists
  <2>2. i \in DOMAIN a /\ Latest(a, k, i) /\ a[i] = s[i]
    BY <1>1, <1>4, <2>1 DEF Latest
  <2>3. ValueIn(a, k) = a[i].value /\ ValueIn(s, k) = s[i].value
    BY <1>1, <2>1, <2>2, LatestValue
  <2>4. QED
    BY <2>2, <2>3
<1>5. QED
  BY <1>1, <1>2, <1>3, <1>4 DEF a

LEMMA KeysFinite ==
  ASSUME NEW s \in Seq(Record)
  PROVE  IsFiniteSet(KeysIn(s)) /\ KeysIn(s) \subseteq Key
<1>1. IsFiniteSet(1..Len(s)) /\ DOMAIN s = 1..Len(s)
  BY FS_Interval
<1> DEFINE f == [i \in DOMAIN s |-> s[i].key]
<1>2. f \in Surjection(DOMAIN s, KeysIn(s))
  BY DEF KeysIn, Surjection
<1>3. \A i \in DOMAIN s : s[i] \in Record
  OBVIOUS
<1>4. QED
  BY <1>1, <1>2, <1>3, FS_Surjection DEF KeysIn, Record

\* What shutdown() adds up is a size, and at least that of each key.
LEMMA SizesAddUp ==
  ASSUME StoreAssumption, NEW s \in Seq(Record)
  PROVE  LET total == SumFunction([k \in KeysIn(s) |-> ValueIn(s, k)]) IN
         /\ total \in Nat
         /\ \A k \in KeysIn(s) : total >= ValueIn(s, k)
<1> DEFINE f == [k \in KeysIn(s) |-> ValueIn(s, k)]
<1>1. \A k \in KeysIn(s) : ValueIn(s, k) \in Nat
  BY LatestExists, LatestValue DEF StoreAssumption
<1>2. f \in [KeysIn(s) -> Nat] /\ IsFiniteSet(KeysIn(s))
  BY <1>1, KeysFinite
<1> HIDE DEF f
<1>3. SumFunction(f) \in Nat /\ \A k \in KeysIn(s) : SumFunction(f) >= f[k]
  BY <1>2, SumNat, SumAtLeast
<1>4. QED
  BY <1>3 DEF f

LEMMA SameSum ==
  ASSUME NEW f
  PROVE  SumFunction(f) = SumFunction(f)
BY DEF SumFunction, SumFunction, SumFunctionOnSet, SumFunctionOnSet,
       FoldFunctionOnSet, FoldFunctionOnSet, MapThenFoldSet, MapThenFoldSet

LEMMA SameCardinality ==
  ASSUME NEW S
  PROVE  Cardinality(S) = Cardinality(S)
BY DEF Cardinality, Cardinality

StoreInv ==
  /\ StoreKeepsItsWord
  /\ ready => db = "open"

LEMMA StoreInvInit ==
  ASSUME StoreAssumption, StoreInit
  PROVE  StoreInv
<1>1. <<>> \in Seq(Record) /\ Len(<<>>) = 0
  OBVIOUS
<1>2. StoreTypeOK
  <2>1. log \in Seq(Record) /\ synced \in 0..Len(log)
    BY <1>1 DEF StoreInit
  <2>2. QED
    BY <2>1 DEF StoreTypeOK, StoreInit
<1>3. CarefulCallerSafe /\ AcknowledgedKept /\ EntriesCountedOnce /\ ~ready
  BY DEF StoreInit, CarefulCallerSafe, AcknowledgedKept, EntriesCountedOnce
<1>4. QED
  BY <1>2, <1>3 DEF StoreInv, StoreKeepsItsWord

LEMMA StoreInvNext ==
  ASSUME StoreAssumption, StoreInv, [StoreNext]_storeVars
  PROVE  StoreInv'
<1> USE DEF StoreTypeOK, CarefulCallerSafe, EntriesCountedOnce
<1>0. StoreTypeOK /\ ~undefined /\ AcknowledgedKept /\ EntriesCountedOnce /\ (ready => db = "open")
  BY DEF StoreInv, StoreKeepsItsWord
<1> DEFINE Goal == /\ StoreTypeOK /\ ~undefined /\ AcknowledgedKept
                   /\ EntriesCountedOnce /\ (ready => db = "open")
<1>a. log' = log /\ acknowledged' \subseteq acknowledged => AcknowledgedKept'
  BY <1>0 DEF AcknowledgedKept, Keys, ValueOf
<1>1. ASSUME InitStore PROVE Goal'
  BY <1>0, <1>1, <1>a DEF InitStore
<1>2. ASSUME NEW k \in Key, ContainsKey(k) PROVE Goal'
  BY <1>0, <1>2, <1>a DEF ContainsKey, Dereference
<1>3. ASSUME NEW k \in Key, NEW v \in Value, Write(k, v) PROVE Goal'
  <2> DEFINE r == [key |-> k, value |-> v]
  <2>1. /\ r \in Record /\ r.key = k /\ r.value = v
        /\ log' = Append(log, r) \/ log' = log
        /\ acknowledged' \subseteq {q \in acknowledged : q.key # k} \cup {r}
        /\ r \in acknowledged' => log' = Append(log, r) \/ r \in acknowledged
        /\ UNCHANGED <<db, synced, ready, found, storeCount, storeSize, undefined>>
        /\ db = "open"
    BY <1>0, <1>3 DEF Write, Dereference, Record
  <2>2. log \in Seq(Record) /\ synced \in 0..Len(log)
    BY <1>0
  <2> HIDE DEF r
  <2>3. Append(log, r) \in Seq(Record) /\ Len(Append(log, r)) = Len(log) + 1
    BY <2>1, <2>2
  <2>4. StoreTypeOK'
    BY <1>0, <2>1, <2>2, <2>3
  <2>5. AcknowledgedKept'
    <3>1. CASE log' = Append(log, r)
      <4>1. ASSUME NEW q \in acknowledged'
            PROVE  q.key \in KeysIn(log') /\ ValueIn(log', q.key) = q.value
        <5>1. CASE q = r
          BY <2>1, <2>2, <3>1, <5>1, AppendValue
        <5>2. CASE q # r
          <6>1. q \in acknowledged /\ q.key # r.key
            BY <2>1, <4>1, <5>2
          <6>2. q.key \in KeysIn(log) /\ ValueIn(log, q.key) = q.value
            BY <1>0, <6>1, StoreViews DEF AcknowledgedKept
          <6>3. QED
            BY <2>1, <2>2, <3>1, <6>1, <6>2, AppendValue
        <5>3. QED
          BY <5>1, <5>2
      <4>2. QED
        BY <4>1 DEF AcknowledgedKept, Keys, ValueOf, KeysIn, ValueIn, Latest
    <3>2. CASE log' # Append(log, r)
      BY <1>a, <2>1, <3>2
    <3>3. QED
      BY <3>1, <3>2
  <2>6. QED
    BY <1>0, <2>1, <2>4, <2>5
<1>4. ASSUME Shutdown PROVE Goal'
  <2>1. /\ db = "open" /\ db' = "deleted" /\ ready' = FALSE
        /\ storeCount' = Cardinality(KeysIn(log))
        /\ storeSize' = SumFunction([k \in KeysIn(log) |-> ValueIn(log, k)])
        /\ UNCHANGED <<log, acknowledged, found, synced, undefined>>
    <3>1. db = "open"
      BY <1>0, <1>4 DEF Shutdown
    <3>2. /\ db' = "deleted" /\ ready' = FALSE
          /\ storeCount' = Cardinality(Keys)
          /\ storeSize' = SumFunction([k \in Keys |-> ValueOf(k)])
          /\ UNCHANGED <<log, acknowledged, found, synced, undefined>>
      BY <1>4, <3>1, Zenon DEF Shutdown, Dereference
    <3>3. [k \in Keys |-> ValueOf(k)] = [k \in KeysIn(log) |-> ValueIn(log, k)]
      BY StoreViews
    <3>4. QED
      BY <3>1, <3>2, <3>3, StoreViews, SameSum, SameCardinality
  <2>2. storeCount' \in Nat
    BY <1>0, <2>1, KeysFinite, FS_CardinalityType
  <2>3. /\ storeSize' \in Nat
        /\ \A k \in KeysIn(log) : storeSize' >= ValueIn(log, k)
    BY <1>0, <2>1, SizesAddUp
  <2>4. \A q \in acknowledged : storeSize' >= q.value
    BY <1>0, <2>3, StoreViews DEF AcknowledgedKept
  <2>5. Keys' = KeysIn(log)
    BY <2>1, StoreViews DEF Keys, KeysIn
  <2>6. StoreTypeOK'
    BY <1>0, <2>1, <2>2, <2>3
  <2>7. AcknowledgedKept'
    BY <1>a, <2>1
  <2>8. EntriesCountedOnce'
    <3>1. storeCount' = Cardinality(Keys')
      BY <2>1, <2>5, SameCardinality, Zenon
    <3>2. QED
      BY <2>1, <2>4, <3>1
  <2>9. QED
    BY <1>0, <2>1, <2>6, <2>7, <2>8
<1>5. ASSUME Sync PROVE Goal'
  <2>1. Keys' = Keys
    BY <1>5 DEF Sync, Keys
  <2>2. QED
    BY <1>0, <1>5, <1>a, <2>1 DEF Sync
<1>6. ASSUME RestartProcess PROVE Goal'
  BY <1>0, <1>6, <1>a DEF RestartProcess
<1>7. ASSUME CrashMachine PROVE Goal'
  <2>1. PICK n \in synced..Len(log) : log' = SubSeq(log, 1, n) /\ synced' = n
    BY <1>7 DEF CrashMachine
  <2>2. log \in Seq(Record) /\ n \in 0..Len(log)
    BY <1>0, <2>1
  <2>3. log' \in Seq(Record) /\ Len(log') = n
    BY <2>1, <2>2
  <2>4. AcknowledgedKept'
    BY <1>7 DEF CrashMachine, AcknowledgedKept
  <2>5. /\ db' = "unset" /\ ~ready' /\ ready' \in BOOLEAN /\ acknowledged' = {}
        /\ found' = NoKey /\ storeCount' = 0 /\ storeSize' = 0 /\ undefined' = undefined
    BY <1>7 DEF CrashMachine
  <2>6. StoreTypeOK'
    BY <1>0, <2>1, <2>2, <2>3, <2>5
  <2>7. QED
    BY <1>0, <2>4, <2>5, <2>6
<1>8. ASSUME UNCHANGED storeVars PROVE Goal'
  <2>1. Keys' = Keys
    BY <1>8 DEF storeVars, Keys
  <2>2. QED
    BY <1>0, <1>8, <1>a, <2>1 DEF storeVars
<1>9. Goal'
  BY <1>1, <1>2, <1>3, <1>4, <1>5, <1>6, <1>7, <1>8 DEF StoreNext
<1>10. QED
  BY <1>9 DEF StoreInv, StoreKeepsItsWord

(***************************************************************************)
(* LevelDBDatabase under a careful caller, for every set of keys and       *)
(* values: no null pointer is dereferenced, what write() acknowledged      *)
(* outlives every restart of the process, and shutdown() counts a key once *)
(* and none of its acknowledged bytes is missing from the size.            *)
(***************************************************************************)
THEOREM StoreKeepsItsWordAlways ==
  ASSUME StoreAssumption
  PROVE  StoreSpec => []StoreKeepsItsWord
<1>1. StoreInit => StoreInv
  BY StoreInvInit
<1>2. StoreInv /\ [StoreNext]_storeVars => StoreInv'
  BY StoreInvNext
<1>3. StoreInv => StoreKeepsItsWord
  BY DEF StoreInv
<1>4. QED
  BY <1>1, <1>2, <1>3, PTL DEF StoreSpec
-----------------------------------------------------------------------------
(***************************************************************************)
(* Hasher.                                                                 *)
(***************************************************************************)
\* Where Text stops: before the first SUB.
Cut(s, end) ==
  /\ \A i \in 1..end : s[i] # "SUB"
  /\ end < Len(s) => s[end + 1] = "SUB"

\* g translates more and more of s, as Text defines it.
Translates(g, s, end) ==
  g = [i \in 0..end |->
        IF i = 0 THEN <<>>
        ELSE IF s[i] = "CR" /\ i < end /\ s[i + 1] = "LF" THEN g[i - 1]
        ELSE Append(g[i - 1], s[i])]
LEMMA TextFolds ==
  ASSUME NEW s
  PROVE  LET end == CHOOSE n \in 0..Len(s) : Cut(s, n)
         IN  TextMode(s) = (CHOOSE g : Translates(g, s, end))[end]
BY DEF TextMode, Translates, Cut

LEMMA CutExists ==
  ASSUME NEW S, NEW s \in Seq(S)
  PROVE  \E n \in 0..Len(s) : Cut(s, n)
<1> DEFINE T == {i \in 1..Len(s) : s[i] = "SUB"}
<1>1. CASE T = {}
  <2>1. Len(s) \in 0..Len(s) /\ Cut(s, Len(s))
    BY <1>1 DEF Cut
  <2>2. QED
    BY <2>1
<1>2. CASE T # {}
  <2>1. PICK i \in T : \A j \in T : i <= j
    <3>1. T \subseteq Nat
      OBVIOUS
    <3> HIDE DEF T
    <3>2. QED
      BY <1>2, <3>1, SetMin
  <2>2. i - 1 \in 0..Len(s) /\ Cut(s, i - 1)
    BY <2>1 DEF Cut
  <2>3. QED
    BY <2>2
<1>3. QED
  BY <1>1, <1>2

LEMMA TranslationExists ==
  ASSUME NEW S, NEW s \in Seq(S), NEW end \in 0..Len(s)
  PROVE  \E g : Translates(g, s, end)
<1> DEFINE step == [i \in 1..end |-> [t \in Seq(S) |->
                     IF s[i] = "CR" /\ i < end /\ s[i + 1] = "LF" THEN t ELSE Append(t, s[i])]]
<1>1. end \in Nat /\ <<>> \in Seq(S) /\ step \in [1..end -> [Seq(S) -> Seq(S)]]
  OBVIOUS
<1>2. PICK g \in [0..end -> Seq(S)] : g[0] = <<>> /\ \A i \in 1..end : g[i] = step[i][g[i - 1]]
  <2>1. StepsIn(step, end, Seq(S))
    BY <1>1 DEF StepsIn
  <2> HIDE DEF step
  <2>2. \E g : RecursionOf(g, end, Seq(S), <<>>, step)
    BY <1>1, <2>1, NatRecursion
  <2>3. QED
    BY <2>2 DEF RecursionOf
<1>3. ASSUME NEW i \in 1..end
      PROVE  g[i] = IF s[i] = "CR" /\ i < end /\ s[i + 1] = "LF" THEN g[i - 1]
                    ELSE Append(g[i - 1], s[i])
  <2>1. g[i - 1] \in Seq(S)
    OBVIOUS
  <2>2. QED
    BY <1>2, <2>1
<1> HIDE DEF step
<1> DEFINE h == [i \in 0..end |->
                  IF i = 0 THEN <<>>
                  ELSE IF s[i] = "CR" /\ i < end /\ s[i + 1] = "LF" THEN g[i - 1]
                  ELSE Append(g[i - 1], s[i])]
<1>4. ASSUME NEW i \in 0..end
      PROVE  g[i] = h[i]
  <2>1. CASE i = 0
    BY <1>2, <2>1
  <2>2. CASE i # 0
    <3>1. i \in 1..end
      BY <2>2
    <3>2. QED
      BY <1>3, <2>2, <3>1
  <2>3. QED
    BY <2>1, <2>2
<1>5. g = h
  BY <1>4
<1>6. Translates(g, s, end)
  BY <1>5 DEF Translates
<1>7. QED
  BY <1>6

\* Text mode adds no byte.
LEMMA TextWithin ==
  ASSUME NEW S, NEW s \in Seq(S)
  PROVE  /\ TextMode(s) \in Seq(S)
         /\ Len(TextMode(s)) <= Len(s)
<1>1. PICK end \in 0..Len(s) : TextMode(s) = (CHOOSE g : Translates(g, s, end))[end]
  BY CutExists, TextFolds
<1>2. PICK h : Translates(h, s, end) /\ TextMode(s) = h[end]
  BY <1>1, TranslationExists
<1>3. end \in Nat /\ h[0] = <<>>
  BY <1>2 DEF Translates
<1>4. ASSUME NEW j \in 1..end
      PROVE  h[j] = h[j - 1] \/ h[j] = Append(h[j - 1], s[j])
  <2>1. j \in 0..end /\ j # 0
    BY <1>3
  <2>2. QED
    BY <1>2, <2>1 DEF Translates
<1> DEFINE P == {i \in Nat : i <= end => h[i] \in Seq(S) /\ Len(h[i]) <= i}
<1>5. 0 \in P
  <2>1. h[0] \in Seq(S) /\ Len(h[0]) = 0
    BY <1>3
  <2>2. QED
    BY <2>1
<1>6. ASSUME NEW i \in Nat, i \in P
      PROVE  i + 1 \in P
  <2>1. SUFFICES ASSUME i + 1 <= end
                 PROVE  h[i + 1] \in Seq(S) /\ Len(h[i + 1]) <= i + 1
    OBVIOUS
  <2>2. h[i] \in Seq(S) /\ Len(h[i]) <= i /\ i + 1 \in 1..end /\ (i + 1) - 1 = i
    BY <1>3, <1>6, <2>1
  <2>3. h[i + 1] = h[i] \/ h[i + 1] = Append(h[i], s[i + 1])
    BY <1>4, <2>2
  <2>4. s[i + 1] \in S
    BY <2>2
  <2>5. Append(h[i], s[i + 1]) \in Seq(S) /\ Len(Append(h[i], s[i + 1])) = Len(h[i]) + 1
    BY <2>2, <2>4
  <2>6. Len(h[i]) \in Nat
    BY <2>2
  <2> HIDE DEF P
  <2>7. CASE h[i + 1] = h[i]
    BY <2>2, <2>6, <2>7
  <2>8. CASE h[i + 1] = Append(h[i], s[i + 1])
    BY <2>2, <2>5, <2>6, <2>8
  <2>9. QED
    BY <2>3, <2>7, <2>8
<1>7. \A i \in Nat : i \in P => i + 1 \in P
  BY <1>6
<1> HIDE DEF P
<1>8. Nat \subseteq P
  BY <1>5, <1>7, NatSetInduction
<1>9. QED
  BY <1>2, <1>3, <1>8 DEF P

\* t may be what is hashed of file i, when bad are the files a call failed for.
HashedOf(i, t, bad) ==
  /\ t \in Seq(Byte \cup Stale)
  /\ i \notin bad =>
       /\ Len(t) = Len(File[i])
       /\ \A j \in 1..Len(TextMode(File[i])) : t[j] = TextMode(File[i])[j]

\* r may be what is printed of file i.
PrintedOf(i, r, bad) ==
  /\ r.crc32 = r.sha1 /\ r.md5 = r.sha1
  /\ r.size = Len(r.sha1) % SizeField
  /\ HashedOf(i, r.sha1, bad)

Lines == [size : Nat, crc32 : Seq(Byte \cup Stale), md5 : Seq(Byte \cup Stale),
          sha1 : Seq(Byte \cup Stale)]

HasherInv ==
  /\ HasherTypeOK
  /\ nextCall = "done" \/ file \in DOMAIN File
  /\ failed \subseteq 1..file
  /\ printed \in Seq(Lines)
  /\ Len(printed) = IF nextCall = "reset" THEN file ELSE file - 1
  /\ \A i \in DOMAIN printed : PrintedOf(i, printed[i], failed)
  /\ md5 = crc /\ sha1 = crc
  /\ nextCall \in {"_open", "fstat", "new", "_read", "update", "abort"} => crc = <<>>
  /\ nextCall \in {"fstat", "new", "_read"} /\ file \notin failed => fd
  /\ nextCall \in {"new", "_read", "update", "delete"} /\ file \notin failed => size = Len(File[file])
  /\ nextCall = "_read" => buffer \in [1..size -> Stale]
  /\ nextCall = "update" => HashedOf(file, buffer, failed) /\ Len(buffer) = size
  /\ nextCall = "delete" => HashedOf(file, crc, failed) /\ Len(crc) = size

\* A file that has failed for good is one of which less is said.
LEMMA HashedOfLess ==
  ASSUME NEW i, NEW t, NEW bad, NEW worse, HashedOf(i, t, bad), i \notin worse => i \notin bad
  PROVE  HashedOf(i, t, worse)
BY DEF HashedOf

LEMMA FilesTyped ==
  ASSUME HasherAssumption, NEW i \in DOMAIN File
  PROVE  /\ File[i] \in Seq(Byte)
         /\ Len(File[i]) \in Nat
<1>1. File[i] \in Seq(Byte)
  BY DEF HasherAssumption
<1>2. QED
  BY <1>1

\* _read() finds there and leaves b, n bytes of it and the rest of what was, in
\* a buffer of m bytes.
Reads(i, m, open, there, n, was, b) ==
  /\ there = IF open /\ m > 0
               THEN TextMode(SubSeq(File[i], 1, IF m < Len(File[i]) THEN m ELSE Len(File[i])))
               ELSE <<>>
  /\ n \in 0..Len(there)
  /\ was \in [1..m -> Stale]
  /\ b = [j \in 1..m |-> IF j <= n THEN there[j] ELSE was[j]]

LEMMA BufferOf ==
  ASSUME HasherAssumption, NEW i \in DOMAIN File, NEW m \in Nat, NEW open,
         NEW there, NEW n, NEW was, NEW b, Reads(i, m, open, there, n, was, b),
         NEW bad, i \notin bad => open /\ m = Len(File[i]) /\ n = Len(there)
  PROVE  HashedOf(i, b, bad) /\ Len(b) = m
<1> USE DEF Reads
<1> DEFINE F == File[i]
           k == IF m < Len(F) THEN m ELSE Len(F)
<1>1. F \in Seq(Byte) /\ Len(F) \in Nat
  BY FilesTyped
<1> HIDE DEF F
<1>2. SubSeq(F, 1, k) \in Seq(Byte) /\ Len(SubSeq(F, 1, k)) = k /\ k <= m
  BY <1>1
<1>3. there \in Seq(Byte) /\ Len(there) <= m /\ Len(there) \in Nat
  <2>1. CASE open /\ m > 0
    <3>1. there = TextMode(SubSeq(F, 1, k))
      BY <2>1 DEF F
    <3> HIDE DEF k
    <3>2. Len(there) <= k /\ there \in Seq(Byte)
      BY <1>2, <3>1, TextWithin
    <3>3. QED
      BY <1>1, <1>2, <3>2 DEF k
  <2>2. CASE ~(open /\ m > 0)
    <3>1. there = <<>>
      BY <2>2
    <3>2. <<>> \in Seq(Byte) /\ Len(<<>>) = 0
      OBVIOUS
    <3>3. 0 <= m /\ 0 \in Nat
      OBVIOUS
    <3>4. QED
      BY <3>1, <3>2, <3>3, Zenon
  <2>3. QED
    BY <2>1, <2>2
<1>4. b \in Seq(Byte \cup Stale) /\ Len(b) = m
  <2>1. \A j \in 1..m : b[j] \in Byte \cup Stale
    BY <1>3
  <2>2. QED
    BY <2>1
<1>5. ASSUME i \notin bad
      PROVE  there = TextMode(F)
  <2>1. CASE m > 0
    <3>1. k = Len(F) /\ SubSeq(F, 1, Len(F)) = F
      BY <1>1, <1>5 DEF F
    <3>2. QED
      BY <1>5, <2>1, <3>1 DEF F
  <2>2. CASE m = 0
    <3>1. TextMode(F) \in Seq(Byte) /\ Len(TextMode(F)) <= 0
      BY <1>1, <1>5, <2>2, TextWithin DEF F
    <3>2. there = <<>>
      BY <2>2
    <3>3. QED
      BY <3>1, <3>2
  <2>3. QED
    BY <2>1, <2>2
<1>6. ASSUME i \notin bad
      PROVE  \A j \in 1..Len(there) : b[j] = there[j]
  BY <1>3, <1>6
<1>7. QED
  BY <1>4, <1>5, <1>6 DEF HashedOf, F

LEMMA HasherInvInit ==
  ASSUME HasherAssumption, HasherInit
  PROVE  HasherInv
<1>1. Len(File) \in Nat /\ (File # <<>> => 1 \in DOMAIN File)
  BY DEF HasherAssumption
<1>2. printed \in Seq(Lines) /\ Len(printed) = 0 /\ DOMAIN printed = {}
  BY DEF HasherInit
<1>3. HasherTypeOK
  <2>1. /\ nextCall \in {"done", "_open"} /\ fd \in BOOLEAN
        /\ file \in 1..(Len(File) + 1) /\ size \in Nat
    <3>1. nextCall \in {"done", "_open"} /\ fd = FALSE /\ file = 1 /\ size = 0
      BY DEF HasherInit
    <3>2. 1 \in 1..(Len(File) + 1) /\ 0 \in Nat
      BY <1>1
    <3>3. QED
      BY <3>1, <3>2, Zenon
  <2>2. failed \subseteq DOMAIN File /\ DOMAIN printed = {}
    BY <1>2 DEF HasherInit
  <2>3. QED
    BY <2>1, <2>2 DEF HasherTypeOK
<1>4. QED
  BY <1>1, <1>2, <1>3 DEF HasherInit, HasherInv

LEMMA HasherInvNext ==
  ASSUME HasherAssumption, HasherInv, [HasherNext]_hasherVars
  PROVE  HasherInv'
<1> USE DEF HasherInv, HasherTypeOK
<1>0. Len(File) \in Nat /\ DOMAIN File = 1..Len(File) /\ SizeField \in Nat \ {0} /\ AnySize \subseteq Nat
  BY DEF HasherAssumption
<1>a. ASSUME failed \subseteq failed', failed' \subseteq failed \cup {file}, printed' = printed,
             nextCall # "reset", nextCall # "done"
      PROVE  \A i \in DOMAIN printed' : PrintedOf(i, printed'[i], failed')
  <2>1. \A i \in DOMAIN printed : i # file
    BY <1>a
  <2>2. \A i \in DOMAIN printed : i \notin failed' => i \notin failed
    BY <1>a
  <2>3. QED
    BY <1>a, <2>2, HashedOfLess DEF PrintedOf
<1>1. ASSUME OpenFile PROVE HasherInv'
  <2>1. failed \subseteq failed' /\ failed' \subseteq failed \cup {file}
    BY <1>1 DEF OpenFile, Failed
  <2>2. \A i \in DOMAIN printed' : PrintedOf(i, printed'[i], failed')
    BY <1>1, <1>a, <2>1 DEF OpenFile
  <2>3. /\ nextCall = "_open" /\ nextCall' = "fstat" /\ file \in DOMAIN File /\ crc = <<>>
        /\ fd' \in BOOLEAN /\ (file \notin failed' => fd')
        /\ UNCHANGED <<file, size, buffer, crc, md5, sha1, printed>>
    BY <1>1 DEF OpenFile, Failed
  <2>4. QED
    BY <1>0, <2>1, <2>2, <2>3
<1>2. ASSUME SizeOfFile PROVE HasherInv'
  <2>1. failed \subseteq failed' /\ failed' \subseteq failed \cup {file}
    BY <1>2 DEF SizeOfFile, Failed
  <2>2. \A i \in DOMAIN printed' : PrintedOf(i, printed'[i], failed')
    BY <1>2, <1>a, <2>1 DEF SizeOfFile
  <2>3. Len(File[file]) \in Nat
    BY <1>2, FilesTyped DEF SizeOfFile
  <2>4. /\ nextCall = "fstat" /\ nextCall' = "new" /\ file \in DOMAIN File /\ crc = <<>>
        /\ size' \in Nat /\ (file \notin failed' => fd /\ size' = Len(File[file]))
        /\ UNCHANGED <<file, fd, buffer, crc, md5, sha1, printed>>
    BY <1>0, <1>2, <2>3 DEF SizeOfFile, Failed
  <2>5. QED
    BY <1>0, <2>1, <2>2, <2>4
<1>3. ASSUME Allocate PROVE HasherInv'
  BY <1>0, <1>3 DEF Allocate
<1>4. ASSUME ReadFile PROVE HasherInv'
  <2>1. failed \subseteq failed' /\ failed' \subseteq failed \cup {file}
    BY <1>4 DEF ReadFile, Failed
  <2>2. \A i \in DOMAIN printed' : PrintedOf(i, printed'[i], failed')
    BY <1>4, <1>a, <2>1 DEF ReadFile
  <2>3. file \in DOMAIN File
    BY <1>4 DEF ReadFile
  <2>4. HashedOf(file, buffer', failed') /\ Len(buffer') = size
    <3> DEFINE there == IF fd /\ size > 0
                    THEN TextMode(SubSeq(File[file], 1, IF size < Len(File[file]) THEN size ELSE Len(File[file])))
                    ELSE <<>>
    <3>1. PICK n \in 0..Len(there) :
            /\ buffer' = [i \in 1..size |-> IF i <= n THEN there[i] ELSE buffer[i]]
            /\ IF n < Len(there) THEN Failed ELSE UNCHANGED failed
      BY <1>4 DEF ReadFile
    <3>2. file \notin failed' => fd /\ size = Len(File[file]) /\ ~(n < Len(there))
      BY <1>4, <3>1 DEF ReadFile, Failed
    <3>3. Len(there) \in Nat
      <4>1. File[file] \in Seq(Byte) /\ size \in Nat
        BY <2>3, FilesTyped
      <4>2. SubSeq(File[file], 1, IF size < Len(File[file]) THEN size ELSE Len(File[file])) \in Seq(Byte)
        BY <4>1
      <4>3. QED
        BY <4>2, TextWithin
    <3>4. file \notin failed' => n = Len(there)
      BY <3>2, <3>3
    <3>5. size \in Nat /\ fd \in BOOLEAN
      OBVIOUS
    <3>6. file \notin failed' => fd /\ size = Len(File[file]) /\ n = Len(there)
      BY <3>2, <3>4
    <3>7. Reads(file, size, fd, there, n, buffer, buffer')
      BY <1>4, <3>1 DEF ReadFile, Reads
    <3> HIDE DEF there
    <3>8. QED
      BY <2>3, <3>5, <3>6, <3>7, BufferOf
  <2>5. QED
    BY <1>0, <1>4, <2>1, <2>2, <2>3, <2>4 DEF ReadFile
<1>5. ASSUME Update PROVE HasherInv'
  <2>1. buffer \in Seq(Byte \cup Stale)
    BY <1>5 DEF Update, HashedOf
  <2>2. <<>> \o buffer = buffer
    BY <2>1
  <2>3. QED
    BY <1>0, <1>5, <2>2 DEF Update
<1>6. ASSUME ReturnHash PROVE HasherInv'
  <2> DEFINE r == [size |-> size % SizeField, crc32 |-> crc, md5 |-> md5, sha1 |-> sha1]
  <2>1. file \in DOMAIN File /\ HashedOf(file, crc, failed) /\ Len(crc) = size
    BY <1>6 DEF ReturnHash
  <2>2. crc \in Seq(Byte \cup Stale)
    BY <2>1 DEF HashedOf
  <2>3. size % SizeField \in 0..(SizeField - 1)
    BY <1>0
  <2>4. r \in Lines /\ r.size \in 0..(SizeField - 1) /\ PrintedOf(file, r, failed)
    BY <2>1, <2>2, <2>3 DEF Lines, PrintedOf
  <2> HIDE DEF r
  <2>5. /\ printed' = Append(printed, r) /\ printed' \in Seq(Lines) /\ Len(printed') = file
        /\ \A i \in 1..(file - 1) : printed'[i] = printed[i]
        /\ printed'[file] = r
    BY <1>0, <1>6, <2>4 DEF ReturnHash, r
  <2>6. \A i \in DOMAIN printed' : i = file \/ i \in DOMAIN printed
    BY <1>0, <1>6, <2>5 DEF ReturnHash
  <2>7. /\ nextCall' = "reset" /\ fd' = FALSE /\ UNCHANGED <<file, size, crc, md5, sha1, failed>>
    BY <1>6 DEF ReturnHash
  <2>8. \A i \in DOMAIN printed' : PrintedOf(i, printed'[i], failed') /\ printed'[i].size \in 0..(SizeField - 1)
    BY <1>0, <1>6, <2>4, <2>5, <2>6, <2>7 DEF ReturnHash
  <2>9. QED
    BY <1>0, <2>1, <2>5, <2>7, <2>8
<1>7. ASSUME Reset PROVE HasherInv'
  <2>1. /\ nextCall = "reset" /\ file \in DOMAIN File /\ Len(printed) = file
        /\ crc' = <<>> /\ md5' = <<>> /\ sha1' = <<>> /\ file' = file + 1
        /\ nextCall' = IF file = Len(File) THEN "done" ELSE "_open"
        /\ UNCHANGED <<fd, size, buffer, printed, failed>>
    BY <1>7 DEF Reset
  <2>2. file' \in 1..(Len(File) + 1) /\ (nextCall' = "done" \/ file' \in DOMAIN File) /\ failed' \subseteq 1..file'
    BY <1>0, <2>1
  <2>3. QED
    BY <1>0, <2>1, <2>2
<1>8. ASSUME UNCHANGED hasherVars PROVE HasherInv'
  BY <1>0, <1>8 DEF hasherVars
<1>9. QED
  BY <1>1, <1>2, <1>3, <1>4, <1>5, <1>6, <1>7, <1>8 DEF HasherNext

LEMMA PrintedRight ==
  ASSUME HasherAssumption, HasherInv
  PROVE  DigestsOfTheFile
<1>1. ASSUME NEW i \in DOMAIN printed
      PROVE  /\ i \in DOMAIN File /\ PrintedOf(i, printed[i], failed)
             /\ TextMode(File[i]) \in Seq(Byte)
             /\ File[i] \in Seq(Byte)
             /\ Len(TextMode(File[i])) <= Len(File[i])
             /\ printed[i].sha1 \in Seq(Byte \cup Stale)
  <2>1. i \in DOMAIN File
    BY DEF HasherAssumption, HasherInv, HasherTypeOK
  <2>2. File[i] \in Seq(Byte)
    BY <2>1, FilesTyped
  <2>3. printed[i] \in Lines
    BY DEF HasherInv
  <2>4. QED
    BY <2>1, <2>2, <2>3, TextWithin DEF HasherInv, Lines
<1>2. OwnDigest
  <2>1. SUFFICES ASSUME NEW i \in DOMAIN printed, i \notin failed
                 PROVE  /\ printed[i].size = Len(File[i]) % SizeField
                        /\ printed[i].crc32 = printed[i].md5 /\ printed[i].md5 = printed[i].sha1
                        /\ Len(printed[i].sha1) = Len(File[i])
                        /\ IsPrefix(TextMode(File[i]), printed[i].sha1)
                        /\ Plain(File[i]) => printed[i].sha1 = File[i]
    BY DEF OwnDigest
  <2> DEFINE t == TextMode(File[i])
             d == printed[i].sha1
  <2>2. /\ t \in Seq(Byte) /\ File[i] \in Seq(Byte) /\ Len(t) <= Len(File[i])
        /\ d \in Seq(Byte \cup Stale) /\ Len(d) = Len(File[i])
        /\ \A j \in 1..Len(t) : d[j] = t[j]
    BY <1>1, <2>1 DEF PrintedOf, HashedOf
  <2> HIDE DEF t, d
  <2>3. SubSeq(t, 1, Len(t)) = SubSeq(d, 1, Len(t))
    BY <2>2
  <2>4. t = File[i] => d = File[i]
    BY <2>2, SeqEqual
  <2>5. QED
    BY <1>1, <2>1, <2>2, <2>3, <2>4 DEF PrintedOf, IsPrefix, Plain, t, d
<1>3. DigestsAgree
  BY <1>1 DEF DigestsAgree, PrintedOf
<1>4. QED
  BY <1>2, <1>3 DEF HasherInv, DigestsOfTheFile

(***************************************************************************)
(* Hasher, for every folder, whatever memory holds when it is allocated,   *)
(* every size a failed fstat() leaves and every way the calls may fail: a  *)
(* file that could be read is printed with its own digests, and any other  *)
(* with three digests of the same bytes, as many as its size says.         *)
(***************************************************************************)
THEOREM DigestsOfTheFileAlways ==
  ASSUME HasherAssumption
  PROVE  HasherSpec => []DigestsOfTheFile
<1>1. HasherInit => HasherInv
  BY HasherInvInit
<1>2. HasherInv /\ [HasherNext]_hasherVars => HasherInv'
  BY HasherInvNext
<1>3. HasherInv => DigestsOfTheFile
  BY PrintedRight
<1>4. QED
  BY <1>1, <1>2, <1>3, PTL DEF HasherSpec
-----------------------------------------------------------------------------
(***************************************************************************)
(* Logiqx.                                                                 *)
(***************************************************************************)
LEMMA NextNamedIs ==
  ASSUME NEW s, IsList(s), NEW i \in Nat, NEW name
  PROVE  LET n == NextNamed(s, i, name) IN
         /\ n = 0 \/ (n \in DOMAIN s /\ i < n /\ s[n].name = name)
         /\ n \in Nat
         /\ \A j \in DOMAIN s : s[j].name = name /\ i < j => n # 0 /\ n <= j
<1> DEFINE named == {j \in (i + 1)..Len(s) : s[j].name = name}
           n == NextNamed(s, i, name)
<1>1. Len(s) \in Nat /\ DOMAIN s = 1..Len(s)
  BY DEF IsList
<1>2. n = IF named = {} THEN 0 ELSE CHOOSE j \in named : \A k \in named : j <= k
  BY DEF NextNamed
<1>3. \A j \in DOMAIN s : s[j].name = name /\ i < j => j \in named
  BY <1>1
<1>4. named \subseteq Nat /\ \A j \in named : j \in DOMAIN s /\ i < j /\ s[j].name = name /\ j # 0
  BY <1>1
<1> HIDE DEF named, n
<1>5. CASE named = {}
  BY <1>2, <1>3, <1>5 DEF n
<1>6. CASE named # {}
  <2>1. \E j \in named : \A k \in named : j <= k
    BY <1>4, <1>6, SetMin
  <2>2. n \in named /\ \A k \in named : n <= k
    BY <1>2, <1>6, <2>1
  <2>3. QED
    BY <1>3, <1>4, <2>2 DEF n
<1>7. QED
  BY <1>5, <1>6

\* The value of an attribute is a text.
LEMMA ValuesAreTexts ==
  ASSUME LogiqxAssumption, NEW r, IsRom(r), NEW name
  PROVE  AsString(r, name) \in Text
<1>1. CASE Has(r, name)
  <2>1. Attribute(r, name) \in DOMAIN r.attributes
    BY <1>1, NextNamedIs DEF Has, Attribute, IsRom
  <2>2. QED
    BY <1>1, <2>1 DEF AsString, IsRom, Range
<1>2. CASE ~Has(r, name)
  BY <1>2 DEF AsString, LogiqxAssumption
<1>3. QED
  BY <1>1, <1>2

\* The record of a rom is one, and says what the rom says.
LEMMA HashOfRom ==
  ASSUME LogiqxAssumption, NEW r, IsRom(r), NEW fresh \in Fresh,
         NEW e, e = [name |-> AsString(r, "name"), hash |-> HashOf(r, fresh)]
  PROVE  /\ e.hash \in HashRecord /\ e.name \in Text
         /\ e.hash.size \in Nat
         /\ Describes(e, r)
<1>1. /\ AsString(r, "name") \in Text /\ AsString(r, "size") \in Text
      /\ AsString(r, "crc") \in Text /\ AsString(r, "md5") \in Text
      /\ AsString(r, "sha1") \in Text
  BY ValuesAreTexts
<1>2. Decimal(AsString(r, "size")) % SizeModulus \in 0..(SizeModulus - 1)
  <2>1. Decimal(AsString(r, "size")) \in Nat /\ SizeModulus \in Nat \ {0}
    BY <1>1 DEF LogiqxAssumption
  <2>2. QED
    BY <2>1
<1>3. HashOf(r, fresh) \in HashRecord
  BY <1>1, <1>2 DEF LogiqxAssumption, HashOf, HashRecord, Has
<1>4. HashOf(r, fresh).size = Decimal(AsString(r, "size")) % SizeModulus
  BY DEF HashOf
<1>5. Describes(e, r)
  BY DEF Describes, HashOf, Has
<1>6. QED
  BY <1>1, <1>2, <1>3, <1>4, <1>5

Games == Datafile.children
RomsOf(g) == Games[g].children

LEMMA DatafileTyped ==
  ASSUME LogiqxAssumption, doc \in Document, doc # Malformed
  PROVE  /\ IsList(Games)
         /\ \A g \in DOMAIN Games : /\ IsList(RomsOf(g))
                                    /\ \A r \in DOMAIN RomsOf(g) : IsRom(RomsOf(g)[r])
<1>1. IsDocument(doc)
  BY DEF LogiqxAssumption
<1>2. IsDatafile(Datafile)
  <2>1. CASE Child(doc, "datafile") = 0
    <3>1. Datafile.children = <<>>
      BY <2>1 DEF Datafile
    <3>2. QED
      BY <3>1 DEF IsDatafile, IsList, Range
  <2>2. CASE Child(doc, "datafile") # 0
    <3>1. Child(doc, "datafile") \in DOMAIN doc.children
      BY <1>1, <2>2, NextNamedIs DEF Child, IsDocument
    <3>2. QED
      BY <1>1, <2>2, <3>1 DEF Datafile, IsDocument, Range
  <2>3. QED
    BY <2>1, <2>2
<1>3. QED
  BY <1>2 DEF IsDatafile, IsGame, Range, Games, RomsOf

LEMMA SameTotal ==
  ASSUME NEW f
  PROVE  SumFunction(f) = SumFunction(f)
BY DEF SumFunction, SumFunction, SumFunctionOnSet, SumFunctionOnSet,
       FoldFunctionOnSet, FoldFunctionOnSet, MapThenFoldSet, MapThenFoldSet

IsAGame(g) == g \in DOMAIN Games /\ Games[g].name = "game"
IsARom(g, r) == r \in DOMAIN RomsOf(g) /\ RomsOf(g)[r].name = "rom"

LEMMA PlacesAre ==
  ASSUME doc # Malformed
  PROVE  \A p : p \in GoodPlaces <=>
           \E g \in DOMAIN Games : \E r \in DOMAIN RomsOf(g) :
             p = <<g, r>> /\ IsAGame(g) /\ IsARom(g, r) /\ Good(RomsOf(g)[r])
BY DEF GoodPlaces, Games, RomsOf, IsAGame, IsARom

\* The places the two loops have passed.
Passed(p) ==
  \/ pc = "returned"
  \/ pc = "game" /\ (game = 0 \/ p[1] < game)
  \/ /\ pc \in {"rom", "aborted"}
     /\ p[1] < game \/ (p[1] = game /\ (rom = 0 \/ p[2] < rom))

\* at are the places of the entries.
PlacesOf(at) ==
  /\ at \in [DOMAIN entries -> GoodPlaces]
  /\ \A i \in DOMAIN entries : Describes(entries[i], RomAt(at[i]))
  /\ \A i, j \in DOMAIN entries : i < j => Before(at[i], at[j])
  /\ \A p \in GoodPlaces : Passed(p) <=> \E i \in DOMAIN entries : at[i] = p

Entry == [name : Text, hash : HashRecord]

CursorInv ==
  /\ debug \in BOOLEAN
  /\ doc \in Document
  /\ pc \in {"load", "game", "rom", "returned", "aborted"}
  /\ game \in Nat /\ rom \in Nat
  /\ pc = "load" => entries = <<>>
  /\ doc = Malformed => pc \in {"load", "returned"} /\ entries = <<>>
  /\ pc = "game" => game = 0 \/ IsAGame(game)
  /\ pc \in {"rom", "aborted"} => IsAGame(game) /\ (rom = 0 \/ IsARom(game, rom))

TotalsInv ==
  /\ entries \in Seq(Entry)
  /\ sizeInBytes \in 0..(SumModulus - 1)
  /\ TotalsMatchEntries
  /\ debug => GoodRomsHaveDigest

LogiqxInv == CursorInv /\ TotalsInv /\ \E at : PlacesOf(at)

\* The document is not written, so neither are its places.
LEMMA SamePlaces ==
  ASSUME doc' = doc
  PROVE  /\ GoodPlaces' = GoodPlaces /\ Games' = Games
         /\ \A p : RomAt(p)' = RomAt(p)
         /\ \A g : RomsOf(g)' = RomsOf(g)
         /\ \A g : IsAGame(g)' <=> IsAGame(g)
         /\ \A g, r : IsARom(g, r)' <=> IsARom(g, r)
<1>1. Datafile' = Datafile
  BY DEF Datafile, Child
<1>2. Games' = Games
  BY <1>1 DEF Games
<1>3. QED
  BY <1>1, <1>2 DEF GoodPlaces, RomAt, RomsOf, IsAGame, IsARom

\* A step that returns nothing and passes no good rom.
LEMMA NothingPassed ==
  ASSUME doc' = doc, entries' = entries, NEW at, PlacesOf(at),
         \A p \in GoodPlaces : Passed(p)' <=> Passed(p)
  PROVE  PlacesOf(at)'
BY SamePlaces DEF PlacesOf

\* The first step passes nothing either, before there is an entry.
LEMMA NothingYet ==
  ASSUME doc' = doc, entries = <<>>, entries' = <<>>,
         \A p \in GoodPlaces : ~Passed(p)'
  PROVE  PlacesOf(<<>>)'
<1>1. DOMAIN <<>> = {} /\ <<>> \in [{} -> GoodPlaces]
  OBVIOUS
<1>2. QED
  BY <1>1, SamePlaces DEF PlacesOf

LEMMA LogiqxInvInit ==
  ASSUME LogiqxAssumption, LogiqxInit
  PROVE  LogiqxInv
<1>1. entries = <<>> /\ DOMAIN entries = {} /\ entries \in Seq(Entry) /\ Len(entries) = 0
  BY DEF LogiqxInit
<1>2. CursorInv
  BY DEF LogiqxInit, CursorInv
<1>3. PlacesOf(<<>>)
  <2>1. \A p \in GoodPlaces : ~Passed(p)
    BY DEF LogiqxInit, Passed
  <2>2. <<>> \in [{} -> GoodPlaces]
    OBVIOUS
  <2>3. QED
    BY <1>1, <2>1, <2>2 DEF PlacesOf
<1>4. TotalsInv
  <2> DEFINE f == [i \in DOMAIN entries |-> entries[i].hash.size]
  <2>1. f \in [{} -> Nat] /\ IsFiniteSet({})
    BY <1>1, FS_EmptySet
  <2> HIDE DEF f
  <2>2. SumFunction(f) = 0
    BY <2>1, SumNat
  <2>3. SumModulus \in Nat \ {0} /\ 0 % SumModulus = 0 /\ 0 \in 0..(SumModulus - 1)
    <3>1. SumModulus \in Nat \ {0}
      BY DEF LogiqxAssumption
    <3>2. QED
      BY <3>1
  <2>4. TotalsMatchEntries
    BY <1>1, <2>2, <2>3, SameTotal DEF TotalsMatchEntries, LogiqxInit, f
  <2>5. QED
    BY <1>1, <2>3, <2>4 DEF TotalsInv, GoodRomsHaveDigest, LogiqxInit
<1>5. QED
  BY <1>2, <1>3, <1>4 DEF LogiqxInv

\* Where the loops go next: the first game, or rom of a game, after index i.
LEMMA Ahead ==
  ASSUME LogiqxAssumption, doc \in Document, doc # Malformed, NEW i \in Nat
  PROVE  /\ LET n == NextSibling(Datafile, i, "game") IN
            /\ n \in Nat /\ (n = 0 \/ (i < n /\ IsAGame(n)))
            /\ \A g \in DOMAIN Games : IsAGame(g) /\ i < g => n # 0 /\ n <= g
         /\ \A h \in DOMAIN Games :
              LET n == NextSibling(Games[h], i, "rom") IN
              /\ n \in Nat /\ (n = 0 \/ (i < n /\ IsARom(h, n)))
              /\ \A r \in DOMAIN RomsOf(h) : IsARom(h, r) /\ i < r => n # 0 /\ n <= r
<1>1. /\ IsList(Games)
      /\ \A h \in DOMAIN Games : IsList(RomsOf(h))
  BY DatafileTyped
<1>2. NextSibling(Datafile, i, "game") = NextNamed(Games, i, "game")
  BY DEF NextSibling, Games
<1>3. \A h : NextSibling(Games[h], i, "rom") = NextNamed(RomsOf(h), i, "rom")
  BY DEF NextSibling, RomsOf
<1>4. QED
  BY <1>1, <1>2, <1>3, NextNamedIs DEF IsAGame, IsARom

\* A place is a game and a rom, both counted from 1.
LEMMA PlaceIs ==
  ASSUME LogiqxAssumption, doc \in Document, doc # Malformed,
         NEW p \in GoodPlaces
  PROVE  /\ p = <<p[1], p[2]>> /\ p[1] \in Nat \ {0} /\ p[2] \in Nat \ {0}
         /\ p[1] \in DOMAIN Games /\ p[2] \in DOMAIN RomsOf(p[1])
         /\ IsAGame(p[1]) /\ IsARom(p[1], p[2]) /\ Good(RomsOf(p[1])[p[2]])
<1>1. PICK g \in DOMAIN Games : \E r \in DOMAIN RomsOf(g) :
        p = <<g, r>> /\ IsAGame(g) /\ IsARom(g, r) /\ Good(RomsOf(g)[r])
  BY PlacesAre
<1>2. PICK r \in DOMAIN RomsOf(g) :
        p = <<g, r>> /\ IsAGame(g) /\ IsARom(g, r) /\ Good(RomsOf(g)[r])
  BY <1>1
<1>3. p[1] = g /\ p[2] = r
  BY <1>2
<1>4. DOMAIN Games \subseteq Nat \ {0} /\ DOMAIN RomsOf(g) \subseteq Nat \ {0}
  BY <1>1, DatafileTyped DEF IsList
<1>5. QED
  BY <1>2, <1>3, <1>4

\* A step of the loops that returns no entry keeps what LogiqxInv says of the
\* entries, when it moves past no good rom.
LEMMA NoEntry ==
  ASSUME LogiqxInv, debug' = debug, doc' = doc, entries' = entries, count' = count, sizeInBytes' = sizeInBytes,
         CursorInv', \A p \in GoodPlaces : Passed(p)' <=> Passed(p)
  PROVE  LogiqxInv'
<1>1. TotalsInv'
  BY DEF LogiqxInv, TotalsInv, TotalsMatchEntries, GoodRomsHaveDigest
<1>2. PICK at : PlacesOf(at)
  BY DEF LogiqxInv
<1>3. PlacesOf(at)'
  BY <1>2, NothingPassed
<1>4. QED
  BY <1>1, <1>3 DEF LogiqxInv

LEMMA LoadKeeps ==
  ASSUME LogiqxAssumption, LogiqxInv, Load
  PROVE  LogiqxInv'
<1>1. /\ debug' = debug /\ debug \in BOOLEAN /\ doc' = doc
      /\ rom' = rom /\ entries' = entries /\ count' = count
      /\ sizeInBytes' = sizeInBytes /\ entries = <<>> /\ doc \in Document
      /\ game \in Nat /\ rom \in Nat
  BY DEF Load, LogiqxInv, CursorInv
<1>2. TotalsInv'
  BY <1>1 DEF LogiqxInv, TotalsInv, TotalsMatchEntries, GoodRomsHaveDigest
<1>3. CursorInv' /\ \A p \in GoodPlaces : ~Passed(p)'
  <2>1. CASE doc = Malformed
    <3>1. GoodPlaces = {} /\ pc' = "returned" /\ game' = game
      BY <2>1 DEF GoodPlaces, Load
    <3>2. QED
      BY <1>1, <3>1 DEF CursorInv
  <2>2. CASE doc # Malformed
    <3>1. pc' = "game" /\ game' = NextSibling(Datafile, 0, "game")
      BY <2>2 DEF Load, Child, NextSibling
    <3>2. /\ game' \in Nat /\ (game' = 0 \/ IsAGame(game'))
          /\ \A g \in DOMAIN Games : IsAGame(g) /\ 0 < g => game' # 0 /\ game' <= g
      BY <1>1, <2>2, <3>1, Ahead
    <3>3. CursorInv'
      BY <1>1, <2>2, <3>1, <3>2, SamePlaces DEF CursorInv
    <3>4. ASSUME NEW p \in GoodPlaces PROVE ~Passed(p)'
      <4>1. p[1] \in DOMAIN Games /\ IsAGame(p[1]) /\ p[1] \in Nat \ {0}
        BY <1>1, <2>2, PlaceIs
      <4>2. game' # 0 /\ game' <= p[1]
        BY <3>2, <4>1
      <4>3. QED
        BY <3>1, <3>2, <4>1, <4>2 DEF Passed
    <3>5. QED
      BY <3>3, <3>4
  <2>3. QED
    BY <2>1, <2>2
<1>4. PlacesOf(<<>>)'
  BY <1>1, <1>3, NothingYet
<1>5. QED
  BY <1>2, <1>3, <1>4 DEF LogiqxInv

LEMMA EnterGameKeeps ==
  ASSUME LogiqxAssumption, LogiqxInv, EnterGame
  PROVE  LogiqxInv'
<1>1. /\ debug' = debug /\ debug \in BOOLEAN /\ doc' = doc
      /\ game' = game /\ entries' = entries /\ count' = count
      /\ sizeInBytes' = sizeInBytes /\ pc = "game" /\ doc \in Document /\ doc # Malformed
      /\ game \in Nat /\ rom \in Nat /\ (game = 0 \/ IsAGame(game))
  BY DEF EnterGame, LogiqxInv, CursorInv
<1>2. CursorInv' /\ \A p \in GoodPlaces : Passed(p)' <=> Passed(p)
  <2>1. CASE game = 0
    <3>1. pc' = "returned" /\ rom' = rom
      BY <2>1 DEF EnterGame
    <3>2. CursorInv'
      BY <1>1, <3>1 DEF CursorInv
    <3>3. \A p : Passed(p)' /\ Passed(p)
      BY <1>1, <2>1, <3>1 DEF Passed
    <3>4. QED
      BY <3>2, <3>3
  <2>2. CASE game # 0
    <3>1. pc' = "rom" /\ rom' = NextSibling(Games[game], 0, "rom")
      BY <2>2 DEF EnterGame, Child, NextSibling, Game, Games
    <3>2. IsAGame(game) /\ game \in DOMAIN Games
      BY <1>1, <2>2 DEF IsAGame
    <3>3. /\ rom' \in Nat /\ (rom' = 0 \/ IsARom(game, rom'))
          /\ \A r \in DOMAIN RomsOf(game) : IsARom(game, r) /\ 0 < r => rom' # 0 /\ rom' <= r
      BY <1>1, <3>1, <3>2, Ahead
    <3>4. CursorInv'
      BY <1>1, <3>1, <3>2, <3>3, SamePlaces DEF CursorInv
    <3>5. ASSUME NEW p \in GoodPlaces PROVE Passed(p)' <=> Passed(p)
      <4>1. /\ p[1] \in Nat \ {0} /\ p[2] \in Nat \ {0}
            /\ p[2] \in DOMAIN RomsOf(p[1]) /\ IsARom(p[1], p[2])
        BY <1>1, PlaceIs
      <4>2. p[1] = game => rom' # 0 /\ rom' <= p[2]
        BY <3>3, <4>1
      <4>3. QED
        BY <1>1, <2>2, <3>1, <3>3, <4>1, <4>2 DEF Passed
    <3>6. QED
      BY <3>4, <3>5
  <2>3. QED
    BY <2>1, <2>2
<1>3. QED
  BY <1>1, <1>2, NoEntry

LEMMA LeaveGameKeeps ==
  ASSUME LogiqxAssumption, LogiqxInv, LeaveGame
  PROVE  LogiqxInv'
<1>1. /\ debug' = debug /\ debug \in BOOLEAN /\ doc' = doc
      /\ rom' = rom /\ entries' = entries /\ count' = count
      /\ sizeInBytes' = sizeInBytes /\ pc = "rom" /\ doc \in Document /\ doc # Malformed
      /\ game \in Nat /\ rom = 0 /\ IsAGame(game) /\ pc' = "game"
      /\ game' = NextSibling(Datafile, game, "game")
  BY DEF LeaveGame, LogiqxInv, CursorInv
<1>2. /\ game' \in Nat /\ (game' = 0 \/ (game < game' /\ IsAGame(game')))
      /\ \A g \in DOMAIN Games : IsAGame(g) /\ game < g => game' # 0 /\ game' <= g
  BY <1>1, Ahead
<1>3. CursorInv'
  BY <1>1, <1>2, SamePlaces DEF CursorInv
<1>4. ASSUME NEW p \in GoodPlaces PROVE Passed(p)' <=> Passed(p)
  <2>1. p[1] \in Nat \ {0} /\ p[1] \in DOMAIN Games /\ IsAGame(p[1])
    BY <1>1, PlaceIs
  <2>2. game < p[1] => game' # 0 /\ game' <= p[1]
    BY <1>2, <2>1
  <2>3. Passed(p) <=> p[1] <= game
    BY <1>1, <2>1 DEF Passed
  <2>4. Passed(p)' <=> game' = 0 \/ p[1] < game'
    BY <1>1 DEF Passed
  <2>5. QED
    BY <1>1, <1>2, <2>1, <2>2, <2>3, <2>4
<1>5. QED
  BY <1>1, <1>3, <1>4, NoEntry

\* What a turn of the inner loop moves past: the rom it reads, and no other.
LEMMA NextRom ==
  ASSUME LogiqxAssumption, LogiqxInv, pc = "rom", rom # 0, UNCHANGED <<debug, doc, game, pc>>,
         rom' = NextSibling(Game, rom, "rom")
  PROVE  /\ doc \in Document /\ doc # Malformed
         /\ game \in Nat /\ rom \in Nat /\ IsAGame(game) /\ IsARom(game, rom)
         /\ rom' \in Nat /\ (rom' = 0 \/ IsARom(game, rom'))
         /\ \A p \in GoodPlaces : Passed(p)' <=> Passed(p) \/ p = <<game, rom>>
         /\ Good(Rom) <=> <<game, rom>> \in GoodPlaces
         /\ ~Passed(<<game, rom>>)
         /\ \A p \in GoodPlaces : Passed(p) => Before(p, <<game, rom>>)
<1>1. /\ doc \in Document /\ doc # Malformed
      /\ game \in Nat /\ rom \in Nat /\ IsAGame(game) /\ IsARom(game, rom)
  BY DEF LogiqxInv, CursorInv
<1>2. /\ rom' \in Nat /\ (rom' = 0 \/ (rom < rom' /\ IsARom(game, rom')))
      /\ \A r \in DOMAIN RomsOf(game) : IsARom(game, r) /\ rom < r => rom' # 0 /\ rom' <= r
  <2>1. rom' = NextSibling(Games[game], rom, "rom") /\ game \in DOMAIN Games
    BY <1>1 DEF Game, Games, IsAGame
  <2>2. QED
    BY <1>1, <2>1, Ahead
<1>3. ASSUME NEW p \in GoodPlaces
      PROVE  /\ Passed(p)' <=> Passed(p) \/ p = <<game, rom>>
             /\ Passed(p) => Before(p, <<game, rom>>)
  <2>1. /\ p = <<p[1], p[2]>> /\ p[1] \in Nat \ {0} /\ p[2] \in Nat \ {0}
        /\ p[2] \in DOMAIN RomsOf(p[1]) /\ IsARom(p[1], p[2])
    BY <1>1, PlaceIs
  <2>2. Passed(p) <=> p[1] < game \/ (p[1] = game /\ p[2] < rom)
    BY DEF Passed
  <2>3. Passed(p)' <=> p[1] < game \/ (p[1] = game /\ (rom' = 0 \/ p[2] < rom'))
    BY DEF Passed
  <2>4. p[1] = game /\ rom < p[2] => rom' # 0 /\ rom' <= p[2]
    BY <1>2, <2>1
  <2>5. p = <<game, rom>> <=> p[1] = game /\ p[2] = rom
    BY <2>1
  <2>6. QED
    BY <1>1, <1>2, <2>1, <2>2, <2>3, <2>4, <2>5 DEF Before
<1>4. ~Passed(<<game, rom>>)
  BY <1>1 DEF Passed
<1>5. Good(Rom) <=> <<game, rom>> \in GoodPlaces
  <2>1. Rom = RomsOf(game)[rom]
    BY DEF Rom, Game, RomsOf, Games
  <2>2. game \in DOMAIN Games /\ rom \in DOMAIN RomsOf(game)
    BY <1>1 DEF IsAGame, IsARom
  <2>3. ASSUME <<game, rom>> \in GoodPlaces PROVE Good(RomsOf(game)[rom])
    <3> DEFINE p == <<game, rom>>
    <3>1. Good(RomsOf(p[1])[p[2]])
      BY <1>1, <2>3, PlaceIs
    <3>2. QED
      BY <3>1
  <2>4. ASSUME Good(RomsOf(game)[rom]) PROVE <<game, rom>> \in GoodPlaces
    BY <1>1, <2>2, <2>4, PlacesAre
  <2>5. QED
    BY <2>1, <2>3, <2>4
<1>6. QED
  BY <1>1, <1>2, <1>3, <1>4, <1>5

LEMMA SkipRomKeeps ==
  ASSUME LogiqxAssumption, LogiqxInv, SkipRom
  PROVE  LogiqxInv'
<1>1. /\ debug' = debug /\ debug \in BOOLEAN /\ doc' = doc
      /\ game' = game /\ pc' = pc /\ entries' = entries /\ count' = count
      /\ sizeInBytes' = sizeInBytes /\ pc = "rom" /\ rom # 0 /\ ~Good(Rom)
      /\ rom' = NextSibling(Game, rom, "rom")
  BY DEF SkipRom, LogiqxInv, CursorInv
<1>2. /\ doc \in Document /\ doc # Malformed /\ game \in Nat /\ IsAGame(game)
      /\ rom' \in Nat /\ (rom' = 0 \/ IsARom(game, rom'))
      /\ \A p \in GoodPlaces : Passed(p)' <=> Passed(p) \/ p = <<game, rom>>
      /\ <<game, rom>> \notin GoodPlaces
  BY <1>1, NextRom
<1>3. CursorInv'
  BY <1>1, <1>2, SamePlaces DEF CursorInv
<1>4. QED
  BY <1>1, <1>2, <1>3, NoEntry

LEMMA AssertFailsKeeps ==
  ASSUME LogiqxAssumption, LogiqxInv, AssertFails
  PROVE  LogiqxInv'
<1>1. /\ debug' = debug /\ debug \in BOOLEAN /\ doc' = doc
      /\ game' = game /\ rom' = rom /\ entries' = entries /\ count' = count
      /\ sizeInBytes' = sizeInBytes /\ pc = "rom" /\ pc' = "aborted"
  BY DEF AssertFails
<1>2. CursorInv'
  BY <1>1, SamePlaces DEF CursorInv, LogiqxInv
<1>3. \A p : Passed(p)' <=> Passed(p)
  BY <1>1 DEF Passed
<1>4. QED
  BY <1>1, <1>2, <1>3, NoEntry

\* The entry of the rom the cursor is at goes to the end of the list.
LEMMA PlacesGrow ==
  ASSUME doc' = doc, entries \in Seq(Entry), NEW e, entries' = Append(entries, e),
         NEW here \in GoodPlaces, Describes(e, RomAt(here)),
         NEW at, PlacesOf(at),
         \A p \in GoodPlaces : Passed(p)' <=> Passed(p) \/ p = here,
         \A p \in GoodPlaces : Passed(p) => Before(p, here)
  PROVE  \E b : PlacesOf(b)'
<1> DEFINE n == Len(entries) + 1
           b == [i \in 1..n |-> IF i = n THEN here ELSE at[i]]
<1>1. /\ n \in Nat /\ DOMAIN entries = 1..(n - 1) /\ DOMAIN entries' = 1..n
      /\ entries'[n] = e /\ \A i \in 1..(n - 1) : entries'[i] = entries[i]
  OBVIOUS
<1>2. /\ at \in [1..(n - 1) -> GoodPlaces]
      /\ \A i \in 1..(n - 1) : Describes(entries[i], RomAt(at[i]))
      /\ \A i, j \in 1..(n - 1) : i < j => Before(at[i], at[j])
      /\ \A p \in GoodPlaces : Passed(p) <=> \E i \in 1..(n - 1) : at[i] = p
  BY <1>1 DEF PlacesOf
<1> HIDE DEF n
<1>3. /\ \A i \in 1..n : i # n => i \in 1..(n - 1)
      /\ n \in 1..n /\ \A i \in 1..(n - 1) : i \in 1..n /\ i # n
  BY <1>1 DEF n
<1>4. b[n] = here /\ \A i \in 1..(n - 1) : b[i] = at[i]
  BY <1>3
<1>5. b \in [1..n -> GoodPlaces]
  BY <1>2, <1>3
<1> HIDE DEF b
<1>6. \A i \in 1..n : Describes(entries'[i], RomAt(b[i]))
  BY <1>1, <1>2, <1>3, <1>4
<1>7. ASSUME NEW i \in 1..n, NEW j \in 1..n, i < j PROVE Before(b[i], b[j])
  <2>1. i # n
    BY <1>1, <1>7
  <2>2. i \in 1..(n - 1) /\ at[i] \in GoodPlaces /\ b[i] = at[i]
    BY <1>2, <1>3, <1>4, <2>1
  <2>3. CASE j = n
    BY <1>2, <1>4, <2>2, <2>3
  <2>4. CASE j # n
    BY <1>2, <1>3, <1>4, <1>7, <2>2, <2>4
  <2>5. QED
    BY <2>3, <2>4
<1>8. ASSUME NEW p \in GoodPlaces PROVE Passed(p)' <=> \E i \in 1..n : b[i] = p
  BY <1>2, <1>3, <1>4
<1>9. PICK c : c = b
  OBVIOUS
<1>10. PlacesOf(c)'
  BY <1>1, <1>5, <1>6, <1>7, <1>8, <1>9, SamePlaces DEF PlacesOf
<1>11. QED
  BY <1>10

\* The totals after one entry more.
LEMMA TotalsGrow ==
  ASSUME LogiqxAssumption, TotalsInv, NEW e \in Entry, entries' = Append(entries, e),
         e.hash.size \in Nat, count' = count + 1,
         sizeInBytes' = (sizeInBytes + e.hash.size) % SumModulus,
         ~debug \/ Hashable(e.hash), debug' = debug
  PROVE  TotalsInv'
<1> DEFINE s == [i \in DOMAIN entries |-> entries[i].hash.size]
           t == [i \in DOMAIN entries' |-> entries'[i].hash.size]
<1>1. /\ entries \in Seq(Entry) /\ count = Len(entries)
      /\ sizeInBytes = SumFunction(s) % SumModulus
      /\ debug => GoodRomsHaveDigest
      /\ SumModulus \in Nat \ {0}
  BY SameTotal DEF TotalsInv, TotalsMatchEntries, LogiqxAssumption
<1>2. /\ DOMAIN entries = 1..Len(entries) /\ Len(entries) \in Nat
      /\ \A i \in DOMAIN entries : entries[i] \in Entry
      /\ entries' \in Seq(Entry) /\ Len(entries') = Len(entries) + 1
      /\ DOMAIN entries' = 1..(Len(entries) + 1)
      /\ entries'[Len(entries) + 1] = e /\ \A i \in DOMAIN entries : entries'[i] = entries[i]
  BY <1>1
<1>3. s \in Seq(Nat) /\ t = Append(s, e.hash.size)
  <2>1. ASSUME NEW x \in Entry PROVE x.hash.size \in Nat
    <3>1. x.hash.size \in Size
      BY DEF Entry, HashRecord
    <3>2. Size = 0..(SizeModulus - 1) /\ SizeModulus \in Nat \ {0}
      BY DEF LogiqxAssumption
    <3>3. QED
      BY <3>1, <3>2
  <2>2. s \in [1..Len(entries) -> Nat]
    BY <1>2, <2>1
  <2>3. s \in Seq(Nat) /\ Len(s) = Len(entries)
    BY <1>2, <2>2
  <2>4. \A i \in 1..Len(s) : t[i] = s[i]
    BY <1>2, <2>3
  <2>5. t[Len(s) + 1] = e.hash.size
    BY <1>2, <2>3
  <2>6. t = [i \in 1..(Len(s) + 1) |-> t[i]]
    BY <1>2, <2>3
  <2> HIDE DEF s, t
  <2>7. Append(s, e.hash.size) = [i \in 1..(Len(s) + 1) |-> t[i]]
    BY <2>3, <2>4, <2>5
  <2>8. QED
    BY <2>3, <2>6, <2>7
<1> HIDE DEF s
<1>4. SumFunction(t) = SumFunction(s) + e.hash.size /\ SumFunction(s) \in Nat
  <2>1. IsFiniteSet(1..Len(s))
    BY <1>3, FS_Interval
  <2>2. s \in [1..Len(s) -> Nat]
    BY <1>3
  <2>3. QED
    BY <1>3, <2>1, <2>2, SumAppend, SumNat
<1>5. sizeInBytes' = SumFunction(t) % SumModulus
  BY <1>1, <1>4, ModAdd
<1>6. sizeInBytes' \in 0..(SumModulus - 1)
  <2>1. sizeInBytes + e.hash.size \in Nat
    BY DEF TotalsInv
  <2>2. QED
    BY <1>1, <2>1
<1>7. TotalsMatchEntries'
  BY <1>1, <1>2, <1>5, SameTotal DEF TotalsMatchEntries
<1>8. debug' => GoodRomsHaveDigest'
  <2>1. \A i \in DOMAIN entries' : i \in DOMAIN entries \/ i = Len(entries) + 1
    BY <1>2
  <2>2. QED
    BY <1>1, <1>2, <2>1 DEF GoodRomsHaveDigest, Hashable
<1>9. QED
  BY <1>2, <1>6, <1>7, <1>8 DEF TotalsInv

LEMMA ReadRomKeeps ==
  ASSUME LogiqxAssumption, LogiqxInv, ReadRom
  PROVE  LogiqxInv'
<1>1. /\ debug' = debug /\ debug \in BOOLEAN /\ doc' = doc
      /\ game' = game /\ pc' = pc /\ count' = count + 1
      /\ pc = "rom" /\ rom # 0 /\ Good(Rom)
      /\ rom' = NextSibling(Game, rom, "rom")
  BY DEF ReadRom, LogiqxInv, CursorInv
<1> DEFINE here == <<game, rom>>
<1>2. /\ doc \in Document /\ doc # Malformed /\ game \in Nat
      /\ IsAGame(game) /\ IsARom(game, rom)
      /\ rom' \in Nat /\ (rom' = 0 \/ IsARom(game, rom'))
      /\ \A p \in GoodPlaces : Passed(p)' <=> Passed(p) \/ p = here
      /\ here \in GoodPlaces
      /\ \A p \in GoodPlaces : Passed(p) => Before(p, here)
  BY <1>1, NextRom
<1>3. PICK fresh \in Fresh :
        LET hash == HashOf(Rom, fresh) IN
        /\ ~debug \/ Hashable(hash)
        /\ entries' = Append(entries, [name |-> AsString(Rom, "name"), hash |-> hash])
        /\ sizeInBytes' = (sizeInBytes + hash.size) % SumModulus
  BY DEF ReadRom, LogiqxInv, CursorInv
<1>4. PICK e : e = [name |-> AsString(Rom, "name"),
                    hash |-> HashOf(Rom, fresh)]
  OBVIOUS
<1>5. IsRom(Rom) /\ Rom = RomAt(here)
  <2>1. Rom = RomsOf(game)[rom] /\ Rom = RomAt(here)
    BY DEF Rom, Game, RomsOf, Games, RomAt
  <2>2. game \in DOMAIN Games /\ rom \in DOMAIN RomsOf(game)
    BY <1>2 DEF IsAGame, IsARom
  <2>3. QED
    BY <1>2, <2>1, <2>2, DatafileTyped
<1>6. /\ e.hash \in HashRecord /\ e.name \in Text /\ e.hash.size \in Nat
      /\ Describes(e, RomAt(here))
  BY <1>4, <1>5, HashOfRom
<1>7. e \in Entry
  BY <1>4, <1>6 DEF Entry
<1>8. /\ entries' = Append(entries, e)
      /\ sizeInBytes' = (sizeInBytes + e.hash.size) % SumModulus
      /\ ~debug \/ Hashable(e.hash)
  BY <1>3, <1>4
<1>9. TotalsInv'
  BY <1>1, <1>6, <1>7, <1>8, TotalsGrow DEF LogiqxInv
<1>10. CursorInv'
  BY <1>1, <1>2, SamePlaces DEF CursorInv
<1>11. PICK at : PlacesOf(at)
  BY DEF LogiqxInv
<1>12. entries \in Seq(Entry)
  BY DEF LogiqxInv, TotalsInv
<1>13. PICK p : p = here
  OBVIOUS
<1>14. \E b : PlacesOf(b)'
  BY <1>1, <1>2, <1>6, <1>8, <1>11, <1>12, <1>13, PlacesGrow
<1>15. QED
  BY <1>9, <1>10, <1>14 DEF LogiqxInv

LEMMA LogiqxInvNext ==
  ASSUME LogiqxAssumption, LogiqxInv, [LogiqxNext]_logiqxVars
  PROVE  LogiqxInv'
<1>1. ASSUME UNCHANGED logiqxVars PROVE LogiqxInv'
  <2>1. /\ debug' = debug /\ doc' = doc /\ entries' = entries /\ count' = count /\ sizeInBytes' = sizeInBytes
        /\ pc' = pc /\ game' = game /\ rom' = rom
    BY <1>1 DEF logiqxVars
  <2>2. CursorInv'
    BY <2>1, SamePlaces DEF CursorInv, LogiqxInv
  <2>3. \A p : Passed(p)' <=> Passed(p)
    BY <2>1 DEF Passed
  <2>4. QED
    BY <2>1, <2>2, <2>3, NoEntry
<1>2. QED
  BY <1>1, LoadKeeps, EnterGameKeeps, LeaveGameKeeps, SkipRomKeeps, ReadRomKeeps, AssertFailsKeeps
     DEF LogiqxNext

\* What the invariant says of the document read so far.
LEMMA LogiqxSays ==
  ASSUME LogiqxAssumption, LogiqxInv
  PROVE  LogiqxReadsTheDocument
<1>1. LogiqxTypeOK
  <2>1. \A i \in DOMAIN entries : entries[i] \in Entry
    BY DEF LogiqxInv, TotalsInv
  <2>2. QED
    BY <2>1 DEF LogiqxInv, TotalsInv, CursorInv, LogiqxTypeOK, Entry
<1>2. PICK at : PlacesOf(at)
  BY DEF LogiqxInv
<1>3. ASSUME NEW i \in DOMAIN entries, NEW p \in GoodPlaces, Before(p, at[i])
      PROVE  p \in Range(at)
  <2>1. at[i] \in GoodPlaces /\ Passed(at[i])
    BY <1>2 DEF PlacesOf
  <2>2. doc \in Document /\ doc # Malformed /\ game \in Nat /\ rom \in Nat
    BY <2>1 DEF LogiqxInv, CursorInv, GoodPlaces
  <2>3. /\ p[1] \in Nat /\ p[2] \in Nat /\ at[i][1] \in Nat /\ at[i][2] \in Nat
    BY <2>1, <2>2, PlaceIs
  <2>4. Passed(p)
    BY <1>3, <2>1, <2>2, <2>3 DEF Passed, Before
  <2>5. QED
    BY <1>2, <2>4 DEF PlacesOf, Range
<1>4. ASSUME pc = "returned" PROVE Range(at) = GoodPlaces
  <2>1. \A p : Passed(p)
    BY <1>4 DEF Passed
  <2>2. \A p \in GoodPlaces : \E i \in DOMAIN entries : at[i] = p
    BY <1>2, <2>1 DEF PlacesOf
  <2>3. at \in [DOMAIN entries -> GoodPlaces]
    BY <1>2 DEF PlacesOf
  <2>4. QED
    BY <2>2, <2>3 DEF Range
<1>5. EntriesMatchDocument
  BY <1>2, <1>3, <1>4 DEF EntriesMatchDocument, PlacesOf
<1>6. QED
  BY <1>1, <1>5 DEF LogiqxReadsTheDocument, LogiqxInv, TotalsInv

(***************************************************************************)
(* LogiqxParser::parse, for every document: its entries are the good roms  *)
(* of the first datafile, each once, in their order and with their own     *)
(* fields; the totals are theirs; and in a debug build each has a digest.  *)
(***************************************************************************)
THEOREM LogiqxReadsTheDocumentAlways ==
  ASSUME LogiqxAssumption
  PROVE  LogiqxSpec => []LogiqxReadsTheDocument
<1>1. LogiqxInit => LogiqxInv
  BY LogiqxInvInit
<1>2. LogiqxInv /\ [LogiqxNext]_logiqxVars => LogiqxInv'
  BY LogiqxInvNext
<1>3. LogiqxInv => LogiqxReadsTheDocument
  BY LogiqxSays
<1>4. QED
  BY <1>1, <1>2, <1>3, PTL DEF LogiqxSpec
=============================================================================
