---------------------------- MODULE RomatrixProofs ----------------------------
(***************************************************************************)
(* Theorems about Import and Romatrix, for every folder of DATs, every     *)
(* result of the parsers, every set of heap addresses, both kinds of build *)
(* and any paths and clients.                                              *)
(***************************************************************************)
EXTENDS Romatrix, DataLemmas
-----------------------------------------------------------------------------
(* The import. *)

\* A sequence over S holds elements of S.
LEMMA ElementInSeq ==
  ASSUME NEW S, NEW s \in Seq(S), NEW i \in DOMAIN s
  PROVE  s[i] \in S
OBVIOUS

\* A partial map is a function from its own domain.
LEMMA MapDef ==
  ASSUME NEW S, NEW T, NEW m
  PROVE  IsMap(m, S, T) <=> DOMAIN m \subseteq S /\ m \in [DOMAIN m -> T]
BY DEF IsMap

LEMMA EmptyIsMap ==
  ASSUME NEW S, NEW T
  PROVE  IsMap(EmptyMap, S, T) /\ DOMAIN EmptyMap = {}
BY DEF IsMap, EmptyMap

\* Binding a key extends the domain by it and leaves the other keys alone.
LEMMA BindDomain ==
  ASSUME NEW m, NEW k, NEW v
  PROVE  DOMAIN Bind(m, k, v) = DOMAIN m \cup {k}
BY DEF Bind

LEMMA BindValue ==
  ASSUME NEW m, NEW k, NEW v, NEW x \in DOMAIN m \cup {k}
  PROVE  Bind(m, k, v)[x] = IF x = k THEN v ELSE m[x]
BY DEF Bind

\* unordered_map::insert adds the key if it is missing and changes no value.
LEMMA MapInsertDomain ==
  ASSUME NEW m, NEW k, NEW v
  PROVE  DOMAIN MapInsert(m, k, v) = DOMAIN m \cup {k}
BY BindDomain DEF MapInsert

LEMMA MapInsertValue ==
  ASSUME NEW m, NEW k, NEW v, NEW x \in DOMAIN m \cup {k}
  PROVE  MapInsert(m, k, v)[x] = IF x \in DOMAIN m THEN m[x] ELSE v
<1>1. CASE k \in DOMAIN m
  BY <1>1 DEF MapInsert
<1>2. CASE k \notin DOMAIN m
  BY <1>2 DEF MapInsert, Bind
<1>3. QED
  BY <1>1, <1>2

LEMMA BindIsMap ==
  ASSUME NEW S, NEW T, NEW m, NEW k \in S, NEW v \in T, IsMap(m, S, T)
  PROVE  IsMap(Bind(m, k, v), S, T)
<1>1. DOMAIN m \subseteq S /\ m \in [DOMAIN m -> T]
  BY MapDef
<1>2. Bind(m, k, v) \in [DOMAIN m \cup {k} -> T]
  BY <1>1 DEF Bind
<1>3. DOMAIN m \cup {k} \in SUBSET S
  BY <1>1
<1>4. QED
  BY <1>2, <1>3 DEF IsMap

LEMMA MapInsertIsMap ==
  ASSUME NEW S, NEW T, NEW m, NEW k \in S, NEW v \in T, IsMap(m, S, T)
  PROVE  IsMap(MapInsert(m, k, v), S, T)
<1>1. CASE k \in DOMAIN m
  BY <1>1 DEF MapInsert
<1>2. CASE k \notin DOMAIN m
  <2>1. MapInsert(m, k, v) = Bind(m, k, v)
    BY <1>2 DEF MapInsert
  <2>2. IsMap(Bind(m, k, v), S, T)
    BY BindIsMap
  <2>3. QED
    BY <2>1, <2>2
<1>3. QED
  BY <1>1, <1>2
-----------------------------------------------------------------------------
\* The initial state has the right types.
LEMMA TypeInit == Init => TypeOK
<1>1. IsMap(EmptyMap, DatName, DatName) /\ IsMap(EmptyMap, Node, HashRecord)
      /\ DOMAIN EmptyMap = {}
  BY EmptyIsMap
<1>2. EmptyMap = [d \in DOMAIN EmptyMap |-> EmptyMap[d]]
  BY DEF EmptyMap
<1>3. QED
  BY <1>1, <1>2 DEF Init, StoreInit, TypeOK, StoreTypeOK

\* Every step keeps them.
LEMMA TypeNext == TypeOK /\ [Next]_vars => TypeOK'
<1> SUFFICES ASSUME TypeOK, [Next]_vars
             PROVE  TypeOK'
  OBVIOUS
<1> USE ImportAssumption
<1>1. ASSUME NEW f \in unread, TakeFile(f)
      PROVE  TypeOK'
  <2>1. PICK result \in ParseResult :
          /\ entries' = result
          /\ count' = count + Len(result)
          /\ taken' = Append(taken, [dat |-> FileName[f], entries |-> result])
    BY <1>1 DEF TakeFile
  <2>2. result \in Seq(ParseEntry) /\ FileName[f] \in DatName
    BY DEF ParseResult, TypeOK
  <2>3. StoreTypeOK'
    <3>1. IsMap(MapInsert(folderName, FileName[f], FileName[f]), DatName, DatName)
      BY <2>2, MapInsertIsMap DEF TypeOK, StoreTypeOK
    <3>2. IsMap(EmptyMap, RomName, Node)
      BY EmptyIsMap
    <3>3. QED
      BY <1>1, <3>1, <3>2 DEF TakeFile, TypeOK, StoreTypeOK, AddDatFile, MapInsert, Bind
  <2>4. QED
    BY <1>1, <2>1, <2>2, <2>3 DEF TakeFile, TypeOK
<1>2. CASE FileEntry
  <2>1. PICK a \in Node : AddHashData(Head(entries).hash, a) /\ AddEntry(datFile, Head(entries).name, a)
    BY <1>2 DEF FileEntry
  <2>2. Head(entries) \in ParseEntry
    BY <1>2 DEF FileEntry, TypeOK
  <2>3. IsMap(hashes', Node, HashRecord)
    <3>1. Head(entries).hash \in HashRecord
      BY <2>2 DEF ParseEntry
    <3>2. CASE UNCHANGED hashes
      BY <3>2 DEF TypeOK, StoreTypeOK
    <3>3. CASE hashes' = Bind(hashes, a, Head(entries).hash)
      BY <3>1, <3>3, BindIsMap DEF TypeOK, StoreTypeOK
    <3>4. QED
      BY <2>1, <3>2, <3>3 DEF AddHashData
  <2>4. \A d \in DOMAIN dats : IsMap(MapInsert(dats[d], Head(entries).name, a), RomName, Node)
    BY <2>2, MapInsertIsMap DEF TypeOK, StoreTypeOK, ParseEntry
  <2>5. StoreTypeOK'
    BY <2>1, <2>3, <2>4 DEF TypeOK, StoreTypeOK, AddEntry
  <2>6. QED
    BY <1>2, <2>5 DEF FileEntry, TypeOK
<1>3. CASE AssertFails \/ ParseAborts
  BY <1>3 DEF AssertFails, ParseAborts, TypeOK, StoreTypeOK, storeVars
<1>4. CASE Mount
  BY <1>4 DEF Mount, TypeOK, StoreTypeOK, storeVars
<1>5. CASE UNCHANGED vars
  BY <1>5 DEF vars, storeVars, TypeOK, StoreTypeOK
<1>6. QED
  BY <1>1, <1>2, <1>3, <1>4, <1>5 DEF Next

\* Type correctness.
THEOREM TypeCorrect == Spec => []TypeOK
  BY TypeInit, TypeNext, PTL DEF Spec
-----------------------------------------------------------------------------
(***************************************************************************)
(* The inductive invariant.  What FirstEntryWins leaves implicit: every    *)
(* entry points to a record in the set, and the entries still to be filed  *)
(* are the tail of those of the file taken last, whose DAT exists.         *)
(***************************************************************************)
PointersValid ==
  \A d \in DOMAIN dats : \A n \in DOMAIN dats[d] : dats[d][n] \in DOMAIN hashes

LastFile == taken[Len(taken)]

LoopInv ==
  /\ taken = <<>> => entries = <<>>
  /\ taken # <<>> =>
       /\ datFile = LastFile.dat
       /\ datFile \in DOMAIN dats
       /\ Len(entries) <= Len(LastFile.entries)
       /\ \A j \in 1..Len(entries) :
            entries[j] = LastFile.entries[Len(LastFile.entries) - Len(entries) + j]

\* Equal records are shared unless their hash codes differ.
TwinsDiffer ==
  \A a, b \in DOMAIN hashes :
    a # b /\ SameHash(hashes[a], hashes[b])
      => HashCode(hashes[a]) # HashCode(hashes[b])

IInv ==
  /\ TypeOK
  /\ PointersValid
  /\ LoopInv
  /\ TwinsDiffer
  /\ FirstEntryWins

\* What taking a file does to the store: at most one new, empty DAT.
LEMMA TakeFileEffect ==
  ASSUME TypeOK, NEW f \in unread, TakeFile(f)
  PROVE  /\ DOMAIN dats' = DOMAIN dats \cup {FileName[f]}
         /\ \A d \in DOMAIN dats : dats'[d] = dats[d]
         /\ FileName[f] \notin DOMAIN dats => DOMAIN dats'[FileName[f]] = {}
         /\ hashes' = hashes
<1>1. /\ dats' = MapInsert(dats, FileName[f], EmptyMap)
      /\ hashes' = hashes
  BY DEF TakeFile, AddDatFile
<1>2. DOMAIN dats' = DOMAIN dats \cup {FileName[f]}
  BY <1>1, MapInsertDomain
<1>3. ASSUME NEW d \in DOMAIN dats \cup {FileName[f]}
      PROVE  dats'[d] = IF d \in DOMAIN dats THEN dats[d] ELSE EmptyMap
  BY <1>1, MapInsertValue
<1>4. DOMAIN EmptyMap = {}
  BY DEF EmptyMap
<1>5. QED
  BY <1>1, <1>2, <1>3, <1>4

(***************************************************************************)
(* What filing an entry does to the store: the records already there stay  *)
(* as they are, so every published entry keeps its contents; the name is   *)
(* published in the current DAT, with the contents filed if it is new.     *)
(***************************************************************************)
LEMMA FileEntryEffect ==
  ASSUME TypeOK, PointersValid, LoopInv, FileEntry
  PROVE  /\ DOMAIN dats' = DOMAIN dats
         /\ datFile \in DOMAIN dats
         /\ \A d \in DOMAIN dats : d # datFile => dats'[d] = dats[d]
         /\ DOMAIN dats'[datFile] = DOMAIN dats[datFile] \cup {Head(entries).name}
         /\ \A a \in DOMAIN hashes : a \in DOMAIN hashes' /\ hashes'[a] = hashes[a]
         /\ PointersValid'
         /\ \A d \in DOMAIN dats : \A n \in DOMAIN dats[d] :
              dats'[d][n] = dats[d][n]
         /\ Head(entries).name \notin DOMAIN dats[datFile] =>
              Contents(hashes'[dats'[datFile][Head(entries).name]])
                = Contents(Head(entries).hash)
<1> DEFINE e == Head(entries)
<1>1. PICK a \in Node : AddHashData(e.hash, a) /\ AddEntry(datFile, e.name, a)
  BY DEF FileEntry
<1>2. datFile \in DOMAIN dats
  BY DEF FileEntry, LoopInv
<1>3. /\ a \in DOMAIN hashes'
      /\ Contents(hashes'[a]) = Contents(e.hash)
      /\ \A b \in DOMAIN hashes : b \in DOMAIN hashes' /\ hashes'[b] = hashes[b]
  <2>1. CASE a \in DOMAIN hashes /\ SameHash(hashes[a], e.hash) /\ UNCHANGED hashes
    BY <2>1 DEF SameHash
  <2>2. CASE a \in Node \ DOMAIN hashes /\ hashes' = Bind(hashes, a, e.hash)
    <3>1. DOMAIN hashes' = DOMAIN hashes \cup {a}
      BY <2>2, BindDomain
    <3>2. \A b \in DOMAIN hashes \cup {a} :
            hashes'[b] = IF b = a THEN e.hash ELSE hashes[b]
      BY <2>2, BindValue
    <3>3. QED
      BY <2>2, <3>1, <3>2
  <2>3. QED
    BY <1>1, <2>1, <2>2 DEF AddHashData
<1>4. /\ DOMAIN dats' = DOMAIN dats
      /\ dats'[datFile] = MapInsert(dats[datFile], e.name, a)
      /\ \A d \in DOMAIN dats : d # datFile => dats'[d] = dats[d]
  BY <1>1, <1>2 DEF AddEntry
<1>5. DOMAIN dats'[datFile] = DOMAIN dats[datFile] \cup {e.name}
  <2>1. DOMAIN MapInsert(dats[datFile], e.name, a) = DOMAIN dats[datFile] \cup {e.name}
    BY MapInsertDomain
  <2>2. QED
    BY <1>4, <2>1
<1>6. ASSUME NEW n \in DOMAIN dats[datFile] \cup {e.name}
      PROVE  dats'[datFile][n] = IF n \in DOMAIN dats[datFile]
                                   THEN dats[datFile][n] ELSE a
  BY <1>4, MapInsertValue
<1>7. \A d \in DOMAIN dats : \A n \in DOMAIN dats[d] : dats'[d][n] = dats[d][n]
  BY <1>4, <1>6
<1>8. PointersValid'
  BY <1>2, <1>3, <1>4, <1>5, <1>7, <1>6 DEF PointersValid
<1>9. QED
  BY <1>2, <1>3, <1>4, <1>5, <1>7, <1>8, <1>6
-----------------------------------------------------------------------------
\* The positions filed, without the union of products.
LEMMA FiledDef ==
  ASSUME NEW p
  PROVE  p \in Filed <=> \E i \in DOMAIN taken : \E j \in 1..FiledOf(i) : p = <<i, j>>
BY DEF Filed

\* A file read just now has nothing filed, and those before it everything.
LEMMA TakeFileFiled ==
  ASSUME TypeOK, NEW f \in unread, TakeFile(f)
  PROVE  /\ Filed' = Filed
         /\ Len(taken') = Len(taken) + 1
         /\ \A i \in DOMAIN taken : taken'[i] = taken[i]
         /\ taken'[Len(taken')] = [dat |-> FileName[f], entries |-> entries']
         /\ entries' \in Seq(ParseEntry)
<1>1. PICK result \in ParseResult :
        /\ entries' = result
        /\ taken' = Append(taken, [dat |-> FileName[f], entries |-> result])
  BY DEF TakeFile
<1>2. result \in Seq(ParseEntry)
  BY ImportAssumption DEF ParseResult
<1>3. /\ taken \in Seq([dat : DatName, entries : Seq(ParseEntry)])
      /\ FileName[f] \in DatName
  BY ImportAssumption DEF TypeOK
<1>4. /\ Len(taken') = Len(taken) + 1
      /\ DOMAIN taken' = DOMAIN taken \cup {Len(taken) + 1}
      /\ \A i \in DOMAIN taken : taken'[i] = taken[i] /\ i # Len(taken) + 1
      /\ taken'[Len(taken')] = [dat |-> FileName[f], entries |-> result]
  BY <1>1, <1>2, <1>3
<1>5. \A i \in DOMAIN taken : FiledOf(i)' = FiledOf(i)
  <2> SUFFICES ASSUME NEW i \in DOMAIN taken
               PROVE  FiledOf(i)' = FiledOf(i)
    OBVIOUS
  <2>1. Len(taken[i].entries) \in Nat
    BY <1>3
  <2>2. entries = <<>> /\ Len(entries) = 0
    BY DEF TakeFile
  <2>3. FiledOf(i) = Len(taken[i].entries)
    BY <2>1, <2>2 DEF FiledOf
  <2>4. FiledOf(i)' = Len(taken[i].entries)
    BY <1>4 DEF FiledOf
  <2>5. QED
    BY <2>3, <2>4
<1>6. ASSUME NEW m, m = Len(taken) + 1
      PROVE  FiledOf(m)' = 0
  <2>1. FiledOf(m)' = Len(result) - Len(result)
    <3>1. taken'[m].entries = result /\ Len(taken') = m
      BY <1>4, <1>6
    <3>2. QED
      BY <1>1, <3>1 DEF FiledOf
  <2>2. QED
    BY <1>2, <2>1
<1>7. ASSUME NEW p
      PROVE  p \in Filed' <=> p \in Filed
  <2>1. p \in Filed' <=> \E i \in DOMAIN taken' : \E j \in 1..FiledOf(i)' : p = <<i, j>>
    BY DEF Filed
  <2>2. p \in Filed <=> \E i \in DOMAIN taken : \E j \in 1..FiledOf(i) : p = <<i, j>>
    BY FiledDef
  <2>3. ASSUME NEW i \in DOMAIN taken', NEW j \in 1..FiledOf(i)'
        PROVE  i \in DOMAIN taken
    <3>1. i # Len(taken) + 1
      <4>1. ASSUME i = Len(taken) + 1
            PROVE  FALSE
        <5>1. FiledOf(i)' = 0
          BY <1>6, <4>1
        <5>2. j \in 1..0
          BY <5>1
        <5>3. QED
          BY <5>2
      <4>2. QED
        BY <4>1
    <3>2. QED
      BY <1>4, <3>1
  <2>4. DOMAIN taken \subseteq DOMAIN taken'
    BY <1>4
  <2>5. QED
    BY <1>5, <2>1, <2>2, <2>3, <2>4
<1>8. QED
  BY <1>1, <1>2, <1>4, <1>7

\* The position the next entry is filed at.
Here == <<Len(taken), FiledOf(Len(taken)) + 1>>

\* One more position is filed; it holds the entry and comes after the others.
LEMMA FileEntryFiled ==
  ASSUME TypeOK, LoopInv, FileEntry
  PROVE  /\ Filed' = Filed \cup {Here}
         /\ Len(taken) \in DOMAIN taken
         /\ taken[Len(taken)].dat = datFile
         /\ EntryAt(Here) = Head(entries)
         /\ \A p \in Filed \cup {Here} : ~Precedes(Here, p)
         /\ taken' = taken
         /\ entries' = Tail(entries)
<1> DEFINE L == LastFile.entries
<1> PICK m : m = Len(taken)
  OBVIOUS
<1>1. /\ taken \in Seq([dat : DatName, entries : Seq(ParseEntry)])
      /\ entries \in Seq(ParseEntry) /\ entries # <<>>
      /\ taken' = taken /\ entries' = Tail(entries)
  BY DEF FileEntry, TypeOK
<1>2. taken # <<>>
  BY <1>1 DEF LoopInv
<1>3. m \in DOMAIN taken /\ m \in Nat /\ m > 0 /\ DOMAIN taken = 1..m
  BY <1>1, <1>2
<1>4. L \in Seq(ParseEntry) /\ LastFile.dat = datFile
  <2>1. LastFile \in [dat : DatName, entries : Seq(ParseEntry)]
    BY <1>1, <1>3, ElementInSeq DEF LastFile
  <2>2. QED
    BY <1>2, <2>1 DEF LoopInv
<1>5. /\ Len(entries) \in Nat /\ Len(entries) > 0
      /\ Len(L) \in Nat /\ Len(entries) <= Len(L)
      /\ Len(entries') = Len(entries) - 1
  BY <1>1, <1>2, <1>4 DEF LoopInv
<1>6. /\ FiledOf(m) = Len(L) - Len(entries)
      /\ FiledOf(m) \in Int
      /\ FiledOf(m)' = FiledOf(m) + 1
  <2>1. FiledOf(m) = Len(L) - Len(entries)
    BY DEF FiledOf, LastFile
  <2>2. FiledOf(m)' = Len(L) - Len(entries')
    BY <1>1 DEF FiledOf, LastFile
  <2>3. QED
    BY <1>5, <2>1, <2>2
<1>7. EntryAt(Here) = Head(entries)
  <2>1. EntryAt(Here) = L[Len(L) - Len(entries) + 1]
    BY <1>6 DEF EntryAt, Here, LastFile
  <2>2. entries[1] = L[Len(L) - Len(entries) + 1]
    BY <1>2, <1>5 DEF LoopInv
  <2>3. QED
    BY <1>1, <2>1, <2>2
<1>8. Filed' = Filed \cup {Here}
  <2>1. ASSUME NEW p
        PROVE  p \in Filed' <=> p \in Filed \/ p = Here
    <3>1. p \in Filed' <=> \E i \in DOMAIN taken' : \E j \in 1..FiledOf(i)' : p = <<i, j>>
      BY DEF Filed
    <3>2. p \in Filed <=> \E i \in DOMAIN taken : \E j \in 1..FiledOf(i) : p = <<i, j>>
      BY FiledDef
    <3>3. \A i \in DOMAIN taken : i # m => FiledOf(i)' = FiledOf(i)
      BY <1>1 DEF FiledOf
    <3>4. 1..FiledOf(m)' = 1..FiledOf(m) \cup {FiledOf(m) + 1}
      BY <1>5, <1>6
    <3>5. (\E i \in DOMAIN taken : \E j \in 1..FiledOf(i)' : p = <<i, j>>)
            <=> (\E i \in DOMAIN taken : \E j \in 1..FiledOf(i) : p = <<i, j>>)
                \/ p = <<m, FiledOf(m) + 1>>
      <4>1. ASSUME NEW i \in DOMAIN taken, NEW j \in 1..FiledOf(i)', p = <<i, j>>
            PROVE  \/ \E k \in 1..FiledOf(i) : p = <<i, k>>
                   \/ p = <<m, FiledOf(m) + 1>>
        <5>1. CASE i = m
          <6>1. j \in 1..FiledOf(m)'
            BY <5>1
          <6>2. j \in 1..FiledOf(m) \/ j = FiledOf(m) + 1
            BY <3>4, <6>1
          <6>3. QED
            BY <4>1, <5>1, <6>2
        <5>2. CASE i # m
          BY <3>3, <4>1, <5>2
        <5>3. QED
          BY <5>1, <5>2
      <4>2. ASSUME NEW i \in DOMAIN taken, NEW j \in 1..FiledOf(i), p = <<i, j>>
            PROVE  \E k \in 1..FiledOf(i)' : p = <<i, k>>
        <5>1. CASE i = m
          <6>1. j \in 1..FiledOf(m)
            BY <5>1
          <6>2. j \in 1..FiledOf(m)'
            BY <3>4, <6>1
          <6>3. QED
            BY <4>2, <5>1, <6>2
        <5>2. CASE i # m
          BY <3>3, <4>2, <5>2
        <5>3. QED
          BY <5>1, <5>2
      <4>3. ASSUME p = <<m, FiledOf(m) + 1>>
            PROVE  \E k \in 1..FiledOf(m)' : p = <<m, k>>
        BY <3>4, <4>3
      <4>4. (\E i \in DOMAIN taken : \E j \in 1..FiledOf(i)' : p = <<i, j>>)
              => (\E i \in DOMAIN taken : \E j \in 1..FiledOf(i) : p = <<i, j>>)
                 \/ p = <<m, FiledOf(m) + 1>>
        BY <4>1
      <4>5. (\E i \in DOMAIN taken : \E j \in 1..FiledOf(i) : p = <<i, j>>)
              => \E i \in DOMAIN taken : \E j \in 1..FiledOf(i)' : p = <<i, j>>
        BY <4>2
      <4>6. p = <<m, FiledOf(m) + 1>>
              => \E i \in DOMAIN taken : \E j \in 1..FiledOf(i)' : p = <<i, j>>
        BY <1>3, <4>3
      <4>7. QED
        BY <4>4, <4>5, <4>6
    <3>6. QED
      BY <1>1, <3>1, <3>2, <3>5 DEF Here
  <2>2. QED
    BY <2>1
<1>9. ASSUME NEW p \in Filed \cup {Here}
      PROVE  ~Precedes(Here, p)
  <2>1. CASE p = Here
    BY <1>3, <1>5, <1>6, <2>1 DEF Precedes, Here
  <2>2. CASE p \in Filed
    <3>1. PICK i \in DOMAIN taken : \E j \in 1..FiledOf(i) : p = <<i, j>>
      BY <2>2, FiledDef
    <3>2. PICK j \in 1..FiledOf(i) : p = <<i, j>>
      BY <3>1
    <3>3. p[1] = i /\ p[2] = j /\ Here[1] = m /\ Here[2] = FiledOf(m) + 1
      BY <3>2 DEF Here
    <3>4. CASE i = m
      <4>1. FiledOf(m) \in Int
        BY <1>6
      <4>2. j <= FiledOf(m) /\ j \in Int
        BY <3>4, <4>1
      <4>3. QED
        BY <1>3, <3>3, <3>4, <4>1, <4>2 DEF Precedes
    <3>5. CASE i # m
      BY <1>3, <3>3, <3>5 DEF Precedes
    <3>6. QED
      BY <3>4, <3>5
  <2>3. QED
    BY <2>1, <2>2
<1>10. QED
  BY <1>1, <1>3, <1>4, <1>7, <1>8, <1>9 DEF LastFile
-----------------------------------------------------------------------------
\* LoopInv and PointersValid are kept by taking a file.
LEMMA TakeFileLoop ==
  ASSUME TypeOK, LoopInv, PointersValid, NEW f \in unread, TakeFile(f)
  PROVE  LoopInv' /\ PointersValid'
<1>1. /\ taken'[Len(taken')] = [dat |-> FileName[f], entries |-> entries']
      /\ Len(taken') = Len(taken) + 1
      /\ entries' \in Seq(ParseEntry)
  BY TakeFileFiled
<1>2. /\ DOMAIN dats' = DOMAIN dats \cup {FileName[f]}
      /\ \A d \in DOMAIN dats : dats'[d] = dats[d]
      /\ FileName[f] \notin DOMAIN dats => DOMAIN dats'[FileName[f]] = {}
      /\ hashes' = hashes
  BY TakeFileEffect
<1>3. LoopInv'
  <2>1. taken' # <<>>
    <3>1. Len(taken) \in Nat
      BY DEF TypeOK
    <3>2. QED
      BY <1>1, <3>1
  <2>2. datFile' = FileName[f]
    BY DEF TakeFile
  <2>3. LastFile' = [dat |-> FileName[f], entries |-> entries']
    BY <1>1 DEF LastFile
  <2>4. Len(entries') \in Nat
    BY <1>1
  <2>5. \A j \in 1..Len(entries') :
          entries'[j] = LastFile'.entries[Len(LastFile'.entries) - Len(entries') + j]
    BY <2>3, <2>4
  <2>6. QED
    BY <1>2, <2>1, <2>2, <2>3, <2>4, <2>5 DEF LoopInv
<1>4. PointersValid'
  BY <1>2 DEF PointersValid
<1>5. QED
  BY <1>3, <1>4

\* LoopInv is kept by filing an entry.
LEMMA FileEntryLoop ==
  ASSUME TypeOK, LoopInv, PointersValid, FileEntry
  PROVE  LoopInv'
<1> DEFINE L == LastFile.entries
<1>1. taken' = taken /\ entries' = Tail(entries) /\ datFile' = datFile
  BY DEF FileEntry
<1>2. entries \in Seq(ParseEntry) /\ entries # <<>>
  BY DEF TypeOK, FileEntry
<1>3. /\ taken # <<>>
      /\ datFile = LastFile.dat
      /\ datFile \in DOMAIN dats
      /\ Len(entries) <= Len(L)
      /\ \A j \in 1..Len(entries) : entries[j] = L[Len(L) - Len(entries) + j]
  BY <1>2 DEF LoopInv
<1>4. LastFile' = LastFile
  BY <1>1 DEF LastFile
<1>5. L \in Seq(ParseEntry)
  <2>1. taken \in Seq([dat : DatName, entries : Seq(ParseEntry)])
    BY DEF TypeOK
  <2>2. LastFile \in [dat : DatName, entries : Seq(ParseEntry)]
    <3>1. Len(taken) \in DOMAIN taken
      BY <1>3, <2>1
    <3>2. QED
      BY <2>1, <3>1, ElementInSeq DEF LastFile
  <2>3. QED
    BY <2>2
<1>6. /\ Len(entries) \in Nat /\ Len(L) \in Nat
      /\ Len(entries') = Len(entries) - 1
      /\ Len(entries) > 0
  BY <1>1, <1>2, <1>5
<1>7. ASSUME NEW j \in 1..Len(entries')
      PROVE  entries'[j] = L[Len(L) - Len(entries') + j]
  <2>1. entries'[j] = entries[j + 1]
    BY <1>1, <1>2, <1>6
  <2>2. j + 1 \in 1..Len(entries)
    BY <1>6
  <2>3. Len(entries') \in Int /\ j \in Int
    BY <1>6
  <2>4. Len(L) - Len(entries) + (j + 1) = Len(L) - Len(entries') + j
    <3>1. ASSUME NEW k \in Int, NEW l \in Int, NEW i \in Int
          PROVE  k - l + (i + 1) = k - (l - 1) + i
      OBVIOUS
    <3>2. Len(L) \in Int /\ Len(entries) \in Int
      BY <1>6
    <3>3. Len(L) - Len(entries) + (j + 1) = Len(L) - (Len(entries) - 1) + j
      BY <2>3, <3>1, <3>2
    <3>4. QED
      BY <1>6, <3>3
  <2>5. QED
    BY <1>3, <2>1, <2>2, <2>4
<1>8. DOMAIN dats' = DOMAIN dats
  BY FileEntryEffect
<1>9. Len(entries') <= Len(L)
  BY <1>3, <1>6
<1>10. QED
  BY <1>1, <1>3, <1>4, <1>7, <1>8, <1>9 DEF LoopInv

\* Deduplication survives an insert.
LEMMA FileEntryTwins ==
  ASSUME TypeOK, TwinsDiffer, FileEntry
  PROVE  TwinsDiffer'
<1> DEFINE h == Head(entries).hash
<1>1. PICK a \in Node : AddHashData(h, a)
  BY DEF FileEntry
<1>2. CASE UNCHANGED hashes
  BY <1>2 DEF TwinsDiffer
<1>3. CASE a \in Node \ DOMAIN hashes /\ ~Present(h) /\ hashes' = Bind(hashes, a, h)
  <2>1. DOMAIN hashes' = DOMAIN hashes \cup {a}
    BY <1>3, BindDomain
  <2>2. \A b \in DOMAIN hashes : hashes'[b] = hashes[b]
    BY <1>3, BindValue
  <2>3. hashes'[a] = h
    BY <1>3, BindValue
  <2>4. \A b \in DOMAIN hashes : SameHash(hashes[b], h) => HashCode(hashes[b]) # HashCode(h)
    BY <1>3 DEF Present
  <2>5. \A b \in DOMAIN hashes : SameHash(h, hashes[b]) => HashCode(h) # HashCode(hashes[b])
    BY <2>4 DEF SameHash
  <2>6. QED
    BY <2>1, <2>2, <2>3, <2>4, <2>5 DEF TwinsDiffer
<1>4. QED
  BY <1>1, <1>2, <1>3 DEF AddHashData
-----------------------------------------------------------------------------
\* FirstEntryWins, with Published unfolded and one fact per conjunct.
DatsAreTheFiles == DOMAIN dats = {taken[i].dat : i \in DOMAIN taken}

NamesAreTheEntries ==
  \A d \in DOMAIN dats : DOMAIN dats[d] = {n \in RomName : FiledAs(d, n) # {}}

ContentsOfTheEarliest ==
  \A d \in DOMAIN dats : \A n \in DOMAIN dats[d] :
    \E p \in Earliest(FiledAs(d, n)) :
      Contents(hashes[dats[d][n]]) = Contents(EntryAt(p).hash)

LEMMA FirstEntryWinsDef ==
  FirstEntryWins <=> DatsAreTheFiles /\ NamesAreTheEntries /\ ContentsOfTheEarliest
<1>1. ASSUME NEW d \in DOMAIN dats, NEW n \in DOMAIN dats[d]
      PROVE  Published[d][n] = Contents(hashes[dats[d][n]])
  BY DEF Published
<1>2. ASSUME FirstEntryWins
      PROVE  DatsAreTheFiles /\ NamesAreTheEntries /\ ContentsOfTheEarliest
  <2>1. DatsAreTheFiles /\ NamesAreTheEntries
    BY <1>2 DEF FirstEntryWins, DatsAreTheFiles, NamesAreTheEntries
  <2>2. ASSUME NEW d \in DOMAIN dats, NEW n \in DOMAIN dats[d]
        PROVE  \E p \in Earliest(FiledAs(d, n)) :
                 Contents(hashes[dats[d][n]]) = Contents(EntryAt(p).hash)
    BY <1>1, <1>2 DEF FirstEntryWins
  <2>3. QED
    BY <2>1, <2>2 DEF ContentsOfTheEarliest
<1>3. ASSUME DatsAreTheFiles, NamesAreTheEntries, ContentsOfTheEarliest
      PROVE  FirstEntryWins
  <2>1. ASSUME NEW d \in DOMAIN dats, NEW n \in DOMAIN dats[d]
        PROVE  \E p \in Earliest(FiledAs(d, n)) :
                 Published[d][n] = Contents(EntryAt(p).hash)
    BY <1>1, <1>3 DEF ContentsOfTheEarliest
  <2>2. QED
    BY <1>3, <2>1 DEF FirstEntryWins, DatsAreTheFiles, NamesAreTheEntries
<1>4. QED
  BY <1>2, <1>3

\* Reading a file files nothing, so each name keeps its first entry.
LEMMA TakeFileKeepsFirst ==
  ASSUME TypeOK, FirstEntryWins, NEW f \in unread, TakeFile(f)
  PROVE  FirstEntryWins'
<1>1. DatsAreTheFiles /\ NamesAreTheEntries /\ ContentsOfTheEarliest
  BY FirstEntryWinsDef
<1>2. /\ Filed' = Filed
      /\ Len(taken') = Len(taken) + 1
      /\ \A i \in DOMAIN taken : taken'[i] = taken[i]
      /\ taken'[Len(taken')] = [dat |-> FileName[f], entries |-> entries']
  BY TakeFileFiled
<1>3. /\ DOMAIN dats' = DOMAIN dats \cup {FileName[f]}
      /\ \A d \in DOMAIN dats : dats'[d] = dats[d]
      /\ FileName[f] \notin DOMAIN dats => DOMAIN dats'[FileName[f]] = {}
      /\ hashes' = hashes
  BY TakeFileEffect
<1>4. DOMAIN taken' = DOMAIN taken \cup {Len(taken')}
  <2>1. taken \in Seq([dat : DatName, entries : Seq(ParseEntry)])
    BY DEF TypeOK
  <2>2. PICK result : taken' = Append(taken, result)
    BY DEF TakeFile
  <2>3. QED
    BY <2>1, <2>2
<1>5. \A p \in Filed : p[1] \in DOMAIN taken
  BY FiledDef
<1>6. \A p \in Filed : EntryAt(p)' = EntryAt(p) /\ taken'[p[1]].dat = taken[p[1]].dat
  BY <1>2, <1>5 DEF EntryAt
<1>7. \A d, n : FiledAs(d, n)' = FiledAs(d, n)
  BY <1>2, <1>6 DEF FiledAs
<1>8. DatsAreTheFiles'
  <2>1. {taken'[i].dat : i \in DOMAIN taken'}
          = {taken[i].dat : i \in DOMAIN taken} \cup {FileName[f]}
    BY <1>2, <1>4
  <2>2. QED
    BY <1>1, <1>3, <2>1 DEF DatsAreTheFiles
<1>9. NamesAreTheEntries'
  <2> SUFFICES ASSUME NEW d \in DOMAIN dats'
               PROVE  DOMAIN dats'[d] = {n \in RomName : FiledAs(d, n) # {}}
    BY <1>7 DEF NamesAreTheEntries
  <2>1. CASE d \in DOMAIN dats
    BY <1>1, <1>3, <2>1 DEF NamesAreTheEntries
  <2>2. CASE d \notin DOMAIN dats
    <3>1. DOMAIN dats'[d] = {}
      BY <1>3, <2>2
    <3>2. \A n : FiledAs(d, n) = {}
      BY <1>1, <1>5, <2>2 DEF FiledAs, DatsAreTheFiles
    <3>3. QED
      BY <3>1, <3>2
  <2>3. QED
    BY <2>1, <2>2
<1>10. ContentsOfTheEarliest'
  <2> SUFFICES ASSUME NEW d \in DOMAIN dats', NEW n \in DOMAIN dats'[d]
               PROVE  \E p \in Earliest(FiledAs(d, n)') :
                        Contents(hashes'[dats'[d][n]]) = Contents(EntryAt(p)'.hash)
    BY DEF ContentsOfTheEarliest, Earliest
  <2>1. d \in DOMAIN dats /\ n \in DOMAIN dats[d]
    BY <1>3
  <2>2. PICK p \in Earliest(FiledAs(d, n)) :
          Contents(hashes[dats[d][n]]) = Contents(EntryAt(p).hash)
    BY <1>1, <2>1 DEF ContentsOfTheEarliest
  <2>3. p \in Filed
    BY <2>2 DEF Earliest, FiledAs
  <2>4. QED
    BY <1>3, <1>6, <1>7, <2>1, <2>2, <2>3
<1>11. QED
  <2>1. (FirstEntryWins <=> DatsAreTheFiles /\ NamesAreTheEntries /\ ContentsOfTheEarliest)'
    BY FirstEntryWinsDef, PTL
  <2>2. QED
    BY <1>8, <1>9, <1>10, <2>1

\* Filing an entry publishes it if its name is new and changes nothing if not.
LEMMA FileEntryKeepsFirst ==
  ASSUME TypeOK, PointersValid, LoopInv, FirstEntryWins, FileEntry
  PROVE  FirstEntryWins'
<1> DEFINE e == Head(entries)
<1>1. DatsAreTheFiles /\ NamesAreTheEntries /\ ContentsOfTheEarliest
  BY FirstEntryWinsDef
<1>2. PICK h : h = Here
  OBVIOUS
<1>3. /\ Filed' = Filed \cup {h}
      /\ Len(taken) \in DOMAIN taken
      /\ taken[Len(taken)].dat = datFile
      /\ EntryAt(h) = e
      /\ \A p \in Filed \cup {h} : ~Precedes(h, p)
      /\ taken' = taken
  BY <1>2, FileEntryFiled
<1>4. /\ DOMAIN dats' = DOMAIN dats
      /\ datFile \in DOMAIN dats
      /\ \A d \in DOMAIN dats : d # datFile => dats'[d] = dats[d]
      /\ DOMAIN dats'[datFile] = DOMAIN dats[datFile] \cup {e.name}
      /\ \A a \in DOMAIN hashes : a \in DOMAIN hashes' /\ hashes'[a] = hashes[a]
      /\ \A d \in DOMAIN dats : \A n \in DOMAIN dats[d] : dats'[d][n] = dats[d][n]
      /\ e.name \notin DOMAIN dats[datFile] =>
           Contents(hashes'[dats'[datFile][e.name]]) = Contents(e.hash)
  BY FileEntryEffect
<1>5. e.name \in RomName
  <2>1. entries \in Seq(ParseEntry) /\ entries # <<>>
    BY DEF TypeOK, FileEntry
  <2>2. e \in ParseEntry
    BY <2>1
  <2>3. QED
    BY <2>2 DEF ParseEntry
<1>6. \A p : EntryAt(p)' = EntryAt(p)
  BY <1>3 DEF EntryAt
<1>7. taken[h[1]].dat = datFile
  BY <1>2, <1>3 DEF Here
<1>8. ASSUME NEW d, NEW n
      PROVE  FiledAs(d, n)' = FiledAs(d, n) \cup
               (IF d = datFile /\ n = e.name THEN {h} ELSE {})
  BY <1>3, <1>6, <1>7 DEF FiledAs
<1>9. DatsAreTheFiles'
  BY <1>1, <1>3, <1>4 DEF DatsAreTheFiles
<1>10. NamesAreTheEntries'
  <2> SUFFICES ASSUME NEW d \in DOMAIN dats
               PROVE  DOMAIN dats'[d] = {n \in RomName : FiledAs(d, n)' # {}}
    BY <1>4 DEF NamesAreTheEntries
  <2>1. DOMAIN dats[d] = {n \in RomName : FiledAs(d, n) # {}}
    BY <1>1 DEF NamesAreTheEntries
  <2>2. CASE d # datFile
    BY <1>4, <1>8, <2>1, <2>2
  <2>3. CASE d = datFile
    <3>1. ASSUME NEW n \in RomName
          PROVE  FiledAs(d, n)' # {} <=> FiledAs(d, n) # {} \/ n = e.name
      BY <1>8, <2>3
    <3>2. DOMAIN dats'[d] = DOMAIN dats[d] \cup {e.name}
      BY <1>4, <2>3
    <3>3. QED
      BY <1>5, <2>1, <3>1, <3>2
  <2>4. QED
    BY <2>2, <2>3
<1>11. ContentsOfTheEarliest'
  <2> SUFFICES ASSUME NEW d \in DOMAIN dats, NEW n \in DOMAIN dats'[d]
               PROVE  \E p \in FiledAs(d, n)' :
                        /\ \A q \in FiledAs(d, n)' : ~Precedes(q, p)
                        /\ Contents(hashes'[dats'[d][n]]) = Contents(EntryAt(p).hash)
    BY <1>4, <1>6 DEF ContentsOfTheEarliest, Earliest
  <2>1. CASE n \in DOMAIN dats[d]
    <3>1. PICK p \in FiledAs(d, n) :
            /\ \A q \in FiledAs(d, n) : ~Precedes(q, p)
            /\ Contents(hashes[dats[d][n]]) = Contents(EntryAt(p).hash)
      BY <1>1, <2>1 DEF ContentsOfTheEarliest, Earliest
    <3>2. p \in Filed
      BY <3>1 DEF FiledAs
    <3>3. Contents(hashes'[dats'[d][n]]) = Contents(hashes[dats[d][n]])
      <4>1. dats'[d][n] = dats[d][n] /\ dats[d][n] \in DOMAIN hashes
        BY <1>4, <2>1 DEF PointersValid
      <4>2. QED
        BY <1>4, <4>1
    <3>4. \A q \in FiledAs(d, n)' : ~Precedes(q, p)
      BY <1>3, <1>8, <3>1, <3>2
    <3>5. p \in FiledAs(d, n)'
      BY <1>8
    <3>6. QED
      BY <3>1, <3>3, <3>4, <3>5
  <2>2. CASE n \notin DOMAIN dats[d]
    <3>1. d = datFile /\ n = e.name
      BY <1>4, <2>2
    <3>2. FiledAs(d, n) = {}
      BY <1>1, <1>5, <2>2, <3>1 DEF NamesAreTheEntries
    <3>3. FiledAs(d, n)' = {h}
      BY <1>8, <3>1, <3>2
    <3>4. Contents(hashes'[dats'[d][n]]) = Contents(EntryAt(h).hash)
      BY <1>3, <1>4, <2>2, <3>1
    <3>5. QED
      BY <1>3, <3>3, <3>4
  <2>3. QED
    BY <2>1, <2>2
<1>12. QED
  <2>1. (FirstEntryWins <=> DatsAreTheFiles /\ NamesAreTheEntries /\ ContentsOfTheEarliest)'
    BY FirstEntryWinsDef, PTL
  <2>2. QED
    BY <1>9, <1>10, <1>11, <2>1
-----------------------------------------------------------------------------
\* The inductive invariant holds in every state of the import.
THEOREM InductiveInvariant == Spec => []IInv
<1>1. Init => IInv
  <2> SUFFICES ASSUME Init
               PROVE  PointersValid /\ LoopInv /\ TwinsDiffer /\ FirstEntryWins
    BY TypeInit DEF IInv
  <2>1. DOMAIN dats = {} /\ DOMAIN hashes = {} /\ taken = <<>> /\ entries = <<>>
    BY DEF Init, StoreInit, EmptyMap
  <2>2. DOMAIN taken = {}
    BY <2>1
  <2>3. DatsAreTheFiles /\ NamesAreTheEntries /\ ContentsOfTheEarliest
    BY <2>1, <2>2 DEF DatsAreTheFiles, NamesAreTheEntries, ContentsOfTheEarliest
  <2>4. QED
    BY <2>1, <2>3, FirstEntryWinsDef DEF PointersValid, LoopInv, TwinsDiffer
<1>2. IInv /\ [Next]_vars => IInv'
  <2> SUFFICES ASSUME IInv, [Next]_vars
               PROVE  (PointersValid /\ LoopInv /\ TwinsDiffer /\ FirstEntryWins)'
    BY TypeNext DEF IInv
  <2> USE DEF IInv
  <2>1. ASSUME NEW f \in unread, TakeFile(f)
        PROVE  (PointersValid /\ LoopInv /\ TwinsDiffer /\ FirstEntryWins)'
    <3>1. LoopInv' /\ PointersValid'
      BY <2>1, TakeFileLoop
    <3>2. FirstEntryWins'
      BY <2>1, TakeFileKeepsFirst
    <3>3. TwinsDiffer'
      BY <2>1 DEF TakeFile, TwinsDiffer
    <3>4. QED
      BY <3>1, <3>2, <3>3
  <2>2. CASE FileEntry
    <3>1. LoopInv'
      BY <2>2, FileEntryLoop
    <3>2. PointersValid'
      BY <2>2, FileEntryEffect
    <3>3. FirstEntryWins'
      BY <2>2, FileEntryKeepsFirst
    <3>4. TwinsDiffer'
      BY <2>2, FileEntryTwins
    <3>5. QED
      BY <3>1, <3>2, <3>3, <3>4
  <2>3. CASE ParseAborts \/ AssertFails \/ Mount \/ UNCHANGED vars
    <3>1. UNCHANGED <<dats, folderName, hashes, datFile, entries, taken>>
      BY <2>3 DEF ParseAborts, AssertFails, Mount, vars, storeVars
    <3>2. PointersValid' /\ LoopInv' /\ TwinsDiffer'
      BY <3>1 DEF PointersValid, LoopInv, LastFile, TwinsDiffer
    <3>3. FirstEntryWins'
      <4>1. Filed' = Filed
        BY <3>1 DEF Filed, FiledOf
      <4>2. \A p : EntryAt(p)' = EntryAt(p)
        BY <3>1 DEF EntryAt
      <4>3. \A d, n : FiledAs(d, n)' = FiledAs(d, n)
        BY <3>1, <4>1, <4>2 DEF FiledAs
      <4>4. DatsAreTheFiles /\ NamesAreTheEntries /\ ContentsOfTheEarliest
        BY FirstEntryWinsDef
      <4>5. DatsAreTheFiles' /\ NamesAreTheEntries'
        BY <3>1, <4>3, <4>4 DEF DatsAreTheFiles, NamesAreTheEntries
      <4>6. ContentsOfTheEarliest'
        BY <3>1, <4>2, <4>3, <4>4 DEF ContentsOfTheEarliest, Earliest
      <4>7. (FirstEntryWins <=> DatsAreTheFiles /\ NamesAreTheEntries /\ ContentsOfTheEarliest)'
        BY FirstEntryWinsDef, PTL
      <4>8. QED
        BY <4>5, <4>6, <4>7
    <3>4. QED
      BY <3>2, <3>3
  <2>4. QED
    BY <2>1, <2>2, <2>3 DEF Next
<1>3. QED
  BY <1>1, <1>2, PTL DEF Spec

\* Loading order decides what the catalogue holds.
THEOREM FirstEntryWinsAlways == Spec => []FirstEntryWins
<1>1. IInv => FirstEntryWins
  BY DEF IInv
<1>2. QED
  BY <1>1, InductiveInvariant, PTL

-----------------------------------------------------------------------------
\* A reader of the catalogue is shown every DAT and every name.
LEMMA PublishedDef ==
  /\ DOMAIN Published = DOMAIN dats
  /\ \A d \in DOMAIN dats :
       Published[d] = [n \in DOMAIN dats[d] |-> Contents(hashes[dats[d][n]])]
BY DEF Published

\* Taking a file opens one new empty DAT, or is invisible.
LEMMA TakeFileImplements ==
  ASSUME TypeOK, NEW f \in unread, TakeFile(f)
  PROVE  Abstract!AddDat(FileName[f]) \/ UNCHANGED Published
<1>1. /\ DOMAIN dats' = DOMAIN dats \cup {FileName[f]}
      /\ \A d \in DOMAIN dats : dats'[d] = dats[d]
      /\ FileName[f] \notin DOMAIN dats => DOMAIN dats'[FileName[f]] = {}
      /\ hashes' = hashes
  BY TakeFileEffect
<1>2. Importing /\ status' = status
  BY DEF TakeFile
<1>3. CASE FileName[f] \in DOMAIN dats
  BY <1>1, <1>3 DEF Published
<1>4. CASE FileName[f] \notin DOMAIN dats
  <2>1. Published' = Abstract!Extend(Published, FileName[f], Abstract!Empty)
    <3>1. \A d \in DOMAIN dats' :
            [n \in DOMAIN dats'[d] |-> Contents(hashes'[dats'[d][n]])]
              = IF d = FileName[f] THEN Abstract!Empty ELSE Published[d]
      BY <1>1, <1>4 DEF Published, Abstract!Empty
    <3>2. QED
      BY <1>1, <3>1 DEF Published, Abstract!Extend
  <2>2. FileName[f] \notin DOMAIN Published
    BY <1>4 DEF Published
  <2>3. QED
    BY <1>2, <2>1, <2>2 DEF Abstract!AddDat, Importing
<1>5. QED
  BY <1>3, <1>4

\* Filing an entry publishes one ROM, or is invisible.
LEMMA FileEntryImplements ==
  ASSUME TypeOK, PointersValid, LoopInv, FileEntry
  PROVE  \/ Abstract!AddRom(datFile, Head(entries).name, Contents(Head(entries).hash))
         \/ UNCHANGED Published
<1> DEFINE e == Head(entries)
<1>1. /\ DOMAIN dats' = DOMAIN dats
      /\ datFile \in DOMAIN dats
      /\ \A d \in DOMAIN dats : d # datFile => dats'[d] = dats[d]
      /\ DOMAIN dats'[datFile] = DOMAIN dats[datFile] \cup {e.name}
      /\ \A a \in DOMAIN hashes : a \in DOMAIN hashes' /\ hashes'[a] = hashes[a]
      /\ \A d \in DOMAIN dats : \A n \in DOMAIN dats[d] : dats'[d][n] = dats[d][n]
      /\ e.name \notin DOMAIN dats[datFile] =>
           Contents(hashes'[dats'[datFile][e.name]]) = Contents(e.hash)
  BY FileEntryEffect
<1>2. Importing /\ status' = status
  BY DEF FileEntry
<1>3. ASSUME NEW d \in DOMAIN dats, NEW n \in DOMAIN dats[d]
      PROVE  Contents(hashes'[dats'[d][n]]) = Contents(hashes[dats[d][n]])
  <2>1. dats'[d][n] = dats[d][n] /\ dats[d][n] \in DOMAIN hashes
    BY <1>1 DEF PointersValid
  <2>2. QED
    BY <1>1, <2>1
<1>4. ASSUME NEW d \in DOMAIN dats, DOMAIN dats'[d] = DOMAIN dats[d]
      PROVE  Published'[d] = Published[d]
  <2>1. Published'[d] = [n \in DOMAIN dats[d] |-> Contents(hashes'[dats'[d][n]])]
    BY <1>1, <1>4 DEF Published
  <2>2. Published[d] = [n \in DOMAIN dats[d] |-> Contents(hashes[dats[d][n]])]
    BY DEF Published
  <2>3. QED
    BY <1>3, <2>1, <2>2
<1>5. DOMAIN Published = DOMAIN dats /\ DOMAIN Published' = DOMAIN dats
  BY <1>1 DEF Published
<1>6. CASE e.name \in DOMAIN dats[datFile]
  <2>1. \A d \in DOMAIN dats : DOMAIN dats'[d] = DOMAIN dats[d]
    BY <1>1, <1>6
  <2>2. \A d \in DOMAIN dats : Published'[d] = Published[d]
    BY <1>4, <2>1
  <2>3. QED
    BY <1>5, <2>2 DEF Published
<1>7. CASE e.name \notin DOMAIN dats[datFile]
  <2>1. Published'[datFile] = Abstract!Extend(Published[datFile], e.name, Contents(e.hash))
    <3>1. Published'[datFile] =
            [n \in DOMAIN dats[datFile] \cup {e.name} |-> Contents(hashes'[dats'[datFile][n]])]
      BY <1>1 DEF Published
    <3>2. Published[datFile] =
            [n \in DOMAIN dats[datFile] |-> Contents(hashes[dats[datFile][n]])]
      BY <1>1 DEF Published
    <3>3. \A n \in DOMAIN dats[datFile] \cup {e.name} :
            Contents(hashes'[dats'[datFile][n]])
              = IF n = e.name THEN Contents(e.hash) ELSE Published[datFile][n]
      BY <1>1, <1>3, <1>7, <3>2
    <3>4. QED
      BY <3>1, <3>2, <3>3 DEF Abstract!Extend
  <2>2. \A d \in DOMAIN dats : d # datFile => Published'[d] = Published[d]
    BY <1>1, <1>4
  <2>3. Published' = [Published EXCEPT ![datFile] =
                        Abstract!Extend(@, e.name, Contents(e.hash))]
    BY <1>1, <1>5, <2>1, <2>2 DEF Published
  <2>4. datFile \in DOMAIN Published /\ e.name \notin DOMAIN Published[datFile]
    BY <1>1, <1>7 DEF Published
  <2>5. QED
    BY <1>2, <2>3, <2>4 DEF Abstract!AddRom, Importing
<1>8. QED
  BY <1>6, <1>7

\* The import implements the abstract catalogue.
THEOREM Refinement == Spec => ImplementsCatalogue
<1>1. Init => Abstract!Init
  BY DEF Init, StoreInit, Importing, EmptyMap, Published, Abstract!Init, Abstract!Empty
<1>2. IInv /\ [Next]_vars => [Abstract!Next]_(Abstract!vars)
  <2> SUFFICES ASSUME IInv, [Next]_vars
               PROVE  Abstract!Next \/ UNCHANGED Abstract!vars
    OBVIOUS
  <2> USE DEF IInv
  <2>1. ASSUME NEW f \in unread, TakeFile(f)
        PROVE  Abstract!Next \/ UNCHANGED Abstract!vars
    <3>1. Abstract!AddDat(FileName[f]) \/ UNCHANGED Published
      BY <2>1, TakeFileImplements
    <3>2. FileName[f] \in DatName
      BY ImportAssumption DEF TypeOK
    <3>3. UNCHANGED Importing
      BY <2>1 DEF TakeFile, Importing
    <3>4. QED
      BY <3>1, <3>2, <3>3 DEF Abstract!Next, Abstract!vars
  <2>2. CASE FileEntry
    <3>1. \/ Abstract!AddRom(datFile, Head(entries).name, Contents(Head(entries).hash))
          \/ UNCHANGED Published
      BY <2>2, FileEntryImplements
    <3>2. Head(entries) \in ParseEntry
      <4>1. entries \in Seq(ParseEntry) /\ entries # <<>>
        BY <2>2 DEF TypeOK, FileEntry
      <4>2. QED
        BY <4>1
    <3>3. datFile \in DatName
      <4>1. datFile \in DOMAIN dats
        BY <2>2, FileEntryEffect
      <4>2. DOMAIN dats \subseteq DatName
        BY MapDef DEF TypeOK, StoreTypeOK
      <4>3. QED
        BY <4>1, <4>2
    <3>4. UNCHANGED Importing
      BY <2>2 DEF FileEntry, Importing
    <3>5. QED
      BY <3>1, <3>2, <3>3, <3>4 DEF Abstract!Next, Abstract!vars, ParseEntry
  <2>3. CASE Mount \/ AssertFails \/ ParseAborts
    <3>1. UNCHANGED Published /\ Importing /\ ~Importing'
      BY <2>3 DEF Mount, AssertFails, ParseAborts, storeVars, Published, Importing
    <3>2. QED
      BY <3>1 DEF Abstract!Next, Abstract!Seal
  <2>4. CASE UNCHANGED vars
    BY <2>4 DEF vars, storeVars, Published, Importing, Abstract!vars
  <2>5. QED
    BY <2>1, <2>2, <2>3, <2>4 DEF Next
<1>3. QED
  BY <1>1, <1>2, InductiveInvariant, PTL DEF Spec, ImplementsCatalogue, Abstract!Spec
-----------------------------------------------------------------------------
(***************************************************************************)
(* The totals.  The set of records is finite, so that it grows by one when *)
(* an entry brings a record, while one entry less is still to be filed.    *)
(***************************************************************************)
CountInv == TypeOK /\ IsFiniteSet(DOMAIN hashes) /\ RecordsWithinCount

LEMMA CountInit == Init => CountInv
<1> SUFFICES ASSUME Init PROVE CountInv
  OBVIOUS
<1>1. DOMAIN hashes = {} /\ entries = <<>> /\ count = 0
  BY DEF Init, StoreInit, EmptyMap
<1>2. QED
  BY <1>1, TypeInit, FS_EmptySet DEF CountInv, RecordsWithinCount

\* Filing an entry adds at most one record.
LEMMA FileEntryCounts ==
  ASSUME CountInv, FileEntry
  PROVE  IsFiniteSet(DOMAIN hashes') /\ RecordsWithinCount'
<1> USE DEF CountInv
<1>1. PICK a \in Node : AddHashData(Head(entries).hash, a)
  BY DEF FileEntry
<1>2. entries' = Tail(entries) /\ count' = count /\ entries # <<>> /\ entries \in Seq(ParseEntry)
  BY DEF FileEntry, TypeOK
<1>3. Len(entries') = Len(entries) - 1 /\ Len(entries) \in Nat
  BY <1>2
<1>4. /\ IsFiniteSet(DOMAIN hashes')
      /\ Cardinality(DOMAIN hashes') <= Cardinality(DOMAIN hashes) + 1
      /\ Cardinality(DOMAIN hashes) \in Nat /\ Cardinality(DOMAIN hashes') \in Nat
  <2>1. CASE UNCHANGED hashes
    BY <2>1, FS_CardinalityType
  <2>2. CASE hashes' = Bind(hashes, a, Head(entries).hash)
    <3>1. DOMAIN hashes' = DOMAIN hashes \cup {a}
      BY <2>2, BindDomain
    <3> DEFINE D == DOMAIN hashes
    <3>2. IsFiniteSet(D)
      OBVIOUS
    <3> HIDE DEF D
    <3>3. /\ IsFiniteSet(D \cup {a})
          /\ Cardinality(D \cup {a}) = IF a \in D THEN Cardinality(D) ELSE Cardinality(D) + 1
      BY <3>2, FS_AddElement
    <3>4. Cardinality(D) \in Nat /\ Cardinality(D \cup {a}) \in Nat
      BY <3>2, <3>3, FS_CardinalityType
    <3>5. /\ IsFiniteSet(D \cup {a})
          /\ Cardinality(D \cup {a}) <= Cardinality(D) + 1
          /\ Cardinality(D) \in Nat /\ Cardinality(D \cup {a}) \in Nat
      BY <3>3, <3>4
    <3>6. DOMAIN hashes' = D \cup {a}
      BY <3>1 DEF D
    <3>7. QED
      BY <3>5, <3>6 DEF D
  <2>3. QED
    BY <1>1, <2>1, <2>2 DEF AddHashData
<1>5. QED
  BY <1>2, <1>3, <1>4 DEF RecordsWithinCount, TypeOK

\* Every step keeps the totals consistent.
LEMMA CountNext == CountInv /\ [Next]_vars => CountInv'
<1> SUFFICES ASSUME CountInv, [Next]_vars
             PROVE  IsFiniteSet(DOMAIN hashes') /\ RecordsWithinCount'
  BY TypeNext DEF CountInv
<1> USE DEF CountInv
<1>1. ASSUME NEW f \in unread, TakeFile(f)
      PROVE  IsFiniteSet(DOMAIN hashes') /\ RecordsWithinCount'
  <2>1. PICK result \in ParseResult : entries' = result /\ count' = count + Len(result)
    BY <1>1 DEF TakeFile
  <2>2. result \in Seq(ParseEntry)
    BY ImportAssumption DEF ParseResult
  <2>3. hashes' = hashes /\ entries = <<>>
    BY <1>1 DEF TakeFile
  <2>4. Len(result) \in Nat /\ Cardinality(DOMAIN hashes) \in Nat
    BY <2>2, FS_CardinalityType
  <2>5. QED
    BY <2>1, <2>3, <2>4 DEF RecordsWithinCount, TypeOK
<1>2. CASE FileEntry
  BY <1>2, FileEntryCounts
<1>3. CASE ParseAborts \/ AssertFails \/ Mount \/ UNCHANGED vars
  <2>1. UNCHANGED <<hashes, entries, count>>
    BY <1>3 DEF ParseAborts, AssertFails, Mount, vars, storeVars
  <2>2. QED
    BY <2>1 DEF RecordsWithinCount
<1>4. QED
  BY <1>1, <1>2, <1>3 DEF Next

\* The set of records never outgrows the entries counted and filed.
THEOREM RecordsWithinCountAlways == Spec => []RecordsWithinCount
<1>1. CountInv => RecordsWithinCount
  BY DEF CountInv
<1>2. QED
  BY <1>1, CountInit, CountNext, PTL DEF Spec
-----------------------------------------------------------------------------
(***************************************************************************)
(* The number of records.  Every record is that of an entry filed, every   *)
(* entry filed has an equal one, and records equal in contents and in the  *)
(* md5 flag have the same hash code: by TwinsDiffer they are the same.     *)
(***************************************************************************)
RecordsInv ==
  /\ \A a \in DOMAIN hashes : \E p \in Filed : hashes[a] = EntryAt(p).hash
  /\ \A p \in Filed : \E a \in DOMAIN hashes : SameHash(hashes[a], EntryAt(p).hash)
  /\ IsFiniteSet(FiledKinds)

LEMMA RecordsInit == Init => RecordsInv
<1> SUFFICES ASSUME Init PROVE RecordsInv
  OBVIOUS
<1>1. DOMAIN hashes = {} /\ DOMAIN taken = {}
  BY DEF Init, StoreInit, EmptyMap
<1>2. Filed = {}
  BY <1>1 DEF Filed
<1>3. FiledKinds = {}
  BY <1>2 DEF FiledKinds
<1>4. QED
  BY <1>1, <1>2, <1>3, FS_EmptySet DEF RecordsInv

\* Reading a file neither files nor keeps anything.
LEMMA TakeFileRecords ==
  ASSUME TypeOK, RecordsInv, NEW f \in unread, TakeFile(f)
  PROVE  RecordsInv'
<1>1. /\ Filed' = Filed
      /\ \A i \in DOMAIN taken : taken'[i] = taken[i]
  BY TakeFileFiled
<1>2. \A p \in Filed : EntryAt(p)' = EntryAt(p)
  BY <1>1, FiledDef DEF EntryAt
<1>3. hashes' = hashes
  BY DEF TakeFile
<1>4. FiledKinds' = FiledKinds
  BY <1>1, <1>2 DEF FiledKinds
<1>5. QED
  BY <1>1, <1>2, <1>3, <1>4 DEF RecordsInv

\* An entry is filed with a record that is equal to it.
LEMMA FileEntryRecords ==
  ASSUME TypeOK, LoopInv, RecordsInv, FileEntry
  PROVE  RecordsInv'
<1> DEFINE h == Head(entries).hash
<1>1. PICK w : w = Here
  OBVIOUS
<1>2. /\ Filed' = Filed \cup {w}
      /\ EntryAt(w).hash = h
      /\ taken' = taken
  BY <1>1, FileEntryFiled
<1>3. \A p : EntryAt(p)' = EntryAt(p)
  BY <1>2 DEF EntryAt
<1>4. PICK a \in Node : AddHashData(h, a)
  BY DEF FileEntry
<1>5. /\ a \in DOMAIN hashes'
      /\ SameHash(hashes'[a], h)
      /\ \A b \in DOMAIN hashes : b \in DOMAIN hashes' /\ hashes'[b] = hashes[b]
      /\ \A b \in DOMAIN hashes' : b \in DOMAIN hashes \/ hashes'[b] = h
  <2>1. CASE a \in DOMAIN hashes /\ SameHash(hashes[a], h) /\ UNCHANGED hashes
    BY <2>1 DEF SameHash
  <2>2. CASE a \in Node \ DOMAIN hashes /\ hashes' = Bind(hashes, a, h)
    <3>1. DOMAIN hashes' = DOMAIN hashes \cup {a}
      BY <2>2, BindDomain
    <3>2. \A b \in DOMAIN hashes \cup {a} :
            hashes'[b] = IF b = a THEN h ELSE hashes[b]
      BY <2>2, BindValue
    <3>3. QED
      BY <2>2, <3>1, <3>2 DEF SameHash
  <2>3. QED
    BY <1>4, <2>1, <2>2 DEF AddHashData
<1>6. ASSUME NEW b \in DOMAIN hashes'
      PROVE  \E p \in Filed' : hashes'[b] = EntryAt(p)'.hash
  <2>1. CASE b \in DOMAIN hashes
    BY <1>2, <1>3, <1>5, <2>1 DEF RecordsInv
  <2>2. CASE hashes'[b] = h
    BY <1>2, <1>3, <2>2
  <2>3. QED
    BY <1>5, <2>1, <2>2
<1>7. ASSUME NEW p \in Filed'
      PROVE  \E b \in DOMAIN hashes' : SameHash(hashes'[b], EntryAt(p)'.hash)
  <2>1. CASE p \in Filed
    <3>1. PICK b \in DOMAIN hashes : SameHash(hashes[b], EntryAt(p).hash)
      BY <2>1 DEF RecordsInv
    <3>2. QED
      BY <1>3, <1>5, <3>1
  <2>2. CASE p = w
    BY <1>2, <1>3, <1>5, <2>2
  <2>3. QED
    BY <1>2, <2>1, <2>2
<1>8. IsFiniteSet(FiledKinds')
  <2>1. FiledKinds' = FiledKinds \cup {<<Contents(h), h.md5enabled>>}
    BY <1>2, <1>3 DEF FiledKinds
  <2>2. IsFiniteSet(FiledKinds)
    BY DEF RecordsInv
  <2>3. QED
    BY <2>1, <2>2, FS_AddElement
<1>9. QED
  BY <1>6, <1>7, <1>8 DEF RecordsInv

LEMMA RecordsNext == IInv /\ RecordsInv /\ [Next]_vars => RecordsInv'
<1> SUFFICES ASSUME IInv, RecordsInv, [Next]_vars
             PROVE  RecordsInv'
  OBVIOUS
<1> USE DEF IInv
<1>1. ASSUME NEW f \in unread, TakeFile(f)
      PROVE  RecordsInv'
  BY <1>1, TakeFileRecords
<1>2. CASE FileEntry
  BY <1>2, FileEntryRecords
<1>3. CASE ParseAborts \/ AssertFails \/ Mount \/ UNCHANGED vars
  <2>1. UNCHANGED <<hashes, entries, taken>>
    BY <1>3 DEF ParseAborts, AssertFails, Mount, vars, storeVars
  <2>2. Filed' = Filed /\ \A p : EntryAt(p)' = EntryAt(p)
    BY <2>1 DEF Filed, FiledOf, EntryAt
  <2>3. FiledKinds' = FiledKinds
    BY <2>2 DEF FiledKinds
  <2>4. QED
    BY <2>1, <2>2, <2>3 DEF RecordsInv
<1>4. QED
  BY <1>1, <1>2, <1>3 DEF Next

\* A record is told apart by its contents and its md5 flag.
LEMMA RecordsAreKinds ==
  ASSUME TwinsDiffer, RecordsInv
  PROVE  DistinctRecords
<1> DEFINE kind == [a \in DOMAIN hashes |-> <<Contents(hashes[a]), hashes[a].md5enabled>>]
<1>1. kind \in [DOMAIN hashes -> FiledKinds]
  <2>1. ASSUME NEW a \in DOMAIN hashes
        PROVE  <<Contents(hashes[a]), hashes[a].md5enabled>> \in FiledKinds
    <3>1. PICK p \in Filed : hashes[a] = EntryAt(p).hash
      BY DEF RecordsInv
    <3>2. QED
      BY <3>1 DEF FiledKinds
  <2>2. QED
    BY <2>1
<1>2. ASSUME NEW a \in DOMAIN hashes, NEW b \in DOMAIN hashes, kind[a] = kind[b]
      PROVE  a = b
  <2>1. /\ Contents(hashes[a]) = Contents(hashes[b])
        /\ hashes[a].md5enabled = hashes[b].md5enabled
    BY <1>2
  <2>2. HashCode(hashes[a]) = HashCode(hashes[b])
    BY <2>1 DEF HashCode, Contents
  <2>3. QED
    BY <2>1, <2>2 DEF TwinsDiffer, SameHash
<1>3. kind \in Injection(DOMAIN hashes, FiledKinds)
  BY <1>1, <1>2 DEF Injection, IsInjective
<1>4. Cardinality(DOMAIN hashes) <= Cardinality(FiledKinds)
  BY <1>3, FS_Injection DEF RecordsInv
<1>5. {Contents(hashes[a]) : a \in DOMAIN hashes} = {Contents(EntryAt(p).hash) : p \in Filed}
  BY DEF RecordsInv, SameHash
<1>6. QED
  BY <1>4, <1>5 DEF DistinctRecords

\* The set of records holds what was filed, and no contents more than twice.
THEOREM DistinctRecordsAlways == Spec => []DistinctRecords
<1>1. IInv /\ RecordsInv => DistinctRecords
  BY RecordsAreKinds DEF IInv
<1>2. QED
  BY <1>1, RecordsInit, RecordsNext, InductiveInvariant, PTL DEF Spec
-----------------------------------------------------------------------------
(* The file system with it. *)

\* A step of the program is a step of the import or leaves it alone.
LEMMA StepOfImport == [SystemNext]_allVars => [Next]_vars
  BY DEF allVars, SystemNext, Serve

\* The file system changes nothing the import has built.
THEOREM SystemImports == SystemSpec => Spec
<1>1. SystemInit => Init
  BY DEF SystemInit
<1>2. QED
  BY <1>1, StepOfImport, PTL DEF SystemSpec, Spec

LEMMA ImportInvariant == SystemSpec => []IInv
  BY SystemImports, InductiveInvariant, PTL
-----------------------------------------------------------------------------
(***************************************************************************)
(* The inductive invariant of the file system.  Before the mount nobody    *)
(* has asked anything; what a client has been told stays true, since the   *)
(* store no longer changes.                                                *)
(***************************************************************************)
QuietBeforeMount ==
  status # "mounted" =>
    \A c \in Client : seen[c].mode = "none" /\ handle[c] = Closed

SeenTrue(s) ==
  /\ s.mode = "dir" => IsDir(s.path)
  /\ s.mode = "file" => /\ IsEntry(s.path.names)
                        /\ s.size = RecordOf(s.path.names).size

SeenInv == \A c \in Client : SeenTrue(seen[c])

FsInv == FsTypeOK /\ QuietBeforeMount /\ SeenInv /\ HandlesLive
-----------------------------------------------------------------------------
LEMMA FsInvInit == SystemInit => FsInv
<1> SUFFICES ASSUME SystemInit PROVE FsInv
  OBVIOUS
<1> USE DEF SystemInit, FsInit
<1>1. FsTypeOK
  BY DEF FsTypeOK, Reply, Answer, Mode
<1>2. QuietBeforeMount /\ SeenInv /\ HandlesLive
  BY DEF QuietBeforeMount, SeenInv, SeenTrue, HandlesLive
<1>3. QED
  BY <1>1, <1>2 DEF FsInv

\* getattr answers truthfully, with a size of the right type.
LEMMA GetAttrTrue ==
  ASSUME IInv, NEW p \in Path
  PROVE  /\ GetAttr(p).path = p
         /\ GetAttr(p).mode \in Mode
         /\ GetAttr(p).size \in Size \cup {0}
         /\ GetAttr(p) = Reply(p, GetAttr(p).mode, GetAttr(p).size)
         /\ SeenTrue(GetAttr(p))
<1>1. IsEntry(p.names) => RecordOf(p.names).size \in Size
  <2> SUFFICES ASSUME IsEntry(p.names)
               PROVE  RecordOf(p.names).size \in Size
    OBVIOUS
  <2> DEFINE a == dats[Front(p.names)][<<Last(p.names)>>]
  <2>1. a \in DOMAIN hashes
    BY DEF IInv, PointersValid, IsEntry, HasDat
  <2>2. hashes[a] \in HashRecord
    BY <2>1, MapDef DEF IInv, TypeOK, StoreTypeOK
  <2>3. QED
    BY <2>2 DEF RecordOf, HashRecord
<1>2. CASE GetAttr(p) = Reply(p, "dir", 0) /\ IsDir(p)
  BY <1>2 DEF Reply, SeenTrue, Mode
<1>3. CASE /\ GetAttr(p) = Reply(p, "file", RecordOf(p.names).size)
           /\ IsEntry(p.names)
  BY <1>1, <1>3 DEF Reply, SeenTrue, Mode
<1>4. CASE GetAttr(p) \in {Reply(p, "none", 0), Reply(p, "ENOENT", 0)}
  BY <1>4 DEF Reply, SeenTrue, Mode
<1>5. QED
  <2>1. CASE IsDir(p)
    BY <1>2, <2>1 DEF GetAttr
  <2>2. CASE ~IsDir(p) /\ IsFile(p)
    BY <1>3, <2>2 DEF GetAttr, IsFile
  <2>3. CASE ~IsDir(p) /\ ~IsFile(p)
    BY <1>4, <2>3 DEF GetAttr
  <2>4. QED
    BY <2>1, <2>2, <2>3

\* A live handle is the list of DATs or the address of one DatFile.
LEMMA OpenedHandleLive ==
  ASSUME IInv, NEW p \in Path \cup {Root}, IsDir(p)
  PROVE  /\ OpenedHandle(p) \in 0..(Word - 1)
         /\ \/ p = Root /\ OpenedHandle(p) = DAT_LIST_FH_HANDLE
            \/ HasDat(p.names) /\ OpenedHandle(p) = DatAddress[p.names]
<1>1. CASE p = Root
  BY <1>1, MatrixFSAssumption DEF OpenedHandle, DAT_LIST_FH_HANDLE, Root
<1>2. CASE p # Root
  <2>1. HasDat(p.names)
    BY <1>2 DEF IsDir
  <2>2. OpenedHandle(p) = DatAddress[p.names]
    BY <1>2 DEF OpenedHandle
  <2>3. p.names \in DatName
    BY <2>1, MapDef DEF HasDat, IInv, TypeOK, StoreTypeOK
  <2>4. QED
    BY <2>1, <2>2, <2>3, MatrixFSAssumption
<1>3. QED
  BY <1>1, <1>2

\* Through a live handle readdir gives names of DATs or of ROMs.
LEMMA FilledDefined ==
  ASSUME IInv, NEW fh,
         \/ fh = DAT_LIST_FH_HANDLE
         \/ \E d \in DOMAIN dats : fh = DatAddress[d]
  PROVE  Filled(fh) \in [result : {"none", "ok", "ENOENT"},
                         names : SUBSET (DatName \cup RomName)]
<1>1. DOMAIN dats = DOMAIN folderName /\ DOMAIN dats \subseteq DatName
      /\ \A d \in DOMAIN folderName : folderName[d] \in DatName
  BY MapDef DEF IInv, TypeOK, StoreTypeOK
<1>2. CASE fh = DAT_LIST_FH_HANDLE
  BY <1>1, <1>2 DEF Filled, Answer
<1>3. CASE fh # DAT_LIST_FH_HANDLE
  <2>1. \E d \in DOMAIN dats : DatAddress[d] = fh
    BY <1>3
  <2>2. fh # 0
    BY <1>1, <2>1, MatrixFSAssumption
  <2> DEFINE e == CHOOSE d \in DOMAIN dats : DatAddress[d] = fh
  <2>3. e \in DOMAIN dats
    BY <2>1
  <2>4. DOMAIN dats[e] \subseteq RomName
    BY <2>3, MapDef DEF IInv, TypeOK, StoreTypeOK
  <2>5. Filled(fh) = Answer("ok", DOMAIN dats[e])
    BY <1>3, <2>1, <2>2 DEF Filled
  <2> HIDE DEF e
  <2>6. QED
    BY <2>4, <2>5 DEF Answer
<1>4. QED
  BY <1>2, <1>3
-----------------------------------------------------------------------------
\* While the import runs the file system is quiet.
LEMMA ImportStepKeepsFsInv ==
  ASSUME FsInv, Next, UNCHANGED fsVars
  PROVE  FsInv'
<1>1. ~(status = "mounted")
  BY DEF Next, TakeFile, ParseAborts, FileEntry, AssertFails, Mount, Importing
<1>2. UNCHANGED <<seen, handle, listing>>
  BY DEF fsVars
<1>3. \A c \in Client : seen[c].mode = "none" /\ handle[c] = Closed
  BY <1>1 DEF FsInv, QuietBeforeMount
<1>4. FsTypeOK'
  BY <1>2 DEF FsInv, FsTypeOK
<1>5. QuietBeforeMount'
  BY <1>2, <1>3 DEF QuietBeforeMount
<1>6. SeenInv'
  BY <1>2, <1>3 DEF SeenInv, SeenTrue
<1>7. HandlesLive'
  BY <1>2, <1>3 DEF HandlesLive
<1>8. QED
  BY <1>4, <1>5, <1>6, <1>7 DEF FsInv

LEMMA ServeKeepsFsInv ==
  ASSUME IInv, FsInv, Serve
  PROVE  FsInv'
<1>1. UNCHANGED <<dats, folderName, hashes, status>> /\ status = "mounted"
  BY DEF Serve, vars, storeVars
<1>2. QuietBeforeMount'
  BY <1>1 DEF QuietBeforeMount
<1>3. ASSUME NEW c \in Client, NEW p \in Path, Lookup(c, p)
      PROVE  FsTypeOK' /\ SeenInv' /\ HandlesLive'
  <2>1. /\ seen' = [seen EXCEPT ![c] = GetAttr(p)]
        /\ handle' = handle /\ listing' = listing /\ handle[c] = Closed
    BY <1>3 DEF Lookup
  <2>2. \A k \in Client : seen'[k] = IF k = c THEN GetAttr(p) ELSE seen[k]
    BY <2>1 DEF FsInv, FsTypeOK
  <2>3. GetAttr(p) \in [path : Path \cup {Root}, mode : Mode,
                        size : Size \cup {0}]
    BY GetAttrTrue DEF Reply
  <2>4. FsTypeOK'
    BY <2>1, <2>3 DEF FsInv, FsTypeOK
  <2>5. SeenInv'
    BY <1>1, <2>2, GetAttrTrue
       DEF FsInv, SeenInv, SeenTrue, IsDir, IsEntry, HasDat, RecordOf
  <2>6. HandlesLive'
    BY <1>1, <2>1, <2>2 DEF FsInv, HandlesLive, HasDat
  <2>7. QED
    BY <2>4, <2>5, <2>6
<1>4. ASSUME NEW c \in Client, OpenDir(c)
      PROVE  FsTypeOK' /\ SeenInv' /\ HandlesLive'
  <2> DEFINE p == seen[c].path
  <2>1. /\ handle' = [handle EXCEPT ![c] = OpenedHandle(p)]
        /\ seen' = seen /\ listing' = listing /\ seen[c].mode = "dir"
    BY <1>4 DEF OpenDir
  <2>2. p \in Path \cup {Root}
    BY DEF FsInv, FsTypeOK
  <2>3. IsDir(p)
    BY <2>1 DEF FsInv, SeenInv, SeenTrue
  <2>4. /\ OpenedHandle(p) \in 0..(Word - 1)
        /\ \/ p = Root /\ OpenedHandle(p) = DAT_LIST_FH_HANDLE
           \/ HasDat(p.names) /\ OpenedHandle(p) = DatAddress[p.names]
    BY <2>2, <2>3, OpenedHandleLive
  <2>5. FsTypeOK'
    BY <2>1, <2>4 DEF FsInv, FsTypeOK
  <2>6. SeenInv'
    BY <1>1, <2>1 DEF FsInv, SeenInv, SeenTrue, IsDir, IsEntry, HasDat, RecordOf
  <2>7. \A k \in Client :
          handle'[k] = IF k = c THEN OpenedHandle(p) ELSE handle[k]
    BY <2>1 DEF FsInv, FsTypeOK
  <2>8. HandlesLive'
    BY <1>1, <2>1, <2>4, <2>7 DEF FsInv, HandlesLive, HasDat
  <2>9. QED
    BY <2>5, <2>6, <2>8
<1>5. ASSUME NEW c \in Client, ReadDir(c)
      PROVE  FsTypeOK' /\ SeenInv' /\ HandlesLive'
  <2>1. /\ listing' = [listing EXCEPT ![c] = Filled(handle[c])]
        /\ seen' = seen /\ handle' = handle /\ handle[c] # Closed
    BY <1>5 DEF ReadDir
  <2>2. \/ handle[c] = DAT_LIST_FH_HANDLE
        \/ \E d \in DOMAIN dats : handle[c] = DatAddress[d]
    BY <2>1 DEF FsInv, HandlesLive, HasDat
  <2>3. FsTypeOK'
    BY <2>1, <2>2, FilledDefined DEF FsInv, FsTypeOK
  <2>4. SeenInv'
    BY <1>1, <2>1 DEF FsInv, SeenInv, SeenTrue, IsDir, IsEntry, HasDat, RecordOf
  <2>5. HandlesLive'
    BY <1>1, <2>1 DEF FsInv, HandlesLive, HasDat
  <2>6. QED
    BY <2>3, <2>4, <2>5
<1>6. ASSUME NEW c \in Client, ReleaseDir(c)
      PROVE  FsTypeOK' /\ SeenInv' /\ HandlesLive'
  <2>1. /\ handle' = [handle EXCEPT ![c] = Closed]
        /\ listing' = [listing EXCEPT ![c] = Answer("none", {})]
        /\ seen' = seen
    BY <1>6 DEF ReleaseDir
  <2>2. FsTypeOK'
    BY <2>1 DEF FsInv, FsTypeOK, Answer
  <2>3. SeenInv'
    BY <1>1, <2>1 DEF FsInv, SeenInv, SeenTrue, IsDir, IsEntry, HasDat, RecordOf
  <2>4. \A k \in Client : handle'[k] = IF k = c THEN Closed ELSE handle[k]
    BY <2>1 DEF FsInv, FsTypeOK
  <2>5. HandlesLive'
    BY <1>1, <2>1, <2>4 DEF FsInv, HandlesLive, HasDat
  <2>6. QED
    BY <2>2, <2>3, <2>5
<1>7. QED
  BY <1>2, <1>3, <1>4, <1>5, <1>6 DEF Serve, FsStep, FsInv

LEMMA FsInvNext == IInv /\ FsInv /\ [SystemNext]_allVars => FsInv'
<1> SUFFICES ASSUME IInv, FsInv, [SystemNext]_allVars
             PROVE  FsInv'
  OBVIOUS
<1>1. CASE Next /\ UNCHANGED fsVars
  BY <1>1, ImportStepKeepsFsInv
<1>2. CASE Serve
  BY <1>2, ServeKeepsFsInv
<1>3. CASE UNCHANGED allVars
  <2>1. UNCHANGED <<dats, folderName, hashes, status, seen, handle, listing>>
    BY <1>3 DEF allVars, vars, storeVars, fsVars
  <2>2. FsTypeOK' /\ QuietBeforeMount' /\ SeenInv' /\ HandlesLive'
    BY <2>1 DEF FsInv, FsTypeOK, QuietBeforeMount, SeenInv, SeenTrue, IsDir,
                IsEntry, HasDat, RecordOf, HandlesLive
  <2>3. QED
    BY <2>2 DEF FsInv
<1>4. QED
  BY <1>1, <1>2, <1>3 DEF SystemNext

THEOREM FsInvariant == SystemSpec => [](IInv /\ FsInv)
  BY ImportInvariant, FsInvInit, FsInvNext, PTL DEF SystemSpec
-----------------------------------------------------------------------------
\* Every open directory has the handle of the list or of its own DAT, so
\* readdir never takes -ENOENT for the address of a DatFile.
THEOREM HandlesLiveAlways == SystemSpec => []HandlesLive
<1>1. FsInv => HandlesLive
  BY DEF FsInv
<1>2. QED
  BY <1>1, FsInvariant, PTL

\* The state of the import, of the store and of the file system has its type.
THEOREM SystemTypeCorrect == SystemSpec => []SystemTypeOK
<1>1. IInv /\ FsInv => SystemTypeOK
  BY DEF IInv, FsInv, SystemTypeOK
<1>2. QED
  BY <1>1, FsInvariant, PTL

\* The size getattr gives is that of the first entry filed under the name.
THEOREM SizeOfFirstEntryAlways == SystemSpec => []SizeOfFirstEntry
<1>1. IInv /\ FsInv => SizeOfFirstEntry
  <2> SUFFICES ASSUME IInv, FsInv, NEW c \in Client, seen[c].mode = "file"
               PROVE  \E p \in Earliest(FiledAs(Front(seen[c].path.names),
                                                <<Last(seen[c].path.names)>>)) :
                        seen[c].size = EntryAt(p).hash.size
    BY DEF SizeOfFirstEntry
  <2> DEFINE names == seen[c].path.names
             d == Front(names)
             n == <<Last(names)>>
  <2>1. IsEntry(names) /\ seen[c].size = RecordOf(names).size
    BY DEF FsInv, SeenInv, SeenTrue
  <2>2. d \in DOMAIN dats /\ n \in DOMAIN dats[d]
    BY <2>1 DEF IsEntry, HasDat
  <2>3. PICK p \in Earliest(FiledAs(d, n)) :
          Published[d][n] = Contents(EntryAt(p).hash)
    BY <2>2 DEF IInv, FirstEntryWins
  <2>4. Published[d][n] = Contents(RecordOf(names))
    BY <2>2 DEF Published, RecordOf
  <2>5. \A h, g : Contents(h) = Contents(g) => h.size = g.size
    <3>1. ASSUME NEW h PROVE Contents(h)[1] = h.size
      BY DEF Contents
    <3>2. QED
      BY ONLY <3>1
  <2>6. Contents(RecordOf(names)) = Contents(EntryAt(p).hash)
    BY <2>3, <2>4
  <2>7. RecordOf(names).size = EntryAt(p).hash.size
    BY ONLY <2>5, <2>6
  <2>8. QED
    BY <2>1, <2>7
<1>2. QED
  BY <1>1, FsInvariant, PTL
-----------------------------------------------------------------------------
(***************************************************************************)
(* Listings and lookups.  The names of a path are a sequence, the name of  *)
(* a DAT has one component, and so a path below the root has one component *)
(* and a path below a DAT is not itself the name of one.                   *)
(***************************************************************************)
LEMMA NamesAreSequence ==
  ASSUME NEW p \in Path
  PROVE  \E S : p.names \in Seq(S)
<1> DEFINE S == {p.names[i] : i \in 1..Len(p.names)}
<1>1. /\ Len(p.names) \in Nat
      /\ p.names = [i \in 1..Len(p.names) |-> p.names[i]]
  BY MatrixFSAssumption
<1>2. p.names \in [1..Len(p.names) -> S]
  BY <1>1
<1> HIDE DEF S
<1>3. p.names \in Seq(S)
  BY <1>1, <1>2
<1>4. QED
  BY <1>3

LEMMA OneComponentBelow ==
  ASSUME NEW p \in Path, p.names # <<>>
  PROVE  /\ Front(p.names) = <<>> => p.names = <<Last(p.names)>>
         /\ Front(p.names) \in DatName => p.names \notin DatName
<1>1. PICK S : p.names \in Seq(S)
  BY NamesAreSequence
<1>2. /\ Front(p.names) \in Seq(S)
      /\ Len(Front(p.names)) = Len(p.names) - 1
      /\ Append(Front(p.names), Last(p.names)) = p.names
  BY <1>1, PopType, PopLen, PushPop
<1>3. Front(p.names) = <<>> => p.names = <<Last(p.names)>>
  BY <1>2
<1>4. \A d \in DatName : Len(d) = 1
  <2>1. ASSUME NEW x PROVE Len(<<x>>) = 1
    OBVIOUS
  <2>2. QED
    BY <2>1, MatrixFSAssumption
<1>5. Front(p.names) \in DatName => p.names \notin DatName
  BY <1>1, <1>2, <1>4
<1>6. QED
  BY <1>3, <1>5

LEMMA RootIsNoDat == <<>> \notin DatName
<1>1. ASSUME NEW x PROVE <<x>> # <<>>
  OBVIOUS
<1>2. QED
  BY <1>1, MatrixFSAssumption

\* main gives the DatFile the name it is filed under.
FolderInv == \A d \in DOMAIN folderName : folderName[d] = d

LEMMA FolderNames == Spec => []FolderInv
<1>1. Init => FolderInv
  BY DEF Init, StoreInit, EmptyMap, FolderInv
<1>2. FolderInv /\ [Next]_vars => FolderInv'
  <2> SUFFICES ASSUME FolderInv, [Next]_vars PROVE FolderInv'
    OBVIOUS
  <2>1. ASSUME NEW f \in unread, TakeFile(f) PROVE FolderInv'
    <3>1. folderName' = MapInsert(folderName, FileName[f], FileName[f])
      BY <2>1 DEF TakeFile, AddDatFile
    <3>2. DOMAIN folderName' = DOMAIN folderName \cup {FileName[f]}
      BY <3>1, MapInsertDomain
    <3>3. ASSUME NEW d \in DOMAIN folderName' PROVE folderName'[d] = d
      <4>1. folderName'[d] = IF d \in DOMAIN folderName THEN folderName[d] ELSE FileName[f]
        BY <3>1, <3>2, MapInsertValue
      <4>2. d \in DOMAIN folderName => folderName[d] = d
        BY DEF FolderInv
      <4>3. QED
        BY <3>2, <4>1, <4>2
    <3>4. QED
      BY <3>3 DEF FolderInv
  <2>2. CASE UNCHANGED folderName
    BY <2>2 DEF FolderInv
  <2>3. QED
    BY <2>1, <2>2 DEF Next, ParseAborts, FileEntry, AddEntry, AssertFails, Mount, vars, storeVars
<1>3. QED
  BY <1>1, <1>2, PTL DEF Spec

(***************************************************************************)
(* What a client was listed are the names in the directory it has open,    *)
(* and it has been told the truth about the path it asked for.             *)
(***************************************************************************)
NamesIn(p) == IF p = Root THEN DOMAIN dats ELSE DOMAIN dats[p.names]

RootBeforeMount ==
  status # "mounted" =>
    \A c \in Client : seen[c].path = Root /\ listing[c].result = "none"

Truthful ==
  \A c \in Client : seen[c].path.names # <<>> =>
    seen[c].path \in Path /\ seen[c].mode = GetAttr(seen[c].path).mode

ListsNames ==
  \A c \in Client : listing[c].result = "ok" =>
    handle[c] # Closed /\ listing[c].names = NamesIn(seen[c].path)

TreeInv == RootBeforeMount /\ Truthful /\ ListsNames

Known == IInv /\ FsInv /\ FolderInv

LEMMA TreeInvInit == SystemInit => TreeInv
<1> SUFFICES ASSUME SystemInit PROVE TreeInv
  OBVIOUS
<1>1. \A c \in Client : seen[c].path = Root /\ listing[c].result = "none"
  BY DEF SystemInit, FsInit, Answer
<1>2. Root.names = <<>>
  BY DEF Root
<1>3. RootBeforeMount /\ Truthful /\ ListsNames
  BY <1>1, <1>2 DEF RootBeforeMount, Truthful, ListsNames
<1>4. QED
  BY <1>3 DEF TreeInv

LEMMA FilledNames ==
  ASSUME Known, NEW c \in Client, handle[c] # Closed
  PROVE  Filled(handle[c]).result = "ok" /\ Filled(handle[c]).names = NamesIn(seen[c].path)
<1> USE DEF Known
<1>1. /\ DOMAIN dats = DOMAIN folderName /\ DOMAIN dats \subseteq DatName
  BY MapDef DEF IInv, TypeOK, StoreTypeOK
<1>2. CASE seen[c].path = Root /\ handle[c] = DAT_LIST_FH_HANDLE
  <2>1. {folderName[d] : d \in DOMAIN folderName} = DOMAIN dats
    BY <1>1 DEF FolderInv
  <2>2. QED
    BY <1>2, <2>1 DEF Filled, Answer, NamesIn
<1>3. CASE HasDat(seen[c].path.names) /\ handle[c] = DatAddress[seen[c].path.names]
  <2> DEFINE d == seen[c].path.names
  <2>1. d \in DOMAIN dats /\ d \in DatName
    BY <1>1, <1>3 DEF HasDat
  <2>2. handle[c] # DAT_LIST_FH_HANDLE /\ handle[c] # 0
    BY <1>3, <2>1, MatrixFSAssumption
  <2>3. \A e \in DOMAIN dats : DatAddress[e] = handle[c] => e = d
    BY <1>1, <1>3, <2>1, MatrixFSAssumption
  <2>4. (CHOOSE e \in DOMAIN dats : DatAddress[e] = handle[c]) = d
    BY <1>3, <2>1, <2>3
  <2>5. Filled(handle[c]) = Answer("ok", DOMAIN dats[d])
    BY <1>3, <2>1, <2>2, <2>4 DEF Filled
  <2>6. seen[c].path # Root
    BY <2>1, RootIsNoDat DEF Root
  <2>7. QED
    BY <2>5, <2>6 DEF Answer, NamesIn
<1>4. QED
  BY <1>2, <1>3 DEF FsInv, HandlesLive

LEMMA ServeKeepsTree ==
  ASSUME Known, TreeInv, Serve
  PROVE  TreeInv'
<1> USE DEF Known
<1>1. UNCHANGED <<dats, hashes, status>> /\ status = "mounted"
  BY DEF Serve, vars, storeVars
<1>2. RootBeforeMount'
  BY <1>1 DEF RootBeforeMount
<1>3. \A p : GetAttr(p)' = GetAttr(p) /\ NamesIn(p)' = NamesIn(p)
  BY <1>1 DEF GetAttr, NamesIn, IsDir, IsFile, IsEntry, HasDat, RecordOf
<1>4. ASSUME NEW c \in Client, NEW p \in Path, Lookup(c, p)
      PROVE  Truthful' /\ ListsNames'
  <2>1. /\ \A k \in Client : seen'[k] = IF k = c THEN GetAttr(p) ELSE seen[k]
        /\ handle' = handle /\ listing' = listing /\ handle[c] = Closed
    BY <1>4 DEF Lookup, FsInv, FsTypeOK
  <2>2. GetAttr(p).path = p
    BY GetAttrTrue
  <2>3. Truthful'
    BY <1>3, <2>1, <2>2 DEF TreeInv, Truthful
  <2>4. ListsNames'
    BY <1>3, <2>1 DEF TreeInv, ListsNames
  <2>5. QED
    BY <2>3, <2>4
<1>5. ASSUME NEW c \in Client, OpenDir(c)
      PROVE  Truthful' /\ ListsNames'
  <2>1. seen' = seen /\ listing' = listing /\ handle[c] = Closed
    BY <1>5 DEF OpenDir
  <2>2. \A k \in Client : k # c => handle'[k] = handle[k]
    BY <1>5 DEF OpenDir, FsInv, FsTypeOK
  <2>3. listing[c].result # "ok"
    BY <2>1 DEF TreeInv, ListsNames
  <2>4. Truthful'
    BY <1>3, <2>1 DEF TreeInv, Truthful
  <2>5. ListsNames'
    BY <1>3, <2>1, <2>2, <2>3 DEF TreeInv, ListsNames
  <2>6. QED
    BY <2>4, <2>5
<1>6. ASSUME NEW c \in Client, ReadDir(c)
      PROVE  Truthful' /\ ListsNames'
  <2>1. /\ \A k \in Client : listing'[k] = IF k = c THEN Filled(handle[c]) ELSE listing[k]
        /\ seen' = seen /\ handle' = handle /\ handle[c] # Closed
    BY <1>6 DEF ReadDir, FsInv, FsTypeOK
  <2>2. Truthful'
    BY <1>3, <2>1 DEF TreeInv, Truthful
  <2>3. ListsNames'
    BY <1>3, <2>1, FilledNames DEF TreeInv, ListsNames
  <2>4. QED
    BY <2>2, <2>3
<1>7. ASSUME NEW c \in Client, ReleaseDir(c)
      PROVE  Truthful' /\ ListsNames'
  <2>1. /\ \A k \in Client : listing'[k] = IF k = c THEN Answer("none", {}) ELSE listing[k]
        /\ \A k \in Client : k # c => handle'[k] = handle[k]
        /\ seen' = seen
    BY <1>7 DEF ReleaseDir, FsInv, FsTypeOK
  <2>2. Truthful'
    BY <1>3, <2>1 DEF TreeInv, Truthful
  <2>3. ListsNames'
    BY <1>3, <2>1 DEF TreeInv, ListsNames, Answer
  <2>4. QED
    BY <2>2, <2>3
<1>8. QED
  BY <1>2, <1>4, <1>5, <1>6, <1>7 DEF Serve, FsStep, TreeInv

LEMMA TreeInvNext == Known /\ TreeInv /\ [SystemNext]_allVars => TreeInv'
<1> SUFFICES ASSUME Known, TreeInv, [SystemNext]_allVars
             PROVE  TreeInv'
  OBVIOUS
<1>1. CASE Next /\ UNCHANGED fsVars
  <2>1. status # "mounted" /\ UNCHANGED <<seen, handle, listing>>
    BY <1>1 DEF Next, TakeFile, ParseAborts, FileEntry, AssertFails, Mount, Importing, fsVars
  <2>2. \A c \in Client : seen[c].path.names = <<>> /\ listing[c].result = "none"
    BY <2>1 DEF TreeInv, RootBeforeMount, Root
  <2>3. RootBeforeMount'
    BY <2>1 DEF TreeInv, RootBeforeMount
  <2>4. QED
    BY <2>1, <2>2, <2>3 DEF TreeInv, Truthful, ListsNames
<1>2. CASE Serve
  BY <1>2, ServeKeepsTree
<1>3. CASE UNCHANGED allVars
  <2>1. UNCHANGED <<dats, hashes, status, seen, handle, listing>>
    BY <1>3 DEF allVars, vars, storeVars, fsVars
  <2>2. QED
    BY <2>1 DEF TreeInv, RootBeforeMount, Truthful, ListsNames, NamesIn, GetAttr, IsDir,
                IsFile, IsEntry, HasDat, RecordOf
<1>4. QED
  BY <1>1, <1>2, <1>3 DEF SystemNext

\* What one client is listed another one finds, and what is found is listed.
THEOREM ListingMatchesLookupsAlways == SystemSpec => []ListingMatchesLookups
<1>1. Known /\ TreeInv => ListingMatchesLookups
  <2> SUFFICES ASSUME Known, TreeInv, NEW c \in Client, NEW k \in Client,
                      listing[c].result = "ok", Under(seen[k].path, seen[c].path)
               PROVE  IF <<Last(seen[k].path.names)>> \in listing[c].names
                        THEN seen[k].mode = IF seen[c].path = Root THEN "dir" ELSE "file"
                        ELSE seen[k].mode = "none"
    BY DEF ListingMatchesLookups
  <2> USE DEF Known
  <2> DEFINE p == seen[k].path
  <2>1. p \in Path /\ p.names # <<>> /\ p.absolute /\ seen[k].mode = GetAttr(p).mode
    BY DEF TreeInv, Truthful, Under
  <2>2. p # Root
    BY <2>1 DEF Root
  <2>3. seen[c].path = [absolute |-> TRUE, names |-> Front(p.names)]
    BY DEF Under
  <2>4. listing[c].names = NamesIn(seen[c].path) /\ handle[c] # Closed
    BY DEF TreeInv, ListsNames
  <2>5. DOMAIN dats \subseteq DatName
    BY MapDef DEF IInv, TypeOK, StoreTypeOK
  <2>6. GetAttr(p).mode = IF HasDat(p.names) THEN "dir" ELSE IF IsEntry(p.names) THEN "file" ELSE "none"
    BY <2>1, <2>2 DEF GetAttr, Reply, IsDir, IsFile
  <2>7. CASE seen[c].path = Root
    <3>1. Front(p.names) = <<>>
      BY <2>3, <2>7 DEF Root
    <3>2. p.names = <<Last(p.names)>>
      BY <2>1, <3>1, OneComponentBelow
    <3>3. ~IsEntry(p.names)
      BY <2>5, <3>1, RootIsNoDat DEF IsEntry, HasDat
    <3>4. listing[c].names = DOMAIN dats
      BY <2>4, <2>7 DEF NamesIn
    <3>5. QED
      BY <2>1, <2>6, <2>7, <3>2, <3>3, <3>4 DEF HasDat
  <2>8. CASE seen[c].path # Root
    <3>1. Front(p.names) \in DOMAIN dats
      BY <2>3, <2>4, <2>8 DEF FsInv, HandlesLive, HasDat
    <3>2. ~HasDat(p.names)
      BY <2>1, <2>5, <3>1, OneComponentBelow DEF HasDat
    <3>3. listing[c].names = DOMAIN dats[Front(p.names)]
      BY <2>3, <2>4, <2>8 DEF NamesIn
    <3>4. QED
      BY <2>1, <2>6, <2>8, <3>1, <3>2, <3>3 DEF IsEntry, HasDat
  <2>9. QED
    BY <2>7, <2>8
<1>2. SystemSpec => []Known
  BY FsInvariant, FolderNames, SystemImports, PTL DEF Known
<1>3. SystemSpec => []TreeInv
  BY <1>2, TreeInvInit, TreeInvNext, PTL DEF SystemSpec
<1>4. QED
  BY <1>1, <1>2, <1>3, PTL
=============================================================================
