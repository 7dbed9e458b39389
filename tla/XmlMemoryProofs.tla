--------------------------- MODULE XmlMemoryProofs ---------------------------
(***************************************************************************)
(* The memory of pugixml's documents, for any documents, pages and sizes:  *)
(* the pages of a document are one list, what is counted in a page is what *)
(* lies in it, and from a document all is reached that lies in its pages.  *)
(***************************************************************************)
EXTENDS XmlMemory, DataLemmas

\* What an assumption on the constants says of numbers.
LEMMA MemorySizes ==
  /\ PageSize \in Nat /\ MaxEncoded \in Nat /\ PageSize < MaxEncoded
  /\ NodeSize \in Nat /\ NodeSize >= 1 /\ NodeSize <= Threshold
  /\ Threshold \in Nat /\ Threshold <= PageSize
<1>1. PageSize \div 4 \in Nat /\ PageSize \div 4 <= PageSize
  BY MemoryAssumption
<1>2. QED
  BY <1>1, MemoryAssumption DEF Threshold

\* The pages of a document: its sentinel, with each the next, and no others.
LEMMA PagesStart ==
  ASSUME NEW P, NEW d \in DOMAIN P
  PROVE  d \in Pages(P, d)
BY DEF Pages

LEMMA PagesNext ==
  ASSUME NEW P, NEW d, NEW q \in Pages(P, d), P[q].next \in DOMAIN P, NoPage \notin DOMAIN P
  PROVE  P[q].next \in Pages(P, d)
<1>1. SUFFICES ASSUME NEW S \in SUBSET DOMAIN P, d \in S, \A r \in S : P[r].next \in S \cup {NoPage}
               PROVE  P[q].next \in S
  BY DEF Pages
<1>2. q \in S
  BY <1>1 DEF Pages
<1>3. QED
  BY <1>1, <1>2

LEMMA PagesLeast ==
  ASSUME NEW P, NEW d, NEW S \in SUBSET DOMAIN P, d \in S, \A q \in S : P[q].next \in S \cup {NoPage}
  PROVE  Pages(P, d) \subseteq S
BY DEF Pages

\* What belongs to a place, with an object all that belongs to it, and no
\* more.
LEMMA BelowFirst ==
  ASSUME NEW L, NEW w, NEW x, NEW o \in L, w[o] = x
  PROVE  o \in Below(L, w, x)
BY DEF Below

LEMMA BelowNext ==
  ASSUME NEW L, NEW w, NEW x, NEW r \in Below(L, w, x), NEW o \in L, w[o] = Place(r)
  PROVE  o \in Below(L, w, x)
<1>1. SUFFICES ASSUME NEW S \in SUBSET L,
                      \A q \in L : w[q] = x \/ (\E t \in S : w[q] = Place(t)) => q \in S
               PROVE  o \in S
  BY DEF Below
<1>2. r \in S
  BY <1>1 DEF Below
<1>3. QED
  BY <1>1, <1>2

LEMMA BelowLeast ==
  ASSUME NEW L, NEW w, NEW x, NEW S \in SUBSET L,
         \A q \in L : w[q] = x \/ (\E r \in S : w[q] = Place(r)) => q \in S
  PROVE  Below(L, w, x) \subseteq S
BY DEF Below

\* The sum of what lies in a page.
Object == [page : Page, offset : Nat, size : Nat \ {0}, node : BOOLEAN]
Objects(L) == L \subseteq Object /\ IsFiniteSet(L) /\ \A o \in L : o.node => o.size = NodeSize

LEMMA TakenNothing ==
  ASSUME NEW L, Objects(L), NEW p
  PROVE  /\ BlocksIn(L, p) \in Nat
         /\ (\A o \in L : o.page # p) => BlocksIn(L, p) = 0
         /\ \A o \in L : o.page = p => BlocksIn(L, p) >= o.size
<1> DEFINE S == LyingIn(L, p)
           f == [o \in S |-> o.size]
<1>1. IsFiniteSet(S) /\ f \in [S -> Nat] /\ BlocksIn(L, p) = SumFunction(f)
  <2>1. S \subseteq L /\ S \subseteq Object
    BY DEF LyingIn, Objects
  <2>2. IsFiniteSet(S)
    BY <2>1, FS_Subset DEF Objects
  <2>3. \A o \in S : o.size \in Nat
    BY <2>1 DEF Object
  <2>4. QED
    BY <2>2, <2>3 DEF BlocksIn
<1>2. (\A o \in L : o.page # p) => S = {}
  BY DEF LyingIn
<1>3. \A o \in L : o.page = p => o \in S /\ f[o] = o.size
  BY DEF LyingIn
<1> HIDE DEF S, f
<1>4. SumFunction(f) \in Nat /\ (S = {} => SumFunction(f) = 0)
  BY <1>1, SumNat
<1>5. \A o \in S : SumFunction(f) >= f[o]
  BY <1>1, SumAtLeast
<1>6. QED
  BY <1>1, <1>2, <1>3, <1>4, <1>5

LEMMA TakenOne ==
  ASSUME NEW L, Objects(L), NEW o \in L, NEW p
  PROVE  BlocksIn(L, p) = (IF o.page = p THEN o.size ELSE 0) + BlocksIn(L \ {o}, p)
<1> DEFINE S == LyingIn(L, p)
           f == [q \in S |-> q.size]
           g == [q \in S \ {o} |-> f[q]]
<1>1. IsFiniteSet(S) /\ f \in [S -> Nat] /\ BlocksIn(L, p) = SumFunction(f)
  <2>1. S \subseteq L /\ S \subseteq Object
    BY DEF LyingIn, Objects
  <2>2. IsFiniteSet(S)
    BY <2>1, FS_Subset DEF Objects
  <2>3. \A q \in S : q.size \in Nat
    BY <2>1 DEF Object
  <2>4. QED
    BY <2>2, <2>3 DEF BlocksIn
<1>2. Objects(L \ {o})
  BY FS_Subset DEF Objects
<1>3. CASE o.page = p
  <2>1. o \in S /\ f[o] = o.size
    BY <1>3 DEF LyingIn
  <2>2. LyingIn(L \ {o}, p) = S \ {o}
    BY DEF LyingIn
  <2>3. BlocksIn(L \ {o}, p) = SumFunction(g)
    <3>1. \A q \in S \ {o} : f[q] = q.size
      OBVIOUS
    <3>2. [q \in S \ {o} |-> q.size] = g
      BY <3>1
    <3>3. QED
      BY <2>2, <3>2 DEF BlocksIn
  <2> HIDE DEF S, f
  <2>4. SumFunction(f) = f[o] + SumFunction(g)
    BY <1>1, <2>1, SumStep
  <2>5. QED
    BY <1>1, <1>3, <2>1, <2>3, <2>4
<1>4. CASE o.page # p
  <2>1. LyingIn(L \ {o}, p) = S
    BY <1>4 DEF LyingIn
  <2>2. BlocksIn(L \ {o}, p) = BlocksIn(L, p)
    BY <2>1 DEF BlocksIn
  <2>3. BlocksIn(L, p) \in Nat
    BY TakenNothing
  <2>4. QED
    BY <1>4, <2>2, <2>3
<1>5. QED
  BY <1>3, <1>4
-----------------------------------------------------------------------------
(* The lists of pages. *)

PageRec ==
  [allocator : Doc, prev : Doc \cup Page \cup {NoPage}, next : Doc \cup Page \cup {NoPage}, busy : Nat, freed : Nat]
PagesTyped(P) == P \in [DOMAIN P -> PageRec] /\ Doc \subseteq DOMAIN P /\ DOMAIN P \subseteq Doc \cup Page

\* Documents with the pages they should have: no page after the one allocated
\* from, none before the sentinel, and next and prev are each other's.
Linked(P, R) ==
  /\ \A d \in Doc : R[d] \in DOMAIN P /\ P[d].allocator = d /\ P[R[d]].allocator = d
  /\ \A p \in DOMAIN P :
       /\ P[p].prev = NoPage <=> p \in Doc
       /\ P[p].next = NoPage <=> p = R[P[p].allocator]
       /\ P[p].next # NoPage =>
            /\ P[p].next \in DOMAIN P
            /\ P[P[p].next].prev = p /\ P[P[p].next].allocator = P[p].allocator
       /\ P[p].prev # NoPage => P[p].prev \in DOMAIN P /\ P[P[p].prev].next = p

PagesReached(P) == \A p \in DOMAIN P : p \in Pages(P, P[p].allocator)

LEMMA NoPageIsNone == NoPage \notin Doc \cup Page /\ Doc \cap Page = {}
BY MemoryAssumption

LEMMA PagesAre ==
  ASSUME NEW P, NEW R, PagesTyped(P), Linked(P, R), PagesReached(P), NEW d \in Doc
  PROVE  Pages(P, d) = {p \in DOMAIN P : P[p].allocator = d}
<1> DEFINE S == {p \in DOMAIN P : P[p].allocator = d}
<1>1. d \in S
  BY DEF PagesTyped, Linked
<1>2. \A q \in S : P[q].next \in S \cup {NoPage}
  BY DEF Linked
<1>3. Pages(P, d) \subseteq S
  BY <1>1, <1>2, PagesLeast
<1>4. S \subseteq Pages(P, d)
  BY DEF PagesReached
<1>5. QED
  BY <1>3, <1>4

\* The page before one of the heap.
LEMMA PageBefore ==
  ASSUME NEW P, NEW R, PagesTyped(P), Linked(P, R), PagesReached(P), NEW p \in DOMAIN P \ Doc
  PROVE  /\ P[p].prev \in DOMAIN P /\ P[p].prev # NoPage /\ P[p].prev # p
         /\ P[P[p].prev].next = p /\ P[P[p].prev].allocator = P[p].allocator
<1>1. P[p].prev # NoPage
  BY DEF Linked
<1>2. P[p].prev \in DOMAIN P /\ P[P[p].prev].next = p
  BY <1>1 DEF Linked
<1>3. p # NoPage
  BY NoPageIsNone DEF PagesTyped
<1>4. P[P[p].prev].allocator = P[p].allocator
  BY <1>2, <1>3 DEF Linked
<1>5. P[p].prev # p
  <2>1. SUFFICES ASSUME P[p].prev = p PROVE FALSE
    OBVIOUS
  <2> DEFINE S == DOMAIN P \ {p}
             d == P[p].allocator
  <2>2. d \in S
    BY DEF PagesTyped, PageRec
  <2>3. \A q \in S : P[q].next \in S \cup {NoPage}
    BY <2>1, <1>3 DEF Linked
  <2>4. Pages(P, d) \subseteq S
    BY <2>2, <2>3, PagesLeast
  <2>5. QED
    BY <2>4 DEF PagesReached
<1>6. QED
  BY <1>1, <1>2, <1>4, <1>5

PagesLinked(P, R) == PagesTyped(P) /\ Linked(P, R) /\ PagesReached(P)

SameLinks(P, P2) ==
  /\ DOMAIN P2 = DOMAIN P
  /\ \A q \in DOMAIN P : P2[q].allocator = P[q].allocator /\ P2[q].prev = P[q].prev /\ P2[q].next = P[q].next

\* A page put after the one allocated from.
PutLast(P, R, P2, R2, a, p) ==
  /\ p \in Page \ DOMAIN P /\ DOMAIN P2 = DOMAIN P \cup {p}
  /\ \A d \in Doc : R2[d] = IF d = a THEN p ELSE R[d]
  /\ P2[p].allocator = a /\ P2[p].prev = R[a] /\ P2[p].next = NoPage
  /\ \A q \in DOMAIN P : /\ P2[q].allocator = P[q].allocator /\ P2[q].prev = P[q].prev
                         /\ P2[q].next = IF q = R[a] THEN p ELSE P[q].next

\* A page put before it.
PutBefore(P, R, P2, a, p) ==
  /\ p \in Page \ DOMAIN P /\ DOMAIN P2 = DOMAIN P \cup {p}
  /\ P2[p].allocator = a /\ P2[p].prev = P[R[a]].prev /\ P2[p].next = R[a]
  /\ \A q \in DOMAIN P : /\ P2[q].allocator = P[q].allocator
                         /\ P2[q].prev = IF q = R[a] THEN p ELSE P[q].prev
                         /\ P2[q].next = IF q = P[R[a]].prev THEN p ELSE P[q].next

\* A page taken out of its list.
TakenOut(P, P2, p) ==
  /\ DOMAIN P2 = DOMAIN P \ {p}
  /\ \A q \in DOMAIN P \ {p} : /\ P2[q].allocator = P[q].allocator
                               /\ P2[q].prev = IF q = P[p].next THEN P[p].prev ELSE P[q].prev
                               /\ P2[q].next = IF q = P[p].prev THEN P[p].next ELSE P[q].next

LEMMA SameLinksListed ==
  ASSUME NEW P, NEW R, NEW P2, PagesLinked(P, R), SameLinks(P, P2), PagesTyped(P2)
  PROVE  PagesLinked(P2, R)
<1>1. \A d : Pages(P2, d) = Pages(P, d)
  BY DEF Pages, SameLinks
<1>2. PagesReached(P2)
  BY <1>1 DEF PagesReached, PagesLinked, SameLinks
<1>3. Linked(P2, R)
  <2>1. ASSUME NEW d \in Doc
        PROVE  R[d] \in DOMAIN P2 /\ P2[d].allocator = d /\ P2[R[d]].allocator = d
    BY DEF Linked, PagesLinked, SameLinks, PagesTyped
  <2>2. ASSUME NEW q \in DOMAIN P
        PROVE  /\ P2[q].prev = NoPage <=> q \in Doc
               /\ P2[q].next = NoPage <=> q = R[P2[q].allocator]
               /\ P2[q].next # NoPage =>
                    /\ P2[q].next \in DOMAIN P
                    /\ P2[P2[q].next].prev = q /\ P2[P2[q].next].allocator = P2[q].allocator
               /\ P2[q].prev # NoPage => P2[q].prev \in DOMAIN P /\ P2[P2[q].prev].next = q
    <3>1. P2[q].allocator = P[q].allocator /\ P2[q].prev = P[q].prev /\ P2[q].next = P[q].next
      BY DEF SameLinks
    <3>2. P[q].prev = NoPage <=> q \in Doc
      BY DEF Linked, PagesLinked
    <3>3. P[q].next = NoPage <=> q = R[P[q].allocator]
      BY DEF Linked, PagesLinked
    <3>4. P[q].next # NoPage =>
            /\ P[q].next \in DOMAIN P
            /\ P2[P[q].next].prev = q /\ P2[P[q].next].allocator = P[q].allocator
      BY DEF Linked, PagesLinked, SameLinks
    <3>5. P[q].prev # NoPage => P[q].prev \in DOMAIN P /\ P2[P[q].prev].next = q
      BY DEF Linked, PagesLinked, SameLinks
    <3>6. QED
      BY <3>1, <3>2, <3>3, <3>4, <3>5
  <2>3. QED
    BY <2>1, <2>2 DEF Linked, SameLinks
<1>4. QED
  BY <1>2, <1>3 DEF PagesLinked

LEMMA PutLastListed ==
  ASSUME NEW P, NEW R, NEW P2, NEW R2, NEW a \in Doc, NEW p, PagesLinked(P, R), PutLast(P, R, P2, R2, a, p), PagesTyped(P2)
  PROVE  PagesLinked(P2, R2)
<1>1. NoPage \notin DOMAIN P2 /\ p \notin Doc /\ p # NoPage /\ p \notin DOMAIN P /\ p \in DOMAIN P2
  BY NoPageIsNone DEF PagesTyped, PutLast
<1>2. R[a] \in DOMAIN P /\ P[R[a]].allocator = a /\ P[R[a]].next = NoPage
  BY DEF Linked, PagesLinked
<1>3. ASSUME NEW d \in Doc
      PROVE  R2[d] \in DOMAIN P2 /\ P2[d].allocator = d /\ P2[R2[d]].allocator = d
  BY <1>1 DEF Linked, PagesLinked, PutLast, PagesTyped
<1>4. ASSUME NEW q \in DOMAIN P2
      PROVE  /\ P2[q].prev = NoPage <=> q \in Doc
             /\ P2[q].next = NoPage <=> q = R2[P2[q].allocator]
             /\ P2[q].next # NoPage =>
                  /\ P2[q].next \in DOMAIN P2
                  /\ P2[P2[q].next].prev = q /\ P2[P2[q].next].allocator = P2[q].allocator
             /\ P2[q].prev # NoPage => P2[q].prev \in DOMAIN P2 /\ P2[P2[q].prev].next = q
  <2>1. CASE q = p
    BY <1>1, <1>2, <2>1 DEF PutLast
  <2>2. CASE q # p
    <3>1. q \in DOMAIN P /\ P2[q].allocator = P[q].allocator /\ P2[q].prev = P[q].prev
      BY <2>2 DEF PutLast
    <3>2. P[q].allocator \in Doc
      BY <3>1 DEF PagesLinked, PagesTyped, PageRec
    <3>3. P2[q].prev = NoPage <=> q \in Doc
      BY <3>1 DEF PagesLinked, Linked
    <3>4. P2[q].next = NoPage <=> q = R2[P2[q].allocator]
      BY <1>1, <1>2, <3>1, <3>2 DEF PagesLinked, Linked, PutLast
    <3>5. P2[q].next # NoPage =>
            /\ P2[q].next \in DOMAIN P2
            /\ P2[P2[q].next].prev = q /\ P2[P2[q].next].allocator = P2[q].allocator
      BY <1>1, <1>2, <3>1 DEF PagesLinked, Linked, PutLast
    <3>6. P2[q].prev # NoPage => P2[q].prev \in DOMAIN P2 /\ P2[P2[q].prev].next = q
      <4>1. SUFFICES ASSUME P2[q].prev # NoPage PROVE P2[q].prev \in DOMAIN P2 /\ P2[P2[q].prev].next = q
        OBVIOUS
      <4>2. P[q].prev \in DOMAIN P /\ P[P[q].prev].next = q
        BY <3>1, <4>1 DEF PagesLinked, Linked
      <4>3. q # NoPage
        BY <1>1
      <4>4. P[q].prev # R[a]
        BY <1>2, <4>2, <4>3
      <4>5. QED
        BY <3>1, <4>2, <4>4 DEF PutLast
    <3>7. QED
      BY <3>3, <3>4, <3>5, <3>6
  <2>3. QED
    BY <2>1, <2>2
<1>5. Linked(P2, R2)
  BY <1>3, <1>4 DEF Linked
<1>6. ASSUME NEW d \in Doc PROVE Pages(P, d) \subseteq Pages(P2, d)
  <2> DEFINE S == {q \in DOMAIN P : q \in Pages(P2, d)}
  <2>1. d \in S
    BY PagesStart DEF PagesTyped, PagesLinked
  <2>2. ASSUME NEW q \in S PROVE P[q].next \in S \cup {NoPage}
    <3>1. SUFFICES ASSUME P[q].next # NoPage PROVE P[q].next \in S
      OBVIOUS
    <3>2. P[q].next \in DOMAIN P
      BY <3>1 DEF PagesLinked, Linked
    <3>3. P2[q].next = P[q].next
      BY <1>2, <3>1 DEF PutLast
    <3>4. P2[q].next \in DOMAIN P2
      BY <3>2, <3>3 DEF PutLast
    <3>5. P2[q].next \in Pages(P2, d)
      BY <1>1, <3>4, PagesNext
    <3>6. QED
      BY <3>2, <3>3, <3>5
  <2>3. Pages(P, d) \subseteq S
    BY <2>1, <2>2, PagesLeast
  <2>4. QED
    BY <2>3
<1>7. p \in Pages(P2, a)
  <2>1. R[a] \in Pages(P2, a)
    BY <1>2, <1>6 DEF PagesLinked, PagesReached
  <2>2. P2[R[a]].next = p
    BY <1>2 DEF PutLast
  <2>3. QED
    BY <1>1, <2>1, <2>2, PagesNext
<1>8. PagesReached(P2)
  <2>1. ASSUME NEW q \in DOMAIN P2 PROVE q \in Pages(P2, P2[q].allocator)
    <3>1. CASE q = p
      BY <1>7, <3>1 DEF PutLast
    <3>2. CASE q # p
      <4>1. q \in DOMAIN P /\ P2[q].allocator = P[q].allocator
        BY <3>2 DEF PutLast
      <4>2. P[q].allocator \in Doc /\ q \in Pages(P, P[q].allocator)
        BY <4>1 DEF PagesLinked, PagesTyped, PageRec, PagesReached
      <4>3. QED
        BY <1>6, <4>1, <4>2
    <3>3. QED
      BY <3>1, <3>2
  <2>2. QED
    BY <2>1 DEF PagesReached
<1>9. QED
  BY <1>5, <1>8 DEF PagesLinked

LEMMA PutBeforeListed ==
  ASSUME NEW P, NEW R, NEW P2, NEW a \in Doc, NEW p, PagesLinked(P, R), R[a] \notin Doc,
         PutBefore(P, R, P2, a, p), PagesTyped(P2)
  PROVE  PagesLinked(P2, R)
<1>1. NoPage \notin DOMAIN P2 /\ p \notin Doc /\ p # NoPage /\ p \notin DOMAIN P /\ p \in DOMAIN P2
  BY NoPageIsNone DEF PagesTyped, PutBefore
<1>2. R[a] \in DOMAIN P /\ P[R[a]].allocator = a /\ P[R[a]].next = NoPage
  BY DEF Linked, PagesLinked
<1>3. PICK b : b = P[R[a]].prev
  OBVIOUS
<1>4. b \in DOMAIN P /\ b # NoPage /\ b # R[a] /\ P[b].next = R[a] /\ P[b].allocator = a
  BY <1>2, <1>3, PageBefore DEF PagesLinked
<1>5. ASSUME NEW q \in DOMAIN P
      PROVE  /\ q \in DOMAIN P2 /\ P2[q].allocator = P[q].allocator /\ P[q].allocator \in Doc
             /\ q # R[a] => P2[q].prev = P[q].prev
             /\ q # b => P2[q].next = P[q].next
             /\ P[q].next = R[a] <=> q = b
             /\ P[q].prev = b <=> q = R[a]
  <2>1. q \in DOMAIN P2 /\ P2[q].allocator = P[q].allocator
    BY DEF PutBefore
  <2>2. P[q].allocator \in Doc
    BY DEF PagesLinked, PagesTyped, PageRec
  <2>3. q # R[a] => P2[q].prev = P[q].prev
    BY DEF PutBefore
  <2>4. q # b => P2[q].next = P[q].next
    BY <1>3 DEF PutBefore
  <2>5. P[q].next = R[a] <=> q = b
    <3>1. R[a] # NoPage
      BY <1>1, <1>2 DEF PutBefore
    <3>2. P[q].next = R[a] => P[R[a]].prev = q
      BY <3>1 DEF PagesLinked, Linked
    <3>3. QED
      BY <1>3, <1>4, <3>2
  <2>6. P[q].prev = b <=> q = R[a]
    <3>1. P[q].prev = b => P[b].next = q
      BY <1>4 DEF PagesLinked, Linked
    <3>2. QED
      BY <1>3, <1>4, <3>1
  <2>7. QED
    BY <2>1, <2>2, <2>3, <2>4, <2>5, <2>6
<1>6. /\ P2[b].next = p /\ P2[R[a]].prev = p
      /\ P2[p].allocator = a /\ P2[p].prev = b /\ P2[p].next = R[a]
  BY <1>2, <1>3, <1>4 DEF PutBefore
<1>7. DOMAIN P2 = DOMAIN P \cup {p}
  BY DEF PutBefore
<1>8. R[a] # NoPage /\ R[a] # p /\ b # p
  BY <1>1, <1>2, <1>4, <1>7
<1>9. ASSUME NEW d \in Doc
      PROVE  R[d] \in DOMAIN P2 /\ P2[d].allocator = d /\ P2[R[d]].allocator = d
  BY <1>5 DEF Linked, PagesLinked, PagesTyped
<1>10. ASSUME NEW q \in DOMAIN P2
       PROVE  /\ P2[q].prev = NoPage <=> q \in Doc
              /\ P2[q].next = NoPage <=> q = R[P2[q].allocator]
              /\ P2[q].next # NoPage =>
                   /\ P2[q].next \in DOMAIN P2
                   /\ P2[P2[q].next].prev = q /\ P2[P2[q].next].allocator = P2[q].allocator
              /\ P2[q].prev # NoPage => P2[q].prev \in DOMAIN P2 /\ P2[P2[q].prev].next = q
  <2>1. CASE q = p
    BY <1>1, <1>2, <1>4, <1>5, <1>6, <1>8, <2>1
  <2>2. CASE q = b
    <3>1. P2[q].allocator = a /\ P2[q].next = p /\ P2[q].prev = P[q].prev
      BY <1>4, <1>5, <1>6, <2>2
    <3>2. P[q].prev = NoPage <=> q \in Doc
      BY <1>4, <2>2 DEF PagesLinked, Linked
    <3>3. P[q].prev # NoPage => P[q].prev \in DOMAIN P /\ P[P[q].prev].next = q /\ P[q].prev # b
      BY <1>4, <1>5, <2>2 DEF PagesLinked, Linked
    <3>4. P2[q].prev # NoPage => P2[q].prev \in DOMAIN P2 /\ P2[P2[q].prev].next = q
      BY <1>5, <3>1, <3>3
    <3>5. QED
      BY <1>1, <1>4, <1>6, <1>8, <2>2, <3>1, <3>2, <3>4
  <2>3. CASE q \notin {p, b}
    <3>1. q \in DOMAIN P /\ P2[q].allocator = P[q].allocator /\ P2[q].next = P[q].next
      BY <1>5, <1>7, <2>3
    <3>2. P2[q].prev = NoPage <=> q \in Doc
      <4>1. CASE q = R[a]
        BY <1>1, <1>6, <4>1
      <4>2. CASE q # R[a]
        BY <1>5, <3>1, <4>2 DEF PagesLinked, Linked
      <4>3. QED
        BY <4>1, <4>2
    <3>3. P2[q].next = NoPage <=> q = R[P2[q].allocator]
      BY <3>1 DEF PagesLinked, Linked
    <3>4. P2[q].next # NoPage =>
            /\ P2[q].next \in DOMAIN P2
            /\ P2[P2[q].next].prev = q /\ P2[P2[q].next].allocator = P2[q].allocator
      <4>1. P[q].next # R[a]
        BY <1>5, <2>3, <3>1
      <4>2. P[q].next # NoPage => P[q].next \in DOMAIN P /\ P[P[q].next].prev = q /\ P[P[q].next].allocator = P[q].allocator
        BY <3>1 DEF PagesLinked, Linked
      <4>3. QED
        BY <1>5, <3>1, <4>1, <4>2
    <3>5. P2[q].prev # NoPage => P2[q].prev \in DOMAIN P2 /\ P2[P2[q].prev].next = q
      <4>1. CASE q = R[a]
        BY <1>1, <1>6, <4>1
      <4>2. CASE q # R[a]
        <5>1. P2[q].prev = P[q].prev /\ P[q].prev # b
          BY <1>5, <3>1, <4>2
        <5>2. P[q].prev # NoPage => P[q].prev \in DOMAIN P /\ P[P[q].prev].next = q
          BY <3>1 DEF PagesLinked, Linked
        <5>3. QED
          BY <1>5, <5>1, <5>2
      <4>3. QED
        BY <4>1, <4>2
    <3>6. QED
      BY <3>2, <3>3, <3>4, <3>5
  <2>4. QED
    BY <2>1, <2>2, <2>3
<1>11. Linked(P2, R)
  BY <1>9, <1>10 DEF Linked
<1>12. ASSUME NEW d \in Doc PROVE Pages(P, d) \subseteq Pages(P2, d)
  <2> DEFINE S == {q \in DOMAIN P : q \in Pages(P2, d)}
  <2>1. d \in S
    BY PagesStart, <1>7 DEF PagesTyped, PagesLinked
  <2>2. ASSUME NEW q \in S PROVE P[q].next \in S \cup {NoPage}
    <3>1. SUFFICES ASSUME P[q].next # NoPage PROVE P[q].next \in S
      OBVIOUS
    <3>2. P[q].next \in DOMAIN P
      BY <3>1 DEF PagesLinked, Linked
    <3>3. CASE q # b
      <4>1. P2[q].next = P[q].next
        BY <1>5, <3>3
      <4>2. P2[q].next \in Pages(P2, d)
        BY <1>1, <1>7, <3>2, <4>1, PagesNext
      <4>3. QED
        BY <3>2, <4>1, <4>2
    <3>4. CASE q = b
      <4>1. p \in Pages(P2, d)
        BY <1>1, <1>6, <3>4, PagesNext
      <4>2. R[a] \in Pages(P2, d)
        BY <1>1, <1>2, <1>6, <1>7, <4>1, PagesNext
      <4>3. QED
        BY <1>2, <1>4, <3>4, <4>2
    <3>5. QED
      BY <3>3, <3>4
  <2>3. Pages(P, d) \subseteq S
    BY <2>1, <2>2, PagesLeast
  <2>4. QED
    BY <2>3
<1>13. p \in Pages(P2, a)
  <2>1. b \in Pages(P2, a)
    BY <1>4, <1>12 DEF PagesLinked, PagesReached
  <2>2. QED
    BY <1>1, <1>6, <2>1, PagesNext
<1>14. PagesReached(P2)
  <2>1. ASSUME NEW q \in DOMAIN P2 PROVE q \in Pages(P2, P2[q].allocator)
    <3>1. CASE q = p
      BY <1>6, <1>13, <3>1
    <3>2. CASE q # p
      <4>1. q \in DOMAIN P
        BY <1>7, <3>2
      <4>2. P[q].allocator \in Doc /\ q \in Pages(P, P[q].allocator) /\ P2[q].allocator = P[q].allocator
        BY <1>5, <4>1 DEF PagesLinked, PagesReached
      <4>3. QED
        BY <1>12, <4>2
    <3>3. QED
      BY <3>1, <3>2
  <2>2. QED
    BY <2>1 DEF PagesReached
<1>15. QED
  BY <1>11, <1>14 DEF PagesLinked

LEMMA TakenOutListed ==
  ASSUME NEW P, NEW R, NEW P2, NEW p \in DOMAIN P \ Doc, PagesLinked(P, R), P[p].next # NoPage,
         TakenOut(P, P2, p), PagesTyped(P2)
  PROVE  PagesLinked(P2, R)
<1>1. NoPage \notin DOMAIN P2 /\ NoPage \notin DOMAIN P /\ p # NoPage
  BY NoPageIsNone DEF PagesTyped, PagesLinked
<1>2. PICK b : b = P[p].prev
  OBVIOUS
<1>3. PICK n : n = P[p].next
  OBVIOUS
<1>4. b \in DOMAIN P /\ b # NoPage /\ b # p /\ P[b].next = p /\ P[b].allocator = P[p].allocator
  BY <1>2, PageBefore DEF PagesLinked
<1>5. n \in DOMAIN P /\ n # NoPage /\ P[n].prev = p /\ P[n].allocator = P[p].allocator
  BY <1>3 DEF PagesLinked, Linked
<1>6. n # p
  BY <1>2, <1>4, <1>5
<1>7. DOMAIN P2 = DOMAIN P \ {p}
  BY DEF TakenOut
<1>8. ASSUME NEW q \in DOMAIN P2
      PROVE  /\ q \in DOMAIN P /\ q # p /\ P2[q].allocator = P[q].allocator /\ P[q].allocator \in Doc
             /\ P2[q].prev = IF q = n THEN b ELSE P[q].prev
             /\ P2[q].next = IF q = b THEN n ELSE P[q].next
             /\ P[q].next = p <=> q = b
             /\ P[q].prev = p <=> q = n
  <2>1. q \in DOMAIN P /\ q # p
    BY <1>7
  <2>2. /\ P2[q].allocator = P[q].allocator
        /\ P2[q].prev = IF q = n THEN b ELSE P[q].prev
        /\ P2[q].next = IF q = b THEN n ELSE P[q].next
    BY <1>2, <1>3, <2>1 DEF TakenOut
  <2>3. P[q].allocator \in Doc
    BY <2>1 DEF PagesLinked, PagesTyped, PageRec
  <2>4. P[q].next = p <=> q = b
    <3>1. P[q].next = p => P[p].prev = q
      BY <1>1, <2>1 DEF PagesLinked, Linked
    <3>2. QED
      BY <1>2, <1>4, <3>1
  <2>5. P[q].prev = p <=> q = n
    <3>1. P[q].prev = p => P[p].next = q
      BY <1>1, <2>1 DEF PagesLinked, Linked
    <3>2. QED
      BY <1>3, <1>5, <3>1
  <2>6. QED
    BY <2>1, <2>2, <2>3, <2>4, <2>5
<1>9. ASSUME NEW d \in Doc
      PROVE  R[d] \in DOMAIN P2 /\ P2[d].allocator = d /\ P2[R[d]].allocator = d
  <2>1. R[d] \in DOMAIN P /\ P[R[d]].next = NoPage /\ P[R[d]].allocator = d /\ P[d].allocator = d
    BY DEF Linked, PagesLinked
  <2>2. R[d] # p /\ d \in DOMAIN P2
    BY <1>3, <1>5, <2>1 DEF PagesTyped
  <2>3. QED
    BY <1>7, <1>8, <2>1, <2>2
<1>10. ASSUME NEW q \in DOMAIN P2
       PROVE  /\ P2[q].prev = NoPage <=> q \in Doc
              /\ P2[q].next = NoPage <=> q = R[P2[q].allocator]
              /\ P2[q].next # NoPage =>
                   /\ P2[q].next \in DOMAIN P2
                   /\ P2[P2[q].next].prev = q /\ P2[P2[q].next].allocator = P2[q].allocator
              /\ P2[q].prev # NoPage => P2[q].prev \in DOMAIN P2 /\ P2[P2[q].prev].next = q
  <2>1. /\ P[q].prev = NoPage <=> q \in Doc
        /\ P[q].next = NoPage <=> q = R[P[q].allocator]
        /\ P[q].next # NoPage =>
             /\ P[q].next \in DOMAIN P
             /\ P[P[q].next].prev = q /\ P[P[q].next].allocator = P[q].allocator
        /\ P[q].prev # NoPage => P[q].prev \in DOMAIN P /\ P[P[q].prev].next = q
    BY <1>8 DEF PagesLinked, Linked
  <2>2. P2[q].prev = NoPage <=> q \in Doc
    <3>1. n \notin Doc
      BY <1>1, <1>5 DEF PagesLinked, Linked
    <3>2. QED
      BY <1>4, <1>8, <2>1, <3>1
  <2>3. P2[q].next = NoPage <=> q = R[P2[q].allocator]
    BY <1>1, <1>5, <1>8, <2>1
  <2>4. P2[q].next # NoPage =>
          /\ P2[q].next \in DOMAIN P2
          /\ P2[P2[q].next].prev = q /\ P2[P2[q].next].allocator = P2[q].allocator
    <3>1. CASE q = b
      <4>1. n \in DOMAIN P2 /\ P2[n].prev = b /\ P2[n].allocator = P[p].allocator
        BY <1>5, <1>6, <1>7, <1>8
      <4>2. QED
        BY <1>4, <1>8, <3>1, <4>1
    <3>2. CASE q # b
      <4>1. SUFFICES ASSUME P[q].next # NoPage
                     PROVE  P[q].next \in DOMAIN P2 /\ P2[P[q].next].prev = q
                            /\ P2[P[q].next].allocator = P2[q].allocator
        BY <1>8, <3>2
      <4>2. PICK r : r = P[q].next
        OBVIOUS
      <4>3. r \in DOMAIN P2 /\ P[r].prev = q /\ P[r].allocator = P[q].allocator
        BY <1>7, <1>8, <2>1, <3>2, <4>1, <4>2
      <4>4. r # n
        BY <1>5, <1>8, <4>3
      <4>5. QED
        BY <1>8, <4>2, <4>3, <4>4
    <3>3. QED
      BY <3>1, <3>2
  <2>5. P2[q].prev # NoPage => P2[q].prev \in DOMAIN P2 /\ P2[P2[q].prev].next = q
    <3>1. CASE q = n
      <4>1. b \in DOMAIN P2 /\ P2[b].next = n
        BY <1>4, <1>7, <1>8
      <4>2. QED
        BY <1>8, <3>1, <4>1
    <3>2. CASE q # n
      <4>1. SUFFICES ASSUME P[q].prev # NoPage PROVE P[q].prev \in DOMAIN P2 /\ P2[P[q].prev].next = q
        BY <1>8, <3>2
      <4>2. PICK r : r = P[q].prev
        OBVIOUS
      <4>3. r \in DOMAIN P2 /\ P[r].next = q
        BY <1>7, <1>8, <2>1, <3>2, <4>1, <4>2
      <4>4. r # b
        BY <1>4, <1>8, <4>3
      <4>5. QED
        BY <1>8, <4>2, <4>3, <4>4
    <3>3. QED
      BY <3>1, <3>2
  <2>6. QED
    BY <2>2, <2>3, <2>4, <2>5
<1>11. Linked(P2, R)
  BY <1>9, <1>10 DEF Linked
<1>12. ASSUME NEW d \in Doc PROVE Pages(P, d) \ {p} \subseteq Pages(P2, d)
  <2> DEFINE S == {q \in DOMAIN P : IF q = p THEN n \in Pages(P2, d) ELSE q \in Pages(P2, d)}
  <2>1. d \in S
    <3>1. d \in DOMAIN P2 /\ d \in DOMAIN P /\ d # p
      BY DEF PagesLinked, PagesTyped
    <3>2. QED
      BY <3>1, PagesStart
  <2>2. ASSUME NEW q \in S PROVE P[q].next \in S \cup {NoPage}
    <3>1. SUFFICES ASSUME P[q].next # NoPage PROVE P[q].next \in S
      OBVIOUS
    <3>2. q \in DOMAIN P /\ P[q].next \in DOMAIN P
      BY <3>1 DEF PagesLinked, Linked
    <3>3. CASE q = p
      BY <1>3, <1>5, <1>6, <3>3
    <3>4. CASE q = b
      <4>1. q \in Pages(P2, d) /\ P2[q].next = n /\ n \in DOMAIN P2
        BY <1>4, <1>5, <1>6, <1>7, <1>8, <3>4
      <4>2. n \in Pages(P2, d)
        BY <1>1, <4>1, PagesNext
      <4>3. QED
        BY <1>4, <3>2, <3>4, <4>2
    <3>5. CASE q \notin {p, b}
      <4>1. q \in Pages(P2, d) /\ P2[q].next = P[q].next /\ P[q].next # p /\ P[q].next \in DOMAIN P2
        BY <1>7, <1>8, <3>2, <3>5
      <4>2. P2[q].next \in Pages(P2, d)
        BY <1>1, <4>1, PagesNext
      <4>3. QED
        BY <3>2, <4>1, <4>2
    <3>6. QED
      BY <3>3, <3>4, <3>5
  <2>3. Pages(P, d) \subseteq S
    BY <2>1, <2>2, PagesLeast
  <2>4. QED
    BY <2>3
<1>13. PagesReached(P2)
  <2>1. ASSUME NEW q \in DOMAIN P2 PROVE q \in Pages(P2, P2[q].allocator)
    <3>1. q \in Pages(P, P[q].allocator)
      BY <1>8 DEF PagesLinked, PagesReached
    <3>2. QED
      BY <1>8, <1>12, <3>1
  <2>2. QED
    BY <2>1 DEF PagesReached
<1>14. QED
  BY <1>11, <1>13 DEF PagesLinked

\* The pages of a document but its sentinel given back.
Emptied(P, R, P2, R2, d) ==
  /\ DOMAIN P2 = DOMAIN P \ (Pages(P, d) \ {d})
  /\ P2[d].allocator = d /\ P2[d].prev = NoPage /\ P2[d].next = NoPage
  /\ \A q \in DOMAIN P2 \ {d} : P2[q].allocator = P[q].allocator /\ P2[q].prev = P[q].prev /\ P2[q].next = P[q].next
  /\ \A c \in Doc : R2[c] = IF c = d THEN d ELSE R[c]

LEMMA EmptiedListed ==
  ASSUME NEW P, NEW R, NEW P2, NEW R2, NEW d \in Doc, PagesLinked(P, R), Emptied(P, R, P2, R2, d), PagesTyped(P2)
  PROVE  PagesLinked(P2, R2)
<1>1. NoPage \notin DOMAIN P2 /\ NoPage \notin DOMAIN P
  BY NoPageIsNone DEF PagesTyped, PagesLinked
<1>2. \A q \in DOMAIN P : q \in Pages(P, d) <=> P[q].allocator = d
  BY PagesAre DEF PagesLinked
<1>3. ASSUME NEW q \in DOMAIN P2, q # d
      PROVE  /\ q \in DOMAIN P /\ P[q].allocator # d /\ P2[q].allocator = P[q].allocator
             /\ P2[q].prev = P[q].prev /\ P2[q].next = P[q].next /\ P[q].allocator \in Doc
  BY <1>2, <1>3 DEF Emptied, PagesLinked, PagesTyped, PageRec
<1>4. \A q \in DOMAIN P : P[q].allocator # d => q \in DOMAIN P2 /\ q # d
  BY <1>2 DEF Emptied, PagesLinked, Linked
<1>5. ASSUME NEW c \in Doc
      PROVE  R2[c] \in DOMAIN P2 /\ P2[c].allocator = c /\ P2[R2[c]].allocator = c
  <2>1. CASE c = d
    BY <2>1 DEF Emptied, PagesTyped
  <2>2. CASE c # d
    <3>1. R[c] \in DOMAIN P /\ c \in DOMAIN P /\ P[c].allocator = c /\ P[R[c]].allocator = c
      BY DEF PagesLinked, Linked, PagesTyped
    <3>2. R[c] \in DOMAIN P2 /\ R[c] # d /\ c \in DOMAIN P2
      BY <1>4, <2>2, <3>1
    <3>3. R2[c] = R[c]
      BY <2>2 DEF Emptied
    <3>4. QED
      BY <1>3, <2>2, <3>1, <3>2, <3>3
  <2>3. QED
    BY <2>1, <2>2
<1>6. ASSUME NEW q \in DOMAIN P2
      PROVE  /\ P2[q].prev = NoPage <=> q \in Doc
             /\ P2[q].next = NoPage <=> q = R2[P2[q].allocator]
             /\ P2[q].next # NoPage =>
                  /\ P2[q].next \in DOMAIN P2
                  /\ P2[P2[q].next].prev = q /\ P2[P2[q].next].allocator = P2[q].allocator
             /\ P2[q].prev # NoPage => P2[q].prev \in DOMAIN P2 /\ P2[P2[q].prev].next = q
  <2>1. CASE q = d
    BY <2>1 DEF Emptied
  <2>2. CASE q # d
    <3>1. PICK n, b : n = P[q].next /\ b = P[q].prev
      OBVIOUS
    <3>2. /\ b = NoPage <=> q \in Doc
          /\ n = NoPage <=> q = R[P[q].allocator]
          /\ n # NoPage => n \in DOMAIN P /\ P[n].prev = q /\ P[n].allocator = P[q].allocator
          /\ b # NoPage => b \in DOMAIN P /\ P[b].next = q
      BY <1>3, <2>2, <3>1 DEF PagesLinked, Linked
    <3>3. n # NoPage => n \in DOMAIN P2 /\ n # d
      BY <1>3, <1>4, <2>2, <3>2
    <3>4. b # NoPage => b \in DOMAIN P2 /\ b # d
      <4>1. SUFFICES ASSUME b # NoPage PROVE b \in DOMAIN P2 /\ b # d
        OBVIOUS
      <4>2. P[b].allocator = P[q].allocator
        BY <1>1, <1>3, <2>2, <3>2, <4>1 DEF PagesLinked, Linked
      <4>3. QED
        BY <1>3, <1>4, <2>2, <3>2, <4>1, <4>2
    <3>5. R2[P[q].allocator] = R[P[q].allocator]
      BY <1>3, <2>2 DEF Emptied
    <3>6. QED
      BY <1>3, <2>2, <3>1, <3>2, <3>3, <3>4, <3>5
  <2>3. QED
    BY <2>1, <2>2
<1>7. Linked(P2, R2)
  BY <1>5, <1>6 DEF Linked
<1>8. ASSUME NEW c \in Doc, c # d PROVE Pages(P, c) \subseteq Pages(P2, c)
  <2> DEFINE S == {q \in DOMAIN P : q \in Pages(P2, c)}
  <2>1. c \in S
    BY PagesStart DEF PagesLinked, PagesTyped
  <2>2. ASSUME NEW q \in S PROVE P[q].next \in S \cup {NoPage}
    <3>1. SUFFICES ASSUME P[q].next # NoPage PROVE P[q].next \in S
      OBVIOUS
    <3>2. q \in DOMAIN P2 /\ P2[q].allocator = c /\ q # d
      <4>1. q \in {r \in DOMAIN P2 : P2[r].allocator = c}
        <5>1. c \in {r \in DOMAIN P2 : P2[r].allocator = c}
          BY <1>5 DEF PagesTyped
        <5>2. \A r \in {x \in DOMAIN P2 : P2[x].allocator = c} :
                P2[r].next \in {x \in DOMAIN P2 : P2[x].allocator = c} \cup {NoPage}
          BY <1>6
        <5>3. Pages(P2, c) \subseteq {r \in DOMAIN P2 : P2[r].allocator = c}
          BY <5>1, <5>2, PagesLeast
        <5>4. QED
          BY <5>3
      <4>2. QED
        BY <1>8, <4>1 DEF Emptied
    <3>3. P2[q].next = P[q].next /\ P[q].next \in DOMAIN P2
      BY <1>3, <1>6, <3>1, <3>2
    <3>4. P2[q].next \in Pages(P2, c)
      BY <1>1, <3>3, PagesNext
    <3>5. P[q].next \in DOMAIN P
      BY <3>1 DEF PagesLinked, Linked
    <3>6. QED
      BY <3>3, <3>4, <3>5
  <2>3. Pages(P, c) \subseteq S
    BY <2>1, <2>2, PagesLeast
  <2>4. QED
    BY <2>3
<1>9. PagesReached(P2)
  <2>1. ASSUME NEW q \in DOMAIN P2 PROVE q \in Pages(P2, P2[q].allocator)
    <3>1. CASE q = d
      BY <3>1, PagesStart DEF Emptied
    <3>2. CASE q # d
      <4>1. q \in Pages(P, P[q].allocator)
        BY <1>3, <3>2 DEF PagesLinked, PagesReached
      <4>2. QED
        BY <1>3, <1>8, <3>2, <4>1
    <3>3. QED
      BY <3>1, <3>2
  <2>2. QED
    BY <2>1 DEF PagesReached
<1>10. QED
  BY <1>7, <1>9 DEF PagesLinked

\* The pages of e but its sentinel given to d, which has none.
TakenOver(P, R, P2, R2, d, e) ==
  /\ DOMAIN P2 = DOMAIN P
  /\ \A q \in DOMAIN P :
       /\ P2[q].allocator = IF q \in Pages(P, e) \ {e} THEN d ELSE P[q].allocator
       /\ P2[q].prev = IF q = P[e].next THEN d ELSE P[q].prev
       /\ P2[q].next = IF q = d THEN P[e].next ELSE IF q = e THEN NoPage ELSE P[q].next
  /\ \A c \in Doc : R2[c] = IF c = e THEN e ELSE IF c = d THEN R[e] ELSE R[c]

LEMMA TakenOverListed ==
  ASSUME NEW P, NEW R, NEW P2, NEW R2, NEW d \in Doc, NEW e \in Doc, d # e, PagesLinked(P, R), R[d] = d, R[e] # e,
         TakenOver(P, R, P2, R2, d, e), PagesTyped(P2)
  PROVE  PagesLinked(P2, R2)
<1>1. NoPage \notin DOMAIN P2 /\ NoPage \notin DOMAIN P /\ DOMAIN P2 = DOMAIN P
  BY NoPageIsNone DEF PagesTyped, PagesLinked, TakenOver
<1>2. PICK n : n = P[e].next
  OBVIOUS
<1>3. /\ d \in DOMAIN P /\ e \in DOMAIN P /\ P[d].allocator = d /\ P[e].allocator = e
      /\ P[d].next = NoPage /\ P[d].prev = NoPage /\ P[e].prev = NoPage
  BY DEF PagesLinked, Linked, PagesTyped
<1>4. n \in DOMAIN P /\ n # NoPage /\ P[n].prev = e /\ P[n].allocator = e /\ n \notin Doc
  <2>1. n # NoPage
    BY <1>2, <1>3 DEF PagesLinked, Linked
  <2>2. n \in DOMAIN P /\ P[n].prev = e /\ P[n].allocator = e
    BY <1>2, <1>3, <2>1 DEF PagesLinked, Linked
  <2>3. n \notin Doc
    BY <1>1, <1>3, <2>2 DEF PagesLinked, Linked
  <2>4. QED
    BY <2>1, <2>2, <2>3
<1>5. \A q \in DOMAIN P : q \in Pages(P, e) <=> P[q].allocator = e
  BY PagesAre DEF PagesLinked
<1>6. ASSUME NEW q \in DOMAIN P
      PROVE  /\ P[q].allocator \in Doc
             /\ P2[q].allocator = IF P[q].allocator = e /\ q # e THEN d ELSE P[q].allocator
             /\ P2[q].prev = IF q = n THEN d ELSE P[q].prev
             /\ P2[q].next = IF q = d THEN n ELSE IF q = e THEN NoPage ELSE P[q].next
             /\ P[q].prev = e <=> q = n
             /\ P[q].prev # d
             /\ q # e => P[q].next # n
  <2>1. P[q].allocator \in Doc
    BY DEF PagesLinked, PagesTyped, PageRec
  <2>2. /\ P2[q].allocator = IF P[q].allocator = e /\ q # e THEN d ELSE P[q].allocator
        /\ P2[q].prev = IF q = n THEN d ELSE P[q].prev
        /\ P2[q].next = IF q = d THEN n ELSE IF q = e THEN NoPage ELSE P[q].next
    BY <1>2, <1>5 DEF TakenOver
  <2>3. P[q].prev = e => P[e].next = q
    BY <1>1, <1>3 DEF PagesLinked, Linked
  <2>4. P[q].prev = d => P[d].next = q
    BY <1>1, <1>3 DEF PagesLinked, Linked
  <2>5. P[q].next = n => P[n].prev = q
    BY <1>4 DEF PagesLinked, Linked
  <2>6. QED
    BY <1>1, <1>2, <1>3, <1>4, <2>1, <2>2, <2>3, <2>4, <2>5
<1>7. ASSUME NEW c \in Doc
      PROVE  R2[c] \in DOMAIN P2 /\ P2[c].allocator = c /\ P2[R2[c]].allocator = c
  <2>1. c \in DOMAIN P /\ P[c].allocator = c /\ R[c] \in DOMAIN P /\ P[R[c]].allocator = c
    BY DEF PagesLinked, Linked, PagesTyped
  <2>2. R2[c] = IF c = e THEN e ELSE IF c = d THEN R[e] ELSE R[c]
    BY DEF TakenOver
  <2>3. P2[c].allocator = c
    BY <1>6, <2>1
  <2>4. R[e] \in DOMAIN P /\ P[R[e]].allocator = e
    BY DEF PagesLinked, Linked
  <2>5. CASE c = e
    BY <1>1, <2>1, <2>2, <2>3, <2>5
  <2>6. CASE c = d
    <3>1. R2[c] = R[e]
      BY <2>2, <2>6
    <3>2. P2[R[e]].allocator = d
      BY <1>6, <2>4
    <3>3. QED
      BY <1>1, <2>3, <2>4, <2>6, <3>1, <3>2
  <2>7. CASE c \notin {d, e}
    BY <1>1, <1>6, <2>1, <2>2, <2>3, <2>7
  <2>8. QED
    BY <2>5, <2>6, <2>7
<1>8. R[e] \in DOMAIN P /\ \A q \in DOMAIN P : P[q].allocator = e => (P[q].next = NoPage <=> q = R[e])
  BY DEF PagesLinked, Linked
<1>9. /\ R2[e] = e /\ R2[d] = R[e]
      /\ \A c \in Doc : c \notin {d, e} => R2[c] = R[c]
  BY DEF TakenOver
<1>10. ASSUME NEW q \in DOMAIN P2
       PROVE  /\ P2[q].prev = NoPage <=> q \in Doc
              /\ P2[q].next = NoPage <=> q = R2[P2[q].allocator]
              /\ P2[q].next # NoPage =>
                   /\ P2[q].next \in DOMAIN P2
                   /\ P2[P2[q].next].prev = q /\ P2[P2[q].next].allocator = P2[q].allocator
              /\ P2[q].prev # NoPage => P2[q].prev \in DOMAIN P2 /\ P2[P2[q].prev].next = q
  <2>1. q \in DOMAIN P
    BY <1>1
  <2>2. /\ P[q].prev = NoPage <=> q \in Doc
        /\ P[q].next = NoPage <=> q = R[P[q].allocator]
        /\ P[q].next # NoPage =>
             /\ P[q].next \in DOMAIN P
             /\ P[P[q].next].prev = q /\ P[P[q].next].allocator = P[q].allocator
        /\ P[q].prev # NoPage => P[q].prev \in DOMAIN P /\ P[P[q].prev].next = q
    BY <2>1 DEF PagesLinked, Linked
  <2>3. P2[q].prev = NoPage <=> q \in Doc
    BY <1>1, <1>3, <1>4, <1>6, <2>1, <2>2
  <2>4. CASE q = d
    <3>1. P2[q].allocator = d /\ P2[q].next = n /\ P2[q].prev = NoPage
      BY <1>3, <1>4, <1>6, <2>1, <2>4
    <3>2. P2[n].prev = d /\ P2[n].allocator = d /\ n \in DOMAIN P2
      BY <1>1, <1>3, <1>4, <1>6
    <3>3. d # R[e]
      BY <1>3, <1>8 DEF PagesLinked, Linked
    <3>4. QED
      BY <1>4, <1>9, <2>3, <2>4, <3>1, <3>2, <3>3
  <2>5. CASE q = e
    <3>1. P2[q].allocator = e /\ P2[q].next = NoPage /\ P2[q].prev = NoPage
      BY <1>3, <1>4, <1>6, <2>1, <2>5
    <3>2. QED
      BY <1>9, <2>3, <2>5, <3>1
  <2>6. CASE q \notin {d, e}
    <3>1. P2[q].next = P[q].next /\ P[q].next # n
      BY <1>6, <2>1, <2>6
    <3>2. P2[q].next = NoPage <=> q = R2[P2[q].allocator]
      <4>1. CASE P[q].allocator = e
        <5>1. P2[q].allocator = d
          BY <1>6, <2>1, <2>6, <4>1
        <5>2. QED
          BY <1>9, <2>2, <3>1, <4>1, <5>1
      <4>2. CASE P[q].allocator = d
        <5>1. P2[q].allocator = d /\ P[q].next # NoPage
          BY <1>6, <2>1, <2>2, <2>6, <4>2
        <5>2. R[e] # q
          BY <1>8, <3>1, <4>2, <5>1 DEF PagesLinked, Linked
        <5>3. QED
          BY <1>9, <3>1, <5>1, <5>2
      <4>3. CASE P[q].allocator \notin {d, e}
        BY <1>6, <1>9, <2>1, <2>2, <3>1, <4>3
      <4>4. QED
        BY <4>1, <4>2, <4>3
    <3>3. P2[q].next # NoPage =>
            /\ P2[q].next \in DOMAIN P2
            /\ P2[P2[q].next].prev = q /\ P2[P2[q].next].allocator = P2[q].allocator
      <4>1. SUFFICES ASSUME P[q].next # NoPage
                     PROVE  /\ P[q].next \in DOMAIN P2 /\ P2[P[q].next].prev = q
                            /\ P2[P[q].next].allocator = P2[q].allocator
        BY <3>1
      <4>2. PICK r : r = P[q].next
        OBVIOUS
      <4>3. r \in DOMAIN P /\ P[r].prev = q /\ P[r].allocator = P[q].allocator /\ r # n
        BY <2>2, <3>1, <4>1, <4>2
      <4>4. r # e
        BY <1>1, <1>3, <2>1, <4>3
      <4>5. P2[r].prev = q
        BY <1>6, <4>3
      <4>6. P2[r].allocator = P2[q].allocator
        BY <1>6, <2>1, <2>6, <4>3, <4>4
      <4>7. QED
        BY <1>1, <4>2, <4>3, <4>5, <4>6
    <3>4. P2[q].prev # NoPage => P2[q].prev \in DOMAIN P2 /\ P2[P2[q].prev].next = q
      <4>1. CASE q = n
        BY <1>1, <1>3, <1>6, <2>1, <4>1
      <4>2. CASE q # n
        <5>1. P2[q].prev = P[q].prev /\ P[q].prev # e /\ P[q].prev # d
          BY <1>6, <2>1, <4>2
        <5>2. P[q].prev # NoPage => P2[P[q].prev].next = q
          BY <1>6, <2>2, <5>1
        <5>3. QED
          BY <1>1, <2>2, <5>1, <5>2
      <4>3. QED
        BY <4>1, <4>2
    <3>5. QED
      BY <2>3, <3>2, <3>3, <3>4
  <2>7. QED
    BY <2>4, <2>5, <2>6
<1>11. Linked(P2, R2)
  BY <1>7, <1>10 DEF Linked
<1>12. Pages(P, e) \ {e} \subseteq Pages(P2, d)
  <2> DEFINE S == {q \in DOMAIN P : q # e => q \in Pages(P2, d)}
  <2>1. e \in S
    BY <1>3
  <2>2. d \in Pages(P2, d) /\ P2[d].next = n
    BY <1>1, <1>3, <1>6, PagesStart
  <2>3. ASSUME NEW q \in S PROVE P[q].next \in S \cup {NoPage}
    <3>1. SUFFICES ASSUME P[q].next # NoPage PROVE P[q].next \in S
      OBVIOUS
    <3>2. P[q].next \in DOMAIN P
      BY <3>1 DEF PagesLinked, Linked
    <3>3. CASE q = e
      <4>1. n \in Pages(P2, d)
        BY <1>1, <1>4, <2>2, PagesNext
      <4>2. QED
        BY <1>2, <1>4, <3>3, <4>1
    <3>4. CASE q # e
      <4>1. q # d
        BY <1>3, <3>1
      <4>2. q \in Pages(P2, d) /\ P2[q].next = P[q].next
        BY <1>6, <3>4, <4>1
      <4>3. P2[q].next \in Pages(P2, d)
        BY <1>1, <3>2, <4>2, PagesNext
      <4>4. QED
        BY <3>2, <4>2, <4>3
    <3>5. QED
      BY <3>3, <3>4
  <2>4. Pages(P, e) \subseteq S
    BY <2>1, <2>3, PagesLeast
  <2>5. QED
    BY <2>4
<1>13. ASSUME NEW c \in Doc, c \notin {d, e} PROVE Pages(P, c) \subseteq Pages(P2, c)
  <2> DEFINE S == {q \in DOMAIN P : P[q].allocator = c /\ q \in Pages(P2, c)}
  <2>1. c \in S
    BY <1>1, PagesStart DEF PagesLinked, PagesTyped, Linked
  <2>2. ASSUME NEW q \in S PROVE P[q].next \in S \cup {NoPage}
    <3>1. SUFFICES ASSUME P[q].next # NoPage PROVE P[q].next \in S
      OBVIOUS
    <3>2. P[q].next \in DOMAIN P /\ P[P[q].next].allocator = c
      BY <3>1 DEF PagesLinked, Linked
    <3>3. P2[q].next = P[q].next
      BY <1>3, <1>6, <1>13
    <3>4. P2[q].next \in Pages(P2, c)
      BY <1>1, <3>2, <3>3, PagesNext
    <3>5. QED
      BY <3>2, <3>3, <3>4
  <2>3. Pages(P, c) \subseteq S
    BY <2>1, <2>2, PagesLeast
  <2>4. QED
    BY <2>3
<1>14. \A q \in DOMAIN P : P[q].allocator = d => q = d
  <2>1. {d} \in SUBSET DOMAIN P /\ P[d].next \in {d} \cup {NoPage}
    BY <1>3
  <2>2. Pages(P, d) \subseteq {d}
    BY <2>1, PagesLeast
  <2>3. QED
    BY <2>2 DEF PagesLinked, PagesReached
<1>15. PagesReached(P2)
  <2>1. ASSUME NEW q \in DOMAIN P2 PROVE q \in Pages(P2, P2[q].allocator)
    <3>1. q \in DOMAIN P /\ q \in Pages(P, P[q].allocator)
      BY <1>1 DEF PagesLinked, PagesReached
    <3>2. CASE q \in Doc
      <4>1. P2[q].allocator = q
        BY <1>7, <3>2
      <4>2. QED
        BY <4>1, PagesStart
    <3>3. CASE q \notin Doc /\ P[q].allocator = e
      <4>1. P2[q].allocator = d
        BY <1>6, <3>1, <3>3
      <4>2. QED
        BY <1>12, <3>1, <3>3, <4>1
    <3>4. CASE q \notin Doc /\ P[q].allocator # e
      <4>1. P2[q].allocator = P[q].allocator /\ P[q].allocator \in Doc /\ P[q].allocator # d
        BY <1>6, <1>14, <3>1, <3>4
      <4>2. QED
        BY <1>13, <3>1, <3>4, <4>1
    <3>5. QED
      BY <3>2, <3>3, <3>4
  <2>2. QED
    BY <2>1 DEF PagesReached
<1>16. QED
  BY <1>11, <1>15 DEF PagesLinked
-----------------------------------------------------------------------------
(* The counts of the pages. *)

AllPages == UNION {[S -> PageRec] : S \in SUBSET (Doc \cup Page)}
Memories == [page : AllPages, root : [Doc -> Doc \cup Page], busy : [Doc -> 0..PageSize], ok : BOOLEAN]

LiesIn(L, p) == \E o \in L : o.page = p

\* What is in a page or was freed is all that was handed out of it; only the
\* page allocated from may be empty, and nothing of it is handed out then.
Counted(m, L) ==
  /\ \A d \in Doc : m.page[d].busy = PageSize /\ (m.root[d] = d => m.busy[d] = PageSize)
  /\ \A p \in DOMAIN m.page \ Doc :
       /\ m.page[p].freed + BlocksIn(L, p) = Used(m, p)
       /\ LiesIn(L, p) \/ (p = m.root[m.page[p].allocator] /\ m.busy[m.page[p].allocator] = 0)

Apart(o, q) == o.offset + o.size <= q.offset \/ q.offset + q.size <= o.offset

LiesWell(m, o) ==
  /\ o.page \in DOMAIN m.page
  /\ o.offset + o.size <= Used(m, o.page)
  /\ o.offset = 0 \/ o.offset + o.size <= PageSize
  /\ o.size >= MaxEncoded => m.page[o.page].busy = o.size
Lying(m, L) ==
  /\ \A o \in L : LiesWell(m, o)
  /\ \A o, q \in L : o.page = q.page /\ o # q => Apart(o, q)

Sound(m, L) ==
  /\ m \in Memories /\ m.ok /\ PagesLinked(m.page, m.root)
  /\ Objects(L) /\ Counted(m, L) /\ Lying(m, L)

\* The types of it all, for one page.
LEMMA PageTypes ==
  ASSUME NEW m, NEW L, Sound(m, L), NEW p \in DOMAIN m.page
  PROVE  /\ m.page[p].allocator \in Doc /\ m.page[p].busy \in Nat /\ m.page[p].freed \in Nat
         /\ m.busy[m.page[p].allocator] \in 0..PageSize /\ Used(m, p) \in Nat
         /\ p = m.root[m.page[p].allocator] => Used(m, p) = m.busy[m.page[p].allocator] /\ Used(m, p) <= PageSize
         /\ p # m.root[m.page[p].allocator] => Used(m, p) = m.page[p].busy
<1>1. m.page[p].allocator \in Doc /\ m.page[p].busy \in Nat /\ m.page[p].freed \in Nat
  BY DEF Sound, PagesLinked, PagesTyped, PageRec
<1>2. m.busy[m.page[p].allocator] \in 0..PageSize
  BY <1>1 DEF Sound, Memories
<1>3. /\ p = m.root[m.page[p].allocator] => Used(m, p) = m.busy[m.page[p].allocator]
      /\ p # m.root[m.page[p].allocator] => Used(m, p) = m.page[p].busy
  BY DEF Used
<1>4. QED
  BY <1>1, <1>2, <1>3, MemorySizes

LEMMA ObjectTypes ==
  ASSUME NEW m, NEW L, Sound(m, L), NEW o \in L
  PROVE  /\ o.page \in Page /\ o.page \notin Doc /\ o.page \in DOMAIN m.page
         /\ o.offset \in Nat /\ o.size \in Nat /\ o.size >= 1 /\ o.node \in BOOLEAN
         /\ o.offset + o.size <= Used(m, o.page) /\ (o.offset = 0 \/ o.offset + o.size <= PageSize)
         /\ o.node => o.size = NodeSize
         /\ o.size >= MaxEncoded => m.page[o.page].busy = o.size
         /\ o.size >= MaxEncoded => o.page # m.root[m.page[o.page].allocator]
<1>1. o.page \in Page /\ o.offset \in Nat /\ o.size \in Nat /\ o.size >= 1 /\ o.node \in BOOLEAN
  BY DEF Sound, Objects, Object
<1>2. LiesWell(m, o) /\ (o.node => o.size = NodeSize)
  BY DEF Sound, Lying, Objects
<1>3. o.page \in DOMAIN m.page /\ o.offset + o.size <= Used(m, o.page) /\ (o.offset = 0 \/ o.offset + o.size <= PageSize)
      /\ (o.size >= MaxEncoded => m.page[o.page].busy = o.size)
  BY <1>2 DEF LiesWell
<1>4. o.size >= MaxEncoded => o.page # m.root[m.page[o.page].allocator]
  <2>1. SUFFICES ASSUME o.size >= MaxEncoded, o.page = m.root[m.page[o.page].allocator] PROVE FALSE
    OBVIOUS
  <2>2. Used(m, o.page) <= PageSize /\ Used(m, o.page) \in Nat
    BY <1>3, <2>1, PageTypes
  <2>3. QED
    BY <1>1, <1>3, <2>1, <2>2, MemorySizes
<1>5. QED
  BY <1>1, <1>2, <1>3, <1>4, NoPageIsNone

\* The sum of a page without one of its objects.
LEMMA CountWithout ==
  ASSUME NEW m, NEW L, Sound(m, L), NEW o \in L
  PROVE  /\ Objects(L \ {o})
         /\ BlocksIn(L \ {o}, o.page) \in Nat
         /\ m.page[o.page].freed + o.size + BlocksIn(L \ {o}, o.page) = Used(m, o.page)
         /\ BlocksIn(L \ {o}, o.page) = 0 <=> ~ LiesIn(L \ {o}, o.page)
         /\ \A p : p # o.page => BlocksIn(L \ {o}, p) = BlocksIn(L, p) /\ (LiesIn(L, p) => LiesIn(L \ {o}, p))
<1>1. Objects(L) /\ Objects(L \ {o})
  BY FS_Subset DEF Sound, Objects
<1>2. PICK p : p = o.page
  OBVIOUS
<1>3. BlocksIn(L \ {o}, p) \in Nat /\ BlocksIn(L, p) = o.size + BlocksIn(L \ {o}, p)
  BY <1>1, <1>2, TakenOne, TakenNothing
<1>4. p \in DOMAIN m.page \ Doc /\ o.size \in Nat /\ m.page[p].freed \in Nat /\ Used(m, p) \in Nat
  BY <1>2, ObjectTypes, PageTypes
<1>5. m.page[p].freed + BlocksIn(L, p) = Used(m, p)
  BY <1>4 DEF Sound, Counted
<1>6. m.page[p].freed + o.size + BlocksIn(L \ {o}, p) = Used(m, p)
  BY <1>3, <1>4, <1>5
<1>7. BlocksIn(L \ {o}, p) = 0 <=> ~ LiesIn(L \ {o}, p)
  <2>1. ~ LiesIn(L \ {o}, p) => BlocksIn(L \ {o}, p) = 0
    BY <1>1, TakenNothing DEF LiesIn
  <2>2. ASSUME NEW q \in L \ {o}, q.page = p PROVE BlocksIn(L \ {o}, p) # 0
    <3>1. BlocksIn(L \ {o}, p) >= q.size
      BY <1>1, <2>2, TakenNothing
    <3>2. q.size \in Nat /\ q.size >= 1
      BY ObjectTypes
    <3>3. QED
      BY <1>3, <3>1, <3>2
  <2>3. QED
    BY <2>1, <2>2 DEF LiesIn
<1>8. ASSUME NEW q, q # o.page PROVE BlocksIn(L \ {o}, q) = BlocksIn(L, q) /\ (LiesIn(L, q) => LiesIn(L \ {o}, q))
  <2>1. BlocksIn(L, q) = 0 + BlocksIn(L \ {o}, q) /\ BlocksIn(L \ {o}, q) \in Nat
    BY <1>1, <1>8, TakenOne, TakenNothing
  <2>2. QED
    BY <1>8, <2>1 DEF LiesIn
<1>9. QED
  BY <1>1, <1>2, <1>3, <1>6, <1>7, <1>8

\* What deallocate_memory() does: it counts, empties the page allocated from
\* or gives a page back.
CountsFreed(m, m2, o) ==
  /\ SameLinks(m.page, m2.page) /\ m2.root = m.root /\ m2.busy = m.busy
  /\ \A q \in DOMAIN m.page \ {o.page} : m2.page[q] = m.page[q]
  /\ m2.page[o.page].busy = Used(m, o.page) /\ m2.page[o.page].freed = m.page[o.page].freed + o.size

EmptiesRoot(m, m2, o) ==
  /\ SameLinks(m.page, m2.page) /\ m2.root = m.root
  /\ \A d \in Doc : m2.busy[d] = IF d = m.page[o.page].allocator THEN 0 ELSE m.busy[d]
  /\ \A q \in DOMAIN m.page \ {o.page} : m2.page[q] = m.page[q]
  /\ m2.page[o.page].busy = 0 /\ m2.page[o.page].freed = 0

GivesPageBack(m, m2, o) ==
  /\ TakenOut(m.page, m2.page, o.page) /\ m2.root = m.root /\ m2.busy = m.busy
  /\ \A q \in DOMAIN m2.page : m2.page[q].busy = m.page[q].busy /\ m2.page[q].freed = m.page[q].freed

Typed(m) == m \in Memories /\ m.ok /\ PagesTyped(m.page)

LEMMA TypedFields ==
  ASSUME NEW m, Typed(m)
  PROVE  /\ m = [page |-> m.page, root |-> m.root, busy |-> m.busy, ok |-> m.ok] /\ m.ok = TRUE
         /\ m.page \in [DOMAIN m.page -> PageRec] /\ Doc \subseteq DOMAIN m.page /\ DOMAIN m.page \subseteq Doc \cup Page
         /\ m.root \in [Doc -> Doc \cup Page] /\ m.busy \in [Doc -> 0..PageSize]
BY DEF Typed, Memories, PagesTyped

LEMMA MakesTyped ==
  ASSUME NEW m, NEW P, NEW R, NEW B, NEW k, m = [page |-> P, root |-> R, busy |-> B, ok |-> k], k = TRUE,
         P \in [DOMAIN P -> PageRec], Doc \subseteq DOMAIN P, DOMAIN P \subseteq Doc \cup Page,
         R \in [Doc -> Doc \cup Page], B \in [Doc -> 0..PageSize]
  PROVE  Typed(m)
<1>1. P \in AllPages
  BY DEF AllPages
<1>2. QED
  BY <1>1 DEF Typed, Memories, PagesTyped

\* The page o lies in is the one to deallocate from, and there is enough in it.
LEMMA DeallocateAmount ==
  ASSUME NEW m, NEW L, Sound(m, L), NEW o \in L
  PROVE  /\ m.page[o.page].freed + o.size \in Nat /\ m.page[o.page].freed + o.size <= Used(m, o.page)
         /\ o.offset < Used(m, o.page)
         /\ m.page[o.page].freed + o.size = Used(m, o.page) <=> ~ LiesIn(L \ {o}, o.page)
<1>1. m.page[o.page].freed \in Nat /\ o.size \in Nat /\ o.size >= 1 /\ o.offset \in Nat /\ Used(m, o.page) \in Nat
      /\ o.offset + o.size <= Used(m, o.page)
  BY ObjectTypes, PageTypes
<1>2. PICK t \in Nat : t = BlocksIn(L \ {o}, o.page)
  BY CountWithout
<1>3. m.page[o.page].freed + o.size + t = Used(m, o.page) /\ (t = 0 <=> ~ LiesIn(L \ {o}, o.page))
  BY <1>2, CountWithout
<1>4. QED
  BY <1>1, <1>3

LEMMA SyncedIs ==
  ASSUME NEW m, Typed(m), NEW p \in DOMAIN m.page, NEW a, a = m.page[p].allocator, Used(m, p) \in Nat
  PROVE  /\ Synced(m, a, p) \in PageRec /\ Synced(m, a, p).busy = Used(m, p) /\ Synced(m, a, p).freed = m.page[p].freed
         /\ Synced(m, a, p).next = m.page[p].next /\ Synced(m, a, p).prev = m.page[p].prev
         /\ Synced(m, a, p).allocator = m.page[p].allocator
<1>1. PICK r : r = m.page[p]
  OBVIOUS
<1>2. PICK u \in Nat : u = Used(m, p)
  OBVIOUS
<1>3. r \in PageRec
  BY <1>1, TypedFields
<1>4. CASE p = m.root[a]
  <2>1. Synced(m, a, p) = [r EXCEPT !.busy = u]
    BY <1>1, <1>2, <1>4 DEF Used, Synced
  <2>2. QED
    BY <1>1, <1>2, <1>3, <2>1 DEF PageRec
<1>5. CASE p # m.root[a]
  <2>1. u = r.busy /\ Synced(m, a, p) = r
    BY <1>1, <1>2, <1>5 DEF Used, Synced
  <2>2. QED
    BY <1>1, <1>2, <1>3, <2>1 DEF PageRec
<1>6. QED
  BY <1>4, <1>5

\* The three outcomes.
Counting(m, a, o) ==
  [m EXCEPT !.page = [m.page EXCEPT ![o.page] = [Synced(m, a, o.page) EXCEPT !.freed = m.page[o.page].freed + o.size]],
            !.ok = TRUE]
Emptying(m, a, o) ==
  [m EXCEPT !.page = [m.page EXCEPT ![o.page] = [Synced(m, a, o.page) EXCEPT !.busy = 0, !.freed = 0]],
            !.busy = [m.busy EXCEPT ![a] = 0], !.ok = (m.root[a] = o.page)]
GivingBack(m, a, o) ==
  [m EXCEPT !.page = GivenBack(m, o.page), !.ok = (m.root[a] # o.page /\ m.page[o.page].prev # NoPage)]

LEMMA DeallocateIs ==
  ASSUME NEW m, NEW L, Sound(m, L), NEW o \in L, NEW a, a = m.page[o.page].allocator
  PROVE  Deallocate(m, a, o, o.size) = IF LiesIn(L \ {o}, o.page) THEN Counting(m, a, o)
                                       ELSE IF m.page[o.page].next = NoPage THEN Emptying(m, a, o)
                                       ELSE GivingBack(m, a, o)
<1>1. Typed(m)
  BY DEF Sound, Typed, PagesLinked
<1>2. o.page \in DOMAIN m.page /\ Used(m, o.page) \in Nat
  BY ObjectTypes, PageTypes
<1>3. PICK s : s = Synced(m, a, o.page)
  OBVIOUS
<1>4. s.busy = Used(m, o.page) /\ s.freed = m.page[o.page].freed /\ s.next = m.page[o.page].next /\ s.prev = m.page[o.page].prev
  BY <1>1, <1>2, <1>3, SyncedIs
<1>5. PICK f : f = m.page[o.page].freed + o.size
  OBVIOUS
<1>6. m.ok = TRUE /\ o.offset < s.busy /\ f <= s.busy /\ (f = s.busy <=> ~ LiesIn(L \ {o}, o.page))
  BY <1>1, <1>4, <1>5, DeallocateAmount, TypedFields
<1>7. s.freed + o.size = f
  BY <1>4, <1>5
<1>8. ASSUME LiesIn(L \ {o}, o.page) PROVE Deallocate(m, a, o, o.size) = Counting(m, a, o)
  <2>1. f # s.busy
    BY <1>6, <1>8
  <2>2. QED
    BY ONLY <1>3, <1>5, <1>6, <1>7, <2>1 DEF Deallocate, Counting
<1>9. ASSUME ~ LiesIn(L \ {o}, o.page), m.page[o.page].next = NoPage PROVE Deallocate(m, a, o, o.size) = Emptying(m, a, o)
  <2>1. f = s.busy /\ s.next = NoPage
    BY <1>4, <1>6, <1>9
  <2>2. QED
    BY ONLY <1>3, <1>6, <1>7, <2>1 DEF Deallocate, Emptying
<1>10. ASSUME ~ LiesIn(L \ {o}, o.page), m.page[o.page].next # NoPage PROVE Deallocate(m, a, o, o.size) = GivingBack(m, a, o)
  <2>1. f = s.busy /\ s.next # NoPage
    BY <1>4, <1>6, <1>10
  <2>2. QED
    BY ONLY <1>3, <1>4, <1>6, <1>7, <2>1 DEF Deallocate, GivingBack
<1>11. QED
  BY <1>8, <1>9, <1>10

LEMMA DeallocateCounts ==
  ASSUME NEW m, NEW L, Sound(m, L), NEW o \in L, NEW a, a = m.page[o.page].allocator, LiesIn(L \ {o}, o.page)
  PROVE  Typed(Deallocate(m, a, o, o.size)) /\ CountsFreed(m, Deallocate(m, a, o, o.size), o)
<1>1. Typed(m)
  BY DEF Sound, Typed, PagesLinked
<1> DEFINE p == o.page
           freed == m.page[p].freed + o.size
           rec == [Synced(m, a, p) EXCEPT !.freed = freed]
           P2 == [m.page EXCEPT ![p] = rec]
           m2 == [page |-> P2, root |-> m.root, busy |-> m.busy, ok |-> TRUE]
<1>2. p \in DOMAIN m.page /\ a \in Doc
  BY ObjectTypes, PageTypes
<1>3. freed # Used(m, p) /\ freed <= Used(m, p) /\ o.offset < Used(m, p) /\ freed \in Nat
  BY DeallocateAmount
<1>4. m.page[p] \in PageRec /\ Used(m, p) \in Nat
  BY <1>1, <1>2, PageTypes, TypedFields
<1>5. Deallocate(m, a, o, o.size) = m2
  <2>1. Deallocate(m, a, o, o.size) = [m EXCEPT !.page = P2, !.ok = TRUE]
    BY DeallocateIs DEF Counting
  <2> HIDE DEF P2
  <2>2. QED
    BY <1>1, <2>1, TypedFields
<1>6. rec \in PageRec /\ rec.busy = Used(m, p) /\ rec.freed = freed
      /\ rec.allocator = m.page[p].allocator /\ rec.prev = m.page[p].prev /\ rec.next = m.page[p].next
  BY <1>1, <1>2, <1>3, <1>4, SyncedIs DEF PageRec
<1>7. P2 \in [DOMAIN m.page -> PageRec] /\ P2[p] = rec /\ (\A q \in DOMAIN m.page \ {p} : P2[q] = m.page[q])
      /\ DOMAIN P2 = DOMAIN m.page
  BY <1>1, <1>2, <1>6, TypedFields
<1> HIDE DEF rec, P2
<1>8. Typed(m2)
  BY <1>1, <1>7, MakesTyped, TypedFields
<1>9. CountsFreed(m, m2, o)
  BY <1>2, <1>6, <1>7 DEF CountsFreed, SameLinks
<1>10. QED
  BY <1>5, <1>8, <1>9

LEMMA DeallocateEmpties ==
  ASSUME NEW m, NEW L, Sound(m, L), NEW o \in L, NEW a, a = m.page[o.page].allocator, ~ LiesIn(L \ {o}, o.page),
         m.page[o.page].next = NoPage
  PROVE  /\ Typed(Deallocate(m, a, o, o.size)) /\ EmptiesRoot(m, Deallocate(m, a, o, o.size), o)
         /\ o.page = m.root[a]
<1>1. Typed(m)
  BY DEF Sound, Typed, PagesLinked
<1> DEFINE p == o.page
           rec == [Synced(m, a, p) EXCEPT !.busy = 0, !.freed = 0]
           P2 == [m.page EXCEPT ![p] = rec]
           B2 == [m.busy EXCEPT ![a] = 0]
           m2 == [page |-> P2, root |-> m.root, busy |-> B2, ok |-> TRUE]
<1>2. p \in DOMAIN m.page /\ a \in Doc
  BY ObjectTypes, PageTypes
<1>3. m.page[p].freed + o.size = Used(m, p) /\ o.offset < Used(m, p) /\ Used(m, p) <= Used(m, p)
  BY <1>2, DeallocateAmount, PageTypes
<1>4. m.page[p] \in PageRec
  BY <1>1, <1>2, TypedFields
<1>5. p = m.root[a]
  BY <1>2 DEF Sound, PagesLinked, Linked
<1>6. Deallocate(m, a, o, o.size) = m2
  <2>1. Deallocate(m, a, o, o.size) = [m EXCEPT !.page = P2, !.busy = B2, !.ok = (m.root[a] = p)]
    <3>1. Deallocate(m, a, o, o.size) = Emptying(m, a, o)
      BY DeallocateIs
    <3>2. QED
      BY ONLY <3>1 DEF Emptying
  <2>2. PICK k \in BOOLEAN : k = (m.root[a] = p)
    OBVIOUS
  <2>3. k = TRUE
    BY <1>5, <2>2
  <2> HIDE DEF P2, B2
  <2>4. Deallocate(m, a, o, o.size) = [m EXCEPT !.page = P2, !.busy = B2, !.ok = TRUE]
    BY ONLY <2>1, <2>2, <2>3
  <2>5. m = [page |-> m.page, root |-> m.root, busy |-> m.busy, ok |-> m.ok]
    BY <1>1, TypedFields
  <2>6. QED
    BY ONLY <2>4, <2>5
<1>7. rec \in PageRec /\ rec.busy = 0 /\ rec.freed = 0
      /\ rec.allocator = m.page[p].allocator /\ rec.prev = m.page[p].prev /\ rec.next = m.page[p].next
  <2>1. Used(m, p) \in Nat
    BY <1>2, PageTypes
  <2>2. PICK s : s = Synced(m, a, p)
    OBVIOUS
  <2>3. s \in PageRec /\ s.next = m.page[p].next /\ s.prev = m.page[p].prev /\ s.allocator = m.page[p].allocator
    BY <1>1, <1>2, <2>1, <2>2, SyncedIs
  <2>4. rec = [s EXCEPT !.busy = 0, !.freed = 0]
    BY ONLY <2>2
  <2> HIDE DEF rec
  <2>5. QED
    BY ONLY <2>3, <2>4 DEF PageRec
<1>8. P2 \in [DOMAIN m.page -> PageRec] /\ P2[p] = rec /\ (\A q \in DOMAIN m.page \ {p} : P2[q] = m.page[q])
      /\ DOMAIN P2 = DOMAIN m.page
  BY <1>1, <1>2, <1>7, TypedFields
<1>9. B2 \in [Doc -> 0..PageSize] /\ \A d \in Doc : B2[d] = IF d = a THEN 0 ELSE m.busy[d]
  <2>1. 0 \in 0..PageSize
    BY MemorySizes
  <2>2. m.busy \in [Doc -> 0..PageSize]
    BY <1>1, TypedFields
  <2>3. QED
    BY <1>2, <2>1, <2>2
<1> HIDE DEF rec, P2, B2
<1>10. Typed(m2)
  <2>1. /\ P2 \in [DOMAIN P2 -> PageRec] /\ Doc \subseteq DOMAIN P2 /\ DOMAIN P2 \subseteq Doc \cup Page
        /\ m.root \in [Doc -> Doc \cup Page] /\ B2 \in [Doc -> 0..PageSize]
    BY <1>1, <1>8, <1>9, TypedFields
  <2>2. PICK k : k = TRUE
    OBVIOUS
  <2>3. m2 = [page |-> P2, root |-> m.root, busy |-> B2, ok |-> k]
    BY <2>2
  <2> HIDE DEF m2
  <2>4. QED
    BY ONLY <2>1, <2>2, <2>3, MakesTyped
<1>11. EmptiesRoot(m, m2, o)
  BY <1>2, <1>7, <1>8, <1>9 DEF EmptiesRoot, SameLinks
<1>12. QED
  BY <1>5, <1>6, <1>10, <1>11

LEMMA DeallocateGivesBack ==
  ASSUME NEW m, NEW L, Sound(m, L), NEW o \in L, NEW a, a = m.page[o.page].allocator, ~ LiesIn(L \ {o}, o.page),
         m.page[o.page].next # NoPage
  PROVE  Typed(Deallocate(m, a, o, o.size)) /\ GivesPageBack(m, Deallocate(m, a, o, o.size), o)
<1>1. Typed(m)
  BY DEF Sound, Typed, PagesLinked
<1> DEFINE p == o.page
           P2 == GivenBack(m, p)
           m2 == [page |-> P2, root |-> m.root, busy |-> m.busy, ok |-> TRUE]
<1>2. p \in DOMAIN m.page /\ a \in Doc /\ p \notin Doc
  BY ObjectTypes, PageTypes
<1>3. m.page[p].freed + o.size = Used(m, p) /\ o.offset < Used(m, p) /\ Used(m, p) <= Used(m, p)
  BY <1>2, DeallocateAmount, PageTypes
<1>4. p # m.root[a] /\ m.page[p].prev # NoPage
  BY <1>2 DEF Sound, PagesLinked, Linked
<1>5. Deallocate(m, a, o, o.size) = m2
  <2>1. Used(m, p) = m.page[p].busy
    BY <1>4 DEF Used
  <2>2. Deallocate(m, a, o, o.size) = GivingBack(m, a, o)
    BY DeallocateIs
  <2>3. PICK k \in BOOLEAN : k = (m.root[a] # p /\ m.page[p].prev # NoPage)
    OBVIOUS
  <2>4. k = TRUE
    BY <1>4, <2>3
  <2>5. GivingBack(m, a, o) = [m EXCEPT !.page = P2, !.ok = k]
    BY ONLY <2>3 DEF GivingBack
  <2> HIDE DEF P2
  <2>6. m = [page |-> m.page, root |-> m.root, busy |-> m.busy, ok |-> m.ok]
    BY <1>1, TypedFields
  <2>7. QED
    BY ONLY <2>2, <2>4, <2>5, <2>6
<1>6. m.page[p] \in PageRec /\ m.page[p].prev # m.page[p].next
  <2>1. m.page[p] \in PageRec
    BY <1>1, <1>2, TypedFields
  <2>2. SUFFICES ASSUME m.page[p].prev = m.page[p].next PROVE FALSE
    BY <2>1
  <2>3. PagesLinked(m.page, m.root)
    BY DEF Sound
  <2>4. PICK b : b = m.page[p].prev
    OBVIOUS
  <2>5. b \in DOMAIN m.page /\ m.page[b].next = p /\ m.page[b].prev = p
    BY <1>2, <1>4, <2>2, <2>3, <2>4 DEF PagesLinked, Linked
  <2> DEFINE S == DOMAIN m.page \ {p, b}
  <2>6. a \in S
    <3>0. a \in DOMAIN m.page /\ p # NoPage /\ a # p
      BY <1>1, <1>2, NoPageIsNone, TypedFields
    <3>1. m.page[a].prev = NoPage /\ p # NoPage /\ a \in DOMAIN m.page /\ a # p
      BY <1>2, <2>3, <3>0 DEF PagesLinked, Linked
    <3>2. QED
      BY <2>5, <3>1
  <2>7. \A q \in S : m.page[q].next \in S \cup {NoPage}
    <3>1. SUFFICES ASSUME NEW q \in S, m.page[q].next # NoPage PROVE m.page[q].next \in S
      OBVIOUS
    <3>2. m.page[q].next \in DOMAIN m.page /\ m.page[m.page[q].next].prev = q
      BY <2>3, <3>1 DEF PagesLinked, Linked
    <3>3. QED
      BY <2>4, <2>5, <3>2
  <2>8. Pages(m.page, a) \subseteq S
    <3>1. S \in SUBSET DOMAIN m.page
      OBVIOUS
    <3> HIDE DEF S
    <3>2. QED
      BY <2>6, <2>7, <3>1, PagesLeast
  <2>9. QED
    BY <1>2, <2>3, <2>8 DEF PagesLinked, PagesReached
<1>7. ASSUME NEW q \in DOMAIN m.page \ {p}
      PROVE  /\ P2[q] \in PageRec
             /\ P2[q].allocator = m.page[q].allocator /\ P2[q].busy = m.page[q].busy /\ P2[q].freed = m.page[q].freed
             /\ P2[q].prev = IF q = m.page[p].next THEN m.page[p].prev ELSE m.page[q].prev
             /\ P2[q].next = IF q = m.page[p].prev THEN m.page[p].next ELSE m.page[q].next
  <2>1. m.page[q] \in PageRec
    BY <1>1, TypedFields
  <2>2. P2[q] = CASE q = m.page[p].prev -> [m.page[q] EXCEPT !.next = m.page[p].next]
                  [] q = m.page[p].next -> [m.page[q] EXCEPT !.prev = m.page[p].prev]
                  [] OTHER -> m.page[q]
    BY DEF GivenBack
  <2>3. CASE q = m.page[p].prev
    <3>1. P2[q] = [m.page[q] EXCEPT !.next = m.page[p].next]
      BY <1>6, <2>2, <2>3
    <3>2. QED
      BY <1>6, <2>1, <2>3, <3>1 DEF PageRec
  <2>4. CASE q = m.page[p].next
    <3>1. P2[q] = [m.page[q] EXCEPT !.prev = m.page[p].prev]
      BY <1>6, <2>2, <2>4
    <3>2. QED
      BY <1>6, <2>1, <2>4, <3>1 DEF PageRec
  <2>5. CASE q # m.page[p].prev /\ q # m.page[p].next
    BY <2>1, <2>2, <2>5
  <2>6. QED
    BY <2>3, <2>4, <2>5
<1>8. P2 \in [DOMAIN P2 -> PageRec] /\ DOMAIN P2 = DOMAIN m.page \ {p}
  <2>1. DOMAIN P2 = DOMAIN m.page \ {p} /\ P2 = [q \in DOMAIN P2 |-> P2[q]]
    BY DEF GivenBack
  <2>2. QED
    BY <1>7, <2>1
<1>9. Typed(m2)
  <2>1. Doc \subseteq DOMAIN P2 /\ DOMAIN P2 \subseteq Doc \cup Page
    BY <1>1, <1>2, <1>8, TypedFields
  <2> HIDE DEF P2
  <2>2. QED
    BY <1>1, <1>8, <2>1, MakesTyped, TypedFields
<1> HIDE DEF P2
<1>10. GivesPageBack(m, m2, o)
  BY <1>7, <1>8 DEF GivesPageBack, TakenOut
<1>11. QED
  BY <1>5, <1>9, <1>10

\* Away from page p everything is as it was.
SameElsewhere(m, m2, p) ==
  /\ DOMAIN m2.page \subseteq DOMAIN m.page /\ DOMAIN m.page \subseteq DOMAIN m2.page \cup {p} /\ m2.root = m.root
  /\ \A q \in DOMAIN m2.page \ {p} :
       /\ m2.page[q].allocator = m.page[q].allocator /\ m2.page[q].busy = m.page[q].busy
       /\ m2.page[q].freed = m.page[q].freed /\ Used(m2, q) = Used(m, q)
       /\ q = m.root[m.page[q].allocator] => m2.busy[m.page[q].allocator] = m.busy[m.page[q].allocator]

\* What is left in the page of what was freed.
LeftIn(m, m2, L, p) ==
  /\ p \in DOMAIN m2.page =>
       /\ m2.page[p].freed + BlocksIn(L, p) = Used(m2, p)
       /\ LiesIn(L, p) \/ (p = m2.root[m2.page[p].allocator] /\ m2.busy[m2.page[p].allocator] = 0)
  /\ LiesIn(L, p) =>
       /\ p \in DOMAIN m2.page /\ Used(m2, p) = Used(m, p)
       /\ m2.page[p].busy = m.page[p].busy \/ p = m.root[m.page[p].allocator]

LEMMA SoundWithout ==
  ASSUME NEW m, NEW L, Sound(m, L), NEW o \in L, NEW m2, Typed(m2), PagesLinked(m2.page, m2.root),
         SameElsewhere(m, m2, o.page), LeftIn(m, m2, L \ {o}, o.page)
  PROVE  Sound(m2, L \ {o})
<1> DEFINE p == o.page
           M == L \ {o}
<1>1. p \in DOMAIN m.page /\ p \notin Doc
  BY ObjectTypes
<1>2. Objects(M)
  BY CountWithout
<1>3. Counted(m2, M)
  <2>1. ASSUME NEW d \in Doc PROVE m2.page[d].busy = PageSize /\ (m2.root[d] = d => m2.busy[d] = PageSize)
    <3>1. d # p /\ d \in DOMAIN m2.page
      BY <1>1 DEF Typed, PagesTyped
    <3>2. m.page[d].busy = PageSize /\ (m.root[d] = d => m.busy[d] = PageSize) /\ m.page[d].allocator = d
      BY DEF Sound, Counted, PagesLinked, Linked
    <3>3. QED
      BY <3>1, <3>2 DEF SameElsewhere
  <2>2. ASSUME NEW q \in DOMAIN m2.page \ Doc
        PROVE  /\ m2.page[q].freed + BlocksIn(M, q) = Used(m2, q)
               /\ LiesIn(M, q) \/ (q = m2.root[m2.page[q].allocator] /\ m2.busy[m2.page[q].allocator] = 0)
    <3>1. CASE q = p
      BY <2>2, <3>1 DEF LeftIn
    <3>2. CASE q # p
      <4>1. q \in DOMAIN m.page \ Doc /\ q \in DOMAIN m2.page \ {p}
        BY <2>2, <3>2 DEF SameElsewhere
      <4>2. m.page[q].freed + BlocksIn(L, q) = Used(m, q)
            /\ (LiesIn(L, q) \/ (q = m.root[m.page[q].allocator] /\ m.busy[m.page[q].allocator] = 0))
        BY <4>1 DEF Sound, Counted
      <4>3. BlocksIn(M, q) = BlocksIn(L, q) /\ (LiesIn(L, q) => LiesIn(M, q))
        BY <3>2, CountWithout
      <4>4. m2.page[q].freed = m.page[q].freed /\ Used(m2, q) = Used(m, q) /\ m2.root = m.root
            /\ m2.page[q].allocator = m.page[q].allocator
            /\ (q = m.root[m.page[q].allocator] => m2.busy[m.page[q].allocator] = m.busy[m.page[q].allocator])
        BY <4>1 DEF SameElsewhere
      <4>5. m2.page[q].freed + BlocksIn(M, q) = Used(m2, q)
        BY <4>2, <4>3, <4>4
      <4>6. LiesIn(M, q) \/ (q = m2.root[m2.page[q].allocator] /\ m2.busy[m2.page[q].allocator] = 0)
        BY <4>2, <4>3, <4>4
      <4>7. QED
        BY <4>5, <4>6
    <3>3. QED
      BY <3>1, <3>2
  <2>3. QED
    BY <2>1, <2>2 DEF Counted
<1>4. Lying(m2, M)
  <2>1. ASSUME NEW q \in M PROVE LiesWell(m2, q)
    <3>1. /\ q.page \in DOMAIN m.page
          /\ q.offset + q.size <= Used(m, q.page) /\ (q.offset = 0 \/ q.offset + q.size <= PageSize)
          /\ q.size >= MaxEncoded => m.page[q.page].busy = q.size
          /\ q.size >= MaxEncoded => q.page # m.root[m.page[q.page].allocator]
      BY ObjectTypes
    <3>2. /\ q.page \in DOMAIN m2.page /\ Used(m2, q.page) = Used(m, q.page)
          /\ m2.page[q.page].busy = m.page[q.page].busy \/ q.page = m.root[m.page[q.page].allocator]
      <4>1. CASE q.page = p
        BY <4>1 DEF LeftIn, LiesIn
      <4>2. CASE q.page # p
        BY <3>1, <4>2 DEF SameElsewhere
      <4>3. QED
        BY <4>1, <4>2
    <3>3. QED
      BY <3>1, <3>2 DEF LiesWell
  <2>2. ASSUME NEW q \in M, NEW r \in M, q.page = r.page, q # r PROVE Apart(q, r)
    BY <2>2 DEF Sound, Lying
  <2>3. QED
    BY <2>1, <2>2 DEF Lying
<1>5. QED
  BY <1>2, <1>3, <1>4 DEF Sound, Typed

\* The size deallocate_memory() is called with is that of the object.
LEMMA FreedSizeIs ==
  ASSUME NEW m, NEW L, Sound(m, L), NEW o \in L
  PROVE  FreedSize(m, o) = o.size
<1>1. o.size \in Nat /\ (o.node => o.size = NodeSize) /\ (o.size >= MaxEncoded => m.page[o.page].busy = o.size)
  BY ObjectTypes
<1>2. o.size < MaxEncoded \/ o.size >= MaxEncoded
  BY <1>1, MemorySizes
<1>3. QED
  BY <1>1, <1>2 DEF FreedSize, StringSizeOf

LEMMA UsedElsewhere ==
  ASSUME NEW m, NEW m2, NEW q, m2.root = m.root, m2.page[q].allocator = m.page[q].allocator,
         m2.page[q].busy = m.page[q].busy, m2.busy = m.busy
  PROVE  Used(m2, q) = Used(m, q)
BY DEF Used

LEMMA DeallocateSound ==
  ASSUME NEW m, NEW L, Sound(m, L), NEW o \in L
  PROVE  LET m2 == Deallocate(m, m.page[o.page].allocator, o, FreedSize(m, o))
         IN  Sound(m2, L \ {o}) /\ \A q \in DOMAIN m2.page : q \in DOMAIN m.page /\ m2.page[q].allocator = m.page[q].allocator
<1> DEFINE p == o.page
           M == L \ {o}
<1>a. PICK a : a = m.page[p].allocator
  OBVIOUS
<1>m. PICK m2 : m2 = Deallocate(m, a, o, o.size)
  OBVIOUS
<1>1. SUFFICES Sound(m2, M) /\ \A q \in DOMAIN m2.page : q \in DOMAIN m.page /\ m2.page[q].allocator = m.page[q].allocator
  <2>1. FreedSize(m, o) = o.size
    BY FreedSizeIs
  <2>2. QED
    BY <2>1, <1>a, <1>m
<1>2. p \in DOMAIN m.page /\ p \notin Doc /\ PagesLinked(m.page, m.root) /\ a \in Doc
  BY <1>a, ObjectTypes, PageTypes DEF Sound
<1>3. CASE LiesIn(M, p)
  <2>1. Typed(m2) /\ CountsFreed(m, m2, o)
    BY <1>a, <1>m, <1>3, DeallocateCounts
  <2>2. SameLinks(m.page, m2.page) /\ m2.root = m.root /\ m2.busy = m.busy
    BY <2>1 DEF CountsFreed
  <2>3. PagesLinked(m2.page, m2.root)
    BY <1>2, <2>1, <2>2, SameLinksListed DEF Typed
  <2>4. \A q \in DOMAIN m2.page : q \in DOMAIN m.page /\ m2.page[q].allocator = m.page[q].allocator
    BY <2>2 DEF SameLinks
  <2>5. SameElsewhere(m, m2, p)
    <3>1. ASSUME NEW q \in DOMAIN m2.page \ {p}
          PROVE  m2.page[q] = m.page[q] /\ Used(m2, q) = Used(m, q)
      <4>1. m2.page[q] = m.page[q]
        BY <2>1, <2>4 DEF CountsFreed
      <4>2. QED
        BY <2>2, <4>1, UsedElsewhere
    <3>2. QED
      BY <2>2, <3>1 DEF SameElsewhere, SameLinks
  <2>6. LeftIn(m, m2, M, p)
    <3>1. m2.page[p].busy = Used(m, p) /\ m2.page[p].freed = m.page[p].freed + o.size
      BY <2>1 DEF CountsFreed
    <3>2. p \in DOMAIN m2.page /\ m2.page[p].allocator = a
      BY <1>2, <1>a, <2>2 DEF SameLinks
    <3>3. Used(m2, p) = Used(m, p)
      BY <3>1, <3>2, <2>2, <1>a DEF Used
    <3>4. m.page[p].freed + o.size + BlocksIn(M, p) = Used(m, p)
      BY CountWithout
    <3>5. p # m.root[a] => m.page[p].busy = Used(m, p)
      BY <1>a DEF Used
    <3>6. QED
      BY <1>3, <1>a, <3>1, <3>2, <3>3, <3>4, <3>5 DEF LeftIn
  <2>7. QED
    BY <2>1, <2>3, <2>4, <2>5, <2>6, SoundWithout
<1>4. CASE ~ LiesIn(M, p) /\ m.page[p].next = NoPage
  <2>1. Typed(m2) /\ EmptiesRoot(m, m2, o) /\ p = m.root[a]
    BY <1>a, <1>m, <1>4, DeallocateEmpties
  <2>2. SameLinks(m.page, m2.page) /\ m2.root = m.root
    BY <2>1 DEF EmptiesRoot
  <2>3. PagesLinked(m2.page, m2.root)
    BY <1>2, <2>1, <2>2, SameLinksListed DEF Typed
  <2>4. \A q \in DOMAIN m2.page : q \in DOMAIN m.page /\ m2.page[q].allocator = m.page[q].allocator
    BY <2>2 DEF SameLinks
  <2>5. SameElsewhere(m, m2, p)
    <3>1. ASSUME NEW q \in DOMAIN m2.page \ {p}
          PROVE  /\ m2.page[q] = m.page[q] /\ Used(m2, q) = Used(m, q)
                 /\ q = m.root[m.page[q].allocator] => m2.busy[m.page[q].allocator] = m.busy[m.page[q].allocator]
      <4>1. m2.page[q] = m.page[q]
        BY <2>1, <2>4 DEF EmptiesRoot
      <4>2. m.page[q].allocator \in Doc
        BY <2>4, PageTypes
      <4>3. q = m.root[m.page[q].allocator] => m2.busy[m.page[q].allocator] = m.busy[m.page[q].allocator]
        BY <1>a, <2>1, <4>2 DEF EmptiesRoot
      <4>4. Used(m2, q) = Used(m, q)
        BY <2>2, <4>1, <4>3 DEF Used
      <4>5. QED
        BY <4>1, <4>3, <4>4
    <3>2. QED
      BY <2>2, <3>1 DEF SameElsewhere, SameLinks
  <2>6. LeftIn(m, m2, M, p)
    <3>1. m2.page[p].freed = 0 /\ m2.busy[a] = 0
      BY <1>2, <1>a, <2>1 DEF EmptiesRoot
    <3>2. p \in DOMAIN m2.page /\ m2.page[p].allocator = a
      BY <1>2, <1>a, <2>2 DEF SameLinks
    <3>3. Used(m2, p) = 0
      BY <2>1, <2>2, <3>1, <3>2 DEF Used
    <3>4. BlocksIn(M, p) = 0
      BY <1>4, CountWithout
    <3>5. QED
      BY <1>4, <2>1, <2>2, <3>1, <3>2, <3>3, <3>4 DEF LeftIn
  <2>7. QED
    BY <2>1, <2>3, <2>4, <2>5, <2>6, SoundWithout
<1>5. CASE ~ LiesIn(M, p) /\ m.page[p].next # NoPage
  <2>1. Typed(m2) /\ GivesPageBack(m, m2, o)
    BY <1>a, <1>m, <1>5, DeallocateGivesBack
  <2>2. TakenOut(m.page, m2.page, p) /\ m2.root = m.root /\ m2.busy = m.busy
    BY <2>1 DEF GivesPageBack
  <2>3. PagesLinked(m2.page, m2.root)
    BY <1>2, <1>5, <2>1, <2>2, TakenOutListed DEF Typed
  <2>4. \A q \in DOMAIN m2.page : q \in DOMAIN m.page /\ m2.page[q].allocator = m.page[q].allocator
    BY <2>2 DEF TakenOut
  <2>5. SameElsewhere(m, m2, p)
    <3>1. ASSUME NEW q \in DOMAIN m2.page \ {p}
          PROVE  m2.page[q].busy = m.page[q].busy /\ m2.page[q].freed = m.page[q].freed /\ Used(m2, q) = Used(m, q)
      <4>1. m2.page[q].busy = m.page[q].busy /\ m2.page[q].freed = m.page[q].freed
        BY <2>1 DEF GivesPageBack
      <4>2. QED
        BY <2>2, <2>4, <4>1, UsedElsewhere
    <3>2. QED
      BY <2>2, <2>4, <3>1 DEF SameElsewhere, TakenOut
  <2>6. LeftIn(m, m2, M, p)
    BY <1>5, <2>2 DEF LeftIn, TakenOut
  <2>7. QED
    BY <2>1, <2>3, <2>4, <2>5, <2>6, SoundWithout
<1>6. QED
  BY <1>3, <1>4, <1>5

\* after[i] is the memory after the first i objects of order were freed.
Frees(g, m, a, order) ==
  g = [i \in 0..Len(order) |->
         IF i = 0 THEN m ELSE Deallocate(g[i - 1], a, order[i], FreedSize(g[i - 1], order[i]))]

LEMMA DestroyFolds ==
  ASSUME NEW m, NEW a, NEW order
  PROVE  DestroyNode(m, a, order) = (CHOOSE g : Frees(g, m, a, order))[Len(order)]
BY DEF DestroyNode, Frees

Left(L, order, i) == L \ {order[j] : j \in 1..i}

SameAllocators(m, m2) == \A q \in DOMAIN m2.page : q \in DOMAIN m.page /\ m2.page[q].allocator = m.page[q].allocator

\* What is freed, each object once, is in pages of allocator a.
Freeing(m, L, D, a, order) ==
  /\ D \subseteq L /\ order \in Seq(D)
  /\ \A i, k \in 1..Len(order) : order[i] = order[k] => i = k
  /\ \A o \in D : \E i \in 1..Len(order) : order[i] = o
  /\ \A o \in D : m.page[o.page].allocator = a

LEMMA FreeOne ==
  ASSUME NEW m, NEW L, NEW D, NEW a, NEW order, Sound(m, L), Freeing(m, L, D, a, order),
         NEW i \in 1..Len(order), NEW x, Sound(x, Left(L, order, i - 1)), SameAllocators(m, x)
  PROVE  LET y == Deallocate(x, a, order[i], FreedSize(x, order[i]))
         IN  Sound(y, Left(L, order, i)) /\ SameAllocators(m, y)
<1>0. i \in Nat /\ i >= 1 /\ Len(order) \in Nat /\ i <= Len(order)
  BY DEF Freeing
<1>1. PICK o : o = order[i]
  OBVIOUS
<1>2. o \in Left(L, order, i - 1)
  <2>1. o \in L
    BY <1>0, <1>1 DEF Freeing
  <2>2. ASSUME NEW j \in 1..(i - 1) PROVE order[j] # o
    <3>1. j \in 1..Len(order) /\ j # i
      BY <1>0
    <3>2. QED
      BY <1>1, <3>1 DEF Freeing
  <2>3. QED
    BY <2>1, <2>2 DEF Left
<1>3. Left(L, order, i) = Left(L, order, i - 1) \ {o}
  <2>1. 1..i = 1..(i - 1) \cup {i}
    BY <1>0
  <2>2. QED
    BY <1>1, <2>1 DEF Left
<1>4. x.page[o.page].allocator = a
  <2>1. o.page \in DOMAIN x.page
    BY <1>2, ObjectTypes
  <2>2. o \in D
    BY <1>0, <1>1 DEF Freeing
  <2>3. QED
    BY <2>1, <2>2 DEF SameAllocators, Freeing
<1> DEFINE y == Deallocate(x, a, o, FreedSize(x, o))
<1>5. Sound(y, Left(L, order, i - 1) \ {o}) /\ SameAllocators(x, y)
  <2>1. PICK M : M = Left(L, order, i - 1)
    OBVIOUS
  <2>2. Sound(x, M) /\ o \in M /\ a = x.page[o.page].allocator
    BY <1>2, <1>4, <2>1
  <2>3. LET z == Deallocate(x, x.page[o.page].allocator, o, FreedSize(x, o))
        IN  Sound(z, M \ {o}) /\ \A q \in DOMAIN z.page : q \in DOMAIN x.page /\ z.page[q].allocator = x.page[q].allocator
    BY ONLY <2>2, DeallocateSound
  <2>4. QED
    BY ONLY <2>1, <2>2, <2>3 DEF SameAllocators
<1> HIDE DEF y
<1>6. SameAllocators(m, y)
  BY <1>5 DEF SameAllocators
<1>7. Sound(y, Left(L, order, i)) /\ SameAllocators(m, y)
  BY <1>3, <1>5, <1>6
<1>8. QED
  BY <1>1, <1>7 DEF y

LEMMA FreesExist ==
  ASSUME NEW m, NEW L, NEW D, NEW a, NEW order, Sound(m, L), Freeing(m, L, D, a, order)
  PROVE  \E g : Frees(g, m, a, order)
<1> DEFINE n == Len(order)
           D1(x, i) == Deallocate(x, a, order[i], FreedSize(x, order[i]))
           step == [i \in 1..n |-> [x \in Memories |-> IF D1(x, i) \in Memories THEN D1(x, i) ELSE x]]
<1>0. n \in Nat
  BY DEF Freeing
<1>1. m \in Memories
  BY DEF Sound
<1> HIDE DEF D1
<1>2. StepsIn(step, n, Memories)
  BY DEF StepsIn
<1>3. PICK g : RecursionOf(g, n, Memories, m, step)
  <2> HIDE DEF step
  <2>1. QED
    BY <1>0, <1>1, <1>2, NatRecursion
<1>4. ASSUME NEW i \in 1..n
      PROVE  g[i - 1] \in Memories /\ (D1(g[i - 1], i) \in Memories => g[i] = D1(g[i - 1], i))
  <2>1. i - 1 \in 0..n /\ g[i - 1] \in Memories
    BY <1>0, <1>3 DEF RecursionOf
  <2>2. g[i] = step[i][g[i - 1]]
    BY <1>3 DEF RecursionOf
  <2>3. QED
    BY <2>1, <2>2
<1> HIDE DEF step
<1> DEFINE Good(i) == Sound(g[i], Left(L, order, i)) /\ SameAllocators(m, g[i])
           P == {i \in Nat : i <= n => Good(i)}
<1>5. 0 \in P
  <2>1. g[0] = m
    BY <1>3 DEF RecursionOf
  <2>2. Left(L, order, 0) = L
    BY DEF Left
  <2>3. SameAllocators(m, m)
    BY DEF SameAllocators
  <2>4. QED
    BY <2>1, <2>2, <2>3
<1>6. ASSUME NEW i \in 1..n, Good(i - 1) PROVE Good(i) /\ g[i] = D1(g[i - 1], i)
  <2>1. Sound(D1(g[i - 1], i), Left(L, order, i)) /\ SameAllocators(m, D1(g[i - 1], i))
    BY <1>6, FreeOne DEF D1
  <2>2. D1(g[i - 1], i) \in Memories
    BY <2>1 DEF Sound
  <2>3. g[i] = D1(g[i - 1], i)
    BY <1>4, <2>2
  <2>4. QED
    BY <2>1, <2>3
<1>7. ASSUME NEW i \in Nat, i \in P PROVE i + 1 \in P
  <2>1. SUFFICES ASSUME i + 1 <= n PROVE Good(i + 1)
    BY DEF P
  <2>2. i + 1 \in 1..n /\ (i + 1) - 1 = i /\ Good(i)
    BY <1>0, <1>7, <2>1
  <2> HIDE DEF Good
  <2>3. QED
    BY <1>6, <2>2
<1>8. Nat \subseteq P
  <2> HIDE DEF P
  <2>1. QED
    BY <1>5, <1>7, NatSetInduction
<1>9. ASSUME NEW i \in 1..n PROVE g[i] = D1(g[i - 1], i)
  <2>1. i - 1 \in Nat /\ i - 1 <= n
    BY <1>0
  <2>2. Good(i - 1)
    BY <1>8, <2>1
  <2> HIDE DEF Good
  <2>3. QED
    BY <1>6, <2>2
<1>10. g = [i \in 0..n |-> IF i = 0 THEN m ELSE D1(g[i - 1], i)]
  <2>1. ASSUME NEW i \in 0..n PROVE g[i] = IF i = 0 THEN m ELSE D1(g[i - 1], i)
    <3>1. CASE i = 0
      BY <1>3, <3>1 DEF RecursionOf
    <3>2. CASE i # 0
      <4>1. i \in 1..n
        BY <1>0, <3>2
      <4>2. QED
        BY <1>9, <3>2, <4>1
    <3>3. QED
      BY <3>1, <3>2
  <2>2. g \in [0..n -> Memories]
    BY <1>3 DEF RecursionOf
  <2> HIDE DEF Memories
  <2>3. QED
    BY <2>1, <2>2
<1>11. QED
  BY <1>10 DEF D1, Frees

\* destroy_node() leaves a sound memory, without what it freed.
LEMMA DestroySound ==
  ASSUME NEW m, NEW L, NEW D, NEW a, NEW order, Sound(m, L), Freeing(m, L, D, a, order)
  PROVE  Sound(DestroyNode(m, a, order), L \ D) /\ SameAllocators(m, DestroyNode(m, a, order))
<1> DEFINE n == Len(order)
<1>0. n \in Nat
  BY DEF Freeing
<1>1. PICK g : Frees(g, m, a, order) /\ DestroyNode(m, a, order) = g[n]
  <2>1. \E g : Frees(g, m, a, order)
    BY FreesExist
  <2> DEFINE c == CHOOSE g : Frees(g, m, a, order)
  <2>2. Frees(c, m, a, order)
    BY <2>1, Zenon
  <2>3. DestroyNode(m, a, order) = c[n]
    BY DestroyFolds
  <2> HIDE DEF c
  <2>4. QED
    BY <2>2, <2>3
<1>2. g[0] = m /\ \A i \in 1..n : g[i] = Deallocate(g[i - 1], a, order[i], FreedSize(g[i - 1], order[i]))
  <2>1. \A i \in 0..n : g[i] = IF i = 0 THEN m ELSE Deallocate(g[i - 1], a, order[i], FreedSize(g[i - 1], order[i]))
    BY <1>1 DEF Frees
  <2>2. 0 \in 0..n /\ \A i \in 1..n : i \in 0..n /\ i # 0
    BY <1>0
  <2>3. QED
    BY <2>1, <2>2
<1> DEFINE Good(i) == Sound(g[i], Left(L, order, i)) /\ SameAllocators(m, g[i])
           P == {i \in Nat : i <= n => Good(i)}
<1>3. 0 \in P
  <2>1. Left(L, order, 0) = L
    BY DEF Left
  <2>2. SameAllocators(m, m)
    BY DEF SameAllocators
  <2>3. QED
    BY <1>2, <2>1, <2>2
<1>4. ASSUME NEW i \in Nat, i \in P PROVE i + 1 \in P
  <2>1. SUFFICES ASSUME i + 1 <= n PROVE Good(i + 1)
    BY DEF P
  <2>2. i + 1 \in 1..n /\ (i + 1) - 1 = i /\ Good(i)
    BY <1>0, <1>4, <2>1
  <2>3. g[i + 1] = Deallocate(g[i], a, order[i + 1], FreedSize(g[i], order[i + 1]))
    BY <1>2, <2>2
  <2>4. Sound(g[i], Left(L, order, (i + 1) - 1)) /\ SameAllocators(m, g[i])
    BY <2>2
  <2>5. QED
    BY <2>2, <2>3, <2>4, FreeOne
<1>5. Nat \subseteq P
  <2> HIDE DEF P
  <2>1. QED
    BY <1>3, <1>4, NatSetInduction
<1>6. Good(n)
  BY <1>0, <1>5
<1>7. Left(L, order, n) = L \ D
  BY DEF Left, Freeing
<1>8. QED
  BY <1>1, <1>6, <1>7

\* An object put in page p, where nothing of L starts after it.
PutIn(m, m2, L, o) ==
  /\ o.page \in DOMAIN m2.page \ Doc /\ DOMAIN m2.page = DOMAIN m.page \cup {o.page}
  /\ m2.page[o.page].freed + BlocksIn(L, o.page) + o.size = Used(m2, o.page)
  /\ LiesWell(m2, o)
  /\ \A q \in L : q.page = o.page => LiesWell(m2, q) /\ q.offset + q.size <= o.offset

KeptElsewhere(m, m2, L, p) ==
  /\ \A d \in Doc : m2.page[d].busy = PageSize /\ (m2.root[d] = d => m2.busy[d] = PageSize)
  /\ \A q \in DOMAIN m.page \ {p} :
       /\ m2.page[q].freed = m.page[q].freed /\ Used(m2, q) = Used(m, q)
       /\ m2.page[q].busy = m.page[q].busy \/ q = m.root[m.page[q].allocator]
       /\ q \notin Doc => LiesIn(L, q) \/ (q = m2.root[m2.page[q].allocator] /\ m2.busy[m2.page[q].allocator] = 0)

LEMMA SoundWith ==
  ASSUME NEW m, NEW L, Sound(m, L), NEW o \in Object \ L, o.node => o.size = NodeSize,
         NEW m2, Typed(m2), PagesLinked(m2.page, m2.root), PutIn(m, m2, L, o), KeptElsewhere(m, m2, L, o.page)
  PROVE  Sound(m2, L \cup {o})
<1> DEFINE p == o.page
           M == L \cup {o}
<1>1. Objects(M)
  <2>1. IsFiniteSet(M)
    BY FS_AddElement DEF Sound, Objects
  <2>2. QED
    BY <2>1 DEF Sound, Objects
<1>2. M \ {o} = L /\ o \in M
  OBVIOUS
<1>3. \A q : BlocksIn(M, q) = (IF p = q THEN o.size ELSE 0) + BlocksIn(L, q)
  <2>1. SUFFICES ASSUME NEW q PROVE BlocksIn(M, q) = (IF p = q THEN o.size ELSE 0) + BlocksIn(L, q)
    OBVIOUS
  <2>2. BlocksIn(M, q) = (IF o.page = q THEN o.size ELSE 0) + BlocksIn(M \ {o}, q)
    BY <1>1, <1>2, TakenOne
  <2>3. QED
    BY <1>2, <2>2
<1>4. \A q : BlocksIn(L, q) \in Nat
  BY TakenNothing DEF Sound
<1>5. o.size \in Nat
  BY DEF Object
<1>6. Counted(m2, M)
  <2>1. ASSUME NEW q \in DOMAIN m2.page \ Doc
        PROVE  /\ m2.page[q].freed + BlocksIn(M, q) = Used(m2, q)
               /\ LiesIn(M, q) \/ (q = m2.root[m2.page[q].allocator] /\ m2.busy[m2.page[q].allocator] = 0)
    <3>0. m2.page[q].freed \in Nat
      BY TypedFields DEF PageRec
    <3>1. CASE q = p
      <4>1. BlocksIn(M, q) = o.size + BlocksIn(L, q) /\ LiesIn(M, q)
        BY <1>3, <3>1 DEF LiesIn
      <4>2. m2.page[q].freed + BlocksIn(L, q) + o.size = Used(m2, q)
        BY <3>1 DEF PutIn
      <4>3. BlocksIn(L, q) \in Nat
        BY <1>4
      <4>4. m2.page[q].freed + BlocksIn(M, q) = Used(m2, q)
        BY <1>5, <3>0, <4>1, <4>2, <4>3
      <4>5. QED
        BY <4>1, <4>4
    <3>2. CASE q # p
      <4>1. q \in DOMAIN m.page \ {p} /\ q \in DOMAIN m.page \ Doc
        BY <3>2, <2>1 DEF PutIn
      <4>2. m.page[q].freed + BlocksIn(L, q) = Used(m, q)
        BY <4>1 DEF Sound, Counted
      <4>3. m2.page[q].freed = m.page[q].freed /\ Used(m2, q) = Used(m, q)
            /\ (LiesIn(L, q) \/ (q = m2.root[m2.page[q].allocator] /\ m2.busy[m2.page[q].allocator] = 0))
        BY <2>1, <4>1 DEF KeptElsewhere
      <4>4. BlocksIn(M, q) = BlocksIn(L, q)
        <5>1. PICK x, y : x = BlocksIn(M, q) /\ y = BlocksIn(L, q)
          OBVIOUS
        <5>2. x = (IF p = q THEN o.size ELSE 0) + y
          BY <1>3, <5>1
        <5>3. y \in Nat
          BY <1>4, <5>1
        <5>4. x = y
          BY ONLY <3>2, <5>2, <5>3
        <5>5. QED
          BY <5>1, <5>4
      <4>5. LiesIn(L, q) => LiesIn(M, q)
        BY DEF LiesIn
      <4>6. m2.page[q].freed + BlocksIn(M, q) = Used(m2, q)
        BY <4>2, <4>3, <4>4
      <4>7. QED
        BY <4>3, <4>5, <4>6
    <3>3. QED
      BY <3>1, <3>2
  <2>2. QED
    BY <2>1 DEF Counted, KeptElsewhere
<1>7. ASSUME NEW q \in M PROVE LiesWell(m2, q)
  <2>1. CASE q = o
    BY <2>1 DEF PutIn
  <2>2. CASE q \in L /\ q.page = p
    BY <2>2 DEF PutIn
  <2>3. CASE q \in L /\ q.page # p
    <3>1. /\ q.page \in DOMAIN m.page /\ (q.offset = 0 \/ q.offset + q.size <= PageSize)
          /\ q.offset + q.size <= Used(m, q.page)
          /\ q.size >= MaxEncoded => m.page[q.page].busy = q.size
          /\ q.size >= MaxEncoded => q.page # m.root[m.page[q.page].allocator]
      BY <2>3, ObjectTypes
    <3>2. Used(m2, q.page) = Used(m, q.page) /\ q.page \in DOMAIN m2.page
          /\ (m2.page[q.page].busy = m.page[q.page].busy \/ q.page = m.root[m.page[q.page].allocator])
      BY <2>3, <3>1 DEF KeptElsewhere, PutIn
    <3>3. QED
      BY <3>1, <3>2 DEF LiesWell
  <2>4. QED
    BY <2>1, <2>2, <2>3
<1>8. ASSUME NEW q \in M, NEW r \in M, q.page = r.page, q # r PROVE Apart(q, r)
  <2>1. CASE q \in L /\ r \in L
    BY <1>8, <2>1 DEF Sound, Lying
  <2>2. CASE q = o /\ r \in L
    BY <1>8, <2>2 DEF PutIn, Apart
  <2>3. CASE q \in L /\ r = o
    BY <1>8, <2>3 DEF PutIn, Apart
  <2>4. QED
    BY <1>8, <2>1, <2>2, <2>3
<1>9. QED
  BY <1>1, <1>6, <1>7, <1>8 DEF Sound, Typed, Lying

\* What allocating does to the pages there are.
KeepsPages(m, m2) == \A q \in DOMAIN m.page : q \in DOMAIN m2.page /\ m2.page[q].allocator = m.page[q].allocator

MadeFor(a, size, isNode) == a \in Doc /\ size \in Nat \ {0} /\ isNode \in BOOLEAN /\ (isNode => size = NodeSize)

MadeObject(p, at, size, isNode) == [page |-> p, offset |-> at, size |-> size, node |-> isNode]

\* The page allocated from: a page of the heap, unless all it has is handed out.
LEMMA RootOf ==
  ASSUME NEW m, NEW L, Sound(m, L), NEW a \in Doc
  PROVE  /\ m.root[a] \in DOMAIN m.page /\ m.page[m.root[a]].allocator = a /\ m.page[m.root[a]].next = NoPage
         /\ m.busy[a] \in 0..PageSize /\ Used(m, m.root[a]) = m.busy[a]
         /\ m.root[a] \in Doc => m.root[a] = a /\ m.busy[a] = PageSize
         /\ \A q \in DOMAIN m.page : q = m.root[m.page[q].allocator] /\ m.page[q].allocator = a => q = m.root[a]
<1>1. /\ m.root[a] \in DOMAIN m.page /\ m.page[m.root[a]].allocator = a /\ m.page[m.root[a]].next = NoPage
      /\ m.root[a] \in Doc => m.root[a] = a
  BY DEF Sound, PagesLinked, Linked
<1>2. m.root[a] = a => m.busy[a] = PageSize
  BY DEF Sound, Counted
<1>3. m.busy[a] \in 0..PageSize
  BY DEF Sound, Memories
<1>4. QED
  BY <1>1, <1>2, <1>3 DEF Used

LEMMA NothingInNewPage ==
  ASSUME NEW m, NEW L, Sound(m, L), NEW p, p \notin DOMAIN m.page
  PROVE  ~ LiesIn(L, p) /\ BlocksIn(L, p) = 0
<1>1. \A o \in L : o.page # p
  BY ObjectTypes
<1>2. QED
  BY <1>1, TakenNothing DEF Sound, LiesIn

\* allocate_memory() of a makes o of m, and m2.
Makes(m, L, a, m2, o) ==
  /\ o \notin L /\ Sound(m2, L \cup {o}) /\ KeepsPages(m, m2) /\ m2.page[o.page].allocator = a
  /\ Encodable(m2, o)

\* The object fits in the page allocated from.
Fitting(m, a, size) == [m EXCEPT !.busy[a] = @ + size]

LEMMA FitsSound ==
  ASSUME NEW m, NEW L, Sound(m, L), NEW a, NEW size, NEW isNode, MadeFor(a, size, isNode),
         m.busy[a] + size <= PageSize
  PROVE  Makes(m, L, a, Fitting(m, a, size), MadeObject(m.root[a], m.busy[a], size, isNode))
<1>0. a \in Doc /\ size \in Nat /\ size >= 1 /\ isNode \in BOOLEAN /\ (isNode => size = NodeSize) /\ PageSize \in Nat
      /\ MaxEncoded \in Nat /\ PageSize < MaxEncoded
  BY MemorySizes DEF MadeFor
<1>1. Typed(m)
  BY DEF Sound, Typed, PagesLinked
<1>2. PICK o : o = MadeObject(m.root[a], m.busy[a], size, isNode)
  OBVIOUS
<1>p. PICK p : p = m.root[a]
  OBVIOUS
<1>b. PICK b : b = m.busy[a]
  OBVIOUS
<1>3. o.page = p /\ o.offset = b /\ o.size = size /\ o.node = isNode
  BY <1>2, <1>p, <1>b DEF MadeObject
<1>4. p \in DOMAIN m.page /\ m.page[p].allocator = a /\ b \in 0..PageSize /\ b \in Nat /\ Used(m, p) = b /\ p \notin Doc
      /\ b + size <= PageSize
  <2>1. p \in DOMAIN m.page /\ m.page[p].allocator = a /\ b \in 0..PageSize /\ Used(m, p) = b
        /\ (p \in Doc => b = PageSize)
    BY <1>0, <1>p, <1>b, RootOf
  <2>2. QED
    BY <1>0, <1>b, <2>1
<1>5. o \in Object
  <2>1. p \in Page
    BY <1>1, <1>4, TypedFields
  <2>2. QED
    BY <1>0, <1>2, <1>4, <1>p, <1>b, <2>1 DEF MadeObject, Object
<1>6. \A q \in L : q.page = p => q.offset + q.size <= b /\ q.offset \in Nat /\ q.size >= 1 /\ q.size \in Nat
  BY <1>4, ObjectTypes
<1>7. o \notin L
  BY <1>3, <1>4, <1>6
<1> DEFINE B2 == [m.busy EXCEPT ![a] = b + size]
<1>8. PICK m2 : m2 = [page |-> m.page, root |-> m.root, busy |-> B2, ok |-> TRUE]
  OBVIOUS
<1>9. Fitting(m, a, size) = m2
  <2>1. Fitting(m, a, size) = [m EXCEPT !.busy = B2]
    BY <1>b DEF Fitting
  <2>2. m = [page |-> m.page, root |-> m.root, busy |-> m.busy, ok |-> m.ok] /\ m.ok = TRUE
    BY <1>1, TypedFields
  <2> HIDE DEF B2
  <2>3. QED
    BY ONLY <1>8, <2>1, <2>2
<1>10. B2 \in [Doc -> 0..PageSize] /\ \A d \in Doc : B2[d] = IF d = a THEN b + size ELSE m.busy[d]
  <2>1. b + size \in 0..PageSize
    BY <1>0, <1>4
  <2>2. m.busy \in [Doc -> 0..PageSize]
    BY <1>1, TypedFields
  <2>3. QED
    BY <1>0, <2>1, <2>2
<1> HIDE DEF B2
<1>11. m2.page = m.page /\ m2.root = m.root /\ \A d \in Doc : m2.busy[d] = IF d = a THEN b + size ELSE m.busy[d]
  BY <1>8, <1>10
<1>12. Typed(m2)
  BY <1>1, <1>8, <1>10, MakesTyped, TypedFields
<1>13. PagesLinked(m2.page, m2.root)
  BY <1>11 DEF Sound
<1>14. Used(m2, p) = b + size
  BY <1>0, <1>4, <1>11, <1>p DEF Used
<1>15. ASSUME NEW q \in DOMAIN m.page \ {p}
       PROVE  /\ Used(m2, q) = Used(m, q)
              /\ q = m.root[m.page[q].allocator] => m2.busy[m.page[q].allocator] = m.busy[m.page[q].allocator]
  <2>1. m.page[q].allocator \in Doc
    BY PageTypes
  <2>2. q = m.root[m.page[q].allocator] => m.page[q].allocator # a
    BY <1>p
  <2>3. QED
    BY <1>11, <2>1, <2>2 DEF Used
<1>16. PutIn(m, m2, L, o)
  <2>1. m2.page[p].freed + BlocksIn(L, p) + o.size = Used(m2, p)
    <3>1. m.page[p].freed + BlocksIn(L, p) = b
      BY <1>4 DEF Sound, Counted
    <3>2. m.page[p].freed \in Nat /\ BlocksIn(L, p) \in Nat
      BY <1>4, PageTypes, TakenNothing DEF Sound
    <3>3. QED
      BY <1>0, <1>3, <1>4, <1>11, <1>14, <3>1, <3>2
  <2>2. LiesWell(m2, o)
    BY <1>0, <1>3, <1>4, <1>11, <1>14 DEF LiesWell
  <2>3. ASSUME NEW q \in L, q.page = p PROVE LiesWell(m2, q) /\ q.offset + q.size <= o.offset
    <3>1. q.page \in DOMAIN m.page /\ q.offset \in Nat /\ q.size \in Nat /\ q.offset + q.size <= b
          /\ (q.offset = 0 \/ q.offset + q.size <= PageSize) /\ (q.size >= MaxEncoded => m.page[q.page].busy = q.size)
      BY <1>4, <2>3, ObjectTypes
    <3>2. QED
      BY <1>0, <1>3, <1>4, <1>11, <1>14, <2>3, <3>1 DEF LiesWell
  <2>4. QED
    BY <1>3, <1>4, <1>11, <2>1, <2>2, <2>3 DEF PutIn
<1>17. KeptElsewhere(m, m2, L, p)
  <2>1. ASSUME NEW d \in Doc PROVE m2.page[d].busy = PageSize /\ (m2.root[d] = d => m2.busy[d] = PageSize)
    <3>1. m.page[d].busy = PageSize /\ (m.root[d] = d => m.busy[d] = PageSize)
      BY DEF Sound, Counted
    <3>2. m.root[d] = d => d # a
      BY <1>4, <1>p
    <3>3. QED
      BY <1>11, <3>1, <3>2
  <2>2. ASSUME NEW q \in DOMAIN m.page \ {p}, q \notin Doc
        PROVE  LiesIn(L, q) \/ (q = m2.root[m2.page[q].allocator] /\ m2.busy[m2.page[q].allocator] = 0)
    <3>1. LiesIn(L, q) \/ (q = m.root[m.page[q].allocator] /\ m.busy[m.page[q].allocator] = 0)
      BY <2>2 DEF Sound, Counted
    <3>2. QED
      BY <1>11, <1>15, <3>1
  <2>3. QED
    BY <1>11, <1>15, <2>1, <2>2 DEF KeptElsewhere
<1>18. Sound(m2, L \cup {o})
  BY <1>0, <1>3, <1>5, <1>7, <1>12, <1>13, <1>16, <1>17, SoundWith
<1>19. KeepsPages(m, m2) /\ m2.page[o.page].allocator = a
  BY <1>3, <1>4, <1>11 DEF KeepsPages
<1>20. Encodable(m2, o)
  BY <1>0, <1>3, <1>4 DEF Encodable
<1>21. Makes(m, L, a, m2, o)
  BY <1>7, <1>18, <1>19, <1>20 DEF Makes
<1>22. QED
  BY <1>2, <1>9, <1>21

\* The object gets a page that becomes the one allocated from.
LEMMA SmallSound ==
  ASSUME NEW m, NEW L, Sound(m, L), NEW a, NEW size, NEW isNode, MadeFor(a, size, isNode),
         ~ (m.busy[a] + size <= PageSize), size <= Threshold, FreePages(m) # {}
  PROVE  LET m2 == AllocateSmallPage(m, a, size)
         IN  Makes(m, L, a, m2, MadeObject(m2.root[a], 0, size, isNode)) /\ m2.ok = TRUE
<1>0. a \in Doc /\ size \in Nat /\ size >= 1 /\ isNode \in BOOLEAN /\ (isNode => size = NodeSize) /\ PageSize \in Nat
      /\ MaxEncoded \in Nat /\ PageSize < MaxEncoded /\ size <= PageSize /\ Threshold \in Nat
  BY MemorySizes DEF MadeFor
<1>1. Typed(m)
  BY DEF Sound, Typed, PagesLinked
<1>p. PICK p : p = (CHOOSE x \in FreePages(m) : TRUE)
  OBVIOUS
<1>r. PICK r : r = m.root[a]
  OBVIOUS
<1>b. PICK b : b = m.busy[a]
  OBVIOUS
<1>2. p \in Page /\ p \notin DOMAIN m.page /\ p \notin Doc
  BY <1>p, MemoryAssumption DEF FreePages
<1>3. /\ r \in DOMAIN m.page /\ m.page[r].allocator = a /\ m.page[r].next = NoPage /\ b \in 0..PageSize /\ b \in Nat
      /\ Used(m, r) = b /\ (r \in Doc => r = a /\ b = PageSize) /\ ~ (b + size <= PageSize) /\ b # 0 /\ r # p
  <2>1. /\ r \in DOMAIN m.page /\ m.page[r].allocator = a /\ m.page[r].next = NoPage /\ b \in 0..PageSize
        /\ Used(m, r) = b /\ (r \in Doc => r = a /\ b = PageSize)
    BY <1>0, <1>r, <1>b, RootOf
  <2>2. ~ (b + size <= PageSize)
    BY <1>b
  <2>3. QED
    BY <1>0, <1>2, <2>1, <2>2
<1> DEFINE P2 == [q \in DOMAIN m.page \cup {p} |->
                    CASE q = p -> [NewPage(m.page[r].allocator) EXCEPT !.prev = r]
                      [] q = r -> [m.page[r] EXCEPT !.busy = m.busy[a], !.next = p]
                      [] OTHER -> m.page[q]]
           R2 == [m.root EXCEPT ![a] = p]
           B2 == [m.busy EXCEPT ![a] = size]
<1>4. PICK m2 : m2 = [page |-> P2, root |-> R2, busy |-> B2, ok |-> TRUE]
  OBVIOUS
<1>5. AllocateSmallPage(m, a, size) = m2
  <2>1. AllocateSmallPage(m, a, size) = [m EXCEPT !.page = P2, !.root = R2, !.busy = B2]
    BY ONLY <1>p, <1>r DEF AllocateSmallPage
  <2>2. m = [page |-> m.page, root |-> m.root, busy |-> m.busy, ok |-> m.ok] /\ m.ok = TRUE
    BY <1>1, TypedFields
  <2> HIDE DEF P2, R2, B2
  <2>3. QED
    BY ONLY <1>4, <2>1, <2>2
<1>6. P2[p] = [allocator |-> a, prev |-> r, next |-> NoPage, busy |-> 0, freed |-> 0] /\ P2[p] \in PageRec
  <2>1. P2[p] = [NewPage(a) EXCEPT !.prev = r]
    BY <1>3
  <2>2. r \in Doc \cup Page
    BY <1>1, <1>3, TypedFields
  <2> HIDE DEF P2
  <2>3. QED
    BY <1>0, <2>1, <2>2 DEF NewPage, PageRec
<1>7. P2[r] = [m.page[r] EXCEPT !.busy = b, !.next = p] /\ P2[r] \in PageRec
      /\ P2[r].allocator = a /\ P2[r].prev = m.page[r].prev /\ P2[r].next = p /\ P2[r].busy = b /\ P2[r].freed = m.page[r].freed
  <2>1. P2[r] = [m.page[r] EXCEPT !.busy = b, !.next = p]
    BY <1>3, <1>b
  <2>2. m.page[r] \in PageRec
    BY <1>1, <1>3, TypedFields
  <2> HIDE DEF P2
  <2>3. QED
    BY <1>2, <1>3, <2>1, <2>2 DEF PageRec
<1>8. ASSUME NEW q \in DOMAIN m.page \ {r} PROVE P2[q] = m.page[q] /\ P2[q] \in PageRec
  <2>1. P2[q] = m.page[q]
    BY <1>2
  <2> HIDE DEF P2
  <2>2. m.page[q] \in PageRec
    BY <1>1, TypedFields
  <2>3. QED
    BY <2>1, <2>2
<1>9. DOMAIN P2 = DOMAIN m.page \cup {p} /\ P2 \in [DOMAIN P2 -> PageRec]
  <2>1. DOMAIN P2 = DOMAIN m.page \cup {p} /\ P2 = [q \in DOMAIN P2 |-> P2[q]]
    OBVIOUS
  <2> HIDE DEF P2
  <2>2. \A q \in DOMAIN P2 : P2[q] \in PageRec
    BY <1>6, <1>7, <1>8, <2>1
  <2>3. QED
    BY <2>1, <2>2
<1>10. R2 \in [Doc -> Doc \cup Page] /\ \A d \in Doc : R2[d] = IF d = a THEN p ELSE m.root[d]
  BY <1>0, <1>1, <1>2, TypedFields
<1>11. B2 \in [Doc -> 0..PageSize] /\ \A d \in Doc : B2[d] = IF d = a THEN size ELSE m.busy[d]
  <2>1. size \in 0..PageSize
    BY <1>0
  <2>2. m.busy \in [Doc -> 0..PageSize]
    BY <1>1, TypedFields
  <2>3. QED
    BY <1>0, <2>1, <2>2
<1> HIDE DEF P2, R2, B2
<1>12. Typed(m2)
  <2>1. Doc \subseteq DOMAIN P2 /\ DOMAIN P2 \subseteq Doc \cup Page
    BY <1>1, <1>2, <1>9, TypedFields
  <2>2. QED
    BY <1>4, <1>9, <1>10, <1>11, <2>1, MakesTyped
<1>13. m2.page = P2 /\ m2.root = R2 /\ m2.busy = B2 /\ m2.ok = TRUE
  BY <1>4
<1>14. PagesLinked(m2.page, m2.root)
  <2>1. PutLast(m.page, m.root, P2, R2, a, p)
    <3>1. ASSUME NEW q \in DOMAIN m.page
          PROVE  /\ P2[q].allocator = m.page[q].allocator /\ P2[q].prev = m.page[q].prev
                 /\ P2[q].next = IF q = r THEN p ELSE m.page[q].next
      <4>1. CASE q = r
        BY <1>3, <1>7, <4>1
      <4>2. CASE q # r
        BY <1>8, <4>2
      <4>3. QED
        BY <4>1, <4>2
    <3>2. P2[p].allocator = a /\ P2[p].prev = r /\ P2[p].next = NoPage
      BY <1>6
    <3>3. QED
      BY <1>2, <1>9, <1>10, <1>r, <3>1, <3>2 DEF PutLast
  <2>2. PagesTyped(P2)
    BY <1>12, <1>13 DEF Typed
  <2>3. PagesLinked(m.page, m.root)
    BY DEF Sound
  <2>4. QED
    BY <1>0, <1>13, <2>1, <2>2, <2>3, PutLastListed
<1>15. Used(m2, p) = size
  BY <1>0, <1>6, <1>10, <1>11, <1>13 DEF Used
<1>16. Used(m2, r) = b
  BY <1>0, <1>3, <1>7, <1>10, <1>13 DEF Used
<1>17. ASSUME NEW q \in DOMAIN m.page \ {r}
       PROVE  /\ P2[q] = m.page[q] /\ Used(m2, q) = Used(m, q)
              /\ q = m.root[m.page[q].allocator] =>
                   /\ q = R2[m.page[q].allocator] /\ B2[m.page[q].allocator] = m.busy[m.page[q].allocator]
  <2>1. m.page[q].allocator \in Doc
    BY PageTypes
  <2>2. q = m.root[m.page[q].allocator] => m.page[q].allocator # a
    BY <1>r
  <2>3. q # p
    BY <1>2
  <2>4. P2[q] = m.page[q]
    BY <1>8
  <2>5. q = R2[m.page[q].allocator] => q = m.root[m.page[q].allocator]
    BY <1>10, <2>1, <2>3
  <2>6. QED
    BY <1>10, <1>11, <1>13, <2>1, <2>2, <2>4, <2>5 DEF Used
<1>18. PICK o : o = MadeObject(m2.root[a], 0, size, isNode)
  OBVIOUS
<1>19. o.page = p /\ o.offset = 0 /\ o.size = size /\ o.node = isNode /\ o \in Object /\ o \notin L
  <2>1. o = MadeObject(p, 0, size, isNode)
    BY <1>0, <1>10, <1>13, <1>18
  <2>2. o.page = p /\ o.offset = 0 /\ o.size = size /\ o.node = isNode /\ o \in Object
    BY <1>0, <1>2, <2>1 DEF MadeObject, Object
  <2>3. QED
    BY <1>2, <2>2, ObjectTypes
<1>20. PutIn(m, m2, L, o)
  <2>1. ~ LiesIn(L, p) /\ BlocksIn(L, p) = 0
    BY <1>2, NothingInNewPage
  <2>2. LiesWell(m2, o)
    BY <1>0, <1>9, <1>13, <1>15, <1>19 DEF LiesWell
  <2>3. m2.page[p].freed + BlocksIn(L, p) + o.size = Used(m2, p)
    BY <1>0, <1>6, <1>13, <1>15, <1>19, <2>1
  <2>4. QED
    BY <1>2, <1>9, <1>13, <1>19, <2>1, <2>2, <2>3 DEF PutIn, LiesIn
<1>21. KeptElsewhere(m, m2, L, p)
  <2>1. ASSUME NEW d \in Doc PROVE m2.page[d].busy = PageSize /\ (m2.root[d] = d => m2.busy[d] = PageSize)
    <3>1. m.page[d].busy = PageSize /\ (m.root[d] = d => m.busy[d] = PageSize) /\ d \in DOMAIN m.page
      BY <1>1, TypedFields DEF Sound, Counted
    <3>2. P2[d].busy = PageSize
      <4>1. CASE d = r
        BY <1>3, <1>7, <4>1
      <4>2. CASE d # r
        BY <1>8, <3>1, <4>2
      <4>3. QED
        BY <4>1, <4>2
    <3>3. R2[d] = d => d # a /\ m.root[d] = d
      BY <1>2, <1>10
    <3>4. QED
      BY <1>11, <1>13, <3>1, <3>2, <3>3
  <2>2. ASSUME NEW q \in DOMAIN m.page \ {p}
        PROVE  /\ m2.page[q].freed = m.page[q].freed /\ Used(m2, q) = Used(m, q)
               /\ m2.page[q].busy = m.page[q].busy \/ q = m.root[m.page[q].allocator]
    <3>1. CASE q = r
      BY <1>3, <1>7, <1>13, <1>16, <1>r, <3>1
    <3>2. CASE q # r
      BY <1>13, <1>17, <3>2
    <3>3. QED
      BY <3>1, <3>2
  <2>3. ASSUME NEW q \in DOMAIN m.page \ {p}, q \notin Doc
        PROVE  LiesIn(L, q) \/ (q = m2.root[m2.page[q].allocator] /\ m2.busy[m2.page[q].allocator] = 0)
    <3>1. LiesIn(L, q) \/ (q = m.root[m.page[q].allocator] /\ m.busy[m.page[q].allocator] = 0)
      BY <2>3 DEF Sound, Counted
    <3>2. CASE q = r
      BY <1>3, <1>b, <3>1, <3>2
    <3>3. CASE q # r
      BY <1>13, <1>17, <3>1, <3>3
    <3>4. QED
      BY <3>2, <3>3
  <2>4. QED
    BY <2>1, <2>2, <2>3 DEF KeptElsewhere
<1>22. Sound(m2, L \cup {o})
  BY <1>0, <1>12, <1>14, <1>19, <1>20, <1>21, SoundWith
<1>23. KeepsPages(m, m2) /\ m2.page[o.page].allocator = a
  <2>1. ASSUME NEW q \in DOMAIN m.page PROVE q \in DOMAIN m2.page /\ m2.page[q].allocator = m.page[q].allocator
    BY <1>3, <1>7, <1>8, <1>9, <1>13
  <2>2. QED
    BY <1>6, <1>13, <1>19, <2>1 DEF KeepsPages
<1>24. Encodable(m2, o)
  BY <1>0, <1>19 DEF Encodable
<1>25. Makes(m, L, a, m2, o) /\ m2.ok = TRUE
  BY <1>13, <1>19, <1>22, <1>23, <1>24 DEF Makes
<1>26. QED
  BY <1>5, <1>18, <1>25

\* A document with an object in its pages has more than the sentinel.
LEMMA RootIsNotSentinel ==
  ASSUME NEW m, NEW L, Sound(m, L), NEW n \in L, NEW a, m.page[n.page].allocator = a
  PROVE  a \in Doc /\ m.root[a] \notin Doc
<1>1. n.page \in DOMAIN m.page /\ n.page \notin Doc /\ a \in Doc /\ PagesLinked(m.page, m.root)
  BY ObjectTypes, PageTypes DEF Sound
<1>2. n.page \in Pages(m.page, a)
  BY <1>1 DEF PagesLinked, PagesReached
<1>3. SUFFICES ASSUME m.root[a] \in Doc PROVE FALSE
  BY <1>1
<1>4. m.root[a] = a /\ m.page[a].next = NoPage /\ a \in DOMAIN m.page
  BY <1>1, <1>3 DEF PagesLinked, Linked
<1>5. Pages(m.page, a) \subseteq {a}
  <2>1. PICK S : S = {a}
    OBVIOUS
  <2>2. S \in SUBSET DOMAIN m.page /\ a \in S /\ \A q \in S : m.page[q].next \in S \cup {NoPage}
    BY <1>4, <2>1
  <2>3. QED
    BY <2>1, <2>2, PagesLeast
<1>6. QED
  BY <1>1, <1>2, <1>5

\* A large object gets a page of its own, put before the one allocated from.
LEMMA LargeSound ==
  ASSUME NEW m, NEW L, Sound(m, L), NEW a, NEW size, NEW isNode, MadeFor(a, size, isNode),
         ~ (size <= Threshold), FreePages(m) # {}, NEW n \in L, m.page[n.page].allocator = a
  PROVE  LET m2 == AllocateLargePage(m, a, size)
         IN  Makes(m, L, a, m2, MadeObject(LargePage(m2, a), 0, size, isNode)) /\ m2.ok = TRUE
<1>0. a \in Doc /\ size \in Nat /\ size >= 1 /\ isNode \in BOOLEAN /\ (isNode => size = NodeSize) /\ PageSize \in Nat
      /\ MaxEncoded \in Nat /\ PageSize < MaxEncoded
  BY MemorySizes DEF MadeFor
<1>1. Typed(m)
  BY DEF Sound, Typed, PagesLinked
<1>p. PICK p : p = (CHOOSE x \in FreePages(m) : TRUE)
  OBVIOUS
<1>r. PICK r : r = m.root[a]
  OBVIOUS
<1>b. PICK b : b = m.page[r].prev
  OBVIOUS
<1>2. p \in Page /\ p \notin DOMAIN m.page /\ p \notin Doc
  BY <1>p, MemoryAssumption DEF FreePages
<1>3. /\ r \in DOMAIN m.page /\ m.page[r].allocator = a /\ m.page[r].next = NoPage /\ r # p /\ r \notin Doc
      /\ b \in DOMAIN m.page /\ b # NoPage /\ b # r /\ m.page[b].next = r /\ m.page[b].allocator = a
  <2>1. r \in DOMAIN m.page /\ m.page[r].allocator = a /\ m.page[r].next = NoPage
    BY <1>0, <1>r, RootOf
  <2>2. r \notin Doc
    BY <1>r, RootIsNotSentinel
  <2>3. PagesLinked(m.page, m.root)
    BY DEF Sound
  <2>4. b \in DOMAIN m.page /\ b # NoPage /\ b # r /\ m.page[b].next = r /\ m.page[b].allocator = a
    BY <1>b, <2>1, <2>2, <2>3, PageBefore DEF PagesLinked
  <2>5. QED
    BY <1>2, <2>1, <2>2, <2>4
<1> DEFINE N == [NewPage(m.page[r].allocator) EXCEPT !.prev = b, !.next = r, !.busy = size]
           P2 == [q \in DOMAIN m.page \cup {p} |->
                   CASE q = p -> N
                     [] q = r -> [m.page[r] EXCEPT !.prev = p]
                     [] q = b -> [m.page[b] EXCEPT !.next = p]
                     [] OTHER -> m.page[q]]
<1>4. PICK m2 : m2 = [page |-> P2, root |-> m.root, busy |-> m.busy, ok |-> TRUE]
  OBVIOUS
<1>5. AllocateLargePage(m, a, size) = m2
  <2>1. AllocateLargePage(m, a, size) = [m EXCEPT !.page = P2]
    <3>1. AllocateLargePage(m, a, size) =
            IF b = NoPage THEN [m EXCEPT !.ok = FALSE] ELSE [m EXCEPT !.page = P2]
      BY ONLY <1>p, <1>r, <1>b DEF AllocateLargePage
    <3>2. b # NoPage
      BY <1>3
    <3> HIDE DEF P2
    <3>3. QED
      BY ONLY <3>1, <3>2
  <2>2. m = [page |-> m.page, root |-> m.root, busy |-> m.busy, ok |-> m.ok] /\ m.ok = TRUE
    BY <1>1, TypedFields
  <2> HIDE DEF P2
  <2>3. QED
    BY ONLY <1>4, <2>1, <2>2
<1>6. P2[p] = [allocator |-> a, prev |-> b, next |-> r, busy |-> size, freed |-> 0] /\ P2[p] \in PageRec
  <2>1. P2[p] = [NewPage(a) EXCEPT !.prev = b, !.next = r, !.busy = size]
    <3>1. P2[p] = [NewPage(m.page[r].allocator) EXCEPT !.prev = b, !.next = r, !.busy = size]
      <4> HIDE DEF N
      <4>1. P2[p] = N
        BY <1>2, <1>3
      <4>2. QED
        BY <4>1 DEF N
    <3> HIDE DEF P2
    <3>2. QED
      BY <1>3, <3>1
  <2>2. r \in Doc \cup Page /\ b \in Doc \cup Page
    BY <1>1, <1>3, TypedFields
  <2> HIDE DEF P2
  <2>3. QED
    <3>1. P2[p] = [allocator |-> a, prev |-> b, next |-> r, busy |-> size, freed |-> 0]
      BY ONLY <2>1 DEF NewPage
    <3>2. QED
      BY <1>0, <2>2, <3>1 DEF PageRec
<1>7. P2[r] = [m.page[r] EXCEPT !.prev = p] /\ P2[r] \in PageRec
      /\ P2[r].allocator = a /\ P2[r].prev = p /\ P2[r].next = m.page[r].next /\ P2[r].busy = m.page[r].busy
      /\ P2[r].freed = m.page[r].freed
  <2>1. P2[r] = [m.page[r] EXCEPT !.prev = p]
    BY <1>3
  <2>2. PICK t : t = m.page[r] /\ t \in PageRec
    BY <1>1, <1>3, TypedFields
  <2>3. P2[r] = [t EXCEPT !.prev = p]
    BY ONLY <2>1, <2>2
  <2> HIDE DEF P2
  <2>4. QED
    BY <1>2, <1>3, <2>2, <2>3 DEF PageRec
<1>8. P2[b] = [m.page[b] EXCEPT !.next = p] /\ P2[b] \in PageRec
      /\ P2[b].allocator = a /\ P2[b].prev = m.page[b].prev /\ P2[b].next = p /\ P2[b].busy = m.page[b].busy
      /\ P2[b].freed = m.page[b].freed
  <2>1. P2[b] = [m.page[b] EXCEPT !.next = p]
    BY <1>2, <1>3
  <2>2. PICK t : t = m.page[b] /\ t \in PageRec
    BY <1>1, <1>3, TypedFields
  <2>3. P2[b] = [t EXCEPT !.next = p]
    BY ONLY <2>1, <2>2
  <2> HIDE DEF P2
  <2>4. QED
    BY <1>2, <1>3, <2>2, <2>3 DEF PageRec
<1>9. ASSUME NEW q \in DOMAIN m.page \ {r, b} PROVE P2[q] = m.page[q] /\ P2[q] \in PageRec
  <2>1. P2[q] = m.page[q]
    BY <1>2
  <2> HIDE DEF P2
  <2>2. m.page[q] \in PageRec
    BY <1>1, TypedFields
  <2>3. QED
    BY <2>1, <2>2
<1>10. DOMAIN P2 = DOMAIN m.page \cup {p} /\ P2 \in [DOMAIN P2 -> PageRec]
  <2>1. DOMAIN P2 = DOMAIN m.page \cup {p} /\ P2 = [q \in DOMAIN P2 |-> P2[q]]
    OBVIOUS
  <2> HIDE DEF P2
  <2>2. \A q \in DOMAIN P2 : P2[q] \in PageRec
    BY <1>6, <1>7, <1>8, <1>9, <2>1
  <2>3. QED
    BY <2>1, <2>2
<1> HIDE DEF P2, N
<1>11. ASSUME NEW q \in DOMAIN m.page
       PROVE  /\ P2[q].allocator = m.page[q].allocator /\ P2[q].busy = m.page[q].busy /\ P2[q].freed = m.page[q].freed
              /\ P2[q].prev = IF q = r THEN p ELSE m.page[q].prev
              /\ P2[q].next = IF q = b THEN p ELSE m.page[q].next
  <2>1. CASE q = r
    BY <1>3, <1>7, <2>1
  <2>2. CASE q = b
    BY <1>3, <1>8, <2>2
  <2>3. CASE q \notin {r, b}
    BY <1>9, <2>3
  <2>4. QED
    BY <2>1, <2>2, <2>3
<1>12. Typed(m2)
  <2>1. Doc \subseteq DOMAIN P2 /\ DOMAIN P2 \subseteq Doc \cup Page /\ m.root \in [Doc -> Doc \cup Page]
        /\ m.busy \in [Doc -> 0..PageSize]
    BY <1>1, <1>2, <1>10, TypedFields
  <2>2. QED
    BY <1>4, <1>10, <2>1, MakesTyped
<1>13. m2.page = P2 /\ m2.root = m.root /\ m2.busy = m.busy /\ m2.ok = TRUE
  BY <1>4
<1>14. PagesLinked(m2.page, m2.root)
  <2>1. PutBefore(m.page, m.root, P2, a, p)
    <3>1. P2[p].allocator = a /\ P2[p].prev = b /\ P2[p].next = r
      BY <1>6
    <3>2. QED
      BY <1>2, <1>10, <1>11, <1>r, <1>b, <3>1 DEF PutBefore
  <2>2. PagesTyped(P2)
    BY <1>12, <1>13 DEF Typed
  <2>3. PagesLinked(m.page, m.root)
    BY DEF Sound
  <2>4. QED
    <3>1. m.root[a] \notin Doc /\ a \in Doc
      BY <1>0, <1>3, <1>r
    <3>2. PagesLinked(P2, m.root)
      BY ONLY <2>1, <2>2, <2>3, <3>1, PutBeforeListed
    <3>3. QED
      BY <1>13, <3>2
<1>15. Used(m2, p) = size
  BY <1>0, <1>3, <1>6, <1>13, <1>r DEF Used
<1>16. \A q \in DOMAIN m.page : Used(m2, q) = Used(m, q)
  BY <1>11, <1>13, UsedElsewhere
<1>18. PICK o : o = MadeObject(LargePage(m2, a), 0, size, isNode)
  OBVIOUS
<1>19. o.page = p /\ o.offset = 0 /\ o.size = size /\ o.node = isNode /\ o \in Object /\ o \notin L
  <2>1. LargePage(m2, a) = p
    BY <1>3, <1>7, <1>13, <1>r DEF LargePage
  <2>2. o.page = p /\ o.offset = 0 /\ o.size = size /\ o.node = isNode /\ o \in Object
    BY <1>0, <1>2, <1>18, <2>1 DEF MadeObject, Object
  <2>3. QED
    BY <1>2, <2>2, ObjectTypes
<1>20. PutIn(m, m2, L, o)
  <2>1. ~ LiesIn(L, p) /\ BlocksIn(L, p) = 0
    BY <1>2, NothingInNewPage
  <2>2. LiesWell(m2, o)
    BY <1>0, <1>6, <1>10, <1>13, <1>15, <1>19 DEF LiesWell
  <2>3. m2.page[p].freed + BlocksIn(L, p) + o.size = Used(m2, p)
    BY <1>0, <1>6, <1>13, <1>15, <1>19, <2>1
  <2>4. QED
    BY <1>2, <1>10, <1>13, <1>19, <2>1, <2>2, <2>3 DEF PutIn, LiesIn
<1>21. KeptElsewhere(m, m2, L, p)
  <2>1. ASSUME NEW d \in Doc PROVE m2.page[d].busy = PageSize /\ (m2.root[d] = d => m2.busy[d] = PageSize)
    <3>1. m.page[d].busy = PageSize /\ (m.root[d] = d => m.busy[d] = PageSize) /\ d \in DOMAIN m.page
      BY <1>1, TypedFields DEF Sound, Counted
    <3>2. QED
      BY <1>11, <1>13, <3>1
  <2>2. ASSUME NEW q \in DOMAIN m.page \ {p}, q \notin Doc
        PROVE  LiesIn(L, q) \/ (q = m2.root[m2.page[q].allocator] /\ m2.busy[m2.page[q].allocator] = 0)
    <3>1. LiesIn(L, q) \/ (q = m.root[m.page[q].allocator] /\ m.busy[m.page[q].allocator] = 0)
      BY <2>2 DEF Sound, Counted
    <3>2. QED
      BY <1>11, <1>13, <3>1
  <2>3. QED
    BY <1>11, <1>13, <1>16, <2>1, <2>2 DEF KeptElsewhere
<1>22. Sound(m2, L \cup {o})
  BY <1>0, <1>12, <1>14, <1>19, <1>20, <1>21, SoundWith
<1>23. KeepsPages(m, m2) /\ m2.page[o.page].allocator = a
  BY <1>6, <1>10, <1>11, <1>13, <1>19 DEF KeepsPages
<1>24. Encodable(m2, o)
  BY <1>0, <1>6, <1>13, <1>19 DEF Encodable
<1>25. Makes(m, L, a, m2, o) /\ m2.ok = TRUE
  BY <1>13, <1>19, <1>22, <1>23, <1>24 DEF Makes
<1>26. QED
  BY <1>5, <1>18, <1>25

\* The objects in the pages of other documents.
Elsewhere(m, L, d) == {o \in L : m.page[o.page].allocator # d}

LEMMA EmptyDocument ==
  ASSUME NEW P, NEW R, PagesLinked(P, R), NEW d \in Doc, R[d] = d, NEW q \in DOMAIN P, P[q].allocator = d
  PROVE  q = d
<1>1. Linked(P, R) /\ PagesTyped(P) /\ PagesReached(P) /\ d \in DOMAIN P
  BY DEF PagesLinked, PagesTyped
<1>2. P[d].next = NoPage
  BY <1>1 DEF Linked
<1>3. PICK S : S = {d}
  OBVIOUS
<1>4. S \in SUBSET DOMAIN P /\ d \in S /\ \A r \in S : P[r].next \in S \cup {NoPage}
  BY <1>1, <1>2, <1>3
<1>5. Pages(P, d) \subseteq S
  BY <1>4, PagesLeast
<1>6. q \in Pages(P, d)
  BY <1>1 DEF PagesReached
<1>7. QED
  BY <1>3, <1>5, <1>6

\* _destroy() and _create() leave the document its sentinel, and the others
\* what they have.
LEMMA RecreateSound ==
  ASSUME NEW m, NEW L, Sound(m, L), NEW d \in Doc
  PROVE  LET m2 == Recreated(m, d)
         IN  /\ Sound(m2, Elsewhere(m, L, d)) /\ SameAllocators(m, m2) /\ m2.ok = TRUE
             /\ m2.root[d] = d /\ \A c \in Doc \ {d} : m2.root[c] = m.root[c]
<1> DEFINE gone == Pages(m.page, d) \ {d}
           P2 == [q \in DOMAIN m.page \ gone |-> IF q = d THEN Sentinel(d) ELSE m.page[q]]
           R2 == [m.root EXCEPT ![d] = d]
           B2 == [m.busy EXCEPT ![d] = PageSize]
           M == Elsewhere(m, L, d)
<1>0. PageSize \in Nat /\ Typed(m) /\ PagesLinked(m.page, m.root) /\ d \in DOMAIN m.page
  BY MemorySizes DEF Sound, Typed, PagesLinked, PagesTyped
<1>1. PICK m2 : m2 = [page |-> P2, root |-> R2, busy |-> B2, ok |-> TRUE]
  OBVIOUS
<1>2. Recreated(m, d) = m2
  <2>1. Recreated(m, d) = [m EXCEPT !.page = P2, !.root = R2, !.busy = B2]
    BY DEF Recreated
  <2>2. m = [page |-> m.page, root |-> m.root, busy |-> m.busy, ok |-> m.ok] /\ m.ok = TRUE
    BY <1>0, TypedFields
  <2> HIDE DEF P2, R2, B2
  <2>3. QED
    BY ONLY <1>1, <2>1, <2>2
<1>3. gone = {q \in DOMAIN m.page \ {d} : m.page[q].allocator = d}
  BY <1>0, PagesAre DEF PagesLinked
<1>4. P2[d] = Sentinel(d) /\ d \in DOMAIN P2 /\ DOMAIN P2 = DOMAIN m.page \ gone
  BY <1>0
<1>5. ASSUME NEW q \in DOMAIN P2 \ {d}
      PROVE  P2[q] = m.page[q] /\ q \in DOMAIN m.page /\ m.page[q].allocator # d /\ m.page[q].allocator \in Doc
  <2>1. P2[q] = m.page[q] /\ q \in DOMAIN m.page /\ q \notin gone
    OBVIOUS
  <2>2. QED
    BY <1>3, <2>1, PageTypes
<1>6. Sentinel(d) \in PageRec
  BY <1>0 DEF Sentinel, PageRec
<1>7. P2 \in [DOMAIN P2 -> PageRec]
  <2>1. P2 = [q \in DOMAIN P2 |-> P2[q]]
    OBVIOUS
  <2> HIDE DEF P2
  <2>2. ASSUME NEW q \in DOMAIN P2 PROVE P2[q] \in PageRec
    <3>1. CASE q = d
      BY <1>4, <1>6, <3>1
    <3>2. CASE q # d
      <4>1. P2[q] = m.page[q] /\ q \in DOMAIN m.page
        BY <1>5, <3>2
      <4>2. QED
        BY <1>0, <4>1, TypedFields
    <3>3. QED
      BY <3>1, <3>2
  <2>3. QED
    BY <2>1, <2>2
<1>8. R2 \in [Doc -> Doc \cup Page] /\ \A c \in Doc : R2[c] = IF c = d THEN d ELSE m.root[c]
  BY <1>0, TypedFields
<1>9. B2 \in [Doc -> 0..PageSize] /\ \A c \in Doc : B2[c] = IF c = d THEN PageSize ELSE m.busy[c]
  <2>1. PageSize \in 0..PageSize
    BY <1>0
  <2>2. m.busy \in [Doc -> 0..PageSize]
    BY <1>0, TypedFields
  <2>3. QED
    BY <2>1, <2>2
<1>10. Doc \subseteq DOMAIN P2 /\ DOMAIN P2 \subseteq Doc \cup Page
  <2>1. ASSUME NEW c \in Doc PROVE c \in DOMAIN P2
    <3>1. c \in DOMAIN m.page /\ m.page[c].allocator = c
      BY <1>0 DEF PagesLinked, Linked, Typed, PagesTyped
    <3>2. c \notin gone
      BY <1>3, <3>1
    <3>3. QED
      BY <1>4, <3>1, <3>2
  <2>2. QED
    BY <1>0, <1>4, <2>1, TypedFields
<1> HIDE DEF P2, R2, B2, gone
<1>11. m2.page = P2 /\ m2.root = R2 /\ m2.busy = B2 /\ m2.ok = TRUE
  BY <1>1
<1>12. Typed(m2)
  BY <1>1, <1>7, <1>8, <1>9, <1>10, MakesTyped
<1>13. P2[d].allocator = d /\ P2[d].prev = NoPage /\ P2[d].next = NoPage /\ P2[d].busy = PageSize
  BY <1>4 DEF Sentinel
<1>14. PagesLinked(m2.page, m2.root)
  <2>1. Emptied(m.page, m.root, P2, R2, d)
    BY <1>4, <1>5, <1>8, <1>13 DEF Emptied, gone
  <2>2. PagesTyped(P2)
    BY <1>11, <1>12 DEF Typed
  <2>3. QED
    BY <1>0, <1>11, <2>1, <2>2, EmptiedListed
<1>15. \A q \in DOMAIN P2 \ {d} : Used(m2, q) = Used(m, q)
  BY <1>5, <1>8, <1>9, <1>11 DEF Used
<1>16. M \subseteq L /\ Objects(M)
  <2>1. M \subseteq L
    BY DEF Elsewhere
  <2>2. QED
    BY <2>1, FS_Subset DEF Sound, Objects
<1>17. ASSUME NEW q \in DOMAIN P2 \ {d}
       PROVE  LyingIn(M, q) = LyingIn(L, q) /\ BlocksIn(M, q) = BlocksIn(L, q) /\ (LiesIn(L, q) => LiesIn(M, q))
  <2>1. LyingIn(M, q) = LyingIn(L, q)
    BY <1>5 DEF LyingIn, Elsewhere
  <2>2. LiesIn(L, q) => LiesIn(M, q)
    BY <1>5 DEF LiesIn, Elsewhere
  <2>3. QED
    BY <2>1, <2>2 DEF BlocksIn
<1>18. Counted(m2, M)
  <2>1. ASSUME NEW c \in Doc PROVE m2.page[c].busy = PageSize /\ (m2.root[c] = c => m2.busy[c] = PageSize)
    <3>1. m.page[c].busy = PageSize /\ (m.root[c] = c => m.busy[c] = PageSize)
      BY DEF Sound, Counted
    <3>2. c \in DOMAIN P2
      BY <1>10
    <3>3. QED
      BY <1>5, <1>8, <1>9, <1>11, <1>13, <3>1, <3>2
  <2>2. ASSUME NEW q \in DOMAIN m2.page \ Doc
        PROVE  /\ m2.page[q].freed + BlocksIn(M, q) = Used(m2, q)
               /\ LiesIn(M, q) \/ (q = m2.root[m2.page[q].allocator] /\ m2.busy[m2.page[q].allocator] = 0)
    <3>1. q \in DOMAIN P2 \ {d}
      BY <1>11
    <3>2. P2[q] = m.page[q] /\ q \in DOMAIN m.page \ Doc /\ m.page[q].allocator # d /\ m.page[q].allocator \in Doc
      BY <1>5, <3>1
    <3>3. m.page[q].freed + BlocksIn(L, q) = Used(m, q)
          /\ (LiesIn(L, q) \/ (q = m.root[m.page[q].allocator] /\ m.busy[m.page[q].allocator] = 0))
      BY <3>2 DEF Sound, Counted
    <3>4. m2.root[m2.page[q].allocator] = m.root[m.page[q].allocator] /\ m2.busy[m2.page[q].allocator] = m.busy[m.page[q].allocator]
      BY <1>8, <1>9, <1>11, <3>2
    <3>5. m2.page[q].freed + BlocksIn(M, q) = Used(m2, q)
      BY <1>11, <1>15, <1>17, <3>1, <3>2, <3>3
    <3>6. LiesIn(M, q) \/ (q = m2.root[m2.page[q].allocator] /\ m2.busy[m2.page[q].allocator] = 0)
      BY <1>17, <3>1, <3>3, <3>4
    <3>7. QED
      BY <3>5, <3>6
  <2>3. QED
    BY <2>1, <2>2 DEF Counted
<1>19. Lying(m2, M)
  <2>1. ASSUME NEW q \in M PROVE LiesWell(m2, q)
    <3>1. /\ q.page \in DOMAIN m.page /\ q.page \notin Doc /\ (q.offset = 0 \/ q.offset + q.size <= PageSize)
          /\ q.offset + q.size <= Used(m, q.page)
          /\ q.size >= MaxEncoded => m.page[q.page].busy = q.size
      BY <1>16, ObjectTypes
    <3>2. m.page[q.page].allocator # d
      BY DEF Elsewhere
    <3>3. q.page \in DOMAIN P2 \ {d}
      BY <1>3, <1>4, <3>1, <3>2
    <3>4. QED
      BY <1>5, <1>11, <1>15, <3>1, <3>3 DEF LiesWell
  <2>2. ASSUME NEW q \in M, NEW r \in M, q.page = r.page, q # r PROVE Apart(q, r)
    BY <1>16, <2>2 DEF Sound, Lying
  <2>3. QED
    BY <2>1, <2>2 DEF Lying
<1>20. Sound(m2, M)
  BY <1>12, <1>14, <1>16, <1>18, <1>19 DEF Sound, Typed
<1>21. SameAllocators(m, m2)
  <2>1. m.page[d].allocator = d
    BY <1>0 DEF PagesLinked, Linked
  <2>2. QED
    BY <1>0, <1>5, <1>11, <1>13, <2>1 DEF SameAllocators
<1>22. m2.root[d] = d /\ \A c \in Doc \ {d} : m2.root[c] = m.root[c]
  BY <1>8, <1>11
<1>23. QED
  BY <1>2, <1>11, <1>20, <1>21, <1>22

\* The pages of e are d's.
HandedOver(m, L, d, e, m2) ==
  /\ Sound(m2, L) /\ m2.ok = TRUE
  /\ \A o \in L : m2.page[o.page].allocator =
                    IF m.page[o.page].allocator = e THEN d ELSE m.page[o.page].allocator

\* _move() to a document that was just created: it has the pages of the other.
LEMMA MovedSound ==
  ASSUME NEW m, NEW L, Sound(m, L), NEW d \in Doc, NEW e \in Doc, d # e, m.root[d] = d, m.root[e] # e
  PROVE  HandedOver(m, L, d, e, Moved(m, d, e))
<1> DEFINE first == m.page[e].next
           pages == Pages(m.page, e) \ {e}
           Relinked(q) == [m.page[q] EXCEPT !.allocator = IF q \in pages THEN d ELSE @,
                                            !.prev = IF q = first THEN d ELSE @,
                                            !.next = IF q = d THEN first ELSE IF q = e THEN NoPage ELSE @]
           P2 == [q \in DOMAIN m.page |-> Relinked(q)]
           R2 == [m.root EXCEPT ![d] = m.root[e], ![e] = e]
           B2 == [m.busy EXCEPT ![d] = m.busy[e], ![e] = m.page[e].busy]
<1>0. PageSize \in Nat /\ Typed(m) /\ PagesLinked(m.page, m.root) /\ d \in DOMAIN m.page /\ e \in DOMAIN m.page
  BY MemorySizes DEF Sound, Typed, PagesLinked, PagesTyped
<1>1. PICK m2 : m2 = [page |-> P2, root |-> R2, busy |-> B2, ok |-> TRUE]
  OBVIOUS
<1>3. pages = {q \in DOMAIN m.page \ {e} : m.page[q].allocator = e}
  BY <1>0, PagesAre DEF PagesLinked
<1>2. Moved(m, d, e) = m2
  <2>1. Moved(m, d, e) = [m EXCEPT !.page = P2, !.root = R2, !.busy = B2, !.ok = @ /\ \A q \in pages : m.page[q].allocator = e]
    BY DEF Moved
  <2>2. m = [page |-> m.page, root |-> m.root, busy |-> m.busy, ok |-> m.ok] /\ m.ok = TRUE
    BY <1>0, TypedFields
  <2>3. PICK k \in BOOLEAN : k = (\A q \in pages : m.page[q].allocator = e)
    BY Zenon
  <2>4. k = TRUE
    BY <1>3, <2>3
  <2>5. Moved(m, d, e) = [m EXCEPT !.page = P2, !.root = R2, !.busy = B2, !.ok = @ /\ k]
    <3> HIDE DEF P2, R2, B2, pages
    <3>1. QED
      BY ONLY <2>1, <2>3
  <2> HIDE DEF P2, R2, B2, pages
  <2>6. QED
    BY ONLY <1>1, <2>2, <2>4, <2>5
<1>4. PICK f : f = first
  OBVIOUS
<1>5. f \in DOMAIN m.page /\ f \in Doc \cup Page
  <2>1. f # NoPage
    <3>1. m.page[e].allocator = e
      BY <1>0 DEF PagesLinked, Linked
    <3>2. QED
      BY <1>0, <1>4, <3>1 DEF PagesLinked, Linked
  <2>2. f \in DOMAIN m.page
    BY <1>0, <1>4, <2>1 DEF PagesLinked, Linked
  <2>3. QED
    BY <1>0, <2>2, TypedFields
<1>6. ASSUME NEW q \in DOMAIN m.page
      PROVE  /\ P2[q] \in PageRec /\ P2[q].busy = m.page[q].busy /\ P2[q].freed = m.page[q].freed
             /\ P2[q].allocator = IF q \in pages THEN d ELSE m.page[q].allocator
             /\ P2[q].prev = IF q = f THEN d ELSE m.page[q].prev
             /\ P2[q].next = IF q = d THEN f ELSE IF q = e THEN NoPage ELSE m.page[q].next
  <2>1. PICK r : r = m.page[q] /\ r \in PageRec
    BY <1>0, TypedFields
  <2>2. PICK al : al = (IF q \in pages THEN d ELSE r.allocator)
    OBVIOUS
  <2>3. PICK pr : pr = (IF q = f THEN d ELSE r.prev)
    OBVIOUS
  <2>4. PICK nx : nx = (IF q = d THEN f ELSE IF q = e THEN NoPage ELSE r.next)
    OBVIOUS
  <2>5. P2[q] = [r EXCEPT !.allocator = al, !.prev = pr, !.next = nx]
    <3>1. P2[q] = Relinked(q)
      OBVIOUS
    <3> HIDE DEF P2, pages
    <3>2. QED
      BY ONLY <3>1, <1>4, <2>1, <2>2, <2>3, <2>4
  <2>6. al \in Doc /\ pr \in Doc \cup Page \cup {NoPage} /\ nx \in Doc \cup Page \cup {NoPage}
    <3>1. r.allocator \in Doc /\ r.prev \in Doc \cup Page \cup {NoPage} /\ r.next \in Doc \cup Page \cup {NoPage}
      BY <2>1 DEF PageRec
    <3> HIDE DEF pages
    <3>2. QED
      BY <1>5, <2>2, <2>3, <2>4, <3>1
  <2> HIDE DEF P2, pages
  <2>7. P2[q] \in PageRec /\ P2[q].busy = r.busy /\ P2[q].freed = r.freed
        /\ P2[q].allocator = al /\ P2[q].prev = pr /\ P2[q].next = nx
    BY <2>1, <2>5, <2>6 DEF PageRec
  <2>8. QED
    BY <2>1, <2>2, <2>3, <2>4, <2>7
<1>7. DOMAIN P2 = DOMAIN m.page /\ P2 \in [DOMAIN P2 -> PageRec]
  <2>1. DOMAIN P2 = DOMAIN m.page /\ P2 = [q \in DOMAIN P2 |-> P2[q]]
    OBVIOUS
  <2> HIDE DEF P2, pages
  <2>2. QED
    BY <1>6, <2>1
<1> HIDE DEF pages, P2, first
<1>8. R2 \in [Doc -> Doc \cup Page] /\ \A c \in Doc : R2[c] = IF c = e THEN e ELSE IF c = d THEN m.root[e] ELSE m.root[c]
  <2>1. m.root \in [Doc -> Doc \cup Page]
    BY <1>0, TypedFields
  <2>2. QED
    BY <2>1
<1>9. m.page[e].busy = PageSize
  BY DEF Sound, Counted
<1>10. B2 \in [Doc -> 0..PageSize]
       /\ \A c \in Doc : B2[c] = IF c = e THEN PageSize ELSE IF c = d THEN m.busy[e] ELSE m.busy[c]
  <2>1. PageSize \in 0..PageSize
    BY <1>0
  <2>2. m.busy \in [Doc -> 0..PageSize]
    BY <1>0, TypedFields
  <2>3. QED
    BY <1>9, <2>1, <2>2
<1> HIDE DEF R2, B2
<1>11. m2.page = P2 /\ m2.root = R2 /\ m2.busy = B2 /\ m2.ok = TRUE
  BY <1>1
<1>12. Typed(m2)
  <2>1. Doc \subseteq DOMAIN P2 /\ DOMAIN P2 \subseteq Doc \cup Page
    BY <1>0, <1>7, TypedFields
  <2>2. QED
    BY <1>1, <1>7, <1>8, <1>10, <2>1, MakesTyped
<1>13. PagesLinked(m2.page, m2.root)
  <2>1. TakenOver(m.page, m.root, P2, R2, d, e)
    BY <1>4, <1>6, <1>7, <1>8 DEF TakenOver, pages, first
  <2>2. PagesTyped(P2)
    BY <1>11, <1>12 DEF Typed
  <2>3. QED
    BY <1>0, <1>11, <2>1, <2>2, TakenOverListed
<1>14. ASSUME NEW q \in DOMAIN m.page \ Doc
       PROVE  /\ P2[q].allocator = IF m.page[q].allocator = e THEN d ELSE m.page[q].allocator
              /\ Used(m2, q) = Used(m, q)
              /\ q = m.root[m.page[q].allocator] =>
                   q = R2[P2[q].allocator] /\ B2[P2[q].allocator] = m.busy[m.page[q].allocator]
  <2>1. P2[q].allocator = IF m.page[q].allocator = e THEN d ELSE m.page[q].allocator
    BY <1>3, <1>6
  <2>2. m.page[q].allocator \in Doc /\ m.page[q].allocator # d
    <3>1. m.page[q].allocator \in Doc
      BY PageTypes
    <3>2. q # d
      OBVIOUS
    <3>3. QED
      BY <1>0, <3>1, <3>2, EmptyDocument
  <2>3. P2[q].busy = m.page[q].busy
    BY <1>6
  <2>4. CASE m.page[q].allocator = e
    <3>1. P2[q].allocator = d /\ R2[d] = m.root[e] /\ B2[d] = m.busy[e]
      BY <1>8, <1>10, <2>1, <2>4
    <3>2. QED
      BY <1>11, <2>1, <2>3, <2>4, <3>1 DEF Used
  <2>5. CASE m.page[q].allocator # e
    <3>1. PICK c \in Doc : c = m.page[q].allocator
      BY <2>2
    <3>2. P2[q].allocator = c /\ R2[c] = m.root[c] /\ B2[c] = m.busy[c]
      BY <1>8, <1>10, <2>1, <2>2, <2>5, <3>1
    <3>3. QED
      BY <1>11, <2>1, <2>3, <2>5, <3>1, <3>2 DEF Used
  <2>6. QED
    BY <2>4, <2>5
<1>15. Counted(m2, L)
  <2>1. ASSUME NEW c \in Doc PROVE m2.page[c].busy = PageSize /\ (m2.root[c] = c => m2.busy[c] = PageSize)
    <3>1. m.page[c].busy = PageSize /\ (m.root[c] = c => m.busy[c] = PageSize) /\ c \in DOMAIN m.page
      BY <1>0, TypedFields DEF Sound, Counted
    <3>2. m.page[m.root[e]].allocator = e /\ m.page[d].allocator = d
      BY <1>0 DEF PagesLinked, Linked
    <3>3. m.root[e] # d
      BY <3>2
    <3>4. QED
      BY <1>6, <1>8, <1>10, <1>11, <3>1, <3>3
  <2>2. ASSUME NEW q \in DOMAIN m2.page \ Doc
        PROVE  /\ m2.page[q].freed + BlocksIn(L, q) = Used(m2, q)
               /\ LiesIn(L, q) \/ (q = m2.root[m2.page[q].allocator] /\ m2.busy[m2.page[q].allocator] = 0)
    <3>1. q \in DOMAIN m.page \ Doc
      BY <1>7, <1>11
    <3>2. m.page[q].freed + BlocksIn(L, q) = Used(m, q)
          /\ (LiesIn(L, q) \/ (q = m.root[m.page[q].allocator] /\ m.busy[m.page[q].allocator] = 0))
      BY <3>1 DEF Sound, Counted
    <3>3. QED
      BY <1>6, <1>11, <1>14, <3>1, <3>2
  <2>3. QED
    BY <2>1, <2>2 DEF Counted
<1>16. Lying(m2, L)
  <2>1. ASSUME NEW q \in L PROVE LiesWell(m2, q)
    <3>1. /\ q.page \in DOMAIN m.page /\ q.page \notin Doc /\ (q.offset = 0 \/ q.offset + q.size <= PageSize)
          /\ q.offset + q.size <= Used(m, q.page)
          /\ q.size >= MaxEncoded => m.page[q.page].busy = q.size
      BY ObjectTypes
    <3>2. QED
      BY <1>6, <1>7, <1>11, <1>14, <3>1 DEF LiesWell
  <2>2. QED
    BY <2>1 DEF Sound, Lying
<1>17. Sound(m2, L)
  BY <1>12, <1>13, <1>15, <1>16 DEF Sound, Typed
<1>18. \A o \in L : m2.page[o.page].allocator = IF m.page[o.page].allocator = e THEN d ELSE m.page[o.page].allocator
  BY <1>11, <1>14, ObjectTypes
<1>19. QED
  BY <1>2, <1>11, <1>17, <1>18 DEF HandedOver

\* What an object belongs to is a document or a node that is alive, of the
\* same allocator, and from the document every object is reached.
OwnerKnown(L, w, o) == (\E d \in Doc : w[o] = Top(d)) \/ (\E n \in L : n.node /\ w[o] = Place(n))

Owners(P, L, w) ==
  /\ DOMAIN w = L
  /\ \A o \in L : OwnerKnown(L, w, o) /\ P[o.page].allocator = P[w[o][1]].allocator
  /\ \A o \in L : o \in Below(L, w, Top(P[o.page].allocator))

\* P2 says of the pages of L and of the sentinels what P says.
SameOwners(P, P2, L) ==
  /\ \A o \in L : P2[o.page].allocator = P[o.page].allocator
  /\ \A d \in Doc : P2[d].allocator = P[d].allocator

LEMMA PlaceFirst ==
  ASSUME NEW n
  PROVE  Place(n)[1] = n.page /\ Top(n)[1] = n
BY DEF Place, Top

LEMMA OwnersWithout ==
  ASSUME NEW P, NEW L, NEW w, Owners(P, L, w), NEW D \in SUBSET L,
         \A q \in L : \A r \in D : w[q] = Place(r) => q \in D,
         NEW P2, SameOwners(P, P2, L \ D), NEW v, v = [o \in L \ D |-> w[o]]
  PROVE  Owners(P2, L \ D, v)
<1> DEFINE M == L \ D
<1>1. ASSUME NEW o \in M PROVE OwnerKnown(M, v, o) /\ P2[o.page].allocator = P2[v[o][1]].allocator
  <2>1. v[o] = w[o] /\ o \in L
    OBVIOUS
  <2>2. OwnerKnown(L, w, o) /\ P[o.page].allocator = P[w[o][1]].allocator
    BY <2>1 DEF Owners
  <2>3. CASE \E d \in Doc : w[o] = Top(d)
    <3>1. PICK d \in Doc : w[o] = Top(d)
      BY <2>3
    <3>2. OwnerKnown(M, v, o)
      BY <2>1, <3>1 DEF OwnerKnown
    <3>3. v[o][1] = d /\ w[o][1] = d
      BY <2>1, <3>1, PlaceFirst
    <3>4. P2[d].allocator = P[d].allocator /\ P2[o.page].allocator = P[o.page].allocator
      BY DEF SameOwners
    <3>5. QED
      BY <2>2, <3>2, <3>3, <3>4
  <2>4. CASE \E n \in L : n.node /\ w[o] = Place(n)
    <3>1. PICK n \in L : n.node /\ w[o] = Place(n)
      BY <2>4
    <3>2. n \in M
      BY <3>1, <2>1
    <3>3. OwnerKnown(M, v, o)
      BY <2>1, <3>1, <3>2 DEF OwnerKnown
    <3>4. v[o][1] = n.page /\ w[o][1] = n.page
      BY <2>1, <3>1, PlaceFirst
    <3>5. P2[n.page].allocator = P[n.page].allocator /\ P2[o.page].allocator = P[o.page].allocator
      BY <3>2 DEF SameOwners
    <3>6. QED
      BY <2>2, <3>3, <3>4, <3>5
  <2>5. QED
    BY <2>2, <2>3, <2>4 DEF OwnerKnown
<1>2. ASSUME NEW o \in M PROVE o \in Below(M, v, Top(P2[o.page].allocator))
  <2>1. PICK x : x = Top(P[o.page].allocator)
    OBVIOUS
  <2>2. o \in Below(L, w, x)
    BY <2>1 DEF Owners
  <2> DEFINE S == D \cup Below(M, v, x)
  <2>3. S \in SUBSET L
    BY DEF Below
  <2>4. ASSUME NEW q \in L, w[q] = x \/ (\E r \in S : w[q] = Place(r)), q \notin D PROVE q \in S
    <3>1. q \in M /\ v[q] = w[q]
      BY <2>4
    <3>2. CASE w[q] = x
      BY <3>1, <3>2, BelowFirst
    <3>3. CASE \E r \in S : w[q] = Place(r)
      <4>1. PICK r \in S : w[q] = Place(r)
        BY <3>3
      <4>2. r \in Below(M, v, x)
        BY <2>4, <4>1
      <4>3. QED
        BY <3>1, <4>1, <4>2, BelowNext
    <3>4. QED
      BY <2>4, <3>2, <3>3
  <2>5. \A q \in L : w[q] = x \/ (\E r \in S : w[q] = Place(r)) => q \in S
    BY <2>4
  <2> HIDE DEF S
  <2>6. Below(L, w, x) \subseteq S
    BY <2>3, <2>5, BelowLeast
  <2>7. QED
    BY <2>1, <2>2, <2>6 DEF S, SameOwners
<1>3. QED
  BY <1>1, <1>2 DEF Owners

LEMMA OwnersWith ==
  ASSUME NEW P, NEW L, NEW w, Owners(P, L, w), NEW o, o \notin L, NEW x,
         (\E d \in Doc : x = Top(d) /\ P[d].allocator = d) \/ (\E n \in L : n.node /\ x = Place(n)),
         NEW P2, SameOwners(P, P2, L), P2[o.page].allocator = P[x[1]].allocator,
         NEW v, v = [q \in L \cup {o} |-> IF q \in L THEN w[q] ELSE x]
  PROVE  Owners(P2, L \cup {o}, v)
<1> DEFINE M == L \cup {o}
<1>1. DOMAIN v = M /\ v[o] = x /\ \A q \in L : v[q] = w[q]
  OBVIOUS
<1>2. P2[x[1]].allocator = P[x[1]].allocator
  <2>1. (\E d \in Doc : x[1] = d) \/ (\E n \in L : x[1] = n.page)
    BY PlaceFirst
  <2>2. QED
    BY <2>1 DEF SameOwners
<1>3. ASSUME NEW q \in M PROVE OwnerKnown(M, v, q) /\ P2[q.page].allocator = P2[v[q][1]].allocator
  <2>1. CASE q = o
    BY <1>1, <1>2, <2>1 DEF OwnerKnown
  <2>2. CASE q \in L
    <3>1. v[q] = w[q] /\ OwnerKnown(L, w, q) /\ P[q.page].allocator = P[w[q][1]].allocator
      BY <1>1, <2>2 DEF Owners
    <3>2. P2[w[q][1]].allocator = P[w[q][1]].allocator
      <4>1. (\E d \in Doc : w[q][1] = d) \/ (\E n \in L : w[q][1] = n.page)
        <5>1. (\E d \in Doc : w[q] = Top(d)) \/ (\E n \in L : w[q] = Place(n))
          BY <3>1 DEF OwnerKnown
        <5>2. QED
          <6>1. CASE \E d \in Doc : w[q] = Top(d)
            BY ONLY <6>1, PlaceFirst
          <6>2. CASE \E n \in L : w[q] = Place(n)
            BY ONLY <6>2, PlaceFirst
          <6>3. QED
            BY ONLY <5>1, <6>1, <6>2
      <4>2. QED
        BY <4>1 DEF SameOwners
    <3>3. P2[q.page].allocator = P[q.page].allocator
      BY <2>2 DEF SameOwners
    <3>4. OwnerKnown(M, v, q)
      BY <3>1 DEF OwnerKnown
    <3>5. QED
      BY <3>1, <3>2, <3>3, <3>4
  <2>3. QED
    BY <2>1, <2>2
<1>4. ASSUME NEW y PROVE Below(L, w, y) \subseteq Below(M, v, y)
  <2> DEFINE S == Below(M, v, y) \cap L
  <2>1. S \in SUBSET L
    OBVIOUS
  <2>2. ASSUME NEW q \in L, w[q] = y \/ (\E r \in S : w[q] = Place(r)) PROVE q \in S
    <3>1. q \in M /\ v[q] = w[q]
      BY <1>1
    <3>2. CASE w[q] = y
      BY <3>1, <3>2, BelowFirst
    <3>3. CASE \E r \in S : w[q] = Place(r)
      BY <3>1, <3>3, BelowNext
    <3>4. QED
      BY <2>2, <3>2, <3>3
  <2> HIDE DEF S
  <2>3. Below(L, w, y) \subseteq S
    BY <2>1, <2>2, BelowLeast
  <2>4. QED
    BY <2>3 DEF S
<1>5. ASSUME NEW q \in M PROVE q \in Below(M, v, Top(P2[q.page].allocator))
  <2>1. CASE q \in L
    <3>1. P2[q.page].allocator = P[q.page].allocator
      BY <2>1 DEF SameOwners
    <3>2. q \in Below(L, w, Top(P[q.page].allocator))
      BY <2>1 DEF Owners
    <3>3. QED
      BY <1>4, <3>1, <3>2
  <2>2. CASE q = o
    <3>1. CASE \E d \in Doc : x = Top(d) /\ P[d].allocator = d
      <4>1. PICK d \in Doc : x = Top(d) /\ P[d].allocator = d
        BY <3>1
      <4>2. x = Top(P2[q.page].allocator)
        BY <2>2, <4>1, PlaceFirst
      <4>3. QED
        BY <1>1, <2>2, <4>2, BelowFirst
    <3>2. CASE \E n \in L : n.node /\ x = Place(n)
      <4>1. PICK n \in L : n.node /\ x = Place(n)
        BY <3>2
      <4>2. P2[q.page].allocator = P[n.page].allocator
        BY <2>2, <4>1, PlaceFirst
      <4>3. n \in Below(L, w, Top(P[n.page].allocator))
        BY <4>1 DEF Owners
      <4>4. PICK y : y = Top(P[n.page].allocator)
        OBVIOUS
      <4>5. n \in Below(M, v, y)
        BY <1>4, <4>3, <4>4
      <4>6. q \in Below(M, v, y)
        BY <1>1, <2>2, <4>1, <4>5, BelowNext
      <4>7. QED
        BY <4>2, <4>4, <4>6
    <3>3. QED
      BY <3>1, <3>2
  <2>3. QED
    BY <2>1, <2>2
<1>6. QED
  BY <1>1, <1>3, <1>5 DEF Owners

\* All that belongs to a place is of one allocator.
LEMMA BelowAllocator ==
  ASSUME NEW P, NEW L, NEW w, Owners(P, L, w), NEW x
  PROVE  \A o \in Below(L, w, x) : P[o.page].allocator = P[x[1]].allocator
<1> DEFINE S == {o \in L : P[o.page].allocator = P[x[1]].allocator}
<1>1. ASSUME NEW q \in L, w[q] = x \/ (\E r \in S : w[q] = Place(r)) PROVE q \in S
  <2>1. P[q.page].allocator = P[w[q][1]].allocator
    BY DEF Owners
  <2>2. QED
    BY <1>1, <2>1, PlaceFirst
<1>2. S \in SUBSET L
  OBVIOUS
<1> HIDE DEF S
<1>3. Below(L, w, x) \subseteq S
  BY <1>1, <1>2, BelowLeast
<1>4. QED
  BY <1>3 DEF S

LEMMA BelowClosed ==
  ASSUME NEW L, NEW w, NEW x
  PROVE  /\ Below(L, w, x) \subseteq L
         /\ \A q \in L : \A r \in Below(L, w, x) : w[q] = Place(r) => q \in Below(L, w, x)
BY BelowNext DEF Below

\* What belongs to a document is all that is in its pages.
LEMMA BelongingIs ==
  ASSUME NEW P, NEW L, NEW w, Owners(P, L, w), NEW d \in Doc, P[d].allocator = d
  PROVE  Below(L, w, Top(d)) = {o \in L : P[o.page].allocator = d}
<1>1. \A o \in Below(L, w, Top(d)) : o \in L /\ P[o.page].allocator = d
  <2>1. PICK x : x = Top(d)
    OBVIOUS
  <2>2. x[1] = d
    BY <2>1, PlaceFirst
  <2>3. QED
    BY <2>1, <2>2, BelowAllocator, BelowClosed
<1>2. \A o \in L : P[o.page].allocator = d => o \in Below(L, w, Top(d))
  BY DEF Owners
<1>3. QED
  BY <1>1, <1>2

\* What belonged to e belongs to d when d took e's pages over.
LEMMA OwnersMoved ==
  ASSUME NEW P, NEW L, NEW w, Owners(P, L, w), L \subseteq Object, NEW d \in Doc, NEW e \in Doc,
         \A c \in Doc : P[c].allocator = c,
         NEW P2, \A o \in L : P2[o.page].allocator = IF P[o.page].allocator = e THEN d ELSE P[o.page].allocator,
         \A c \in Doc : P2[c].allocator = c,
         NEW v, v = [o \in L |-> IF w[o] = Top(e) THEN Top(d) ELSE w[o]]
  PROVE  Owners(P2, L, v)
<1>1. \A c \in Doc : Top(c) = Top(e) => c = e
  BY DEF Top
<1>2. \A r \in L : Place(r) # Top(e)
  BY NoPageIsNone DEF Place, Top, Object
<1>3. ASSUME NEW o \in L PROVE OwnerKnown(L, v, o) /\ P2[o.page].allocator = P2[v[o][1]].allocator
  <2>1. OwnerKnown(L, w, o) /\ P[o.page].allocator = P[w[o][1]].allocator
    BY DEF Owners
  <2>2. CASE \E c \in Doc : w[o] = Top(c)
    <3>1. PICK c \in Doc : w[o] = Top(c)
      BY <2>2
    <3>2. P[o.page].allocator = c
      <4>1. PICK z : z = w[o]
        OBVIOUS
      <4>2. z[1] = c
        BY ONLY <3>1, <4>1, PlaceFirst
      <4>3. QED
        BY <2>1, <4>1, <4>2
    <3>3. CASE c = e
      <4>1. v[o] = Top(d) /\ P2[o.page].allocator = d
        BY <3>1, <3>2, <3>3
      <4>2. QED
        <5>1. OwnerKnown(L, v, o)
          BY <4>1 DEF OwnerKnown
        <5>2. v[o][1] = d
          BY ONLY <4>1, PlaceFirst
        <5>4. P2[d].allocator = d
          OBVIOUS
        <5>3. QED
          BY <4>1, <5>1, <5>2, <5>4
    <3>4. CASE c # e
      <4>1. v[o] = Top(c) /\ P2[o.page].allocator = c
        BY <1>1, <3>1, <3>2, <3>4
      <4>2. QED
        <5>1. OwnerKnown(L, v, o)
          BY <4>1 DEF OwnerKnown
        <5>2. v[o][1] = c
          BY ONLY <4>1, PlaceFirst
        <5>4. P2[c].allocator = c
          OBVIOUS
        <5>3. QED
          BY <4>1, <5>1, <5>2, <5>4
    <3>5. QED
      BY <3>3, <3>4
  <2>3. CASE \E n \in L : n.node /\ w[o] = Place(n)
    <3>1. PICK n \in L : n.node /\ w[o] = Place(n)
      BY <2>3
    <3>2. v[o] = Place(n)
      BY <1>2, <3>1
    <3>3. P[o.page].allocator = P[n.page].allocator
      <4>1. PICK z : z = w[o]
        OBVIOUS
      <4>2. z[1] = n.page
        BY ONLY <3>1, <4>1, PlaceFirst
      <4>3. QED
        BY <2>1, <4>1, <4>2
    <3>4. P2[o.page].allocator = P2[n.page].allocator
      BY <3>3
    <3>5. QED
      <4>1. OwnerKnown(L, v, o)
        BY <3>1, <3>2 DEF OwnerKnown
      <4>2. v[o][1] = n.page
        BY <3>2, PlaceFirst
      <4>3. QED
        BY <3>4, <4>1, <4>2
  <2>4. QED
    BY <2>1, <2>2, <2>3 DEF OwnerKnown
<1>4. ASSUME NEW o \in L PROVE o \in Below(L, v, Top(P2[o.page].allocator))
  <2>1. PICK c : c = P[o.page].allocator
    OBVIOUS
  <2>2. PICK y : y = Top(IF c = e THEN d ELSE c)
    OBVIOUS
  <2>3. o \in Below(L, w, Top(c))
    BY <2>1 DEF Owners
  <2> DEFINE S == Below(L, v, y)
  <2>4. S \in SUBSET L
    BY BelowClosed
  <2>5. ASSUME NEW q \in L, w[q] = Top(c) \/ (\E r \in S : w[q] = Place(r)) PROVE q \in S
    <3>1. CASE w[q] = Top(c)
      <4>1. v[q] = y
        BY <2>2, <3>1 DEF Top
      <4>2. QED
        BY <4>1, BelowFirst
    <3>2. CASE \E r \in S : w[q] = Place(r)
      <4>1. PICK r \in S : w[q] = Place(r)
        BY <3>2
      <4>2. v[q] = Place(r)
        BY <1>2, <2>4, <4>1
      <4>3. QED
        BY <4>1, <4>2, BelowNext
    <3>3. QED
      BY <2>5, <3>1, <3>2
  <2> HIDE DEF S
  <2>6. Below(L, w, Top(c)) \subseteq S
    BY <2>4, <2>5, BelowLeast
  <2>7. Top(P2[o.page].allocator) = y
    BY <2>1, <2>2
  <2>8. QED
    BY <2>3, <2>6, <2>7 DEF S
<1>5. QED
  BY <1>3, <1>4 DEF Owners

(***************************************************************************)
(* The memory is sound for the objects alive, and each belongs to a        *)
(* document or a node whose pages it is in.                                *)
(***************************************************************************)
MemoryInvariant == Sound(mem, live) /\ Owners(page, live, ownerOf)

LEMMA MemFields == mem.page = page /\ mem.root = root /\ mem.busy = busy /\ mem.ok = ok
BY DEF mem

\* The memory after a step that takes it from m.
Takes(m) == page' = m.page /\ root' = m.root /\ busy' = m.busy /\ ok' = TRUE

LEMMA TakesSound ==
  ASSUME NEW m, NEW L, Sound(m, L), Takes(m), live' = L
  PROVE  Sound(mem, live)' /\ mem' = m
<1>1. Typed(m)
  BY DEF Sound, Typed, PagesLinked
<1>2. m = [page |-> m.page, root |-> m.root, busy |-> m.busy, ok |-> m.ok] /\ m.ok = TRUE
  BY <1>1, TypedFields
<1>3. mem' = m
  BY <1>2 DEF mem, Takes
<1>4. QED
  BY <1>3

\* The outcome of allocate_memory(), m with object o of owner.
Outcome(m, o, owner, isNode) ==
  /\ page' = m.page /\ root' = m.root /\ busy' = m.busy
  /\ ok' = (m.ok /\ (isNode \/ Encodable(m, o)))
  /\ live' = IF m.ok THEN live \cup {o} ELSE live
  /\ ownerOf' = [q \in live' |-> IF q \in live THEN ownerOf[q] ELSE owner]

LEMMA OutcomeFits ==
  ASSUME NEW a, NEW size, NEW owner, NEW isNode, Allocate(a, size, owner, isNode), busy[a] + size <= PageSize
  PROVE  LET m == Fitting(mem, a, size) IN Outcome(m, MadeObject(m.root[a], busy[a], size, isNode), owner, isNode)
BY Zenon DEF Allocate, Fits, Fitting, MadeObject, Outcome

LEMMA OutcomeSmall ==
  ASSUME NEW a, NEW size, NEW owner, NEW isNode, Allocate(a, size, owner, isNode), ~ (busy[a] + size <= PageSize),
         size <= Threshold
  PROVE  /\ FreePages(mem) # {}
         /\ LET m == AllocateSmallPage(mem, a, size)
            IN  Outcome(m, MadeObject(m.root[a], 0, size, isNode), owner, isNode)
BY Zenon DEF Allocate, Fits, MadeObject, Outcome

LEMMA OutcomeLarge ==
  ASSUME NEW a, NEW size, NEW owner, NEW isNode, Allocate(a, size, owner, isNode), ~ (busy[a] + size <= PageSize),
         ~ (size <= Threshold)
  PROVE  /\ FreePages(mem) # {}
         /\ LET m == AllocateLargePage(mem, a, size)
            IN  Outcome(m, MadeObject(LargePage(m, a), 0, size, isNode), owner, isNode)
BY Zenon DEF Allocate, Fits, MadeObject, Outcome

\* What an object may be made for: a document, or a node that is alive.
MayOwn(x, a, isNode) ==
  /\ a = page[x[1]].allocator
  /\ (isNode /\ \E d \in Doc : x = Top(d)) \/ (\E n \in live : n.node /\ x = Place(n))

LEMMA AllocatorsKnown ==
  ASSUME NEW m, NEW L, Sound(m, L)
  PROVE  \A d \in Doc : d \in DOMAIN m.page /\ m.page[d].allocator = d
BY DEF Sound, PagesLinked, Linked, PagesTyped

LEMMA AllocateKeeps ==
  ASSUME MemoryInvariant, NEW a, NEW size, NEW x, NEW isNode, MadeFor(a, size, isNode), MayOwn(x, a, isNode),
         NEW m, NEW o, Makes(mem, live, a, m, o), Outcome(m, o, x, isNode)
  PROVE  MemoryInvariant'
<1>1. Sound(m, live \cup {o}) /\ o \notin live /\ Encodable(m, o) /\ m.page[o.page].allocator = a /\ KeepsPages(mem, m)
  BY DEF Makes
<1>2. m.ok = TRUE
  BY <1>1, TypedFields DEF Sound, Typed, PagesLinked
<1>3. live' = live \cup {o} /\ Takes(m)
  BY <1>1, <1>2 DEF Outcome, Takes
<1>4. Sound(mem, live)'
  BY <1>1, <1>3, TakesSound
<1>5. SameOwners(page, m.page, live)
  <2>1. \A q \in live : q.page \in DOMAIN page
    BY ObjectTypes, MemFields DEF MemoryInvariant
  <2>2. \A d \in Doc : d \in DOMAIN page
    BY AllocatorsKnown, MemFields DEF MemoryInvariant
  <2>3. QED
    BY <1>1, <2>1, <2>2, MemFields DEF KeepsPages, SameOwners
<1>6. Owners(m.page, live \cup {o}, ownerOf')
  <2>1. (\E d \in Doc : x = Top(d) /\ page[d].allocator = d) \/ (\E n \in live : n.node /\ x = Place(n))
    BY AllocatorsKnown, MemFields DEF MemoryInvariant, MayOwn
  <2>2. ownerOf' = [q \in live \cup {o} |-> IF q \in live THEN ownerOf[q] ELSE x]
    BY <1>3 DEF Outcome
  <2>3. m.page[o.page].allocator = page[x[1]].allocator
    BY <1>1 DEF MayOwn
  <2>4. Owners(page, live, ownerOf)
    BY DEF MemoryInvariant
  <2>5. PICK P2 : P2 = m.page
    OBVIOUS
  <2>6. PICK L : L = live
    OBVIOUS
  <2>7. PICK v : v = ownerOf'
    OBVIOUS
  <2>8. /\ Owners(page, L, ownerOf) /\ o \notin L /\ SameOwners(page, P2, L)
        /\ (\E d \in Doc : x = Top(d) /\ page[d].allocator = d) \/ (\E n \in L : n.node /\ x = Place(n))
        /\ P2[o.page].allocator = page[x[1]].allocator
    BY <1>1, <1>5, <2>1, <2>3, <2>4, <2>5, <2>6
  <2>9. v = [q \in L \cup {o} |-> IF q \in L THEN ownerOf[q] ELSE x]
    BY <2>2, <2>6, <2>7
  <2>10. Owners(P2, L \cup {o}, v)
    BY ONLY <2>8, <2>9, OwnersWith
  <2>11. QED
    BY <2>5, <2>6, <2>7, <2>10
<1>7. QED
  BY <1>3, <1>4, <1>6 DEF Takes, MemoryInvariant

LEMMA AllocateStep ==
  ASSUME MemoryInvariant, NEW a, NEW size, NEW x, NEW isNode, MadeFor(a, size, isNode), MayOwn(x, a, isNode),
         Allocate(a, size, x, isNode)
  PROVE  MemoryInvariant'
<1>1. Sound(mem, live)
  BY DEF MemoryInvariant
<1>2. CASE busy[a] + size <= PageSize
  <2>1. PICK m : m = Fitting(mem, a, size)
    OBVIOUS
  <2>2. PICK o : o = MadeObject(root[a], busy[a], size, isNode)
    OBVIOUS
  <2>3. Makes(mem, live, a, m, o)
    BY <1>1, <1>2, <2>1, <2>2, FitsSound, MemFields
  <2>4. m.root = root
    BY <2>1, MemFields DEF Fitting, mem
  <2>5. Outcome(m, o, x, isNode)
    BY <1>2, <2>1, <2>2, <2>4, OutcomeFits
  <2>6. QED
    BY <2>3, <2>5, AllocateKeeps
<1>3. CASE ~ (busy[a] + size <= PageSize) /\ size <= Threshold
  <2>1. PICK m : m = AllocateSmallPage(mem, a, size)
    OBVIOUS
  <2>2. PICK o : o = MadeObject(m.root[a], 0, size, isNode)
    OBVIOUS
  <2>3. FreePages(mem) # {} /\ Outcome(m, o, x, isNode)
    BY <1>3, <2>1, <2>2, OutcomeSmall
  <2>4. Makes(mem, live, a, m, o)
    BY <1>1, <1>3, <2>1, <2>2, <2>3, SmallSound, MemFields
  <2>5. QED
    BY <2>3, <2>4, AllocateKeeps
<1>4. CASE ~ (busy[a] + size <= PageSize) /\ ~ (size <= Threshold)
  <2>1. PICK m : m = AllocateLargePage(mem, a, size)
    OBVIOUS
  <2>2. PICK o : o = MadeObject(LargePage(m, a), 0, size, isNode)
    OBVIOUS
  <2>3. FreePages(mem) # {} /\ Outcome(m, o, x, isNode)
    BY <1>4, <2>1, <2>2, OutcomeLarge
  <2>4. PICK n \in live : x = Place(n)
    <3>1. ~ isNode
      BY <1>4, MemorySizes DEF MadeFor
    <3>2. QED
      BY <3>1 DEF MayOwn
  <2>5. mem.page[n.page].allocator = a
    BY <2>4, PlaceFirst, MemFields DEF MayOwn
  <2>6. Makes(mem, live, a, m, o)
    BY <1>1, <1>4, <2>1, <2>2, <2>3, <2>5, LargeSound
  <2>7. QED
    BY <2>3, <2>6, AllocateKeeps
<1>5. QED
  BY <1>2, <1>3, <1>4

LEMMA InitSound == MemoryInit => MemoryInvariant
<1> SUFFICES ASSUME MemoryInit PROVE MemoryInvariant
  OBVIOUS
<1>0. PageSize \in Nat /\ Doc \cap Page = {} /\ NoPage \notin Doc \cup Page
  BY MemoryAssumption
<1>1. page = [d \in Doc |-> Sentinel(d)] /\ root = [d \in Doc |-> d] /\ busy = [d \in Doc |-> PageSize]
      /\ live = {} /\ ownerOf = <<>> /\ ok = TRUE
  BY DEF MemoryInit
<1>2. \A d \in Doc : page[d].allocator = d /\ page[d].prev = NoPage /\ page[d].next = NoPage /\ page[d].busy = PageSize
                     /\ page[d] \in PageRec
  BY <1>0, <1>1 DEF Sentinel, PageRec
<1>3. page \in [DOMAIN page -> PageRec] /\ DOMAIN page = Doc
  BY <1>1, <1>2
<1>4. Typed(mem)
  <2>1. root \in [Doc -> Doc \cup Page]
    BY <1>1
  <2>2. busy \in [Doc -> 0..PageSize]
    <3>1. PageSize \in 0..PageSize
      BY <1>0
    <3>2. QED
      BY <1>1, <3>1
  <2>3. PICK k : k = ok
    OBVIOUS
  <2>4. k = TRUE
    BY <1>1, <2>3
  <2>5. PICK m : m = mem
    OBVIOUS
  <2>6. m = [page |-> page, root |-> root, busy |-> busy, ok |-> k]
    BY <2>3, <2>5 DEF mem
  <2>7. Typed(m)
    BY <1>3, <2>1, <2>2, <2>4, <2>6, MakesTyped
  <2>8. QED
    BY <2>5, <2>7
<1>5. PagesLinked(page, root)
  <2>1. \A d \in Doc : root[d] = d
    BY <1>1
  <2>2. Linked(page, root)
    BY <1>0, <1>2, <1>3, <2>1 DEF Linked
  <2>3. PagesReached(page)
    BY <1>2, <1>3, PagesStart DEF PagesReached
  <2>4. QED
    BY <1>3, <2>2, <2>3 DEF PagesLinked, PagesTyped
<1>6. Objects(live) /\ Lying(mem, live)
  BY <1>1, FS_EmptySet DEF Objects, Lying
<1>7. Counted(mem, live)
  <2>1. \A d \in Doc : busy[d] = PageSize
    BY <1>1
  <2>2. QED
    BY <1>2, <1>3, <2>1, MemFields DEF Counted
<1>8. Owners(page, live, ownerOf)
  BY <1>1 DEF Owners
<1>9. QED
  BY <1>4, <1>5, <1>6, <1>7, <1>8, MemFields DEF MemoryInvariant, Sound, Typed

\* What goes with n, and the orders in which it is freed.
LEMMA DoomedIs ==
  ASSUME MemoryInvariant, NEW n \in live
  PROVE  /\ Doomed(n) \in SUBSET live /\ IsFiniteSet(Doomed(n))
         /\ \A q \in live : \A r \in Doomed(n) : ownerOf[q] = Place(r) => q \in Doomed(n)
         /\ \A o \in Doomed(n) : page[o.page].allocator = page[n.page].allocator
<1> DEFINE B == Below(live, ownerOf, Place(n))
<1>1. B \subseteq live /\ \A q \in live : \A r \in B : ownerOf[q] = Place(r) => q \in B
  BY BelowClosed
<1>2. \A q \in live : ownerOf[q] = Place(n) => q \in B
  BY BelowFirst
<1>3. PICK x : x = Place(n)
  OBVIOUS
<1>4. \A o \in B : page[o.page].allocator = page[n.page].allocator
  <2>1. Owners(page, live, ownerOf)
    BY DEF MemoryInvariant
  <2>2. x[1] = n.page
    BY <1>3, PlaceFirst
  <2>3. \A o \in Below(live, ownerOf, x) : page[o.page].allocator = page[x[1]].allocator
    BY <2>1, BelowAllocator
  <2>4. QED
    BY <1>3, <2>2, <2>3
<1>5. IsFiniteSet(live)
  BY DEF MemoryInvariant, Sound, Objects
<1> HIDE DEF B
<1>6. Doomed(n) = {n} \cup B
  BY DEF Doomed, B
<1>7. Doomed(n) \in SUBSET live
  BY <1>1, <1>6
<1>8. IsFiniteSet(Doomed(n))
  BY <1>5, <1>7, FS_Subset
<1>9. QED
  BY <1>1, <1>2, <1>4, <1>6, <1>7, <1>8

LEMMA OrderFrees ==
  ASSUME MemoryInvariant, NEW n \in live, NEW order \in DestroyOrders(n), NEW a, a = page[n.page].allocator
  PROVE  Freeing(mem, live, Doomed(n), a, order)
<1>1. PICK D : D = Doomed(n)
  OBVIOUS
<1>2. D \subseteq live /\ IsFiniteSet(D) /\ \A o \in D : page[o.page].allocator = a
  BY <1>1, DoomedIs
<1>3. PICK k \in Nat : k = Cardinality(D)
  BY <1>2, FS_CardinalityType
<1>4. order \in [1..k -> D] /\ (\A o \in D : \E i \in DOMAIN order : order[i] = o)
      /\ (\A i, j \in DOMAIN order : order[i] = order[j] => i = j)
  BY <1>1, <1>3 DEF DestroyOrders
<1>5. order \in Seq(D) /\ Len(order) = k
  BY <1>4
<1>6. DOMAIN order = 1..Len(order)
  BY <1>4, <1>5
<1>7. Freeing(mem, live, D, a, order)
  BY <1>2, <1>4, <1>5, <1>6, MemFields DEF Freeing
<1>8. QED
  BY <1>1, <1>7

LEMMA RemoveStep ==
  ASSUME MemoryInvariant, NEW n \in live, RemoveNode(n)
  PROVE  MemoryInvariant'
<1>1. Sound(mem, live) /\ Owners(page, live, ownerOf)
  BY DEF MemoryInvariant
<1>2. PICK D : D = Doomed(n)
  OBVIOUS
<1>3. PICK L : L = live \ D
  OBVIOUS
<1>4. PICK a : a = page[n.page].allocator
  OBVIOUS
<1>5. AllocatorOf(ownerOf[n]) = a
  BY <1>1, <1>4 DEF Owners, AllocatorOf
<1>6. PICK order \in DestroyOrders(n) :
        LET m == DestroyNode(mem, a, order) IN page' = m.page /\ root' = m.root /\ busy' = m.busy /\ ok' = m.ok
  BY <1>5 DEF RemoveNode, Becomes
<1>7. PICK m : m = DestroyNode(mem, a, order)
  OBVIOUS
<1>8. Sound(m, L) /\ SameAllocators(mem, m)
  <2>1. Freeing(mem, live, D, a, order)
    BY <1>2, <1>4, OrderFrees
  <2>2. QED
    BY <1>1, <1>3, <1>7, <2>1, DestroySound
<1>9. live' = L /\ ownerOf' = [o \in L |-> ownerOf[o]]
  BY <1>2, <1>3 DEF RemoveNode, Remaining
<1>10. Takes(m)
  BY <1>6, <1>7, <1>8, TypedFields DEF Takes, Sound, Typed, PagesLinked
<1>11. Sound(mem, live)'
  BY <1>8, <1>9, <1>10, TakesSound
<1>12. SameOwners(page, m.page, L)
  <2>1. \A o \in L : o.page \in DOMAIN m.page
    BY <1>8, ObjectTypes
  <2>2. \A d \in Doc : d \in DOMAIN m.page
    BY <1>8, AllocatorsKnown
  <2>3. QED
    BY <1>8, <2>1, <2>2, MemFields DEF SameAllocators, SameOwners
<1>13. Owners(m.page, L, ownerOf')
  <2>1. D \in SUBSET live /\ \A q \in live : \A r \in D : ownerOf[q] = Place(r) => q \in D
    BY <1>2, DoomedIs
  <2>2. PICK v : v = ownerOf'
    OBVIOUS
  <2>3. PICK P2 : P2 = m.page
    OBVIOUS
  <2>4. PICK A : A = live
    OBVIOUS
  <2>5. Owners(page, A, ownerOf) /\ D \in SUBSET A /\ (\A q \in A : \A r \in D : ownerOf[q] = Place(r) => q \in D)
        /\ SameOwners(page, P2, A \ D) /\ v = [o \in A \ D |-> ownerOf[o]]
    BY <1>1, <1>3, <1>9, <1>12, <2>1, <2>2, <2>3, <2>4
  <2>6. Owners(P2, A \ D, v)
    BY ONLY <2>5, OwnersWithout
  <2>7. QED
    BY <1>3, <2>2, <2>3, <2>4, <2>6
<1>14. QED
  BY <1>9, <1>10, <1>11, <1>13 DEF Takes, MemoryInvariant

\* A document loses its pages and what belongs to it.
LEMMA EmptyingDocument ==
  ASSUME MemoryInvariant, NEW d \in Doc, NEW m, m = Recreated(mem, d), NEW L, L = live \ Belonging(d),
         NEW v, v = [o \in L |-> ownerOf[o]]
  PROVE  /\ Sound(m, L) /\ Owners(m.page, L, v) /\ m.root[d] = d /\ \A c \in Doc \ {d} : m.root[c] = root[c]
<1>1. Sound(mem, live) /\ Owners(page, live, ownerOf)
  BY DEF MemoryInvariant
<1>2. PICK D : D = Belonging(d)
  OBVIOUS
<1>3. D = {o \in live : page[o.page].allocator = d}
  <2>1. page[d].allocator = d
    BY <1>1, AllocatorsKnown, MemFields
  <2>2. QED
    BY <1>1, <1>2, <2>1, BelongingIs DEF Belonging
<1>4. L = Elsewhere(mem, live, d)
  BY <1>2, <1>3, MemFields DEF Elsewhere
<1>5. Sound(m, L) /\ SameAllocators(mem, m) /\ m.root[d] = d /\ \A c \in Doc \ {d} : m.root[c] = root[c]
  <2>1. PICK k : k = mem
    OBVIOUS
  <2>2. Sound(k, live)
    BY <1>1, <2>1
  <2>3. /\ Sound(Recreated(k, d), Elsewhere(k, live, d)) /\ SameAllocators(k, Recreated(k, d))
        /\ Recreated(k, d).root[d] = d /\ \A c \in Doc \ {d} : Recreated(k, d).root[c] = k.root[c]
    BY ONLY <2>2, RecreateSound, d \in Doc
  <2>4. m = Recreated(k, d) /\ L = Elsewhere(k, live, d) /\ k.root = root
    BY <1>4, <2>1, MemFields
  <2>5. QED
    BY ONLY <2>1, <2>3, <2>4
<1>6. SameOwners(page, m.page, L)
  <2>1. \A o \in L : o.page \in DOMAIN m.page
    BY <1>5, ObjectTypes
  <2>2. \A c \in Doc : c \in DOMAIN m.page
    BY <1>5, AllocatorsKnown
  <2>3. QED
    BY <1>5, <2>1, <2>2, MemFields DEF SameAllocators, SameOwners
<1>7. Owners(m.page, L, v)
  <2>1. D \in SUBSET live /\ \A q \in live : \A r \in D : ownerOf[q] = Place(r) => q \in D
    BY <1>2, BelowClosed DEF Belonging
  <2>2. PICK P2 : P2 = m.page
    OBVIOUS
  <2>3. PICK A : A = live
    OBVIOUS
  <2>4. Owners(page, A, ownerOf) /\ D \in SUBSET A /\ (\A q \in A : \A r \in D : ownerOf[q] = Place(r) => q \in D)
        /\ SameOwners(page, P2, A \ D) /\ v = [o \in A \ D |-> ownerOf[o]]
    BY <1>1, <1>2, <1>6, <2>1, <2>2, <2>3
  <2>5. Owners(P2, A \ D, v)
    BY ONLY <2>4, OwnersWithout
  <2>6. QED
    BY <1>2, <2>2, <2>3, <2>5
<1>8. QED
  BY <1>5, <1>7

LEMMA RecreateStep ==
  ASSUME MemoryInvariant, ok, NEW d \in Doc, Recreate(d)
  PROVE  MemoryInvariant'
<1>1. PICK m : m = Recreated(mem, d)
  OBVIOUS
<1>2. PICK L : L = live \ Belonging(d)
  OBVIOUS
<1>3. PICK v : v = [o \in L |-> ownerOf[o]]
  OBVIOUS
<1>4. Sound(m, L) /\ Owners(m.page, L, v)
  BY <1>1, <1>2, <1>3, EmptyingDocument
<1>5. live' = L /\ ownerOf' = v /\ page' = m.page /\ root' = m.root /\ busy' = m.busy /\ ok' = m.ok
  BY <1>1, <1>2, <1>3 DEF Recreate, Remaining, Becomes
<1>6. m.ok = TRUE
  <2>1. Typed(m)
    BY <1>4 DEF Sound, Typed, PagesLinked
  <2>2. QED
    BY ONLY <2>1, TypedFields
<1>7. Sound(mem, live)'
  BY <1>4, <1>5, <1>6, TakesSound DEF Takes
<1>8. QED
  BY <1>4, <1>5, <1>7 DEF MemoryInvariant

LEMMA MoveStep ==
  ASSUME MoveEmpty = FALSE, MemoryInvariant, NEW d \in Doc, NEW e \in Doc, MoveMemory(d, e)
  PROVE  MemoryInvariant'
<1>0. d # e /\ root[e] # e
  BY DEF MoveMemory
<1>1. PICK m : m = Recreated(mem, d)
  OBVIOUS
<1>2. PICK L : L = live \ Belonging(d)
  OBVIOUS
<1>3. PICK w : w = [o \in L |-> ownerOf[o]]
  OBVIOUS
<1>4. Sound(m, L) /\ Owners(m.page, L, w) /\ m.root[d] = d /\ m.root[e] # e
  <2>1. Sound(m, L) /\ Owners(m.page, L, w) /\ m.root[d] = d /\ \A c \in Doc \ {d} : m.root[c] = root[c]
    BY <1>1, <1>2, <1>3, EmptyingDocument
  <2>2. QED
    BY <1>0, <2>1
<1>5. PICK m2 : m2 = Moved(m, d, e)
  OBVIOUS
<1>6. Sound(m2, L) /\ m2.ok = TRUE
      /\ \A o \in L : m2.page[o.page].allocator = IF m.page[o.page].allocator = e THEN d ELSE m.page[o.page].allocator
  <2>1. Sound(m, L) /\ d # e /\ m.root[d] = d /\ m.root[e] # e
    BY <1>0, <1>4
  <2>2. HandedOver(m, L, d, e, Moved(m, d, e))
    BY ONLY <2>1, MovedSound, d \in Doc, e \in Doc
  <2>3. QED
    BY ONLY <1>5, <2>2 DEF HandedOver
<1>7. page' = m2.page /\ root' = m2.root /\ busy' = m2.busy /\ ok' = m2.ok /\ live' = L
      /\ ownerOf' = [o \in L |-> IF ownerOf[o] = Top(e) THEN Top(d) ELSE ownerOf[o]]
  BY <1>1, <1>2, <1>5 DEF MoveMemory, Becomes
<1>8. Sound(mem, live)'
  BY <1>6, <1>7, TakesSound DEF Takes
<1>9. Owners(m2.page, L, ownerOf')
  <2>1. L \subseteq Object
    BY <1>4 DEF Sound, Objects
  <2>2. (\A c \in Doc : m.page[c].allocator = c) /\ (\A c \in Doc : m2.page[c].allocator = c)
    BY <1>4, <1>6, AllocatorsKnown
  <2>3. PICK P : P = m.page
    OBVIOUS
  <2>4. PICK P2 : P2 = m2.page
    OBVIOUS
  <2>5. PICK v : v = ownerOf'
    OBVIOUS
  <2>6. v = [o \in L |-> IF w[o] = Top(e) THEN Top(d) ELSE w[o]]
    BY <1>3, <1>7, <2>5
  <2>7. /\ Owners(P, L, w) /\ (\A c \in Doc : P[c].allocator = c) /\ (\A c \in Doc : P2[c].allocator = c)
        /\ \A o \in L : P2[o.page].allocator = IF P[o.page].allocator = e THEN d ELSE P[o.page].allocator
    BY <1>4, <1>6, <2>2, <2>3, <2>4
  <2>8. Owners(P2, L, v)
    BY ONLY <2>1, <2>6, <2>7, OwnersMoved, d \in Doc, e \in Doc
  <2>9. QED
    BY <2>4, <2>5, <2>8
<1>10. QED
  BY <1>7, <1>8, <1>9 DEF MemoryInvariant

LEMMA NodeMade ==
  ASSUME MemoryInvariant, NEW x \in {Top(d) : d \in Doc} \cup {Place(n) : n \in Nodes}
  PROVE  MadeFor(AllocatorOf(x), NodeSize, TRUE) /\ MayOwn(x, AllocatorOf(x), TRUE)
<1>1. MadeFor(AllocatorOf(x), NodeSize, TRUE)
  <2>1. AllocatorOf(x) \in Doc
    <3>1. CASE \E d \in Doc : x = Top(d)
      <4>1. PICK d \in Doc : x = Top(d)
        BY <3>1
      <4>2. x[1] = d
        BY <4>1, PlaceFirst
      <4>3. page[d].allocator = d
        BY AllocatorsKnown, MemFields DEF MemoryInvariant
      <4>4. QED
        BY <4>2, <4>3 DEF AllocatorOf
    <3>2. CASE \E n \in Nodes : x = Place(n)
      <4>1. PICK n \in Nodes : x = Place(n)
        BY <3>2
      <4>2. x[1] = n.page /\ n \in live
        BY <4>1, PlaceFirst DEF Nodes
      <4>3. page[n.page].allocator \in Doc
        BY <4>2, ObjectTypes, PageTypes, MemFields DEF MemoryInvariant
      <4>4. QED
        BY <4>2, <4>3 DEF AllocatorOf
    <3>3. QED
      BY <3>1, <3>2
  <2>2. QED
    BY <2>1, MemorySizes DEF MadeFor
<1>2. MayOwn(x, AllocatorOf(x), TRUE)
  BY DEF MayOwn, AllocatorOf, Nodes
<1>3. QED
  BY <1>1, <1>2

LEMMA MemoryStep ==
  ASSUME MoveEmpty = FALSE, MemoryInvariant, [MemoryNext]_memoryVars
  PROVE  MemoryInvariant'
<1>1. ASSUME NEW x \in {Top(d) : d \in Doc} \cup {Place(n) : n \in Nodes}, AppendNode(x)
      PROVE  MemoryInvariant'
  BY <1>1, NodeMade, AllocateStep DEF AppendNode
<1>2. ASSUME NEW n \in Nodes, NEW size \in StringSize, AddString(n, size)
      PROVE  MemoryInvariant'
  <2>1. MadeFor(AllocatorOf(Place(n)), NodeSize, TRUE)
    BY NodeMade
  <2>2. MadeFor(AllocatorOf(Place(n)), size, FALSE)
    <3>1. size \in Nat \ {0}
      BY MemoryAssumption
    <3>2. QED
      BY <2>1, <3>1 DEF MadeFor
  <2>3. MayOwn(Place(n), AllocatorOf(Place(n)), FALSE)
    BY DEF MayOwn, AllocatorOf, Nodes
  <2>4. Allocate(AllocatorOf(Place(n)), size, Place(n), FALSE)
    BY <1>2 DEF AddString
  <2>5. QED
    BY <2>2, <2>3, <2>4, AllocateStep
<1>3. ASSUME NEW n \in Nodes, RemoveNode(n)
      PROVE  MemoryInvariant'
  BY <1>3, RemoveStep DEF Nodes
<1>4. ASSUME ok, NEW d \in Doc, Recreate(d)
      PROVE  MemoryInvariant'
  BY <1>4, RecreateStep
<1>5. ASSUME NEW d \in Doc, NEW e \in Doc, MoveMemory(d, e)
      PROVE  MemoryInvariant'
  BY <1>5, MoveStep
<1>6. CASE UNCHANGED memoryVars
  BY <1>6 DEF memoryVars, MemoryInvariant, mem
<1>7. QED
  BY <1>1, <1>2, <1>3, <1>4, <1>5, <1>6 DEF MemoryNext

LEMMA InvariantTells ==
  ASSUME MemoryInvariant
  PROVE  PagesOutliveObjects
<1>1. Sound(mem, live) /\ PagesLinked(page, root) /\ Typed(mem) /\ Owners(page, live, ownerOf)
  BY MemFields DEF MemoryInvariant, Sound, Typed, PagesLinked
<1>2. Linked(page, root) /\ PagesTyped(page)
  BY <1>1 DEF PagesLinked
<1>3. ok
  BY <1>1, MemFields DEF Typed
<1>4. ASSUME NEW p \in DOMAIN page
      PROVE  page[p].allocator \in Doc /\ {page[p].prev, page[p].next} \subseteq DOMAIN page \cup {NoPage}
  <2>1. page[p].allocator \in Doc
    BY <1>1, PageTypes, MemFields
  <2>2. QED
    BY <1>2, <2>1 DEF Linked
<1>5. MemoryTypeOK
  <2>1. root \in [Doc -> DOMAIN page]
    <3>1. root \in [Doc -> Doc \cup Page]
      BY <1>1, TypedFields, MemFields
    <3>2. \A d \in Doc : root[d] \in DOMAIN page
      BY <1>2 DEF Linked
    <3>3. QED
      BY <3>1, <3>2
  <2>2. busy \in [Doc -> 0..PageSize]
    BY <1>1, TypedFields, MemFields
  <2>3. DOMAIN ownerOf = live
    BY <1>1 DEF Owners
  <2>4. QED
    BY <1>2, <1>4, <2>1, <2>2, <2>3 DEF MemoryTypeOK, PagesTyped
<1>6. LiveMemorySound
  <2>1. ASSUME NEW o \in live
        PROVE  /\ o.page \in DOMAIN page /\ o.offset + o.size <= Used(mem, o.page)
               /\ o.offset = 0 \/ o.offset + o.size <= PageSize
    BY <1>1, ObjectTypes, MemFields
  <2>2. ASSUME NEW o \in live, NEW p \in live, o.page = p.page, o # p PROVE Holds(o) \cap Holds(p) = {}
    <3>1. Apart(o, p)
      BY <1>1, <2>2 DEF Sound, Lying
    <3>2. o.offset \in Nat /\ o.size \in Nat /\ p.offset \in Nat /\ p.size \in Nat
      BY <1>1, ObjectTypes
    <3>3. QED
      BY <3>1, <3>2 DEF Apart, Holds
  <2>3. QED
    BY <2>1, <2>2 DEF LiveMemorySound
<1>7. FreedIsCounted
  BY <1>1, MemFields DEF Sound, Counted, FreedIsCounted
<1>8. PagesListed
  <2>1. ASSUME NEW d \in Doc PROVE Pages(page, d) = {p \in DOMAIN page : page[p].allocator = d}
    <3>1. Pages(page, d) \subseteq DOMAIN page
      BY DEF Pages
    <3>2. ASSUME NEW p \in DOMAIN page PROVE p \in Pages(page, d) <=> page[p].allocator = d
      BY <1>1, PagesAre DEF PagesLinked
    <3>3. QED
      BY <3>1, <3>2
  <2>2. ASSUME NEW p \in DOMAIN page
        PROVE  /\ page[p].prev = NoPage <=> p \in Doc
               /\ page[p].next = NoPage <=> p = root[page[p].allocator]
               /\ \A q \in DOMAIN page : page[p].next = q <=> page[q].prev = p
    <3>1. p # NoPage /\ \A q \in DOMAIN page : q # NoPage
      BY <1>2, NoPageIsNone DEF PagesTyped
    <3>2. QED
      BY <1>2, <3>1 DEF Linked
  <2>3. ASSUME NEW p \in DOMAIN page, p \notin Doc, page[p].next # NoPage PROVE \E o \in live : o.page = p
    <3>1. p # root[page[p].allocator]
      BY <1>2, <2>3 DEF Linked
    <3>2. QED
      BY <1>1, <2>3, <3>1, MemFields DEF Sound, Counted, LiesIn
  <2>4. QED
    BY ONLY <2>1, <2>2, <2>3 DEF PagesListed
<1>9. OwnersInReach
  <2>1. ASSUME NEW o \in live PROVE ownerOf[o] \in {Top(d) : d \in Doc} \cup {Place(n) : n \in Nodes}
    <3>1. OwnerKnown(live, ownerOf, o)
      BY <1>1 DEF Owners
    <3>2. QED
      BY <3>1 DEF OwnerKnown, Nodes
  <2>2. QED
    BY <1>1, <2>1 DEF Owners, OwnersInReach, AllocatorOf
<1>10. QED
  BY <1>3, <1>5, <1>6, <1>7, <1>8, <1>9 DEF PagesOutliveObjects

(***************************************************************************)
(* Whatever is allocated, freed, destroyed or moved, no page goes before   *)
(* the last object in it, no object lies over another, the counts of the   *)
(* pages are exact and the assertions of the allocator hold, as long as no *)
(* document that never had a node is moved from.                           *)
(***************************************************************************)
THEOREM PagesOutliveObjectsAlways ==
  ASSUME MoveEmpty = FALSE
  PROVE  MemorySpec => []PagesOutliveObjects
<1>1. MemoryInit => MemoryInvariant
  BY InitSound
<1>2. MemoryInvariant /\ [MemoryNext]_memoryVars => MemoryInvariant'
  BY MemoryStep
<1>3. MemoryInvariant => PagesOutliveObjects
  BY InvariantTells
<1>4. QED
  BY <1>1, <1>2, <1>3, PTL DEF MemorySpec
=============================================================================
