---------------------------- MODULE XmlEditProofs ----------------------------
(***************************************************************************)
(* Two parts of pugixml that edit what a tree is made of.                  *)
(*                                                                         *)
(* The lists of attributes, for any sets of nodes, attributes and names:   *)
(* the links are told from the lists they lay out, an edit of the links is *)
(* an edit of one list, and what is read off the links, from either end,   *)
(* is the lists again.                                                     *)
(*                                                                         *)
(* The copies of trees, for any nodes, strings and loaded trees: the loop  *)
(* of node_copy_tree() is told by the path from the copy down to where it  *)
(* is; all that is not on the path is copied whole, and what is on it as   *)
(* far as the loop came.                                                   *)
(***************************************************************************)
EXTENDS XmlAttributes, XmlCopy, DataLemmas

-----------------------------------------------------------------------------
(* The lists of attributes. *)

Nullable == Attribute \cup {NoAttr}

\* What the links of the attribute at i of s say.
FirstIn(s) == IF s = <<>> THEN NoAttr ELSE s[1]
NextIn(s, i) == IF i < Len(s) THEN s[i + 1] ELSE NoAttr
PrevIn(s, i) == IF i = 1 THEN s[Len(s)] ELSE s[i - 1]

Listed(L, a) == \E n \in Holder : \E i \in 1..Len(L[n]) : L[n][i] = a

Distinct(L) ==
  \A m, n \in Holder : \A i \in 1..Len(L[m]), j \in 1..Len(L[n]) :
    L[m][i] = L[n][j] => m = n /\ i = j

\* The links N lead through the lists L.
Leads(L, N) ==
  /\ L \in [Holder -> Seq(Attribute)] /\ N \in [Attribute -> Nullable]
  /\ Distinct(L)
  /\ \A n \in Holder : \A i \in 1..Len(L[n]) : N[L[n][i]] = NextIn(L[n], i)
  /\ \A a \in Attribute : ~ Listed(L, a) => N[a] = NoAttr

\* The links F, N and V are those of the lists L.
Laid(L, F, N, V) ==
  /\ Leads(L, N)
  /\ F \in [Holder -> Nullable] /\ V \in [Attribute -> Nullable]
  /\ \A n \in Holder : F[n] = FirstIn(L[n])
  /\ \A n \in Holder : \A i \in 1..Len(L[n]) : V[L[n][i]] = PrevIn(L[n], i)
  /\ \A a \in Attribute : ~ Listed(L, a) => V[a] = NoAttr
-----------------------------------------------------------------------------
(* Reading the lists off the links. *)

\* The recursion of ListFrom and of BackFrom, for any links.
WalkBy(N, f) == f = [a \in Attribute \cup {NoAttr} |-> IF a = NoAttr THEN <<>> ELSE <<a>> \o f[N[a]]]

LEMMA RestStep ==
  ASSUME NEW T, NEW s \in Seq(T), NEW o \in Nat, NEW i \in 1..Len(s), i = o + 1
  PROVE  Rest(s, o) = <<s[i]>> \o Rest(s, i)
<1>1. Len(s) \in Nat /\ o + 1 <= Len(s)
  OBVIOUS
<1>2. Part(s, o, 1) \in Seq(T) /\ Len(Part(s, o, 1)) = 1 /\ Part(s, o, 1)[1] = s[i]
  <2>1. 1 \in Nat /\ 1 \in 1..1
    OBVIOUS
  <2>2. /\ Part(s, o, 1) \in Seq(T) /\ Len(Part(s, o, 1)) = 1
        /\ \A j \in 1..1 : Part(s, o, 1)[j] = s[o + j]
    BY <1>1, <2>1, PartIs
  <2>3. QED
    BY <2>1, <2>2
<1> DEFINE p == Part(s, o, 1)
<1> HIDE DEF p
<1>3. p = <<s[i]>>
  BY <1>2 DEF p
<1>4. p \o Rest(s, i) = Rest(s, o)
  BY <1>1, PartThenRest DEF p
<1>5. QED
  BY <1>3, <1>4

\* r is what the walk from x goes over.
Goes(L, x, r) ==
  \/ x = NoAttr /\ r = <<>>
  \/ \E n \in Holder : \E i \in 1..Len(L[n]) : x = L[n][i] /\ r = Rest(L[n], i - 1)
  \/ x \in Attribute /\ ~ Listed(L, x) /\ r = <<x>>

LEMMA GoesOnce ==
  ASSUME NEW L, NEW N, Leads(L, N), NEW x, NEW r, NEW q, Goes(L, x, r), Goes(L, x, q)
  PROVE  r = q
<1> USE AttributeAssumption
<1>1. L \in [Holder -> Seq(Attribute)] /\ Distinct(L)
  BY DEF Leads
<1>2. \A n \in Holder : \A i \in 1..Len(L[n]) : L[n][i] \in Attribute
  BY <1>1
<1>3. CASE x = NoAttr
  BY <1>2, <1>3 DEF Goes
<1>4. CASE x # NoAttr /\ Listed(L, x)
  <2>1. PICK m \in Holder : \E i \in 1..Len(L[m]) : x = L[m][i] /\ r = Rest(L[m], i - 1)
    BY <1>4 DEF Goes
  <2>2. PICK i \in 1..Len(L[m]) : x = L[m][i] /\ r = Rest(L[m], i - 1)
    BY <2>1
  <2>3. PICK n \in Holder : \E j \in 1..Len(L[n]) : x = L[n][j] /\ q = Rest(L[n], j - 1)
    BY <1>4 DEF Goes
  <2>4. PICK j \in 1..Len(L[n]) : x = L[n][j] /\ q = Rest(L[n], j - 1)
    BY <2>3
  <2>5. m = n /\ i = j
    <3>1. L[m][i] = L[n][j]
      BY <2>2, <2>4
    <3>2. QED
      BY <1>1, <3>1 DEF Distinct
  <2>6. QED
    BY <2>2, <2>4, <2>5
<1>5. CASE x # NoAttr /\ ~ Listed(L, x)
  BY <1>5 DEF Goes, Listed
<1>6. QED
  BY <1>3, <1>4, <1>5

LEMMA GoesOn ==
  ASSUME NEW L, NEW N, Leads(L, N), NEW x \in Attribute, NEW r, Goes(L, N[x], r)
  PROVE  Goes(L, x, <<x>> \o r)
<1> USE AttributeAssumption
<1>1. L \in [Holder -> Seq(Attribute)] /\ Distinct(L)
  BY DEF Leads
<1>2. \A n \in Holder : \A i \in 1..Len(L[n]) : L[n][i] \in Attribute
  BY <1>1
<1>3. CASE ~ Listed(L, x)
  <2>1. r = <<>>
    BY <1>2, <1>3 DEF Goes, Leads
  <2>2. <<x>> \o r = <<x>>
    BY <2>1
  <2>3. QED
    BY <1>3, <2>2 DEF Goes
<1>4. CASE Listed(L, x)
  <2>1. PICK m \in Holder : \E i \in 1..Len(L[m]) : x = L[m][i]
    BY <1>4 DEF Listed
  <2>2. PICK i \in 1..Len(L[m]) : x = L[m][i]
    BY <2>1
  <2>3. N[x] = NextIn(L[m], i)
    BY <2>2 DEF Leads
  <2>4. r = Rest(L[m], i)
    <3>1. CASE i = Len(L[m])
      <4>1. r = <<>>
        BY <1>1, <1>2, <2>3, <3>1 DEF Goes, NextIn
      <4>2. QED
        BY <1>1, <3>1, <4>1, RestIs
    <3>2. CASE i < Len(L[m])
      <4>1. PICK k \in 1..Len(L[m]) : k = i + 1 /\ k - 1 = i
        BY <1>1, <3>2
      <4>2. N[x] = L[m][k]
        BY <2>3, <3>2, <4>1 DEF NextIn
      <4>3. Goes(L, L[m][k], Rest(L[m], k - 1))
        BY DEF Goes
      <4>4. QED
        BY <4>1, <4>2, <4>3, GoesOnce
    <3>3. QED
      BY <1>1, <3>1, <3>2
  <2>5. Rest(L[m], i - 1) = <<x>> \o Rest(L[m], i)
    BY <1>1, <2>2, RestStep
  <2>6. QED
    BY <2>2, <2>4, <2>5 DEF Goes
<1>5. QED
  BY <1>3, <1>4

LEMMA GoesFromAll ==
  ASSUME NEW L, NEW N, Leads(L, N), NEW x \in Nullable
  PROVE  \E r : Goes(L, x, r)
<1>1. CASE x = NoAttr
  BY <1>1 DEF Goes
<1>2. CASE x # NoAttr /\ Listed(L, x)
  <2>1. PICK m \in Holder : \E i \in 1..Len(L[m]) : x = L[m][i]
    BY <1>2 DEF Listed
  <2>2. PICK i \in 1..Len(L[m]) : x = L[m][i]
    BY <2>1
  <2>3. Goes(L, x, Rest(L[m], i - 1))
    BY <2>2 DEF Goes
  <2>4. QED
    BY <2>3
<1>3. CASE x # NoAttr /\ ~ Listed(L, x)
  <2>1. Goes(L, x, <<x>>)
    BY <1>3 DEF Goes, Nullable
  <2>2. QED
    BY <2>1
<1>4. QED
  BY <1>1, <1>2, <1>3

LEMMA WalkExists ==
  ASSUME NEW L, NEW N, Leads(L, N)
  PROVE  \E f : WalkBy(N, f)
<1> USE AttributeAssumption
<1> DEFINE S == Attribute \cup {NoAttr}
           c(x) == CHOOSE r : Goes(L, x, r)
           g == [x \in S |-> c(x)]
<1>1. \A x \in S : Goes(L, x, c(x))
  BY GoesFromAll DEF Nullable
<1>2. \A x \in S : g[x] = c(x)
  OBVIOUS
<1>3. g = [x \in S |-> g[x]]
  <2> HIDE DEF c
  <2>1. QED
    OBVIOUS
<1> HIDE DEF c, g
<1>4. \A x \in S : Goes(L, x, g[x])
  BY <1>1, <1>2
<1>5. \A x \in S : g[x] = IF x = NoAttr THEN <<>> ELSE <<x>> \o g[N[x]]
  <2>1. g[NoAttr] = <<>>
    <3>1. Goes(L, NoAttr, g[NoAttr]) /\ Goes(L, NoAttr, <<>>)
      BY <1>4 DEF Goes
    <3>2. QED
      BY <3>1, GoesOnce
  <2>2. ASSUME NEW x \in Attribute PROVE g[x] = <<x>> \o g[N[x]]
    <3>1. N[x] \in S
      BY DEF Leads, Nullable
    <3>2. Goes(L, x, g[x]) /\ Goes(L, x, <<x>> \o g[N[x]])
      BY <1>4, <3>1, GoesOn
    <3>3. QED
      BY <3>2, GoesOnce
  <2>3. QED
    BY <2>1, <2>2
<1>6. [x \in S |-> g[x]] = [x \in S |-> IF x = NoAttr THEN <<>> ELSE <<x>> \o g[N[x]]]
  BY <1>5, Zenon
<1>7. WalkBy(N, g)
  BY <1>3, <1>6, Zenon DEF WalkBy
<1>8. QED
  BY <1>7

\* Whatever function the recursion defines, it goes over the lists.
LEMMA WalkIs ==
  ASSUME NEW L, NEW N, Leads(L, N), NEW f, WalkBy(N, f), NEW n \in Holder
  PROVE  /\ f[NoAttr] = <<>>
         /\ \A i \in 1..Len(L[n]) : f[L[n][i]] = Rest(L[n], i - 1)
         /\ f[FirstIn(L[n])] = L[n]
<1> USE AttributeAssumption
<1> DEFINE s == L[n]
<1>1. s \in Seq(Attribute) /\ Len(s) \in Nat /\ \A i \in 1..Len(s) : s[i] \in Attribute
  BY DEF Leads
<1>2. \A x \in Attribute \cup {NoAttr} : f[x] = IF x = NoAttr THEN <<>> ELSE <<x>> \o f[N[x]]
  BY Zenon DEF WalkBy
<1>3. f[NoAttr] = <<>> /\ \A x \in Attribute : f[x] = <<x>> \o f[N[x]]
  BY <1>2
<1>4. \A i \in 1..Len(s) : N[s[i]] = NextIn(s, i)
  BY DEF Leads
<1> HIDE DEF s
<1> DEFINE T == {k \in Nat : \A i \in 1..Len(s) : i + k = Len(s) => f[s[i]] = Rest(s, i - 1)}
<1>5. 0 \in T
  <2>1. ASSUME NEW i \in 1..Len(s), i = Len(s) PROVE f[s[i]] = Rest(s, i - 1)
    <3>0. s[i] \in Attribute /\ N[s[i]] = NoAttr
      BY <1>1, <1>4, <2>1 DEF NextIn
    <3>1. f[s[i]] = <<s[i]>> \o <<>>
      BY <1>3, <3>0
    <3>2. Rest(s, i - 1) = <<s[i]>> \o Rest(s, i)
      BY <1>1, RestStep
    <3>3. Rest(s, i) = <<>>
      BY <1>1, <2>1, RestIs
    <3>4. QED
      BY <3>1, <3>2, <3>3
  <2>2. QED
    BY <1>1, <2>1
<1>6. ASSUME NEW k \in Nat, k \in T PROVE k + 1 \in T
  <2>1. ASSUME NEW i \in 1..Len(s), i + (k + 1) = Len(s) PROVE f[s[i]] = Rest(s, i - 1)
    <3>1. PICK j \in 1..Len(s) : j = i + 1 /\ j - 1 = i /\ j + k = Len(s)
      BY <1>1, <2>1
    <3>2. f[s[j]] = Rest(s, i)
      BY <1>6, <3>1
    <3>3. N[s[i]] = s[j]
      BY <1>1, <1>4, <2>1, <3>1 DEF NextIn
    <3>4. f[s[i]] = <<s[i]>> \o Rest(s, i)
      BY <1>1, <1>3, <3>2, <3>3
    <3>5. Rest(s, i - 1) = <<s[i]>> \o Rest(s, i)
      BY <1>1, RestStep
    <3>6. QED
      BY <3>4, <3>5
  <2>2. QED
    BY <2>1
<1>7. Nat \subseteq T
  <2> HIDE DEF T
  <2>1. QED
    BY <1>5, <1>6, NatSetInduction
<1>8. ASSUME NEW i \in 1..Len(s) PROVE f[s[i]] = Rest(s, i - 1)
  <2>1. PICK k \in Nat : i + k = Len(s)
    <3>1. Len(s) - i \in Nat /\ i + (Len(s) - i) = Len(s)
      BY <1>1
    <3>2. QED
      BY <3>1
  <2>2. k \in T
    BY <1>7
  <2>3. QED
    BY <2>1, <2>2
<1>9. f[FirstIn(s)] = s
  <2>1. CASE s = <<>>
    BY <1>3, <2>1 DEF FirstIn
  <2>2. CASE s # <<>>
    <3>1. 1 \in 1..Len(s)
      BY <1>1, <2>2
    <3>2. f[s[1]] = Rest(s, 1 - 1) /\ 1 - 1 = 0
      BY <1>8, <3>1
    <3>3. Rest(s, 0) = s
      BY <1>1, RestIs
    <3>4. QED
      BY <2>2, <3>2, <3>3 DEF FirstIn
  <2>3. QED
    BY <2>1, <2>2
<1>10. QED
  BY <1>3, <1>8, <1>9 DEF s
-----------------------------------------------------------------------------
(* An attribute comes into a list, and goes from it. *)

\* The positions of a sequence into which c was put at i.
LEMMA PlacesWith ==
  ASSUME NEW s \in Seq(Attribute), NEW i \in 1..(Len(s) + 1), NEW c, NEW w, With(Attribute, s, i, c, w),
         NEW p \in 1..Len(w)
  PROVE  p = i \/ (p < i /\ p \in 1..Len(s)) \/ \E j \in i..Len(s) : p = j + 1
<1>1. Len(s) \in Nat /\ Len(w) = Len(s) + 1
  BY DEF With
<1>2. CASE p <= i
  BY <1>1, <1>2
<1>3. CASE p > i
  <2>1. p - 1 \in i..Len(s) /\ p = (p - 1) + 1
    BY <1>1, <1>3
  <2>2. QED
    BY <2>1
<1>4. QED
  BY <1>1, <1>2, <1>3

LEMMA NextWith ==
  ASSUME NEW s \in Seq(Attribute), NEW i \in 1..(Len(s) + 1), NEW c, NEW w, With(Attribute, s, i, c, w)
  PROVE  /\ \A j \in 1..Len(s) : j < i =>
              w[j] = s[j] /\ NextIn(w, j) = IF j + 1 = i THEN c ELSE NextIn(s, j)
         /\ w[i] = c /\ NextIn(w, i) = IF i <= Len(s) THEN s[i] ELSE NoAttr
         /\ \A j \in i..Len(s) : w[j + 1] = s[j] /\ NextIn(w, j + 1) = NextIn(s, j)
<1>1. Len(s) \in Nat /\ Len(w) = Len(s) + 1 /\ w[i] = c
      /\ (\A k \in 1..(i - 1) : w[k] = s[k]) /\ \A k \in i..Len(s) : w[k + 1] = s[k]
  BY DEF With
<1>2. ASSUME NEW j \in 1..Len(s), j < i
      PROVE  w[j] = s[j] /\ NextIn(w, j) = IF j + 1 = i THEN c ELSE NextIn(s, j)
  <2>1. w[j] = s[j] /\ j < Len(w)
    BY <1>1, <1>2
  <2>2. CASE j + 1 = i
    BY <1>1, <2>1, <2>2 DEF NextIn
  <2>3. CASE j + 1 # i
    <3>1. j + 1 \in 1..(i - 1) /\ j < Len(s)
      BY <1>1, <1>2, <2>3
    <3>2. QED
      BY <1>1, <2>1, <2>3, <3>1 DEF NextIn
  <2>4. QED
    BY <2>2, <2>3
<1>3. NextIn(w, i) = IF i <= Len(s) THEN s[i] ELSE NoAttr
  BY <1>1 DEF NextIn
<1>4. ASSUME NEW j \in i..Len(s) PROVE w[j + 1] = s[j] /\ NextIn(w, j + 1) = NextIn(s, j)
  <2>1. PICK k \in Nat : k = j + 1
    BY <1>1
  <2>2. CASE j < Len(s)
    <3>1. k \in i..Len(s) /\ k < Len(w)
      BY <1>1, <2>1, <2>2
    <3>2. QED
      BY <1>1, <2>1, <2>2, <3>1 DEF NextIn
  <2>3. CASE j = Len(s)
    BY <1>1, <2>1, <2>3 DEF NextIn
  <2>4. QED
    BY <1>1, <2>2, <2>3
<1>5. QED
  BY <1>1, <1>2, <1>3, <1>4

LEMMA PrevWith ==
  ASSUME NEW s \in Seq(Attribute), NEW i \in 1..(Len(s) + 1), NEW c, NEW w, With(Attribute, s, i, c, w)
  PROVE  /\ \A j \in 1..Len(s) : j < i =>
              PrevIn(w, j) = IF j = 1 /\ i = Len(s) + 1 THEN c ELSE PrevIn(s, j)
         /\ PrevIn(w, i) = IF s = <<>> THEN c ELSE IF i = 1 THEN s[Len(s)] ELSE s[i - 1]
         /\ \A j \in i..Len(s) : PrevIn(w, j + 1) = IF j = i THEN c ELSE PrevIn(s, j)
<1>1. Len(s) \in Nat /\ Len(w) = Len(s) + 1 /\ w[i] = c
      /\ (\A k \in 1..(i - 1) : w[k] = s[k]) /\ \A k \in i..Len(s) : w[k + 1] = s[k]
  BY DEF With
<1>2. w[Len(w)] = IF i = Len(s) + 1 THEN c ELSE s[Len(s)]
  BY <1>1
<1>3. ASSUME NEW j \in 1..Len(s), j < i
      PROVE  PrevIn(w, j) = IF j = 1 /\ i = Len(s) + 1 THEN c ELSE PrevIn(s, j)
  <2>1. CASE j = 1
    BY <1>1, <1>2, <2>1 DEF PrevIn
  <2>2. CASE j # 1
    <3>1. j - 1 \in 1..(i - 1)
      BY <1>1, <1>3, <2>2
    <3>2. QED
      BY <1>1, <2>2, <3>1 DEF PrevIn
  <2>3. QED
    BY <2>1, <2>2
<1>4. PrevIn(w, i) = IF s = <<>> THEN c ELSE IF i = 1 THEN s[Len(s)] ELSE s[i - 1]
  <2>1. CASE i = 1
    <3>1. PrevIn(w, i) = w[Len(w)] /\ (s = <<>> <=> i = Len(s) + 1)
      BY <1>1, <2>1 DEF PrevIn
    <3>2. QED
      BY <1>2, <2>1, <3>1
  <2>2. CASE i # 1
    <3>1. i - 1 \in 1..(i - 1) /\ s # <<>>
      BY <1>1, <2>2
    <3>2. QED
      BY <1>1, <2>2, <3>1 DEF PrevIn
  <2>3. QED
    BY <2>1, <2>2
<1>5. ASSUME NEW j \in i..Len(s) PROVE PrevIn(w, j + 1) = IF j = i THEN c ELSE PrevIn(s, j)
  <2>1. PrevIn(w, j + 1) = w[j]
    BY <1>1 DEF PrevIn
  <2>2. CASE j = i
    BY <1>1, <2>1, <2>2
  <2>3. CASE j # i
    <3>1. PICK k \in Nat : k = j - 1 /\ k + 1 = j
      BY <1>1, <2>3
    <3>2. k \in i..Len(s) /\ j # 1
      BY <1>1, <2>3, <3>1
    <3>3. QED
      BY <1>1, <2>1, <2>3, <3>1, <3>2 DEF PrevIn
  <2>4. QED
    BY <2>2, <2>3
<1>6. QED
  BY <1>3, <1>4, <1>5

\* The links once a has come into s, the list of n, at i.
Told(s, i) == IF i <= Len(s) THEN s[i] ELSE s[1]

SplicedNext(s, i, a, N, M) ==
  /\ M \in [Attribute -> Nullable]
  /\ M[a] = IF i <= Len(s) THEN s[i] ELSE NoAttr
  /\ \A j \in 1..Len(s) : j + 1 = i => M[s[j]] = a
  /\ \A b \in Attribute : b # a /\ (\A j \in 1..Len(s) : j + 1 = i => b # s[j]) => M[b] = N[b]

SplicedPrev(s, i, a, V, U) ==
  /\ U \in [Attribute -> Nullable]
  /\ U[a] = IF s = <<>> THEN a ELSE IF i = 1 THEN s[Len(s)] ELSE s[i - 1]
  /\ s # <<>> => U[Told(s, i)] = a
  /\ \A b \in Attribute : b # a /\ (s # <<>> => b # Told(s, i)) => U[b] = V[b]

SplicedFirst(n, i, a, F, E) == E = IF i = 1 THEN [F EXCEPT ![n] = a] ELSE F

Spliced(L, n, i, a, F, N, V, E, M, U) ==
  /\ SplicedFirst(n, i, a, F, E)
  /\ SplicedNext(L[n], i, a, N, M)
  /\ SplicedPrev(L[n], i, a, V, U)

LEMMA SpliceListed ==
  ASSUME NEW L \in [Holder -> Seq(Attribute)], NEW n \in Holder, NEW a \in Attribute,
         NEW i \in 1..(Len(L[n]) + 1), NEW w, With(Attribute, L[n], i, a, w), NEW b \in Attribute
  PROVE  Listed([L EXCEPT ![n] = w], b) <=> Listed(L, b) \/ b = a
<1> DEFINE s == L[n]
           K == [L EXCEPT ![n] = w]
<1>1. s \in Seq(Attribute) /\ Len(s) \in Nat
  OBVIOUS
<1>2. /\ \A j \in 1..Len(s) : j < i => w[j] = s[j]
      /\ w[i] = a
      /\ \A j \in i..Len(s) : w[j + 1] = s[j]
  BY <1>1, NextWith
<1>3. Len(w) = Len(s) + 1
  BY DEF With
<1>4. \A p \in 1..Len(w) : p = i \/ (p < i /\ p \in 1..Len(s)) \/ \E j \in i..Len(s) : p = j + 1
  BY <1>1, PlacesWith
<1>5. K[n] = w /\ \A m \in Holder : m # n => K[m] = L[m]
  OBVIOUS
<1> HIDE DEF K, s
<1>6. ASSUME Listed(K, b) PROVE Listed(L, b) \/ b = a
  <2>1. PICK m \in Holder : \E p \in 1..Len(K[m]) : K[m][p] = b
    BY <1>6 DEF Listed
  <2>2. PICK p \in 1..Len(K[m]) : K[m][p] = b
    BY <2>1
  <2>3. CASE m # n
    BY <1>5, <2>2, <2>3 DEF Listed
  <2>4. CASE m = n
    <3>1. p \in 1..Len(w) /\ w[p] = b
      BY <1>5, <2>2, <2>4
    <3>2. CASE p = i
      BY <1>2, <3>1, <3>2
    <3>3. CASE p < i /\ p \in 1..Len(s)
      BY <1>2, <3>1, <3>3 DEF Listed, s
    <3>4. CASE \E j \in i..Len(s) : p = j + 1
      <4>1. PICK j \in i..Len(s) : p = j + 1
        BY <3>4
      <4>2. j \in 1..Len(s) /\ s[j] = b
        BY <1>1, <1>2, <3>1, <4>1
      <4>3. QED
        BY <4>2 DEF Listed, s
    <3>5. QED
      BY <1>4, <3>1, <3>2, <3>3, <3>4
  <2>5. QED
    BY <2>3, <2>4
<1>7. ASSUME b = a PROVE Listed(K, b)
  <2>1. i \in 1..Len(K[n]) /\ K[n][i] = b
    BY <1>1, <1>2, <1>3, <1>5, <1>7 DEF s
  <2>2. QED
    BY <2>1 DEF Listed
<1>8. ASSUME Listed(L, b) PROVE Listed(K, b)
  <2>1. PICK m \in Holder : \E p \in 1..Len(L[m]) : L[m][p] = b
    BY <1>8 DEF Listed
  <2>2. PICK p \in 1..Len(L[m]) : L[m][p] = b
    BY <2>1
  <2>3. CASE m # n
    BY <1>5, <2>2, <2>3 DEF Listed
  <2>4. CASE m = n
    <3>1. p \in 1..Len(s) /\ s[p] = b
      BY <2>2, <2>4 DEF s
    <3>2. CASE p < i
      <4>1. p \in 1..Len(K[n]) /\ K[n][p] = b
        BY <1>1, <1>2, <1>3, <1>5, <3>1, <3>2
      <4>2. QED
        BY <4>1 DEF Listed
    <3>3. CASE p >= i
      <4>1. p \in i..Len(s)
        BY <3>1, <3>3
      <4>2. p + 1 \in 1..Len(K[n]) /\ K[n][p + 1] = b
        BY <1>1, <1>2, <1>3, <1>5, <3>1, <4>1
      <4>3. QED
        BY <4>2 DEF Listed
    <3>4. QED
      BY <1>1, <3>1, <3>2, <3>3 DEF s
  <2>5. QED
    BY <2>3, <2>4
<1>9. QED
  BY <1>6, <1>7, <1>8 DEF K

LEMMA SpliceDistinct ==
  ASSUME NEW L \in [Holder -> Seq(Attribute)], Distinct(L), NEW n \in Holder, NEW a \in Attribute,
         ~ Listed(L, a),
         NEW i \in 1..(Len(L[n]) + 1), NEW w, With(Attribute, L[n], i, a, w)
  PROVE  Distinct([L EXCEPT ![n] = w])
<1> DEFINE s == L[n]
           K == [L EXCEPT ![n] = w]
<1>1. s \in Seq(Attribute) /\ Len(s) \in Nat /\ i \in 1..(Len(s) + 1)
  OBVIOUS
<1>2. /\ \A j \in 1..Len(s) : j < i => w[j] = s[j]
      /\ w[i] = a
      /\ \A j \in i..Len(s) : w[j + 1] = s[j]
  BY <1>1, NextWith
<1>3. \A p \in 1..Len(w) : p = i \/ (p < i /\ p \in 1..Len(s)) \/ \E j \in i..Len(s) : p = j + 1
  BY <1>1, PlacesWith
<1>4. K[n] = w /\ \A m \in Holder : m # n => K[m] = L[m]
  OBVIOUS
<1>5. \A m \in Holder : \A j \in 1..Len(L[m]) : L[m][j] # a
  BY DEF Listed
\* What is at p of w, and where it was.
<1> DEFINE Was(p, j) == j \in 1..Len(s) /\ w[p] = s[j] /\ p = IF j < i THEN j ELSE j + 1
<1>6. \A p \in 1..Len(w) : p # i => \E j \in 1..Len(s) : Was(p, j)
  <2>1. ASSUME NEW p \in 1..Len(w), p # i PROVE \E j \in 1..Len(s) : Was(p, j)
    <3>1. CASE p < i /\ p \in 1..Len(s)
      BY <1>2, <3>1
    <3>2. CASE \E j \in i..Len(s) : p = j + 1
      <4>1. PICK j \in i..Len(s) : p = j + 1
        BY <3>2
      <4>2. j \in 1..Len(s) /\ ~(j < i)
        BY <1>1
      <4>3. Was(p, j)
        BY <1>2, <4>1, <4>2
      <4>4. QED
        BY <4>2, <4>3
    <3>3. QED
      BY <1>3, <2>1, <3>1, <3>2
  <2>2. QED
    BY <2>1
<1>7. \A m, q \in Holder : \A j \in 1..Len(L[m]), k \in 1..Len(L[q]) :
        L[m][j] = L[q][k] => m = q /\ j = k
  BY DEF Distinct
<1>8. \A p \in 1..Len(w) : p # i => w[p] # a
  BY <1>5, <1>6
<1> HIDE DEF K, s
<1>9. ASSUME NEW m \in Holder, m # n, NEW j \in 1..Len(L[m]), NEW p \in 1..Len(w), L[m][j] = w[p]
      PROVE  FALSE
  <2>1. p # i
    BY <1>2, <1>5, <1>9
  <2>2. PICK k \in 1..Len(s) : Was(p, k)
    BY <1>6, <2>1
  <2>3. L[m][j] = L[n][k] /\ k \in 1..Len(L[n])
    BY <1>9, <2>2 DEF s
  <2>4. QED
    BY <1>7, <1>9, <2>3
<1>10. ASSUME NEW p \in 1..Len(w), NEW q \in 1..Len(w), w[p] = w[q] PROVE p = q
  <2>1. CASE p = i \/ q = i
    BY <1>2, <1>8, <1>10, <2>1
  <2>2. CASE p # i /\ q # i
    <3>1. PICK j \in 1..Len(s) : Was(p, j)
      BY <1>6, <2>2
    <3>2. PICK k \in 1..Len(s) : Was(q, k)
      BY <1>6, <2>2
    <3>3. L[n][j] = L[n][k] /\ j \in 1..Len(L[n]) /\ k \in 1..Len(L[n])
      BY <1>10, <3>1, <3>2 DEF s
    <3>4. j = k
      BY <1>7, <3>3
    <3>5. QED
      BY <3>1, <3>2, <3>4
  <2>3. QED
    BY <2>1, <2>2
<1>11. ASSUME NEW m \in Holder, NEW q \in Holder, NEW j \in 1..Len(K[m]), NEW k \in 1..Len(K[q]),
              K[m][j] = K[q][k]
       PROVE  m = q /\ j = k
  <2>1. CASE m # n /\ q # n
    <3>1. K[m] = L[m] /\ K[q] = L[q]
      BY <1>4, <2>1
    <3>2. QED
      BY <1>7, <1>11, <3>1
  <2>2. CASE m = n /\ q = n
    BY <1>4, <1>10, <1>11, <2>2
  <2>3. CASE m # n /\ q = n
    <3>1. K[m] = L[m] /\ K[q] = w
      BY <1>4, <2>3
    <3>2. QED
      BY <1>9, <1>11, <2>3, <3>1
  <2>4. CASE m = n /\ q # n
    <3>1. K[m] = w /\ K[q] = L[q]
      BY <1>4, <2>4
    <3>2. QED
      BY <1>9, <1>11, <2>4, <3>1
  <2>5. QED
    BY <2>1, <2>2, <2>3, <2>4
<1>12. QED
  BY <1>11 DEF Distinct, K

\* The links of an attribute that an edit does not touch.
LEMMA ElsewhereSpliced ==
  ASSUME NEW L, NEW F, NEW N, NEW V, Laid(L, F, N, V), NEW n \in Holder, NEW a \in Attribute,
         ~ Listed(L, a), NEW i \in 1..(Len(L[n]) + 1),
         NEW E, NEW M, NEW U, Spliced(L, n, i, a, F, N, V, E, M, U),
         NEW m \in Holder, m # n, NEW j \in 1..Len(L[m])
  PROVE  M[L[m][j]] = N[L[m][j]] /\ U[L[m][j]] = V[L[m][j]]
<1>1. L \in [Holder -> Seq(Attribute)] /\ Distinct(L)
  BY DEF Laid, Leads
<1>2. L[m][j] \in Attribute /\ L[m][j] # a
  BY <1>1 DEF Listed
<1>3. \A k \in 1..Len(L[n]) : L[m][j] # L[n][k]
  BY <1>1 DEF Distinct
<1>4. L[n] # <<>> => Told(L[n], i) # L[m][j]
  <2>1. L[n] \in Seq(Attribute) /\ Len(L[n]) \in Nat
    BY <1>1
  <2>2. L[n] # <<>> => \E k \in 1..Len(L[n]) : Told(L[n], i) = L[n][k]
    BY <2>1 DEF Told
  <2>3. QED
    BY <1>3, <2>2
<1>5. QED
  BY <1>2, <1>3, <1>4 DEF Spliced, SplicedNext, SplicedPrev

LEMMA SpliceNext ==
  ASSUME NEW L, NEW F, NEW N, NEW V, Laid(L, F, N, V), NEW n \in Holder, NEW a \in Attribute,
         ~ Listed(L, a), NEW i \in 1..(Len(L[n]) + 1), NEW w, With(Attribute, L[n], i, a, w),
         NEW M, SplicedNext(L[n], i, a, N, M), NEW p \in 1..Len(w)
  PROVE  M[w[p]] = NextIn(w, p)
<1> DEFINE s == L[n]
<1>1. L \in [Holder -> Seq(Attribute)] /\ Distinct(L) /\ s \in Seq(Attribute) /\ Len(s) \in Nat
      /\ \A j \in 1..Len(s) : N[s[j]] = NextIn(s, j)
  BY DEF Laid, Leads
<1>2. \A j \in 1..Len(s) : s[j] \in Attribute /\ s[j] # a
  BY <1>1 DEF Listed
<1>3. \A j, k \in 1..Len(s) : s[j] = s[k] => j = k
  BY <1>1 DEF Distinct
<1>4. i \in 1..(Len(s) + 1) /\ With(Attribute, s, i, a, w) /\ SplicedNext(s, i, a, N, M)
  OBVIOUS
<1> HIDE DEF s
<1>5. /\ \A j \in 1..Len(s) : j < i =>
           w[j] = s[j] /\ NextIn(w, j) = IF j + 1 = i THEN a ELSE NextIn(s, j)
      /\ w[i] = a /\ NextIn(w, i) = IF i <= Len(s) THEN s[i] ELSE NoAttr
      /\ \A j \in i..Len(s) : w[j + 1] = s[j] /\ NextIn(w, j + 1) = NextIn(s, j)
  BY <1>1, <1>4, NextWith
<1>6. p = i \/ (p < i /\ p \in 1..Len(s)) \/ \E j \in i..Len(s) : p = j + 1
  BY <1>1, <1>4, PlacesWith
<1>7. \A j \in 1..Len(s) : M[s[j]] = IF j + 1 = i THEN a ELSE N[s[j]]
  <2>1. ASSUME NEW j \in 1..Len(s), j + 1 # i PROVE M[s[j]] = N[s[j]]
    <3>1. \A k \in 1..Len(s) : k + 1 = i => s[j] # s[k]
      BY <1>3, <2>1
    <3>2. QED
      BY <1>2, <1>4, <3>1 DEF SplicedNext
  <2>2. QED
    BY <1>4, <2>1 DEF SplicedNext
<1>8. CASE p = i
  BY <1>4, <1>5, <1>8 DEF SplicedNext
<1>9. CASE p < i /\ p \in 1..Len(s)
  BY <1>1, <1>5, <1>7, <1>9
<1>10. CASE \E j \in i..Len(s) : p = j + 1
  <2>1. PICK j \in i..Len(s) : p = j + 1
    BY <1>10
  <2>2. j \in 1..Len(s) /\ j + 1 # i
    BY <1>1
  <2>3. M[s[j]] = NextIn(s, j)
    BY <1>1, <1>7, <2>2
  <2>4. w[j + 1] = s[j] /\ NextIn(w, j + 1) = NextIn(s, j)
    BY <1>5
  <2>5. QED
    BY <2>1, <2>3, <2>4
<1>11. QED
  BY <1>6, <1>8, <1>9, <1>10

LEMMA SplicePrev ==
  ASSUME NEW L, NEW F, NEW N, NEW V, Laid(L, F, N, V), NEW n \in Holder, NEW a \in Attribute,
         ~ Listed(L, a), NEW i \in 1..(Len(L[n]) + 1), NEW w, With(Attribute, L[n], i, a, w),
         NEW U, SplicedPrev(L[n], i, a, V, U), NEW p \in 1..Len(w)
  PROVE  U[w[p]] = PrevIn(w, p)
<1> DEFINE s == L[n]
<1>1. L \in [Holder -> Seq(Attribute)] /\ Distinct(L) /\ s \in Seq(Attribute) /\ Len(s) \in Nat
      /\ \A j \in 1..Len(s) : V[s[j]] = PrevIn(s, j)
  BY DEF Laid, Leads
<1>2. \A j \in 1..Len(s) : s[j] \in Attribute /\ s[j] # a
  BY <1>1 DEF Listed
<1>3. \A j, k \in 1..Len(s) : s[j] = s[k] => j = k
  BY <1>1 DEF Distinct
<1>4. i \in 1..(Len(s) + 1) /\ With(Attribute, s, i, a, w) /\ SplicedPrev(s, i, a, V, U)
  OBVIOUS
<1> HIDE DEF s
<1>5. /\ \A j \in 1..Len(s) : j < i => w[j] = s[j]
      /\ w[i] = a
      /\ \A j \in i..Len(s) : w[j + 1] = s[j]
  BY <1>1, <1>4, NextWith
<1>6. /\ \A j \in 1..Len(s) : j < i =>
           PrevIn(w, j) = IF j = 1 /\ i = Len(s) + 1 THEN a ELSE PrevIn(s, j)
      /\ PrevIn(w, i) = IF s = <<>> THEN a ELSE IF i = 1 THEN s[Len(s)] ELSE s[i - 1]
      /\ \A j \in i..Len(s) : PrevIn(w, j + 1) = IF j = i THEN a ELSE PrevIn(s, j)
  BY <1>1, <1>4, PrevWith
<1>7. p = i \/ (p < i /\ p \in 1..Len(s)) \/ \E j \in i..Len(s) : p = j + 1
  <2>1. s \in Seq(Attribute) /\ i \in 1..(Len(s) + 1) /\ With(Attribute, s, i, a, w)
    BY <1>1, <1>4
  <2>2. QED
    BY <2>1, PlacesWith
<1>8. \A j \in 1..Len(s) :
        U[s[j]] = IF j = i \/ (j = 1 /\ i = Len(s) + 1) THEN a ELSE V[s[j]]
  <2>1. ASSUME NEW j \in 1..Len(s), ~(j = i \/ (j = 1 /\ i = Len(s) + 1)) PROVE U[s[j]] = V[s[j]]
    <3>1. \E k \in 1..Len(s) : Told(s, i) = s[k] /\ k # j
      <4>1. CASE i <= Len(s)
        <5>1. i \in 1..Len(s) /\ i # j /\ Told(s, i) = s[i]
          BY <1>1, <1>4, <2>1, <4>1 DEF Told
        <5>2. QED
          BY <5>1
      <4>2. CASE ~(i <= Len(s))
        <5>0. PICK l \in Nat : l = Len(s)
          BY <1>1
        <5>1. i = Len(s) + 1 /\ 1 \in 1..Len(s) /\ 1 # j
          <6>1. i \in 1..(l + 1) /\ ~(i <= l) /\ j \in 1..l
            BY <1>4, <2>1, <4>2, <5>0
          <6>2. i = l + 1 /\ 1 \in 1..l
            BY <6>1
          <6>3. i = Len(s) + 1 /\ 1 \in 1..Len(s)
            BY <5>0, <6>2
          <6>4. QED
            BY <2>1, <6>3
        <5>2. Told(s, i) = s[1]
          BY <4>2 DEF Told
        <5>3. QED
          BY <5>1, <5>2
      <4>3. QED
        BY <4>1, <4>2
    <3>2. Told(s, i) # s[j]
      BY <1>3, <3>1
    <3>3. QED
      BY <1>2, <1>4, <3>2 DEF SplicedPrev
  <2>2. ASSUME NEW j \in 1..Len(s), j = i \/ (j = 1 /\ i = Len(s) + 1) PROVE U[s[j]] = a
    <3>1. Told(s, i) = s[j] /\ s # <<>>
      BY <1>1, <1>4, <2>2 DEF Told
    <3>2. QED
      BY <1>4, <3>1 DEF SplicedPrev
  <2>3. QED
    BY <2>1, <2>2
<1>9. CASE p = i
  BY <1>4, <1>5, <1>6, <1>9 DEF SplicedPrev
<1>10. CASE p < i /\ p \in 1..Len(s)
  <2>1. w[p] = s[p] /\ PrevIn(w, p) = IF p = 1 /\ i = Len(s) + 1 THEN a ELSE PrevIn(s, p)
    BY <1>5, <1>6, <1>10
  <2>2. U[s[p]] = IF p = 1 /\ i = Len(s) + 1 THEN a ELSE PrevIn(s, p)
    BY <1>1, <1>8, <1>10
  <2>3. QED
    BY <2>1, <2>2
<1>11. CASE \E j \in i..Len(s) : p = j + 1
  <2>1. PICK j \in i..Len(s) : p = j + 1
    BY <1>11
  <2>2. j \in 1..Len(s) /\ ~(j = 1 /\ i = Len(s) + 1)
    BY <1>1
  <2>3. U[s[j]] = IF j = i THEN a ELSE PrevIn(s, j)
    BY <1>1, <1>8, <2>2
  <2>4. w[j + 1] = s[j] /\ PrevIn(w, j + 1) = IF j = i THEN a ELSE PrevIn(s, j)
    BY <1>5, <1>6
  <2>5. QED
    BY <2>1, <2>3, <2>4
<1>12. QED
  BY <1>7, <1>9, <1>10, <1>11

LEMMA SpliceKeeps ==
  ASSUME NEW L, NEW F, NEW N, NEW V, Laid(L, F, N, V), NEW n \in Holder, NEW a \in Attribute,
         ~ Listed(L, a), NEW i \in 1..(Len(L[n]) + 1), NEW w, With(Attribute, L[n], i, a, w),
         NEW E, NEW M, NEW U, Spliced(L, n, i, a, F, N, V, E, M, U)
  PROVE  Laid([L EXCEPT ![n] = w], E, M, U)
<1> DEFINE K == [L EXCEPT ![n] = w]
<1>1. L \in [Holder -> Seq(Attribute)] /\ Distinct(L)
  BY DEF Laid, Leads
<1>2. K \in [Holder -> Seq(Attribute)] /\ Distinct(K)
  BY <1>1, SpliceDistinct DEF With
<1>3. \A b \in Attribute : Listed(K, b) <=> Listed(L, b) \/ b = a
  BY <1>1, SpliceListed
<1>4. K[n] = w /\ \A m \in Holder : m # n => K[m] = L[m]
  BY <1>1
<1> HIDE DEF K
<1>5. SplicedFirst(n, i, a, F, E) /\ SplicedNext(L[n], i, a, N, M) /\ SplicedPrev(L[n], i, a, V, U)
  BY DEF Spliced
<1>6. ASSUME NEW m \in Holder, NEW p \in 1..Len(K[m])
      PROVE  M[K[m][p]] = NextIn(K[m], p) /\ U[K[m][p]] = PrevIn(K[m], p)
  <2>1. CASE m = n
    BY <1>4, <1>5, <1>6, <2>1, SpliceNext, SplicePrev
  <2>2. CASE m # n
    <3>1. K[m] = L[m]
      BY <1>4, <2>2
    <3>2. M[L[m][p]] = N[L[m][p]] /\ U[L[m][p]] = V[L[m][p]]
      BY <1>6, <2>2, <3>1, ElsewhereSpliced
    <3>3. N[L[m][p]] = NextIn(L[m], p) /\ V[L[m][p]] = PrevIn(L[m], p)
      BY <1>6, <3>1 DEF Laid, Leads
    <3>4. QED
      BY <3>1, <3>2, <3>3
  <2>3. QED
    BY <2>1, <2>2
<1>7. ASSUME NEW b \in Attribute, ~ Listed(K, b) PROVE M[b] = NoAttr /\ U[b] = NoAttr
  <2>1. ~ Listed(L, b) /\ b # a
    BY <1>3, <1>7
  <2>2. N[b] = NoAttr /\ V[b] = NoAttr
    BY <2>1 DEF Laid, Leads
  <2>3. \A j \in 1..Len(L[n]) : b # L[n][j]
    BY <2>1 DEF Listed
  <2>4. L[n] # <<>> => b # Told(L[n], i)
    BY <1>1, <2>3 DEF Told
  <2>5. QED
    BY <1>5, <2>1, <2>2, <2>3, <2>4 DEF SplicedNext, SplicedPrev
<1>8. E \in [Holder -> Nullable] /\ \A m \in Holder : E[m] = FirstIn(K[m])
  <2>1. F \in [Holder -> Nullable] /\ \A m \in Holder : F[m] = FirstIn(L[m])
    BY DEF Laid
  <2>2. w \in Seq(Attribute) /\ w # <<>> /\ w[1] = (IF i = 1 THEN a ELSE L[n][1])
        /\ (i # 1 => L[n] # <<>>)
    <3>1. L[n] \in Seq(Attribute) /\ Len(L[n]) \in Nat
      BY <1>1
    <3>2. w \in Seq(Attribute) /\ Len(w) = Len(L[n]) + 1 /\ w[i] = a
          /\ \A k \in 1..(i - 1) : w[k] = L[n][k]
      BY DEF With
    <3>3. i # 1 => 1 \in 1..(i - 1) /\ L[n] # <<>>
      BY <3>1
    <3>4. w # <<>>
      BY <3>1, <3>2
    <3>5. i = 1 => w[1] = a
      BY <3>2
    <3>6. i # 1 => w[1] = L[n][1]
      BY <3>2, <3>3
    <3>7. QED
      BY <3>2, <3>3, <3>4, <3>5, <3>6, Zenon
  <2>3. CASE i = 1
    <3>1. E = [F EXCEPT ![n] = a]
      BY <1>5, <2>3 DEF SplicedFirst
    <3>2. E \in [Holder -> Nullable] /\ E[n] = a /\ \A m \in Holder : m # n => E[m] = F[m]
      BY <2>1, <3>1 DEF Nullable
    <3>3. FirstIn(K[n]) = a
      BY <1>4, <2>2, <2>3 DEF FirstIn
    <3>4. QED
      BY <1>4, <2>1, <3>2, <3>3
  <2>4. CASE i # 1
    <3>1. E = F
      BY <1>5, <2>4 DEF SplicedFirst
    <3>2. FirstIn(w) = w[1] /\ w[1] = L[n][1] /\ FirstIn(L[n]) = L[n][1]
      BY <2>2, <2>4, Zenon DEF FirstIn
    <3>3. QED
      BY <1>4, <2>1, <3>1, <3>2
  <2>5. QED
    BY <2>3, <2>4
<1>9. M \in [Attribute -> Nullable] /\ U \in [Attribute -> Nullable]
  BY <1>5 DEF SplicedNext, SplicedPrev
<1>10. Leads(K, M)
  BY <1>2, <1>6, <1>7, <1>9 DEF Leads
<1>11. Laid(K, E, M, U)
  BY <1>6, <1>7, <1>8, <1>9, <1>10 DEF Laid
<1>12. QED
  BY <1>11 DEF K
-----------------------------------------------------------------------------
(* A list from which a goes is one that a came into. *)

CutNext(w, i, a, N, M) ==
  /\ M \in [Attribute -> Nullable]
  /\ M[a] = NoAttr
  /\ \A j \in 1..Len(w) : j + 1 = i => M[w[j]] = N[a]
  /\ \A b \in Attribute : b # a /\ (\A j \in 1..Len(w) : j + 1 = i => b # w[j]) => M[b] = N[b]

CutPrev(w, i, a, V, U) ==
  /\ U \in [Attribute -> Nullable]
  /\ U[a] = NoAttr
  /\ w # <<>> => U[Told(w, i)] = V[a]
  /\ \A b \in Attribute : b # a /\ (w # <<>> => b # Told(w, i)) => U[b] = V[b]

\* The links once a has gone from the list of n, where it was at i; w is left.
Cut(w, n, i, a, F, N, V, E, M, U) ==
  /\ E = IF i = 1 THEN [F EXCEPT ![n] = N[a]] ELSE F
  /\ CutNext(w, i, a, N, M)
  /\ CutPrev(w, i, a, V, U)

LEMMA LackingIsWith ==
  ASSUME NEW s \in Seq(Attribute), NEW i \in 1..Len(s), NEW w, Lacking(Attribute, s, i, w)
  PROVE  w \in Seq(Attribute) /\ i \in 1..(Len(w) + 1) /\ With(Attribute, w, i, s[i], s)
<1>1. /\ w \in Seq(Attribute) /\ Len(w) = Len(s) - 1 /\ Len(s) \in Nat
      /\ \A k \in 1..(i - 1) : w[k] = s[k]
      /\ \A k \in i..(Len(s) - 1) : w[k] = s[k + 1]
  BY DEF Lacking
<1>2. QED
  BY <1>1 DEF With

LEMMA CutDistinct ==
  ASSUME NEW L \in [Holder -> Seq(Attribute)], Distinct(L), NEW n \in Holder, NEW w \in Seq(Attribute),
         NEW i \in 1..(Len(w) + 1), NEW a \in Attribute, With(Attribute, w, i, a, L[n])
  PROVE  Distinct([L EXCEPT ![n] = w]) /\ ~ Listed([L EXCEPT ![n] = w], a)
<1> DEFINE s == L[n]
           K == [L EXCEPT ![n] = w]
           now(j) == IF j < i THEN j ELSE j + 1
<1>1. s \in Seq(Attribute) /\ Len(w) \in Nat /\ Len(s) = Len(w) + 1 /\ s[i] = a
  BY DEF With
<1>2. ASSUME NEW j \in 1..Len(w)
      PROVE  now(j) \in 1..Len(s) /\ s[now(j)] = w[j] /\ now(j) # i
  <2>1. CASE j < i
    BY <1>1, <2>1, NextWith
  <2>2. CASE ~(j < i)
    <3>1. j \in i..Len(w)
      BY <1>1, <2>2
    <3>2. s[j + 1] = w[j]
      BY <3>1, NextWith
    <3>3. QED
      BY <1>1, <2>2, <3>1, <3>2
  <2>3. QED
    BY <2>1, <2>2
<1>3. \A j, k \in 1..Len(w) : now(j) = now(k) => j = k
  BY <1>1
<1>4. K[n] = w /\ \A m \in Holder : m # n => K[m] = L[m]
  OBVIOUS
<1>5. \A m, q \in Holder : \A j \in 1..Len(L[m]), k \in 1..Len(L[q]) :
        L[m][j] = L[q][k] => m = q /\ j = k
  BY DEF Distinct
\* Where the members of the lists were.
<1> HIDE DEF K
<1>6. ASSUME NEW m \in Holder, NEW p \in 1..Len(K[m])
      PROVE  \E j \in 1..Len(L[m]) : /\ L[m][j] = K[m][p] /\ (m = n => j # i)
                                     /\ j = IF m = n THEN now(p) ELSE p
  <2>1. CASE m = n
    BY <1>2, <1>4, <2>1
  <2>2. CASE m # n
    BY <1>4, <2>2
  <2>3. QED
    BY <2>1, <2>2
<1>7. ASSUME NEW m \in Holder, NEW q \in Holder, NEW j \in 1..Len(K[m]), NEW k \in 1..Len(K[q]),
             K[m][j] = K[q][k]
      PROVE  m = q /\ j = k
  <2>1. PICK jj \in 1..Len(L[m]) : L[m][jj] = K[m][j] /\ jj = IF m = n THEN now(j) ELSE j
    BY <1>6
  <2>2. PICK kk \in 1..Len(L[q]) : L[q][kk] = K[q][k] /\ kk = IF q = n THEN now(k) ELSE k
    BY <1>6
  <2>3. m = q /\ jj = kk
    BY <1>5, <1>7, <2>1, <2>2
  <2>4. CASE m = n
    <3>1. j \in 1..Len(w) /\ k \in 1..Len(w) /\ now(j) = now(k)
      BY <1>4, <2>1, <2>2, <2>3, <2>4
    <3>2. QED
      BY <1>3, <2>3, <3>1
  <2>5. CASE m # n
    BY <2>1, <2>2, <2>3, <2>5
  <2>6. QED
    BY <2>4, <2>5
<1>8. ASSUME Listed(K, a) PROVE FALSE
  <2>1. PICK m \in Holder : \E p \in 1..Len(K[m]) : K[m][p] = a
    BY <1>8 DEF Listed
  <2>2. PICK p \in 1..Len(K[m]) : K[m][p] = a
    BY <2>1
  <2>3. PICK j \in 1..Len(L[m]) : L[m][j] = a /\ (m = n => j # i)
    BY <1>6, <2>2
  <2>4. i \in 1..Len(L[n]) /\ L[n][i] = a
    BY <1>1
  <2>5. QED
    BY <1>5, <2>3, <2>4
<1>9. QED
  BY <1>7, <1>8 DEF Distinct, K

LEMMA CutListed ==
  ASSUME NEW L \in [Holder -> Seq(Attribute)], Distinct(L), NEW n \in Holder, NEW w \in Seq(Attribute),
         NEW i \in 1..(Len(w) + 1), NEW a \in Attribute, With(Attribute, w, i, a, L[n]),
         NEW b \in Attribute
  PROVE  Listed([L EXCEPT ![n] = w], b) <=> Listed(L, b) /\ b # a
<1> DEFINE K == [L EXCEPT ![n] = w]
<1>1. K \in [Holder -> Seq(Attribute)] /\ K[n] = w /\ L[n] \in Seq(Attribute)
  OBVIOUS
<1>2. L = [K EXCEPT ![n] = L[n]]
  OBVIOUS
<1>3. ~ Listed(K, a)
  BY CutDistinct
<1> HIDE DEF K
<1>4. i \in 1..(Len(K[n]) + 1) /\ With(Attribute, K[n], i, a, L[n])
  BY <1>1
<1>5. Listed([K EXCEPT ![n] = L[n]], b) <=> Listed(K, b) \/ b = a
  BY <1>1, <1>4, SpliceListed
<1>6. Listed(L, b) <=> Listed(K, b) \/ b = a
  BY <1>2, <1>5
<1>7. QED
  BY <1>3, <1>6 DEF K

\* What NextWith and PrevWith say of the sequence before, told of the one left.
LEMMA CutNextIs ==
  ASSUME NEW s \in Seq(Attribute), NEW w \in Seq(Attribute), NEW i \in 1..(Len(w) + 1),
         NEW a, With(Attribute, w, i, a, s), NEW p \in 1..Len(w)
  PROVE  \E q \in 1..Len(s) :
           s[q] = w[p] /\ q # i /\ NextIn(w, p) = IF p + 1 = i THEN NextIn(s, i) ELSE NextIn(s, q)
<1>1. Len(w) \in Nat /\ Len(s) = Len(w) + 1
  BY DEF With
<1>2. /\ \A j \in 1..Len(w) : j < i =>
           s[j] = w[j] /\ NextIn(s, j) = IF j + 1 = i THEN a ELSE NextIn(w, j)
      /\ NextIn(s, i) = IF i <= Len(w) THEN w[i] ELSE NoAttr
      /\ \A j \in i..Len(w) : s[j + 1] = w[j] /\ NextIn(s, j + 1) = NextIn(w, j)
  BY NextWith
<1>3. CASE p + 1 = i
  <2>1. NextIn(w, p) = NextIn(s, i)
    BY <1>1, <1>2, <1>3 DEF NextIn
  <2>2. p \in 1..Len(s) /\ s[p] = w[p] /\ p # i
    BY <1>1, <1>2, <1>3
  <2>3. QED
    BY <1>3, <2>1, <2>2
<1>4. CASE p < i /\ p + 1 # i
  <2>1. p \in 1..Len(s) /\ s[p] = w[p] /\ p # i /\ NextIn(s, p) = NextIn(w, p)
    BY <1>1, <1>2, <1>4
  <2>2. QED
    BY <1>4, <2>1
<1>5. CASE p >= i
  <2>1. p \in i..Len(w) /\ p + 1 # i
    BY <1>1, <1>5
  <2>2. PICK q \in 1..Len(s) : q = p + 1 /\ q # i
    BY <1>1, <1>5
  <2>3. s[q] = w[p] /\ NextIn(s, q) = NextIn(w, p)
    BY <1>2, <2>1, <2>2
  <2>4. QED
    BY <2>1, <2>2, <2>3
<1>6. QED
  BY <1>1, <1>3, <1>4, <1>5

LEMMA CutPrevIs ==
  ASSUME NEW s \in Seq(Attribute), NEW w \in Seq(Attribute), NEW i \in 1..(Len(w) + 1),
         NEW a, With(Attribute, w, i, a, s), NEW p \in 1..Len(w)
  PROVE  \E q \in 1..Len(s) :
           s[q] = w[p] /\ q # i
           /\ PrevIn(w, p) = IF p = i \/ (p = 1 /\ i = Len(w) + 1) THEN PrevIn(s, i) ELSE PrevIn(s, q)
<1>1. Len(w) \in Nat /\ Len(s) = Len(w) + 1 /\ w # <<>>
  BY DEF With
<1>2. /\ \A j \in 1..Len(w) : j < i => s[j] = w[j]
      /\ \A j \in i..Len(w) : s[j + 1] = w[j]
  BY NextWith
<1>3. /\ \A j \in 1..Len(w) : j < i =>
           PrevIn(s, j) = IF j = 1 /\ i = Len(w) + 1 THEN a ELSE PrevIn(w, j)
      /\ PrevIn(s, i) = IF w = <<>> THEN a ELSE IF i = 1 THEN w[Len(w)] ELSE w[i - 1]
      /\ \A j \in i..Len(w) : PrevIn(s, j + 1) = IF j = i THEN a ELSE PrevIn(w, j)
  BY PrevWith
<1>4. CASE p < i
  <2>1. p \in 1..Len(s) /\ s[p] = w[p] /\ p # i
    BY <1>1, <1>2, <1>4
  <2>2. CASE p = 1 /\ i = Len(w) + 1
    <3>1. PrevIn(s, i) = w[i - 1] /\ i - 1 = Len(w)
      BY <1>1, <1>3, <2>2
    <3>2. PrevIn(w, p) = PrevIn(s, i)
      BY <2>2, <3>1 DEF PrevIn
    <3>3. QED
      BY <2>1, <2>2, <3>2
  <2>3. CASE ~(p = 1 /\ i = Len(w) + 1)
    <3>1. PrevIn(s, p) = PrevIn(w, p)
      BY <1>3, <1>4, <2>3
    <3>2. QED
      BY <2>1, <2>3, <3>1
  <2>4. QED
    BY <2>2, <2>3
<1>5. CASE p >= i
  <2>1. p \in i..Len(w) /\ ~(p = 1 /\ i = Len(w) + 1)
    BY <1>1, <1>5
  <2>2. PICK q \in 1..Len(s) : q = p + 1 /\ q # i
    BY <1>1, <1>5
  <2>3. s[q] = w[p] /\ PrevIn(s, q) = IF p = i THEN a ELSE PrevIn(w, p)
    BY <1>2, <1>3, <2>1, <2>2
  <2>4. p = i => PrevIn(w, p) = PrevIn(s, i)
    BY <1>1, <1>3 DEF PrevIn
  <2>5. QED
    BY <2>1, <2>2, <2>3, <2>4
<1>6. QED
  BY <1>1, <1>4, <1>5

LEMMA CutNextKeeps ==
  ASSUME NEW L, NEW N, Leads(L, N), NEW n \in Holder, NEW w \in Seq(Attribute),
         NEW i \in 1..(Len(w) + 1), NEW a \in Attribute, With(Attribute, w, i, a, L[n]),
         NEW M, CutNext(w, i, a, N, M), NEW p \in 1..Len(w)
  PROVE  M[w[p]] = NextIn(w, p)
<1> DEFINE s == L[n]
<1>1. L \in [Holder -> Seq(Attribute)] /\ Distinct(L) /\ s \in Seq(Attribute)
      /\ \A j \in 1..Len(s) : N[s[j]] = NextIn(s, j)
  BY DEF Leads
<1>2. \A j, k \in 1..Len(s) : s[j] = s[k] => j = k
  BY <1>1 DEF Distinct
<1>3. i \in 1..Len(s) /\ s[i] = a /\ Len(w) \in Nat /\ Len(s) = Len(w) + 1
  BY DEF With
<1>4. ~ Listed([L EXCEPT ![n] = w], a) /\ Distinct([L EXCEPT ![n] = w])
  BY <1>1, CutDistinct
<1>5. \A j \in 1..Len(w) : w[j] # a
  BY <1>1, <1>4 DEF Listed
<1>6. \A j, k \in 1..Len(w) : w[j] = w[k] => j = k
  BY <1>1, <1>4 DEF Distinct
<1>7. PICK q \in 1..Len(s) :
        s[q] = w[p] /\ q # i /\ NextIn(w, p) = IF p + 1 = i THEN NextIn(s, i) ELSE NextIn(s, q)
  BY <1>1, CutNextIs
<1> HIDE DEF s
<1>8. w[p] \in Attribute /\ w[p] # a
  BY <1>5
<1>9. CASE p + 1 = i
  BY <1>1, <1>3, <1>7, <1>9 DEF CutNext
<1>10. CASE p + 1 # i
  <2>1. \A j \in 1..Len(w) : j + 1 = i => w[p] # w[j]
    BY <1>6, <1>10
  <2>2. M[w[p]] = N[w[p]]
    BY <1>8, <2>1 DEF CutNext
  <2>3. QED
    BY <1>1, <1>7, <1>10, <2>2
<1>11. QED
  BY <1>9, <1>10

LEMMA CutPrevKeeps ==
  ASSUME NEW L, NEW F, NEW N, NEW V, Laid(L, F, N, V), NEW n \in Holder, NEW w \in Seq(Attribute),
         NEW i \in 1..(Len(w) + 1), NEW a \in Attribute, With(Attribute, w, i, a, L[n]),
         NEW U, CutPrev(w, i, a, V, U), NEW p \in 1..Len(w)
  PROVE  U[w[p]] = PrevIn(w, p)
<1> DEFINE s == L[n]
<1>1. L \in [Holder -> Seq(Attribute)] /\ Distinct(L) /\ s \in Seq(Attribute)
      /\ \A j \in 1..Len(s) : V[s[j]] = PrevIn(s, j)
  BY DEF Laid, Leads
<1>3. i \in 1..Len(s) /\ s[i] = a /\ Len(w) \in Nat /\ Len(s) = Len(w) + 1
  BY DEF With
<1>4. ~ Listed([L EXCEPT ![n] = w], a) /\ Distinct([L EXCEPT ![n] = w])
  BY <1>1, CutDistinct
<1>5. \A j \in 1..Len(w) : w[j] # a
  BY <1>1, <1>4 DEF Listed
<1>6. \A j, k \in 1..Len(w) : w[j] = w[k] => j = k
  BY <1>1, <1>4 DEF Distinct
<1>7. PICK q \in 1..Len(s) :
        s[q] = w[p] /\ q # i
        /\ PrevIn(w, p) = IF p = i \/ (p = 1 /\ i = Len(w) + 1) THEN PrevIn(s, i) ELSE PrevIn(s, q)
  BY <1>1, CutPrevIs
<1> HIDE DEF s
<1>8. w[p] \in Attribute /\ w[p] # a /\ w # <<>>
  BY <1>3, <1>5
<1>9. CASE p = i \/ (p = 1 /\ i = Len(w) + 1)
  <2>1. Told(w, i) = w[p]
    BY <1>3, <1>9 DEF Told
  <2>2. U[w[p]] = V[a]
    BY <1>8, <2>1 DEF CutPrev
  <2>3. QED
    BY <1>1, <1>3, <1>7, <1>9, <2>2
<1>10. CASE ~(p = i \/ (p = 1 /\ i = Len(w) + 1))
  <2>1. Told(w, i) # w[p]
    BY <1>3, <1>6, <1>10 DEF Told
  <2>2. U[w[p]] = V[w[p]]
    BY <1>8, <2>1 DEF CutPrev
  <2>3. QED
    BY <1>1, <1>7, <1>10, <2>2
<1>11. QED
  BY <1>9, <1>10

LEMMA CutKeeps ==
  ASSUME NEW L, NEW F, NEW N, NEW V, Laid(L, F, N, V), NEW n \in Holder, NEW w \in Seq(Attribute),
         NEW i \in 1..(Len(w) + 1), NEW a \in Attribute, With(Attribute, w, i, a, L[n]),
         NEW E, NEW M, NEW U, Cut(w, n, i, a, F, N, V, E, M, U)
  PROVE  Laid([L EXCEPT ![n] = w], E, M, U)
<1> DEFINE K == [L EXCEPT ![n] = w]
<1>1. L \in [Holder -> Seq(Attribute)] /\ Distinct(L) /\ Leads(L, N)
  BY DEF Laid, Leads
<1>2. K \in [Holder -> Seq(Attribute)] /\ Distinct(K) /\ ~ Listed(K, a)
  BY <1>1, CutDistinct
<1>3. \A b \in Attribute : Listed(K, b) <=> Listed(L, b) /\ b # a
  BY <1>1, CutListed
<1>4. K[n] = w /\ \A m \in Holder : m # n => K[m] = L[m]
  BY <1>1
<1> HIDE DEF K
<1>5. CutNext(w, i, a, N, M) /\ CutPrev(w, i, a, V, U)
  BY DEF Cut
<1>6. w # <<>> => \E k \in 1..Len(w) : Told(w, i) = w[k]
  <2>1. Len(w) \in Nat
    OBVIOUS
  <2>2. QED
    BY <2>1 DEF Told
<1>7. ASSUME NEW b \in Attribute, b # a, \A j \in 1..Len(w) : b # w[j]
      PROVE  M[b] = N[b] /\ U[b] = V[b]
  BY <1>5, <1>6, <1>7 DEF CutNext, CutPrev
<1>8. ASSUME NEW m \in Holder, NEW p \in 1..Len(K[m])
      PROVE  M[K[m][p]] = NextIn(K[m], p) /\ U[K[m][p]] = PrevIn(K[m], p)
  <2>1. CASE m = n
    BY <1>1, <1>4, <1>5, <1>8, <2>1, CutNextKeeps, CutPrevKeeps
  <2>2. CASE m # n
    <3>1. K[m] = L[m]
      BY <1>4, <2>2
    <3>2. K[m][p] \in Attribute /\ K[m][p] # a
      BY <1>2 DEF Listed
    <3>3. \A j \in 1..Len(w) : K[m][p] # w[j]
      BY <1>2, <1>4, <2>2 DEF Distinct
    <3>4. M[K[m][p]] = N[K[m][p]] /\ U[K[m][p]] = V[K[m][p]]
      BY <1>7, <3>2, <3>3
    <3>5. N[L[m][p]] = NextIn(L[m], p) /\ V[L[m][p]] = PrevIn(L[m], p)
      BY <1>8, <3>1 DEF Laid, Leads
    <3>6. QED
      BY <3>1, <3>4, <3>5
  <2>3. QED
    BY <2>1, <2>2
<1>9. ASSUME NEW b \in Attribute, ~ Listed(K, b) PROVE M[b] = NoAttr /\ U[b] = NoAttr
  <2>1. CASE b = a
    BY <1>5, <2>1 DEF CutNext, CutPrev
  <2>2. CASE b # a
    <3>1. ~ Listed(L, b)
      BY <1>3, <1>9, <2>2
    <3>2. N[b] = NoAttr /\ V[b] = NoAttr
      BY <3>1 DEF Laid, Leads
    <3>3. \A j \in 1..Len(w) : b # w[j]
      BY <1>4, <1>9 DEF Listed
    <3>4. QED
      BY <1>7, <2>2, <3>2, <3>3
  <2>3. QED
    BY <2>1, <2>2
<1>10. E \in [Holder -> Nullable] /\ \A m \in Holder : E[m] = FirstIn(K[m])
  <2>1. F \in [Holder -> Nullable] /\ (\A m \in Holder : F[m] = FirstIn(L[m]))
        /\ N \in [Attribute -> Nullable]
    BY DEF Laid, Leads
  <2>2. /\ L[n] \in Seq(Attribute) /\ Len(w) \in Nat /\ Len(L[n]) = Len(w) + 1 /\ L[n][i] = a
        /\ \A k \in 1..(i - 1) : L[n][k] = w[k]
    BY <1>1 DEF With
  <2>3. CASE i = 1
    <3>1. E = [F EXCEPT ![n] = N[a]] /\ N[a] \in Nullable
      BY <2>1, <2>3 DEF Cut
    <3>2. E \in [Holder -> Nullable] /\ E[n] = N[a] /\ \A m \in Holder : m # n => E[m] = F[m]
      BY <2>1, <3>1
    <3>3. N[a] = NextIn(L[n], 1)
      BY <1>1, <2>2, <2>3 DEF Leads
    <3>4. NextIn(L[n], i) = IF i <= Len(w) THEN w[i] ELSE NoAttr
      BY <2>2, NextWith
    <3>5. NextIn(L[n], 1) = FirstIn(w)
      BY <2>2, <2>3, <3>4 DEF FirstIn
    <3>6. QED
      BY <1>4, <2>1, <3>2, <3>3, <3>5
  <2>4. CASE i # 1
    <3>1. E = F
      BY <2>4 DEF Cut
    <3>2. 1 \in 1..(i - 1) /\ w # <<>> /\ L[n] # <<>>
      BY <2>2, <2>4
    <3>3. FirstIn(L[n]) = FirstIn(w)
      BY <2>2, <3>2 DEF FirstIn
    <3>4. QED
      BY <1>4, <2>1, <3>1, <3>3
  <2>5. QED
    BY <2>3, <2>4
<1>11. M \in [Attribute -> Nullable] /\ U \in [Attribute -> Nullable]
  BY <1>5 DEF CutNext, CutPrev
<1>12. Leads(K, M)
  BY <1>2, <1>8, <1>9, <1>11 DEF Leads
<1>13. Laid(K, E, M, U)
  BY <1>8, <1>9, <1>10, <1>11, <1>12 DEF Laid
<1>14. QED
  BY <1>13 DEF K
-----------------------------------------------------------------------------
(***************************************************************************)
(* The invariant: the links lay out the lists that are read off them, an   *)
(* attribute has a name while it is in a list, and a hint is null or an    *)
(* attribute of its node.                                                  *)
(***************************************************************************)
WalkOf(N) == CHOOSE f : f = [a \in Attribute \cup {NoAttr} |-> IF a = NoAttr THEN <<>> ELSE <<a>> \o f[N[a]]]

ListsOf(F, N) == [n \in Holder |-> WalkOf(N)[F[n]]]

NamesOf(L, A) ==
  /\ A \in [Attribute -> AttrName \cup {NoAttr}]
  /\ \A a \in Attribute : A[a] # NoAttr <=> Listed(L, a)

HintsOf(L, H) ==
  /\ H \in [Holder -> Nullable]
  /\ \A n \in Holder : H[n] # NoAttr => \E i \in 1..Len(L[n]) : L[n][i] = H[n]

AttrInv ==
  /\ Laid(AttributeLists, firstAttr, nextAttr, prevAttr)
  /\ NamesOf(AttributeLists, attrName)
  /\ HintsOf(AttributeLists, hint)

LEMMA ListsAre ==
  /\ ListFrom = WalkOf(nextAttr)
  /\ AttributeLists = ListsOf(firstAttr, nextAttr)
  /\ AttributeLists' = ListsOf(firstAttr', nextAttr')
  /\ \A n \in Holder : Attributes(n) = AttributeLists[n]
BY DEF ListFrom, Attributes, AttributeLists, ListsOf, WalkOf

LEMMA WalkOfIs ==
  ASSUME NEW L, NEW N, Leads(L, N)
  PROVE  WalkBy(N, WalkOf(N))
BY WalkExists, Zenon DEF WalkBy, WalkOf

\* What is read off the links is what they lay out.
LEMMA ReadBack ==
  ASSUME NEW L, NEW F, NEW N, NEW V, Laid(L, F, N, V)
  PROVE  ListsOf(F, N) = L
<1>1. Leads(L, N) /\ L \in [Holder -> Seq(Attribute)] /\ \A n \in Holder : F[n] = FirstIn(L[n])
  BY DEF Laid, Leads
<1> DEFINE f == WalkOf(N)
<1>2. WalkBy(N, f)
  BY <1>1, WalkOfIs
<1> HIDE DEF f
<1>3. \A n \in Holder : f[FirstIn(L[n])] = L[n]
  BY <1>1, <1>2, WalkIs
<1>4. \A n \in Holder : f[F[n]] = L[n]
  BY <1>1, <1>3
<1>5. ListsOf(F, N) = [n \in Holder |-> f[F[n]]]
  BY DEF ListsOf, f
<1>6. QED
  BY <1>1, <1>4, <1>5

\* A state of which the lists are known.
LEMMA InvFrom ==
  ASSUME NEW L, Laid(L, firstAttr, nextAttr, prevAttr), NamesOf(L, attrName), HintsOf(L, hint)
  PROVE  AttrInv /\ AttributeLists = L
<1>1. AttributeLists = L
  BY ListsAre, ReadBack
<1>2. QED
  BY <1>1 DEF AttrInv

LEMMA InvFromNext ==
  ASSUME NEW L, Laid(L, firstAttr', nextAttr', prevAttr'), NamesOf(L, attrName'), HintsOf(L, hint')
  PROVE  AttrInv' /\ AttributeLists' = L
<1>1. AttributeLists' = L
  BY ListsAre, ReadBack
<1>2. QED
  BY <1>1 DEF AttrInv

LEMMA InitAttrInv == AttributesInit => AttrInv
<1>1. SUFFICES ASSUME AttributesInit PROVE AttrInv
  OBVIOUS
<1> USE AttributeAssumption
<1> DEFINE L == [n \in Holder |-> <<>>]
<1>2. L \in [Holder -> Seq(Attribute)] /\ \A n \in Holder : L[n] = <<>> /\ Len(L[n]) = 0
  OBVIOUS
<1> HIDE DEF L
<1>3. \A a : ~ Listed(L, a)
  BY <1>2 DEF Listed
<1>4. Distinct(L)
  BY <1>2 DEF Distinct
<1>5. Leads(L, nextAttr)
  BY <1>1, <1>2, <1>4 DEF Leads, AttributesInit, Nullable
<1>6. Laid(L, firstAttr, nextAttr, prevAttr)
  BY <1>1, <1>2, <1>5 DEF Laid, AttributesInit, Nullable, FirstIn
<1>7. NamesOf(L, attrName) /\ HintsOf(L, hint)
  BY <1>1, <1>3 DEF AttributesInit, NamesOf, HintsOf, Nullable
<1>8. QED
  BY <1>6, <1>7, InvFrom
-----------------------------------------------------------------------------
(* The new attribute. *)

LEMMA WithOnce ==
  ASSUME NEW T, NEW s \in Seq(T), NEW i \in 1..(Len(s) + 1), NEW c, NEW w, With(T, s, i, c, w),
         NEW v, With(T, s, i, c, v)
  PROVE  w = v
<1>1. /\ w \in Seq(T) /\ v \in Seq(T) /\ Len(w) = Len(s) + 1 /\ Len(v) = Len(s) + 1 /\ Len(s) \in Nat
      /\ w[i] = c /\ v[i] = c
      /\ (\A k \in 1..(i - 1) : w[k] = s[k]) /\ (\A k \in i..Len(s) : w[k + 1] = s[k])
      /\ (\A k \in 1..(i - 1) : v[k] = s[k]) /\ (\A k \in i..Len(s) : v[k + 1] = s[k])
  BY DEF With
<1>2. ASSUME NEW p \in 1..Len(w) PROVE w[p] = v[p]
  <2>1. CASE p <= i
    BY <1>1, <2>1
  <2>2. CASE p > i
    <3>1. PICK k \in i..Len(s) : p = k + 1
      <4>1. p - 1 \in i..Len(s) /\ p = (p - 1) + 1
        BY <1>1, <2>2
      <4>2. QED
        BY <4>1
    <3>2. w[k + 1] = v[k + 1]
      BY <1>1
    <3>3. QED
      BY <3>1, <3>2
  <2>3. QED
    BY <1>1, <2>1, <2>2
<1>3. QED
  BY <1>1, <1>2

LEMMA AtTheEnds ==
  ASSUME NEW T, NEW s \in Seq(T), NEW c \in T
  PROVE  InsertAt(s, Len(s) + 1, c) = Append(s, c) /\ InsertAt(s, 1, c) = <<c>> \o s
<1>1. Len(s) \in Nat /\ 1 \in 1..(Len(s) + 1) /\ Len(s) + 1 \in 1..(Len(s) + 1)
  OBVIOUS
<1>2. With(T, s, Len(s) + 1, c, Append(s, c))
  BY <1>1 DEF With
<1>3. With(T, s, 1, c, <<c>> \o s)
  <2> DEFINE w == <<c>> \o s
  <2>1. w \in Seq(T) /\ Len(w) = Len(s) + 1 /\ w[1] = c /\ \A k \in 1..Len(s) : w[k + 1] = s[k]
    BY <1>1
  <2> HIDE DEF w
  <2>2. With(T, s, 1, c, w)
    BY <2>1 DEF With
  <2>3. QED
    BY <2>2 DEF w
<1>4. With(T, s, Len(s) + 1, c, InsertAt(s, Len(s) + 1, c)) /\ With(T, s, 1, c, InsertAt(s, 1, c))
  BY <1>1, InsertIs
<1>5. InsertAt(s, Len(s) + 1, c) = Append(s, c)
  BY ONLY s \in Seq(T), <1>1, <1>2, <1>4, WithOnce
<1>6. InsertAt(s, 1, c) = <<c>> \o s
  BY ONLY s \in Seq(T), <1>1, <1>3, <1>4, WithOnce
<1>7. QED
  BY <1>5, <1>6

\* A new attribute that is linked at i.
LEMMA AddKeeps ==
  ASSUME AttrInv, NEW n \in Holder, NEW a \in Attribute, NEW s \in AttrName, Made(a, n, s),
         NEW i \in 1..(Len(Attributes(n)) + 1),
         Spliced(AttributeLists, n, i, a, firstAttr, nextAttr, prevAttr, firstAttr', nextAttr', prevAttr')
  PROVE  AttrInv' /\ Becomes(n, InsertAt(Attributes(n), i, a))
<1> USE AttributeAssumption
<1>1. PICK L : L = AttributeLists
  OBVIOUS
<1>2. PICK F, N, V : F = firstAttr /\ N = nextAttr /\ V = prevAttr
  OBVIOUS
<1>3. Laid(L, F, N, V) /\ NamesOf(L, attrName) /\ HintsOf(L, hint) /\ Attributes(n) = L[n]
      /\ L \in [Holder -> Seq(Attribute)]
  BY <1>1, <1>2, ListsAre DEF AttrInv, Laid, Leads
<1>4. PICK w : w = InsertAt(L[n], i, a)
  OBVIOUS
<1>5. i \in 1..(Len(L[n]) + 1) /\ With(Attribute, L[n], i, a, w)
  BY <1>3, <1>4, InsertIs
<1>6. ~ Listed(L, a)
  BY <1>3 DEF Made, Free, NamesOf
<1>7. PICK E, M, U : E = firstAttr' /\ M = nextAttr' /\ U = prevAttr'
  OBVIOUS
<1>8. Spliced(L, n, i, a, F, N, V, E, M, U)
  BY <1>1, <1>2, <1>7
<1> DEFINE K == [L EXCEPT ![n] = w]
<1>9. Laid(K, E, M, U)
  BY <1>3, <1>5, <1>6, <1>8, SpliceKeeps
<1>10. \A b \in Attribute : Listed(K, b) <=> Listed(L, b) \/ b = a
  BY <1>3, <1>5, SpliceListed
<1>11. NamesOf(K, attrName')
  <2>1. attrName' = [attrName EXCEPT ![a] = s] /\ s # NoAttr
    BY DEF Made
  <2>2. QED
    BY <1>3, <1>10, <2>1 DEF NamesOf
<1>12. HintsOf(K, hint')
  <2>1. hint' = hint
    BY DEF Made
  <2>2. K[n] = w /\ \A m \in Holder : m # n => K[m] = L[m]
    BY <1>3
  <2>3. ASSUME NEW m \in Holder, NEW j \in 1..Len(L[m])
        PROVE  \E k \in 1..Len(K[m]) : K[m][k] = L[m][j]
    <3>1. CASE m # n
      BY <2>2, <3>1
    <3>2. CASE m = n
      <4>1. L[n] \in Seq(Attribute) /\ Len(L[n]) \in Nat
        BY <1>3
      <4>2. Len(w) = Len(L[n]) + 1
        BY <1>5 DEF With
      <4>3. CASE j < i
        <5>1. w[j] = L[n][j] /\ j \in 1..Len(w)
          BY <1>5, <3>2, <4>1, <4>2, <4>3 DEF With
        <5>2. QED
          BY <2>2, <3>2, <5>1
      <4>4. CASE j >= i
        <5>1. w[j + 1] = L[n][j] /\ j + 1 \in 1..Len(w)
          BY <1>5, <3>2, <4>1, <4>2, <4>4 DEF With
        <5>2. QED
          BY <2>2, <3>2, <5>1
      <4>5. QED
        BY <1>5, <3>2, <4>1, <4>3, <4>4
    <3>3. QED
      BY <3>1, <3>2
  <2> HIDE DEF K
  <2>4. ASSUME NEW m \in Holder, hint[m] # NoAttr PROVE \E k \in 1..Len(K[m]) : K[m][k] = hint[m]
    <3>1. PICK j \in 1..Len(L[m]) : L[m][j] = hint[m]
      BY <1>3, <2>4 DEF HintsOf
    <3>2. PICK k \in 1..Len(K[m]) : K[m][k] = L[m][j]
      BY <2>3
    <3>3. QED
      BY <3>1, <3>2
  <2>5. QED
    BY <1>3, <2>1, <2>4 DEF HintsOf
<1> HIDE DEF K
<1>13. AttrInv' /\ AttributeLists' = K
  BY <1>7, <1>9, <1>11, <1>12, InvFromNext
<1>14. QED
  BY <1>1, <1>3, <1>4, <1>13 DEF Becomes, K

\* The first of the list, and the neighbours of an attribute in it.
LEMMA ReadLinks ==
  ASSUME NEW L, NEW F, NEW N, NEW V, Laid(L, F, N, V), NEW n \in Holder
  PROVE  /\ L[n] \in Seq(Attribute) /\ Len(L[n]) \in Nat
         /\ F[n] = FirstIn(L[n])
         /\ \A i \in 1..Len(L[n]) : /\ L[n][i] \in Attribute /\ L[n][i] # NoAttr
                                    /\ N[L[n][i]] = NextIn(L[n], i) /\ V[L[n][i]] = PrevIn(L[n], i)
         /\ \A i, j \in 1..Len(L[n]) : L[n][i] = L[n][j] => i = j
<1> USE AttributeAssumption
<1>1. L \in [Holder -> Seq(Attribute)] /\ Distinct(L)
  BY DEF Laid, Leads
<1>2. L[n] \in Seq(Attribute) /\ Len(L[n]) \in Nat
  BY <1>1
<1>3. F[n] = FirstIn(L[n])
  BY DEF Laid
<1>4. \A i, j \in 1..Len(L[n]) : L[n][i] = L[n][j] => i = j
  BY <1>1 DEF Distinct
<1>5. ASSUME NEW i \in 1..Len(L[n])
      PROVE  /\ L[n][i] \in Attribute /\ L[n][i] # NoAttr
             /\ N[L[n][i]] = NextIn(L[n], i) /\ V[L[n][i]] = PrevIn(L[n], i)
  BY <1>2 DEF Laid, Leads
<1>6. QED
  BY <1>2, <1>3, <1>4, <1>5

LEMMA LinkLastSplices ==
  ASSUME NEW L, NEW F, NEW N, NEW V, Laid(L, F, N, V), NEW n \in Holder, NEW a \in Attribute,
         ~ Listed(L, a), F = firstAttr, N = nextAttr, V = prevAttr, LinkLast(a, n)
  PROVE  Spliced(L, n, Len(L[n]) + 1, a, F, N, V, firstAttr', nextAttr', prevAttr')
<1> USE AttributeAssumption
<1> DEFINE s == L[n]
<1>1. /\ s \in Seq(Attribute) /\ Len(s) \in Nat /\ F[n] = FirstIn(s)
      /\ \A i \in 1..Len(s) : s[i] \in Attribute /\ s[i] # NoAttr /\ N[s[i]] = NextIn(s, i) /\ V[s[i]] = PrevIn(s, i)
      /\ \A i, j \in 1..Len(s) : s[i] = s[j] => i = j
  BY ReadLinks
<1>2. N \in [Attribute -> Nullable] /\ V \in [Attribute -> Nullable] /\ F \in [Holder -> Nullable] /\ N[a] = NoAttr
  BY DEF Laid, Leads
<1>3. \A i \in 1..Len(s) : s[i] # a
  BY DEF Listed
<1> HIDE DEF s
<1>4. CASE s = <<>>
  <2>1. F[n] = NoAttr /\ Len(s) = 0
    BY <1>1, <1>4 DEF FirstIn
  <2>2. firstAttr' = [F EXCEPT ![n] = a] /\ prevAttr' = [V EXCEPT ![a] = a] /\ nextAttr' = N
    BY <2>1 DEF LinkLast
  <2>3. SplicedNext(s, Len(s) + 1, a, N, nextAttr') /\ SplicedPrev(s, Len(s) + 1, a, V, prevAttr')
    BY <1>2, <1>4, <2>1, <2>2 DEF SplicedNext, SplicedPrev, Nullable
  <2>4. SplicedFirst(n, Len(s) + 1, a, F, firstAttr')
    BY <2>1, <2>2 DEF SplicedFirst
  <2>5. QED
    BY <2>3, <2>4 DEF Spliced, s
<1>5. CASE s # <<>>
  <2>1. 1 \in 1..Len(s) /\ Len(s) \in 1..Len(s)
    BY <1>1, <1>5
  <2>2. F[n] = s[1] /\ V[s[1]] = s[Len(s)] /\ s[1] # NoAttr
    BY <1>1, <1>5, <2>1 DEF FirstIn, PrevIn
  <2>3. /\ nextAttr' = [N EXCEPT ![s[Len(s)]] = a]
        /\ prevAttr' = [V EXCEPT ![a] = s[Len(s)], ![s[1]] = a] /\ firstAttr' = F
    BY <2>2 DEF LinkLast
  <2>4. s[1] \in Attribute /\ s[Len(s)] \in Attribute /\ s[1] # a /\ s[Len(s)] # a
    BY <1>1, <1>3, <2>1
  <2>5. SplicedNext(s, Len(s) + 1, a, N, nextAttr')
    <3>1. \A j \in 1..Len(s) : j + 1 = Len(s) + 1 <=> j = Len(s)
      BY <1>1
    <3>2. QED
      BY <1>1, <1>2, <2>1, <2>3, <2>4, <3>1 DEF SplicedNext, Nullable
  <2>6. SplicedPrev(s, Len(s) + 1, a, V, prevAttr')
    <3>1. Told(s, Len(s) + 1) = s[1] /\ Len(s) + 1 # 1 /\ (Len(s) + 1) - 1 = Len(s)
      BY <1>1, <2>1 DEF Told
    <3>2. QED
      BY <1>2, <1>5, <2>3, <2>4, <3>1 DEF SplicedPrev, Nullable
  <2>7. SplicedFirst(n, Len(s) + 1, a, F, firstAttr')
    BY <1>1, <2>1, <2>3 DEF SplicedFirst
  <2>8. QED
    BY <2>5, <2>6, <2>7 DEF Spliced, s
<1>6. QED
  BY <1>4, <1>5

LEMMA LinkFirstSplices ==
  ASSUME NEW L, NEW F, NEW N, NEW V, Laid(L, F, N, V), NEW n \in Holder, NEW a \in Attribute,
         ~ Listed(L, a), F = firstAttr, N = nextAttr, V = prevAttr, LinkFirst(a, n)
  PROVE  Spliced(L, n, 1, a, F, N, V, firstAttr', nextAttr', prevAttr')
<1> USE AttributeAssumption
<1> DEFINE s == L[n]
<1>1. /\ s \in Seq(Attribute) /\ Len(s) \in Nat /\ F[n] = FirstIn(s)
      /\ \A i \in 1..Len(s) : s[i] \in Attribute /\ s[i] # NoAttr /\ N[s[i]] = NextIn(s, i) /\ V[s[i]] = PrevIn(s, i)
      /\ \A i, j \in 1..Len(s) : s[i] = s[j] => i = j
  BY ReadLinks
<1>2. N \in [Attribute -> Nullable] /\ V \in [Attribute -> Nullable] /\ F \in [Holder -> Nullable] /\ N[a] = NoAttr
  BY DEF Laid, Leads
<1>3. \A i \in 1..Len(s) : s[i] # a
  BY DEF Listed
<1> HIDE DEF s
<1>4. F[n] \in Nullable /\ nextAttr' = [N EXCEPT ![a] = F[n]] /\ firstAttr' = [F EXCEPT ![n] = a]
  BY <1>2 DEF LinkFirst
<1>5. F[n] = IF 1 <= Len(s) THEN s[1] ELSE NoAttr
  BY <1>1 DEF FirstIn
<1>6. SplicedNext(s, 1, a, N, nextAttr')
  <2>1. \A j \in 1..Len(s) : j + 1 # 1
    BY <1>1
  <2>2. QED
    BY <1>2, <1>4, <1>5, <2>1 DEF SplicedNext, Nullable
<1>7. SplicedFirst(n, 1, a, F, firstAttr')
  BY <1>4 DEF SplicedFirst
<1>8. SplicedPrev(s, 1, a, V, prevAttr')
  <2>1. CASE s = <<>>
    <3>1. prevAttr' = [V EXCEPT ![a] = a]
      BY <1>1, <2>1 DEF LinkFirst, FirstIn
    <3>2. QED
      BY <1>2, <2>1, <3>1 DEF SplicedPrev, Nullable
  <2>2. CASE s # <<>>
    <3>1. 1 \in 1..Len(s) /\ Len(s) \in 1..Len(s)
      BY <1>1, <2>2
    <3>2. F[n] = s[1] /\ V[s[1]] = s[Len(s)] /\ s[1] # NoAttr /\ Told(s, 1) = s[1]
      BY <1>1, <2>2, <3>1 DEF FirstIn, PrevIn, Told
    <3>3. prevAttr' = [V EXCEPT ![a] = s[Len(s)], ![s[1]] = a]
      BY <3>2 DEF LinkFirst
    <3>4. s[1] \in Attribute /\ s[Len(s)] \in Attribute /\ s[1] # a /\ s[Len(s)] # a
      BY <1>1, <1>3, <3>1
    <3>5. QED
      BY <1>2, <2>2, <3>2, <3>3, <3>4 DEF SplicedPrev, Nullable
  <2>3. QED
    BY <2>1, <2>2
<1>9. QED
  BY <1>6, <1>7, <1>8 DEF Spliced, s

LEMMA LinkAfterSplices ==
  ASSUME NEW L, NEW F, NEW N, NEW V, Laid(L, F, N, V), NEW n \in Holder, NEW a \in Attribute,
         ~ Listed(L, a), F = firstAttr, N = nextAttr, V = prevAttr, NEW k \in 1..Len(L[n]),
         LinkAfter(a, L[n][k], n)
  PROVE  Spliced(L, n, k + 1, a, F, N, V, firstAttr', nextAttr', prevAttr')
<1> USE AttributeAssumption
<1> DEFINE s == L[n]
<1>1. /\ s \in Seq(Attribute) /\ Len(s) \in Nat /\ F[n] = FirstIn(s)
      /\ \A i \in 1..Len(s) : s[i] \in Attribute /\ s[i] # NoAttr /\ N[s[i]] = NextIn(s, i) /\ V[s[i]] = PrevIn(s, i)
      /\ \A i, j \in 1..Len(s) : s[i] = s[j] => i = j
  BY ReadLinks
<1>2. N \in [Attribute -> Nullable] /\ V \in [Attribute -> Nullable] /\ F \in [Holder -> Nullable] /\ N[a] = NoAttr
  BY DEF Laid, Leads
<1>3. \A i \in 1..Len(s) : s[i] # a
  BY DEF Listed
<1>4. k \in 1..Len(s) /\ LinkAfter(a, s[k], n)
  OBVIOUS
<1> HIDE DEF s
<1>5. PICK p : p = s[k]
  OBVIOUS
<1>6. p \in Attribute /\ p # a /\ N[p] = NextIn(s, k) /\ s # <<>>
  BY <1>1, <1>3, <1>4, <1>5
<1>7. PICK i \in 1..(Len(s) + 1) : i = k + 1
  BY <1>1, <1>4
<1>8. N[p] = IF i <= Len(s) THEN s[i] ELSE NoAttr
  BY <1>1, <1>4, <1>6, <1>7 DEF NextIn
<1>9. (IF N[p] # NoAttr THEN N[p] ELSE F[n]) = Told(s, i)
  BY <1>1, <1>6, <1>7, <1>8 DEF Told, FirstIn
<1>10. /\ prevAttr' = [V EXCEPT ![Told(s, i)] = a, ![a] = p]
       /\ nextAttr' = [N EXCEPT ![a] = N[p], ![p] = a] /\ firstAttr' = F
  BY <1>4, <1>5, <1>9 DEF LinkAfter
<1>11. Told(s, i) \in Attribute /\ Told(s, i) # a
  BY <1>1, <1>3, <1>6, <1>7 DEF Told
<1>12. SplicedNext(s, i, a, N, nextAttr')
  <2>1. \A j \in 1..Len(s) : j + 1 = i <=> j = k
    BY <1>1, <1>4, <1>7
  <2>2. N[p] \in Nullable
    BY <1>2, <1>6
  <2>3. QED
    BY <1>2, <1>4, <1>5, <1>6, <1>8, <1>10, <2>1, <2>2 DEF SplicedNext, Nullable
<1>13. SplicedPrev(s, i, a, V, prevAttr')
  <2>1. i # 1 /\ i - 1 = k
    BY <1>1, <1>4, <1>7
  <2>2. QED
    BY <1>2, <1>5, <1>6, <1>10, <1>11, <2>1 DEF SplicedPrev, Nullable
<1>14. SplicedFirst(n, i, a, F, firstAttr')
  BY <1>4, <1>7, <1>10 DEF SplicedFirst
<1>15. QED
  BY <1>7, <1>12, <1>13, <1>14 DEF Spliced, s

LEMMA LinkBeforeSplices ==
  ASSUME NEW L, NEW F, NEW N, NEW V, Laid(L, F, N, V), NEW n \in Holder, NEW a \in Attribute,
         ~ Listed(L, a), F = firstAttr, N = nextAttr, V = prevAttr, NEW k \in 1..Len(L[n]),
         LinkBefore(a, L[n][k], n)
  PROVE  Spliced(L, n, k, a, F, N, V, firstAttr', nextAttr', prevAttr')
<1> USE AttributeAssumption
<1> DEFINE s == L[n]
<1>1. /\ s \in Seq(Attribute) /\ Len(s) \in Nat /\ F[n] = FirstIn(s)
      /\ \A i \in 1..Len(s) : s[i] \in Attribute /\ s[i] # NoAttr /\ N[s[i]] = NextIn(s, i) /\ V[s[i]] = PrevIn(s, i)
      /\ \A i, j \in 1..Len(s) : s[i] = s[j] => i = j
  BY ReadLinks
<1>2. N \in [Attribute -> Nullable] /\ V \in [Attribute -> Nullable] /\ F \in [Holder -> Nullable] /\ N[a] = NoAttr
  BY DEF Laid, Leads
<1>3. \A i \in 1..Len(s) : s[i] # a
  BY DEF Listed
<1>4. k \in 1..Len(s) /\ LinkBefore(a, s[k], n)
  OBVIOUS
<1> HIDE DEF s
<1>5. PICK p : p = s[k]
  OBVIOUS
<1>6. PICK b : b = V[p]
  OBVIOUS
<1>7. p \in Attribute /\ p # a /\ b = PrevIn(s, k) /\ s # <<>> /\ Told(s, k) = p /\ k <= Len(s)
  BY <1>1, <1>3, <1>4, <1>5, <1>6 DEF Told
<1>8. prevAttr' = [V EXCEPT ![a] = b, ![p] = a]
  BY <1>4, <1>5, <1>6 DEF LinkBefore
<1>9. CASE k = 1
  <2>1. b = s[Len(s)] /\ Len(s) \in 1..Len(s)
    BY <1>1, <1>7, <1>9 DEF PrevIn
  <2>2. N[b] = NoAttr /\ b \in Attribute
    BY <1>1, <2>1 DEF NextIn
  <2>3. nextAttr' = [N EXCEPT ![a] = p] /\ firstAttr' = [F EXCEPT ![n] = a]
    BY <1>4, <1>5, <1>6, <2>2 DEF LinkBefore
  <2>4. SplicedNext(s, k, a, N, nextAttr')
    <3>1. \A j \in 1..Len(s) : j + 1 # k
      BY <1>1, <1>9
    <3>2. QED
      BY <1>2, <1>5, <1>7, <2>3, <3>1 DEF SplicedNext, Nullable
  <2>5. SplicedPrev(s, k, a, V, prevAttr')
    BY <1>2, <1>7, <1>8, <1>9, <2>1, <2>2 DEF SplicedPrev, Nullable
  <2>6. SplicedFirst(n, k, a, F, firstAttr')
    BY <1>9, <2>3 DEF SplicedFirst
  <2>7. QED
    BY <2>4, <2>5, <2>6 DEF Spliced, s
<1>10. CASE k # 1
  <2>1. PICK l \in 1..Len(s) : l = k - 1 /\ l + 1 = k
    BY <1>1, <1>4, <1>10
  <2>2. b = s[l]
    BY <1>7, <1>10, <2>1 DEF PrevIn
  <2>3. N[b] = p /\ b \in Attribute /\ b # a /\ p # NoAttr
    BY <1>1, <1>3, <1>4, <1>5, <2>1, <2>2 DEF NextIn
  <2>4. nextAttr' = [N EXCEPT ![b] = a, ![a] = p] /\ firstAttr' = F
    BY <1>4, <1>5, <1>6, <2>3 DEF LinkBefore
  <2>5. SplicedNext(s, k, a, N, nextAttr')
    <3>1. \A j \in 1..Len(s) : j + 1 = k <=> j = l
      BY <1>1, <1>4, <2>1
    <3>2. QED
      BY <1>2, <1>5, <1>7, <2>1, <2>2, <2>3, <2>4, <3>1 DEF SplicedNext, Nullable
  <2>6. SplicedPrev(s, k, a, V, prevAttr')
    BY <1>2, <1>7, <1>8, <1>10, <2>1, <2>2, <2>3 DEF SplicedPrev, Nullable
  <2>7. SplicedFirst(n, k, a, F, firstAttr')
    BY <1>10, <2>4 DEF SplicedFirst
  <2>8. QED
    BY <2>5, <2>6, <2>7 DEF Spliced, s
<1>11. QED
  BY <1>9, <1>10

LEMMA UnlinkCuts ==
  ASSUME NEW L, NEW F, NEW N, NEW V, Laid(L, F, N, V), NEW n \in Holder,
         F = firstAttr, N = nextAttr, V = prevAttr, NEW i \in 1..Len(L[n]), NEW a, a = L[n][i],
         NEW w, Lacking(Attribute, L[n], i, w), Unlink(a, n)
  PROVE  Cut(w, n, i, a, F, N, V, firstAttr', nextAttr', prevAttr')
<1> USE AttributeAssumption
<1> DEFINE s == L[n]
<1>1. /\ s \in Seq(Attribute) /\ Len(s) \in Nat /\ F[n] = FirstIn(s)
      /\ \A j \in 1..Len(s) : s[j] \in Attribute /\ s[j] # NoAttr /\ N[s[j]] = NextIn(s, j) /\ V[s[j]] = PrevIn(s, j)
      /\ \A k, j \in 1..Len(s) : s[k] = s[j] => k = j
  BY ReadLinks
<1>2. N \in [Attribute -> Nullable] /\ V \in [Attribute -> Nullable] /\ F \in [Holder -> Nullable]
  BY DEF Laid, Leads
<1>3. i \in 1..Len(s) /\ Lacking(Attribute, s, i, w) /\ a = s[i]
  OBVIOUS
<1> HIDE DEF s
<1>4. /\ w \in Seq(Attribute) /\ Len(w) = Len(s) - 1
      /\ \A k \in 1..(i - 1) : w[k] = s[k]
      /\ \A k \in i..(Len(s) - 1) : w[k] = s[k + 1]
  BY <1>3 DEF Lacking
<1>5. PICK b : b = V[a]
  OBVIOUS
<1>6. /\ a \in Attribute /\ b = PrevIn(s, i) /\ s # <<>> /\ F[n] = s[1] /\ 1 \in 1..Len(s)
      /\ N[a] = IF i <= Len(w) THEN w[i] ELSE NoAttr
  <2>1. N[a] = NextIn(s, i) /\ V[a] = PrevIn(s, i) /\ s # <<>> /\ a \in Attribute
    BY <1>1, <1>3
  <2>2. i <= Len(w) => s[i + 1] = w[i]
    BY <1>1, <1>3, <1>4
  <2>3. (i <= Len(w)) <=> i < Len(s)
    BY <1>1, <1>3, <1>4
  <2>4. F[n] = s[1] /\ 1 \in 1..Len(s)
    BY <1>1, <2>1 DEF FirstIn
  <2>5. QED
    BY <1>5, <2>1, <2>2, <2>3, <2>4 DEF NextIn
<1>7. \A k \in 1..Len(w) : w[k] \in Attribute /\ w[k] # a /\ w[k] # NoAttr
  <2>1. ASSUME NEW k \in 1..Len(w) PROVE \E j \in 1..Len(s) : w[k] = s[j] /\ j # i
    <3>1. CASE k < i
      BY <1>1, <1>4, <3>1
    <3>2. CASE k >= i
      <4>1. k + 1 \in 1..Len(s) /\ w[k] = s[k + 1] /\ k + 1 # i
        BY <1>1, <1>4, <3>2
      <4>2. QED
        BY <4>1
    <3>3. QED
      BY <1>1, <1>3, <3>1, <3>2
  <2>2. QED
    BY <1>1, <1>3, <2>1
<1>8. PICK t : t = IF N[a] # NoAttr THEN N[a] ELSE F[n]
  OBVIOUS
<1>9. prevAttr' = [V EXCEPT ![t] = b, ![a] = NoAttr]
  BY <1>5, <1>8 DEF Unlink
<1>10. Len(w) \in Nat /\ (w # <<>> => 1 \in 1..Len(w))
  BY <1>4
<1>11. t = IF w = <<>> THEN a ELSE Told(w, i)
  <2>1. CASE w = <<>>
    <3>1. Len(w) = 0
      BY <2>1
    <3>2. i = 1 /\ ~(i <= Len(w))
      <4>1. PICK l \in Nat : l = Len(s)
        BY <1>1
      <4>2. Len(w) = l - 1 /\ i \in 1..l
        BY <1>3, <1>4, <4>1
      <4>3. l = 1
        BY <3>1, <4>2
      <4>4. i = 1
        BY <4>2, <4>3
      <4>5. QED
        BY <3>1, <4>4
    <3>3. QED
      BY <1>3, <1>6, <1>8, <2>1, <3>2
  <2>2. CASE w # <<>> /\ i <= Len(w)
    <3>1. i \in 1..Len(w)
      BY <1>3, <1>10, <2>2
    <3>2. QED
      BY <1>6, <1>7, <1>8, <2>2, <3>1 DEF Told
  <2>3. CASE w # <<>> /\ ~(i <= Len(w))
    <3>1. 1 \in 1..(i - 1)
      BY <1>3, <1>10, <2>3
    <3>2. w[1] = s[1]
      BY <1>4, <3>1
    <3>3. QED
      BY <1>6, <1>8, <2>3, <3>2 DEF Told
  <2>4. QED
    BY <2>1, <2>2, <2>3
<1>12. w # <<>> => Told(w, i) \in Attribute /\ Told(w, i) # a
  <2>1. w # <<>> => Told(w, i) = w[1] \/ (i \in 1..Len(w) /\ Told(w, i) = w[i])
    BY <1>3, <1>10 DEF Told
  <2>2. QED
    BY <1>7, <1>10, <2>1
<1>13. b \in Nullable
  <2>1. a \in Attribute
    BY <1>6
  <2>2. V[a] \in Nullable
    BY <1>2, <2>1
  <2>3. QED
    BY <1>5, <2>2
<1>14. CutPrev(w, i, a, V, prevAttr')
  <2>1. CASE w = <<>>
    BY <1>2, <1>6, <1>9, <1>11, <1>13, <2>1 DEF CutPrev, Nullable
  <2>2. CASE w # <<>>
    BY <1>2, <1>5, <1>6, <1>9, <1>11, <1>12, <1>13, <2>2 DEF CutPrev, Nullable
  <2>3. QED
    BY <2>1, <2>2
<1>15. N[a] \in Nullable
  BY <1>2, <1>6
<1>16. CASE i = 1
  <2>1. b = s[Len(s)] /\ Len(s) \in 1..Len(s)
    BY <1>1, <1>6, <1>16 DEF PrevIn
  <2>2. N[b] = NoAttr
    BY <1>1, <2>1 DEF NextIn
  <2>3. nextAttr' = [N EXCEPT ![a] = NoAttr] /\ firstAttr' = [F EXCEPT ![n] = N[a]]
    BY <1>5, <2>2 DEF Unlink
  <2>4. CutNext(w, i, a, N, nextAttr')
    <3>1. \A j \in 1..Len(w) : j + 1 # i
      BY <1>10, <1>16
    <3>2. QED
      BY <1>2, <1>6, <2>3, <3>1 DEF CutNext, Nullable
  <2>5. QED
    BY <1>14, <1>16, <2>3, <2>4 DEF Cut
<1>17. CASE i # 1
  <2>1. PICK l \in 1..Len(w) : l + 1 = i /\ i - 1 = l
    <3>1. i - 1 \in 1..Len(w) /\ (i - 1) + 1 = i
      BY <1>1, <1>3, <1>4, <1>17
    <3>2. QED
      BY <3>1
  <2>2. b = s[l] /\ s[l] = w[l] /\ l \in 1..Len(s) /\ l < Len(s)
    BY <1>1, <1>3, <1>4, <1>6, <1>17, <2>1 DEF PrevIn
  <2>3. N[b] = s[i]
    BY <1>1, <2>1, <2>2 DEF NextIn
  <2>4. N[b] # NoAttr /\ b \in Attribute /\ b # a /\ b = w[l]
    BY <1>1, <1>3, <1>7, <2>2, <2>3
  <2>5. nextAttr' = [N EXCEPT ![b] = N[a], ![a] = NoAttr] /\ firstAttr' = F
    BY <1>5, <2>4 DEF Unlink
  <2>6. CutNext(w, i, a, N, nextAttr')
    <3>1. \A j \in 1..Len(w) : j + 1 = i <=> j = l
      BY <1>10, <2>1
    <3>2. QED
      BY <1>2, <1>6, <1>15, <2>1, <2>4, <2>5, <3>1 DEF CutNext, Nullable
  <2>7. QED
    BY <1>14, <1>17, <2>5, <2>6 DEF Cut
<1>18. QED
  BY <1>16, <1>17

\* An attribute is removed.
LEMMA RemoveKeeps ==
  ASSUME AttrInv, NEW n \in Holder, NEW a, RemoveAttribute(n, a),
         NEW i \in 1..Len(Attributes(n)), Attributes(n)[i] = a
  PROVE  AttrInv' /\ Becomes(n, RemoveAt(Attributes(n), i))
<1> USE AttributeAssumption
<1>1. PICK L : L = AttributeLists
  OBVIOUS
<1>2. PICK F, N, V : F = firstAttr /\ N = nextAttr /\ V = prevAttr
  OBVIOUS
<1>3. Laid(L, F, N, V) /\ NamesOf(L, attrName) /\ HintsOf(L, hint) /\ Attributes(n) = L[n]
      /\ L \in [Holder -> Seq(Attribute)] /\ Distinct(L)
  BY <1>1, <1>2, ListsAre DEF AttrInv, Laid, Leads
<1>4. PICK w : w = RemoveAt(L[n], i)
  OBVIOUS
<1>5. i \in 1..Len(L[n]) /\ L[n][i] = a /\ L[n] \in Seq(Attribute)
  BY <1>3
<1>6. Lacking(Attribute, L[n], i, w)
  BY <1>4, <1>5, RemoveIs
<1>7. w \in Seq(Attribute) /\ i \in 1..(Len(w) + 1) /\ With(Attribute, w, i, a, L[n])
  BY <1>5, <1>6, LackingIsWith
<1>8. a \in Attribute
  BY <1>5
<1>9. PICK E, M, U : E = firstAttr' /\ M = nextAttr' /\ U = prevAttr'
  OBVIOUS
<1>10. Cut(w, n, i, a, F, N, V, E, M, U)
  <2>1. Unlink(a, n)
    BY DEF RemoveAttribute
  <2>2. QED
    BY <1>2, <1>3, <1>5, <1>6, <1>9, <2>1, UnlinkCuts
<1> DEFINE K == [L EXCEPT ![n] = w]
<1>11. Laid(K, E, M, U)
  BY <1>3, <1>7, <1>8, <1>10, CutKeeps
<1>12. \A b \in Attribute : Listed(K, b) <=> Listed(L, b) /\ b # a
  <2>1. L \in [Holder -> Seq(Attribute)] /\ Distinct(L)
    BY <1>3
  <2>2. w \in Seq(Attribute) /\ i \in 1..(Len(w) + 1) /\ a \in Attribute
    BY <1>7, <1>8
  <2>3. With(Attribute, w, i, a, L[n])
    BY <1>7
  <2>4. QED
    BY <2>1, <2>2, <2>3, CutListed
<1>13. NamesOf(K, attrName')
  <2>1. attrName' = [attrName EXCEPT ![a] = NoAttr]
    BY DEF RemoveAttribute
  <2>2. QED
    BY <1>3, <1>8, <1>12, <2>1 DEF NamesOf
<1>14. HintsOf(K, hint')
  <2>1. hint' = [m \in Holder |-> IF hint[m] = a THEN NoAttr ELSE hint[m]]
    BY DEF RemoveAttribute
  <2>2. K[n] = w /\ \A m \in Holder : m # n => K[m] = L[m]
    BY <1>3
  <2>3. ASSUME NEW m \in Holder, NEW j \in 1..Len(L[m]), L[m][j] # a
        PROVE  \E k \in 1..Len(K[m]) : K[m][k] = L[m][j]
    <3>1. CASE m # n
      BY <2>2, <3>1
    <3>2. CASE m = n
      <4>1. j \in 1..Len(L[n]) /\ j # i
        BY <1>5, <2>3, <3>2
      <4>2. (j < i /\ j \in 1..Len(w)) \/ \E k \in i..Len(w) : j = k + 1
        BY <1>7, <4>1, PlacesWith
      <4>3. CASE j < i /\ j \in 1..Len(w)
        <5>1. w[j] = L[n][j]
          BY <1>7, <4>3 DEF With
        <5>2. QED
          BY <2>2, <3>2, <4>3, <5>1
      <4>4. CASE \E k \in i..Len(w) : j = k + 1
        <5>1. PICK k \in i..Len(w) : j = k + 1
          BY <4>4
        <5>2. w[k] = L[n][k + 1] /\ k \in 1..Len(w)
          BY <1>5, <1>7, <5>1 DEF With
        <5>3. QED
          BY <2>2, <3>2, <5>1, <5>2
      <4>5. QED
        BY <4>2, <4>3, <4>4
    <3>3. QED
      BY <3>1, <3>2
  <2> HIDE DEF K
  <2>4. ASSUME NEW m \in Holder, hint'[m] # NoAttr PROVE \E k \in 1..Len(K[m]) : K[m][k] = hint'[m]
    <3>1. hint'[m] = hint[m] /\ hint[m] # a /\ hint[m] # NoAttr
      BY <2>1, <2>4
    <3>2. PICK j \in 1..Len(L[m]) : L[m][j] = hint[m]
      BY <1>3, <3>1 DEF HintsOf
    <3>3. PICK k \in 1..Len(K[m]) : K[m][k] = L[m][j]
      BY <2>3, <3>1, <3>2
    <3>4. QED
      BY <3>1, <3>2, <3>3
  <2>5. hint' \in [Holder -> Nullable]
    BY <1>3, <2>1 DEF HintsOf, Nullable
  <2>6. QED
    BY <2>4, <2>5 DEF HintsOf
<1> HIDE DEF K
<1>15. AttrInv' /\ AttributeLists' = K
  BY <1>9, <1>11, <1>13, <1>14, InvFromNext
<1>16. QED
  BY <1>1, <1>3, <1>4, <1>15 DEF Becomes, K

\* What an addition needs of the state before it.
LEMMA ReadyToAdd ==
  ASSUME AttrInv, NEW n \in Holder, NEW a \in Attribute, NEW s \in AttrName, Made(a, n, s)
  PROVE  /\ Laid(AttributeLists, firstAttr, nextAttr, prevAttr)
         /\ ~ Listed(AttributeLists, a)
         /\ Attributes(n) = AttributeLists[n] /\ Attributes(n) \in Seq(Attribute)
         /\ Len(Attributes(n)) \in Nat
<1>1. Laid(AttributeLists, firstAttr, nextAttr, prevAttr) /\ NamesOf(AttributeLists, attrName)
  BY DEF AttrInv
<1>2. attrName[a] = NoAttr
  BY DEF Made, Free
<1>3. AttributeLists[n] \in Seq(Attribute) /\ Len(AttributeLists[n]) \in Nat
  BY <1>1, ReadLinks
<1>4. QED
  BY <1>1, <1>2, <1>3, ListsAre DEF NamesOf

LEMMA AppendKeeps ==
  ASSUME AttrInv, NEW n \in Holder, NEW a \in Attribute, NEW s \in AttrName, AppendAttribute(n, a, s)
  PROVE  AttrInv' /\ Becomes(n, Append(Attributes(n), a))
<1>1. Made(a, n, s) /\ LinkLast(a, n)
  BY DEF AppendAttribute
<1>2. PICK L, F, N, V : L = AttributeLists /\ F = firstAttr /\ N = nextAttr /\ V = prevAttr
  OBVIOUS
<1>3. Laid(L, F, N, V) /\ ~ Listed(L, a) /\ Attributes(n) = L[n] /\ Attributes(n) \in Seq(Attribute)
      /\ Len(Attributes(n)) \in Nat
  BY <1>1, <1>2, ReadyToAdd
<1>4. Spliced(L, n, Len(L[n]) + 1, a, F, N, V, firstAttr', nextAttr', prevAttr')
  BY <1>1, <1>2, <1>3, LinkLastSplices
<1>5. PICK i \in 1..(Len(Attributes(n)) + 1) : i = Len(Attributes(n)) + 1
  BY <1>3
<1>6. AttrInv' /\ Becomes(n, InsertAt(Attributes(n), i, a))
  BY <1>1, <1>2, <1>3, <1>4, <1>5, AddKeeps
<1>7. InsertAt(Attributes(n), i, a) = Append(Attributes(n), a)
  BY <1>3, <1>5, AtTheEnds
<1>8. QED
  BY <1>6, <1>7

LEMMA PrependKeeps ==
  ASSUME AttrInv, NEW n \in Holder, NEW a \in Attribute, NEW s \in AttrName, PrependAttribute(n, a, s)
  PROVE  AttrInv' /\ Becomes(n, <<a>> \o Attributes(n))
<1>1. Made(a, n, s) /\ LinkFirst(a, n)
  BY DEF PrependAttribute
<1>2. PICK L, F, N, V : L = AttributeLists /\ F = firstAttr /\ N = nextAttr /\ V = prevAttr
  OBVIOUS
<1>3. Laid(L, F, N, V) /\ ~ Listed(L, a) /\ Attributes(n) = L[n] /\ Attributes(n) \in Seq(Attribute)
      /\ Len(Attributes(n)) \in Nat
  BY <1>1, <1>2, ReadyToAdd
<1>4. Spliced(L, n, 1, a, F, N, V, firstAttr', nextAttr', prevAttr')
  BY <1>1, <1>2, <1>3, LinkFirstSplices
<1>5. PICK i \in 1..(Len(Attributes(n)) + 1) : i = 1
  BY <1>3
<1>6. AttrInv' /\ Becomes(n, InsertAt(Attributes(n), i, a))
  BY <1>1, <1>2, <1>3, <1>4, <1>5, AddKeeps
<1>7. InsertAt(Attributes(n), i, a) = <<a>> \o Attributes(n)
  BY <1>3, <1>5, AtTheEnds
<1>8. QED
  BY <1>6, <1>7

LEMMA AfterKeeps ==
  ASSUME AttrInv, NEW n \in Holder, NEW a \in Attribute, NEW s \in AttrName,
         NEW k \in 1..Len(Attributes(n)), InsertAttributeAfter(n, a, s, Attributes(n)[k])
  PROVE  AttrInv' /\ Becomes(n, InsertAt(Attributes(n), k + 1, a))
<1>1. Made(a, n, s) /\ LinkAfter(a, Attributes(n)[k], n)
  BY DEF InsertAttributeAfter
<1>2. PICK L, F, N, V : L = AttributeLists /\ F = firstAttr /\ N = nextAttr /\ V = prevAttr
  OBVIOUS
<1>3. Laid(L, F, N, V) /\ ~ Listed(L, a) /\ Attributes(n) = L[n] /\ Attributes(n) \in Seq(Attribute)
      /\ Len(Attributes(n)) \in Nat
  BY <1>1, <1>2, ReadyToAdd
<1>4. k \in 1..Len(L[n]) /\ LinkAfter(a, L[n][k], n)
  BY <1>1, <1>3
<1>5. Spliced(L, n, k + 1, a, F, N, V, firstAttr', nextAttr', prevAttr')
  BY <1>2, <1>3, <1>4, LinkAfterSplices
<1>6. PICK i \in 1..(Len(Attributes(n)) + 1) : i = k + 1
  BY <1>3
<1>7. AttrInv' /\ Becomes(n, InsertAt(Attributes(n), i, a))
  BY <1>1, <1>2, <1>5, <1>6, AddKeeps
<1>8. QED
  BY <1>6, <1>7

LEMMA BeforeKeeps ==
  ASSUME AttrInv, NEW n \in Holder, NEW a \in Attribute, NEW s \in AttrName,
         NEW k \in 1..Len(Attributes(n)), InsertAttributeBefore(n, a, s, Attributes(n)[k])
  PROVE  AttrInv' /\ Becomes(n, InsertAt(Attributes(n), k, a))
<1>1. Made(a, n, s) /\ LinkBefore(a, Attributes(n)[k], n)
  BY DEF InsertAttributeBefore
<1>2. PICK L, F, N, V : L = AttributeLists /\ F = firstAttr /\ N = nextAttr /\ V = prevAttr
  OBVIOUS
<1>3. Laid(L, F, N, V) /\ ~ Listed(L, a) /\ Attributes(n) = L[n] /\ Attributes(n) \in Seq(Attribute)
      /\ Len(Attributes(n)) \in Nat
  BY <1>1, <1>2, ReadyToAdd
<1>4. k \in 1..Len(L[n]) /\ LinkBefore(a, L[n][k], n)
  BY <1>1, <1>3
<1>5. Spliced(L, n, k, a, F, N, V, firstAttr', nextAttr', prevAttr')
  BY <1>2, <1>3, <1>4, LinkBeforeSplices
<1>6. k \in 1..(Len(Attributes(n)) + 1)
  BY <1>3
<1>7. QED
  BY <1>1, <1>2, <1>5, <1>6, AddKeeps

\* An edit is in place, from any state of the invariant.
LEMMA InvEdits == AttrInv => EditInPlace
<1>1. SUFFICES ASSUME AttrInv, NEW n \in Holder, NEW a \in Attribute
      PROVE  LET list == Attributes(n) IN
             /\ \A s \in AttrName :
                  /\ AppendAttribute(n, a, s) => Becomes(n, Append(list, a))
                  /\ PrependAttribute(n, a, s) => Becomes(n, <<a>> \o list)
                  /\ \A i \in DOMAIN list :
                       /\ InsertAttributeAfter(n, a, s, list[i]) => Becomes(n, InsertAt(list, i + 1, a))
                       /\ InsertAttributeBefore(n, a, s, list[i]) => Becomes(n, InsertAt(list, i, a))
             /\ \A i \in DOMAIN list : RemoveAttribute(n, list[i]) => Becomes(n, RemoveAt(list, i))
  BY DEF EditInPlace
<1>2. DOMAIN Attributes(n) = 1..Len(Attributes(n))
  <2>1. Attributes(n) \in Seq(Attribute)
    BY <1>1, ReadLinks, ListsAre DEF AttrInv
  <2>2. QED
    BY <2>1
<1>3. ASSUME NEW s \in AttrName PROVE AppendAttribute(n, a, s) => Becomes(n, Append(Attributes(n), a))
  BY <1>1, AppendKeeps
<1>4. ASSUME NEW s \in AttrName PROVE PrependAttribute(n, a, s) => Becomes(n, <<a>> \o Attributes(n))
  BY <1>1, PrependKeeps
<1>5. ASSUME NEW s \in AttrName, NEW i \in 1..Len(Attributes(n))
      PROVE  InsertAttributeAfter(n, a, s, Attributes(n)[i]) => Becomes(n, InsertAt(Attributes(n), i + 1, a))
  BY <1>1, AfterKeeps
<1>6. ASSUME NEW s \in AttrName, NEW i \in 1..Len(Attributes(n))
      PROVE  InsertAttributeBefore(n, a, s, Attributes(n)[i]) => Becomes(n, InsertAt(Attributes(n), i, a))
  BY <1>1, BeforeKeeps
<1>7. ASSUME NEW i \in 1..Len(Attributes(n))
      PROVE  RemoveAttribute(n, Attributes(n)[i]) => Becomes(n, RemoveAt(Attributes(n), i))
  BY <1>1, RemoveKeeps
<1>8. QED
  BY <1>2, <1>3, <1>4, <1>5, <1>6, <1>7
-----------------------------------------------------------------------------
(* The lookups. *)

LEMMA FirstNamedIs ==
  ASSUME NEW list \in Seq(Attribute), NEW s
  PROVE  \/ FirstNamed(list, s) = NoAttr /\ \A i \in 1..Len(list) : attrName[list[i]] # s
         \/ \E i \in 1..Len(list) : FirstNamed(list, s) = list[i] /\ attrName[list[i]] = s
<1>1. Len(list) \in Nat /\ DOMAIN list = 1..Len(list)
  OBVIOUS
<1>2. CASE \A i \in 1..Len(list) : attrName[list[i]] # s
  BY <1>1, <1>2 DEF FirstNamed
<1>3. CASE \E i \in 1..Len(list) : attrName[list[i]] = s
  <2> DEFINE T == {i \in 1..Len(list) : attrName[list[i]] = s}
             first(i) == attrName[list[i]] = s /\ \A j \in 1..(i - 1) : attrName[list[j]] # s
  <2>1. PICK i \in T : \A j \in T : i <= j
    <3>1. T \subseteq Nat /\ T # {}
      BY <1>1, <1>3
    <3>2. QED
      BY <3>1, SetMin
  <2>2. \A j \in 1..(i - 1) : j \in 1..Len(list) /\ ~(i <= j)
    BY <1>1
  <2>3. i \in DOMAIN list /\ first(i)
    BY <1>1, <2>1, <2>2
  <2>4. FirstNamed(list, s) = list[CHOOSE k \in DOMAIN list : first(k)]
    BY <1>1, <1>3 DEF FirstNamed
  <2> DEFINE k == CHOOSE k \in DOMAIN list : first(k)
  <2>5. k \in DOMAIN list /\ first(k)
    BY <2>3
  <2>6. k \in 1..Len(list) /\ attrName[list[k]] = s
    BY <1>1, <2>5
  <2> HIDE DEF k
  <2>7. FirstNamed(list, s) = list[k]
    BY <2>4 DEF k
  <2>8. QED
    BY <2>6, <2>7
<1>4. QED
  BY <1>2, <1>3

\* The lists of a state of the invariant, and the walk from one of their members.
LEMMA InvLists ==
  ASSUME AttrInv, NEW n \in Holder
  PROVE  /\ Attributes(n) \in Seq(Attribute) /\ Len(Attributes(n)) \in Nat
         /\ DOMAIN Attributes(n) = 1..Len(Attributes(n))
         /\ \A i \in 1..Len(Attributes(n)) :
              /\ Attributes(n)[i] \in Attribute /\ Attributes(n)[i] # NoAttr
              /\ nextAttr[Attributes(n)[i]] = NextIn(Attributes(n), i)
              /\ ListFrom[Attributes(n)[i]] = Rest(Attributes(n), i - 1)
         /\ ListFrom[NoAttr] = <<>>
         /\ hint[n] # NoAttr => \E i \in 1..Len(Attributes(n)) : Attributes(n)[i] = hint[n]
<1>1. PICK L : L = AttributeLists
  OBVIOUS
<1>2. /\ Laid(L, firstAttr, nextAttr, prevAttr) /\ Leads(L, nextAttr) /\ HintsOf(L, hint)
      /\ Attributes(n) = L[n]
  BY <1>1, ListsAre DEF AttrInv, Laid
<1>3. WalkBy(nextAttr, ListFrom)
  BY <1>2, ListsAre, WalkOfIs
<1>4. ListFrom[NoAttr] = <<>> /\ \A i \in 1..Len(L[n]) : ListFrom[L[n][i]] = Rest(L[n], i - 1)
  BY <1>2, <1>3, WalkIs
<1>5. /\ L[n] \in Seq(Attribute) /\ Len(L[n]) \in Nat
      /\ \A i \in 1..Len(L[n]) : /\ L[n][i] \in Attribute /\ L[n][i] # NoAttr
                                 /\ nextAttr[L[n][i]] = NextIn(L[n], i)
  BY <1>2, ReadLinks
<1>6. DOMAIN L[n] = 1..Len(L[n])
  BY <1>5
<1>7. hint[n] # NoAttr => \E i \in 1..Len(L[n]) : L[n][i] = hint[n]
  BY <1>2 DEF HintsOf
<1>8. QED
  BY <1>2, <1>4, <1>5, <1>6, <1>7

\* A hint is some place of the list, the end of it when it is null.
LEMMA HintPlace ==
  ASSUME AttrInv, NEW n \in Holder
  PROVE  \E o \in 0..Len(Attributes(n)) :
           /\ ListFrom[hint[n]] = Rest(Attributes(n), o)
           /\ SubSeq(Attributes(n), 1, Len(Attributes(n)) - Len(ListFrom[hint[n]])) = Part(Attributes(n), 0, o)
<1>1. PICK l : l = Attributes(n)
  OBVIOUS
<1>2. /\ l \in Seq(Attribute) /\ Len(l) \in Nat /\ ListFrom[NoAttr] = <<>>
      /\ \A i \in 1..Len(l) : ListFrom[l[i]] = Rest(l, i - 1)
      /\ hint[n] # NoAttr => \E i \in 1..Len(l) : l[i] = hint[n]
  BY <1>1, InvLists
<1>3. \E o \in 0..Len(l) : ListFrom[hint[n]] = Rest(l, o)
  <2>1. CASE hint[n] = NoAttr
    <3>1. PICK o \in 0..Len(l) : o = Len(l)
      BY <1>2
    <3>2. Rest(l, o) = <<>>
      BY <1>2, <3>1, RestIs
    <3>3. QED
      BY <1>2, <2>1, <3>2
  <2>2. CASE hint[n] # NoAttr
    <3>1. PICK i \in 1..Len(l) : l[i] = hint[n]
      BY <1>2, <2>2
    <3>2. PICK o \in 0..Len(l) : o = i - 1
      BY <1>2
    <3>3. QED
      BY <1>2, <3>1, <3>2
  <2>3. QED
    BY <2>1, <2>2
<1>4. PICK o \in 0..Len(l) : ListFrom[hint[n]] = Rest(l, o)
  BY <1>3
<1>5. Len(Rest(l, o)) = Len(l) - o
  BY <1>2, RestIs
<1>6. Len(l) - Len(Rest(l, o)) = o /\ 0 + 1 = 1 /\ 0 + o = o
  BY <1>2, <1>5
<1>7. SubSeq(l, 1, Len(l) - Len(Rest(l, o))) = Part(l, 0, o)
  BY <1>6 DEF Part
<1>8. QED
  BY <1>1, <1>4, <1>7

\* A lookup with the hint of the node finds a member with the name, if there is one.
LEMMA HintedIs ==
  ASSUME AttrInv, NEW n \in Holder, NEW s
  PROVE  \/ Hinted(n, s, hint[n]) = NoAttr /\ \A i \in 1..Len(Attributes(n)) : attrName[Attributes(n)[i]] # s
         \/ \E i \in 1..Len(Attributes(n)) :
              Hinted(n, s, hint[n]) = Attributes(n)[i] /\ attrName[Attributes(n)[i]] = s
<1>1. PICK l : l = Attributes(n)
  OBVIOUS
<1>2. /\ l \in Seq(Attribute) /\ Len(l) \in Nat
      /\ \A i \in 1..Len(l) : l[i] # NoAttr
  BY <1>1, InvLists
<1>3. PICK o \in 0..Len(l) : /\ ListFrom[hint[n]] = Rest(l, o)
                             /\ SubSeq(l, 1, Len(l) - Len(ListFrom[hint[n]])) = Part(l, 0, o)
  BY <1>1, HintPlace
<1>4. PICK u, v : u = Rest(l, o) /\ v = Part(l, 0, o)
  OBVIOUS
<1>5. u \in Seq(Attribute) /\ Len(u) = Len(l) - o /\ \A j \in 1..(Len(l) - o) : u[j] = l[o + j]
  BY <1>2, <1>4, RestIs
<1>6. v \in Seq(Attribute) /\ Len(v) = o /\ \A j \in 1..o : v[j] = l[j]
  <2>1. o \in Nat /\ o <= Len(l)
    BY ONLY <1>2
  <2>2. QED
    BY ONLY <1>2, <1>4, <2>1, FirstPartIs
<1>7. Hinted(n, s, hint[n]) = IF FirstNamed(u, s) # NoAttr THEN FirstNamed(u, s) ELSE FirstNamed(v, s)
  BY <1>1, <1>3, <1>4 DEF Hinted
<1>8. PICK f, g, h : f = FirstNamed(u, s) /\ g = FirstNamed(v, s) /\ h = Hinted(n, s, hint[n])
  OBVIOUS
<1>9. ASSUME NEW j \in 1..Len(u) PROVE \E i \in 1..Len(l) : l[i] = u[j] /\ i = o + j
  <2>1. o + j \in 1..Len(l)
    BY <1>2, <1>5
  <2>2. QED
    BY <1>5, <2>1
<1>10. ASSUME NEW j \in 1..Len(v) PROVE \E i \in 1..Len(l) : l[i] = v[j] /\ i = j
  BY <1>2, <1>6
<1>11. \/ f = NoAttr /\ \A j \in 1..Len(u) : attrName[u[j]] # s
       \/ \E j \in 1..Len(u) : f = u[j] /\ attrName[u[j]] = s
  BY <1>5, <1>8, FirstNamedIs
<1>12. \/ g = NoAttr /\ \A j \in 1..Len(v) : attrName[v[j]] # s
       \/ \E j \in 1..Len(v) : g = v[j] /\ attrName[v[j]] = s
  BY <1>6, <1>8, FirstNamedIs
<1>13. h = IF f # NoAttr THEN f ELSE g
  BY <1>7, <1>8
<1>14. CASE \E j \in 1..Len(u) : f = u[j] /\ attrName[u[j]] = s
  <2>1. PICK i \in 1..Len(l) : f = l[i] /\ attrName[l[i]] = s
    BY <1>9, <1>14
  <2>2. QED
    BY <1>1, <1>2, <1>8, <1>13, <2>1
<1>15. CASE f = NoAttr /\ \E j \in 1..Len(v) : g = v[j] /\ attrName[v[j]] = s
  <2>1. PICK i \in 1..Len(l) : g = l[i] /\ attrName[l[i]] = s
    BY <1>10, <1>15
  <2>2. QED
    BY <1>1, <1>8, <1>13, <1>15, <2>1
<1>16. CASE /\ f = NoAttr /\ \A j \in 1..Len(u) : attrName[u[j]] # s
            /\ g = NoAttr /\ \A j \in 1..Len(v) : attrName[v[j]] # s
  <2>1. ASSUME NEW i \in 1..Len(l) PROVE attrName[l[i]] # s
    <3>1. CASE i <= o
      <4>1. i \in 1..Len(v) /\ v[i] = l[i]
        BY <1>2, <1>6, <3>1
      <4>2. QED
        BY <1>16, <4>1
    <3>2. CASE ~(i <= o)
      <4>1. PICK j \in 1..Len(u) : o + j = i
        <5>1. i - o \in 1..Len(u) /\ o + (i - o) = i
          BY <1>2, <1>5, <3>2
        <5>2. QED
          BY <5>1
      <4>2. u[j] = l[i]
        BY <1>5, <4>1
      <4>3. QED
        BY <1>16, <4>2
    <3>3. QED
      BY <3>1, <3>2
  <2>2. QED
    BY <1>1, <1>8, <1>13, <1>16, <2>1
<1>17. QED
  BY <1>11, <1>12, <1>14, <1>15, <1>16

LEMMA InvHints == AttrInv => HintHidesNothing
<1> USE AttributeAssumption
<1>1. SUFFICES ASSUME AttrInv, NEW n \in Holder
      PROVE  /\ hint[n] # NoAttr => IsAttributeOf(hint[n], n)
             /\ \A s \in AttrName :
                  LET found == Hinted(n, s, hint[n]) IN
                  /\ found = NoAttr <=> Lookup(n, s) = NoAttr
                  /\ found # NoAttr => Bears(n, found, s)
                  /\ \A a \in Attribute :
                       Bears(n, a, s) /\ (\A b \in Attribute \ {a} : ~ Bears(n, b, s)) => found = a
  BY DEF HintHidesNothing
<1>2. PICK l : l = Attributes(n)
  OBVIOUS
<1>3. /\ l \in Seq(Attribute) /\ \A i \in 1..Len(l) : l[i] \in Attribute /\ l[i] # NoAttr
      /\ hint[n] # NoAttr => \E i \in 1..Len(l) : l[i] = hint[n]
  BY <1>1, <1>2, InvLists
<1>4. \A a, s : Bears(n, a, s) <=> attrName[a] = s /\ \E i \in 1..Len(l) : l[i] = a
  BY <1>2 DEF Bears, IsAttributeOf, Contains
<1>5. hint[n] # NoAttr => IsAttributeOf(hint[n], n)
  BY <1>2, <1>3 DEF IsAttributeOf, Contains
<1>6. ASSUME NEW s \in AttrName
      PROVE  /\ Hinted(n, s, hint[n]) = NoAttr <=> Lookup(n, s) = NoAttr
             /\ Hinted(n, s, hint[n]) # NoAttr => Bears(n, Hinted(n, s, hint[n]), s)
             /\ \A a \in Attribute :
                  Bears(n, a, s) /\ (\A b \in Attribute \ {a} : ~ Bears(n, b, s)) => Hinted(n, s, hint[n]) = a
  <2>1. PICK f, g : f = Hinted(n, s, hint[n]) /\ g = Lookup(n, s)
    OBVIOUS
  <2>2. \/ f = NoAttr /\ \A i \in 1..Len(l) : attrName[l[i]] # s
        \/ \E i \in 1..Len(l) : f = l[i] /\ attrName[l[i]] = s
    BY <1>1, <1>2, <2>1, HintedIs
  <2>3. \/ g = NoAttr /\ \A i \in 1..Len(l) : attrName[l[i]] # s
        \/ \E i \in 1..Len(l) : g = l[i] /\ attrName[l[i]] = s
    BY <1>2, <1>3, <2>1, FirstNamedIs DEF Lookup
  <2>4. f = NoAttr <=> g = NoAttr
    BY <1>3, <2>2, <2>3
  <2>5. f # NoAttr => Bears(n, f, s)
    BY <1>4, <2>2
  <2>6. ASSUME NEW a \in Attribute, Bears(n, a, s), \A b \in Attribute \ {a} : ~ Bears(n, b, s)
        PROVE  f = a
    <3>1. PICK i \in 1..Len(l) : l[i] = a /\ attrName[a] = s
      BY <1>4, <2>6
    <3>2. f # NoAttr /\ f \in Attribute
      BY <1>3, <2>2, <3>1
    <3>3. QED
      BY <2>5, <2>6, <3>2
  <2>7. QED
    BY <2>1, <2>4, <2>5, <2>6
<1>7. QED
  BY <1>5, <1>6
-----------------------------------------------------------------------------
(* The walk back. *)

LEMMA ReverseIs ==
  ASSUME NEW s \in Seq(Attribute), NEW r, r = Reverse(s)
  PROVE  /\ r \in Seq(Attribute) /\ Len(r) = Len(s)
         /\ \A i \in 1..Len(s) : r[i] = s[(Len(s) - i) + 1]
<1>1. Len(s) \in Nat /\ \A i \in 1..Len(s) : (Len(s) - i) + 1 \in 1..Len(s)
  OBVIOUS
<1>2. r = [i \in 1..Len(s) |-> s[(Len(s) - i) + 1]]
  BY DEF Reverse
<1>3. r \in [1..Len(s) -> Attribute]
  BY <1>1, <1>2
<1>4. r \in Seq(Attribute)
  BY <1>1, <1>3, SeqDef
<1>5. Len(r) = Len(s)
  BY <1>1, <1>2, <1>4
<1>6. QED
  BY <1>2, <1>4, <1>5

\* The lists, read from the end.
LEMMA LeadsBack ==
  ASSUME NEW L, NEW F, NEW N, NEW V, Laid(L, F, N, V), N = nextAttr, V = prevAttr,
         NEW M, M = [n \in Holder |-> Reverse(L[n])],
         NEW G, G = [a \in Attribute |-> Previous(a)]
  PROVE  Leads(M, G)
<1> USE AttributeAssumption
<1>1. L \in [Holder -> Seq(Attribute)] /\ Distinct(L)
  BY DEF Laid, Leads
<1>2. ASSUME NEW n \in Holder
      PROVE  /\ M[n] = Reverse(L[n]) /\ L[n] \in Seq(Attribute) /\ Len(L[n]) \in Nat
             /\ M[n] \in Seq(Attribute) /\ Len(M[n]) = Len(L[n])
             /\ \A j \in 1..Len(M[n]) : \E i \in 1..Len(L[n]) : i = (Len(L[n]) - j) + 1 /\ M[n][j] = L[n][i]
             /\ \A i \in 1..Len(L[n]) : \E j \in 1..Len(M[n]) : M[n][j] = L[n][i]
  <2>1. M[n] = Reverse(L[n]) /\ L[n] \in Seq(Attribute) /\ Len(L[n]) \in Nat
    BY <1>1
  <2>2. PICK r, s : r = M[n] /\ s = L[n]
    OBVIOUS
  <2>3. r \in Seq(Attribute) /\ Len(r) = Len(s) /\ \A i \in 1..Len(s) : r[i] = s[(Len(s) - i) + 1]
    BY <2>1, <2>2, ReverseIs
  <2>4. \A j \in 1..Len(r) : \E i \in 1..Len(s) : i = (Len(s) - j) + 1 /\ r[j] = s[i]
    <3>1. ASSUME NEW j \in 1..Len(r) PROVE \E i \in 1..Len(s) : i = (Len(s) - j) + 1 /\ r[j] = s[i]
      <4>1. PICK i \in 1..Len(s) : i = (Len(s) - j) + 1
        BY <2>1, <2>2, <2>3
      <4>2. QED
        BY <2>3, <4>1
    <3>2. QED
      BY <3>1
  <2>5. \A i \in 1..Len(s) : \E j \in 1..Len(r) : r[j] = s[i]
    <3>1. ASSUME NEW i \in 1..Len(s) PROVE \E j \in 1..Len(r) : r[j] = s[i]
      <4>1. PICK j \in 1..Len(s) : j = (Len(s) - i) + 1 /\ i = (Len(s) - j) + 1
        <5>1. (Len(s) - i) + 1 \in 1..Len(s) /\ i = (Len(s) - ((Len(s) - i) + 1)) + 1
          BY <2>1, <2>2
        <5>2. QED
          BY <5>1
      <4>2. r[j] = s[i]
        BY <2>3, <4>1
      <4>3. QED
        BY <2>3, <4>2
    <3>2. QED
      BY <3>1
  <2>6. QED
    BY <2>1, <2>2, <2>3, <2>4, <2>5
<1>3. M \in [Holder -> Seq(Attribute)]
  BY <1>2
<1>4. \A n \in Holder : \A i \in 1..Len(L[n]) :
        /\ L[n][i] \in Attribute /\ L[n][i] # NoAttr
        /\ N[L[n][i]] = NextIn(L[n], i) /\ V[L[n][i]] = PrevIn(L[n], i)
  BY ReadLinks
<1>5. ASSUME NEW n \in Holder, NEW i \in 1..Len(L[n])
      PROVE  Previous(L[n][i]) = IF i = 1 THEN NoAttr ELSE L[n][i - 1]
  <2>1. L[n] \in Seq(Attribute) /\ Len(L[n]) \in Nat
    BY <1>2
  <2>2. PICK s : s = L[n]
    OBVIOUS
  <2>3. CASE i = 1
    <3>1. V[s[i]] = s[Len(s)] /\ Len(s) \in 1..Len(s)
      BY <1>4, <2>1, <2>2, <2>3 DEF PrevIn
    <3>2. N[s[Len(s)]] = NoAttr
      BY <1>4, <2>1, <2>2, <3>1 DEF NextIn
    <3>3. QED
      BY <2>2, <2>3, <3>1, <3>2 DEF Previous
  <2>4. CASE i # 1
    <3>1. PICK k \in 1..Len(s) : k = i - 1 /\ k < Len(s) /\ k + 1 = i
      BY <2>1, <2>2, <2>4
    <3>2. V[s[i]] = s[k]
      BY <1>4, <2>2, <2>4, <3>1 DEF PrevIn
    <3>3. N[s[k]] = s[i]
      BY <1>4, <2>1, <2>2, <3>1 DEF NextIn
    <3>4. s[i] # NoAttr
      BY <1>4, <2>2
    <3>5. QED
      BY <2>2, <2>4, <3>1, <3>2, <3>3, <3>4 DEF Previous
  <2>5. QED
    BY <2>3, <2>4
<1>6. \A a \in Attribute : ~ Listed(L, a) => Previous(a) = NoAttr
  BY DEF Laid, Previous
<1>7. ASSUME NEW a \in Attribute PROVE Listed(M, a) <=> Listed(L, a)
  <2>1. ASSUME Listed(M, a) PROVE Listed(L, a)
    <3>1. PICK n \in Holder : \E j \in 1..Len(M[n]) : M[n][j] = a
      BY <2>1 DEF Listed
    <3>2. PICK j \in 1..Len(M[n]) : M[n][j] = a
      BY <3>1
    <3>3. PICK i \in 1..Len(L[n]) : i = (Len(L[n]) - j) + 1 /\ M[n][j] = L[n][i]
      BY <1>2
    <3>4. L[n][i] = a
      BY <3>2, <3>3
    <3>5. QED
      BY <3>4 DEF Listed
  <2>2. ASSUME Listed(L, a) PROVE Listed(M, a)
    <3>1. PICK n \in Holder : \E i \in 1..Len(L[n]) : L[n][i] = a
      BY <2>2 DEF Listed
    <3>2. PICK i \in 1..Len(L[n]) : L[n][i] = a
      BY <3>1
    <3>3. PICK j \in 1..Len(M[n]) : M[n][j] = L[n][i]
      BY <1>2
    <3>4. M[n][j] = a
      BY <3>2, <3>3
    <3>5. QED
      BY <3>4 DEF Listed
  <2>3. QED
    BY <2>1, <2>2
<1>8. Distinct(M)
  <2>1. ASSUME NEW m \in Holder, NEW n \in Holder, NEW j \in 1..Len(M[m]), NEW k \in 1..Len(M[n]),
               M[m][j] = M[n][k]
        PROVE  m = n /\ j = k
    <3>1. PICK p \in 1..Len(L[m]) : p = (Len(L[m]) - j) + 1 /\ M[m][j] = L[m][p]
      BY <1>2
    <3>2. PICK q \in 1..Len(L[n]) : q = (Len(L[n]) - k) + 1 /\ M[n][k] = L[n][q]
      BY <1>2
    <3>3. m = n /\ p = q
      <4>1. L[m][p] = L[n][q]
        BY <2>1, <3>1, <3>2
      <4>2. \A e, f \in Holder : \A g \in 1..Len(L[e]), h \in 1..Len(L[f]) :
              L[e][g] = L[f][h] => e = f /\ g = h
        BY <1>1 DEF Distinct
      <4>3. QED
        BY <4>1, <4>2
    <3>4. Len(L[m]) \in Nat
      BY <1>2
    <3>5. j = k
      BY <3>1, <3>2, <3>3, <3>4
    <3>6. QED
      BY <3>3, <3>5
  <2>2. QED
    BY <2>1 DEF Distinct
<1>9. ASSUME NEW n \in Holder, NEW j \in 1..Len(M[n])
      PROVE  G[M[n][j]] = NextIn(M[n], j)
  <2>1. /\ L[n] \in Seq(Attribute) /\ Len(L[n]) \in Nat
        /\ M[n] \in Seq(Attribute) /\ Len(M[n]) = Len(L[n])
    BY <1>2
  <2>2. PICK i \in 1..Len(L[n]) : i = (Len(L[n]) - j) + 1 /\ M[n][j] = L[n][i]
    BY <1>2
  <2>3. G[M[n][j]] = IF i = 1 THEN NoAttr ELSE L[n][i - 1]
    BY <1>4, <1>5, <2>2
  <2>4. CASE i = 1
    <3>1. ~(j < Len(M[n]))
      BY <2>1, <2>2, <2>4
    <3>2. QED
      BY <2>3, <2>4, <3>1 DEF NextIn
  <2>5. CASE i # 1
    <3>1. j < Len(M[n])
      BY <2>1, <2>2, <2>5
    <3>2. PICK k \in 1..Len(M[n]) : k = j + 1
      BY <2>1, <3>1
    <3>3. PICK h \in 1..Len(L[n]) : h = (Len(L[n]) - k) + 1 /\ M[n][k] = L[n][h]
      BY <1>2
    <3>4. h = i - 1
      BY <2>1, <2>2, <3>2, <3>3
    <3>5. QED
      BY <2>3, <2>5, <3>1, <3>2, <3>3, <3>4 DEF NextIn
  <2>6. QED
    BY <2>4, <2>5
<1>10. G \in [Attribute -> Nullable]
  <2>1. ASSUME NEW a \in Attribute PROVE Previous(a) \in Nullable
    <3>1. CASE Listed(L, a)
      <4>1. PICK n \in Holder : \E i \in 1..Len(L[n]) : L[n][i] = a
        BY <3>1 DEF Listed
      <4>2. PICK i \in 1..Len(L[n]) : L[n][i] = a
        BY <4>1
      <4>3. Len(L[n]) \in Nat
        BY <1>2
      <4>4. i = 1 \/ L[n][i - 1] \in Attribute
        BY <1>4, <4>3
      <4>5. QED
        BY <1>5, <4>2, <4>4 DEF Nullable
    <3>2. CASE ~ Listed(L, a)
      BY <1>6, <3>2 DEF Nullable
    <3>3. QED
      BY <3>1, <3>2
  <2>2. QED
    BY <2>1
<1>11. \A a \in Attribute : ~ Listed(M, a) => G[a] = NoAttr
  BY <1>6, <1>7
<1>12. QED
  BY <1>3, <1>8, <1>9, <1>10, <1>11 DEF Leads

LEMMA BackIs ==
  ASSUME NEW G, G = [a \in Attribute |-> Previous(a)], NEW M, Leads(M, G)
  PROVE  WalkBy(G, BackFrom)
<1> USE AttributeAssumption
<1> DEFINE Back(f) == f = [a \in Attribute \cup {NoAttr} |-> IF a = NoAttr THEN <<>> ELSE <<a>> \o f[Previous(a)]]
<1>1. \A f : WalkBy(G, f) <=> Back(f)
  <2>1. ASSUME NEW f PROVE WalkBy(G, f) <=> Back(f)
    <3>1. \A a \in Attribute : G[a] = Previous(a)
      OBVIOUS
    <3>2. \A a \in Attribute \cup {NoAttr} : (IF a = NoAttr THEN <<>> ELSE <<a>> \o f[G[a]])
                                             = IF a = NoAttr THEN <<>> ELSE <<a>> \o f[Previous(a)]
      BY <3>1
    <3>3. [a \in Attribute \cup {NoAttr} |-> IF a = NoAttr THEN <<>> ELSE <<a>> \o f[G[a]]]
          = [a \in Attribute \cup {NoAttr} |-> IF a = NoAttr THEN <<>> ELSE <<a>> \o f[Previous(a)]]
      BY <3>2, Zenon
    <3>4. QED
      BY <3>3, Zenon DEF WalkBy
  <2>2. QED
    BY <2>1
<1>2. \E f : Back(f)
  <2>1. PICK f : WalkBy(G, f)
    BY WalkExists
  <2>2. Back(f)
    BY <1>1, <2>1
  <2>3. QED
    BY <2>2
<1>3. BackFrom = CHOOSE f : Back(f)
  BY DEF BackFrom
<1> HIDE DEF Back
<1>4. Back(BackFrom)
  BY <1>2, <1>3
<1>5. QED
  BY <1>1, <1>4

LEMMA InvBack ==
  ASSUME AttrInv, NEW n \in Holder
  PROVE  BackFrom[LastAttribute(n)] = Reverse(Attributes(n))
<1> USE AttributeAssumption
<1>1. PICK L, F, N, V : L = AttributeLists /\ F = firstAttr /\ N = nextAttr /\ V = prevAttr
  OBVIOUS
<1>2. Laid(L, F, N, V) /\ Attributes(n) = L[n] /\ L \in [Holder -> Seq(Attribute)]
  BY <1>1, ListsAre DEF AttrInv, Laid, Leads
<1>3. PICK M, G : M = [m \in Holder |-> Reverse(L[m])] /\ G = [a \in Attribute |-> Previous(a)]
  OBVIOUS
<1>4. Leads(M, G)
  BY <1>1, <1>2, <1>3, LeadsBack
<1>5. WalkBy(G, BackFrom)
  BY <1>3, <1>4, BackIs
<1>6. BackFrom[FirstIn(M[n])] = M[n]
  BY <1>4, <1>5, WalkIs
<1>7. PICK s, r : s = L[n] /\ r = M[n]
  OBVIOUS
<1>8. r = Reverse(s) /\ s \in Seq(Attribute) /\ Len(s) \in Nat
  BY <1>2, <1>3, <1>7
<1>9. r \in Seq(Attribute) /\ Len(r) = Len(s) /\ \A i \in 1..Len(s) : r[i] = s[(Len(s) - i) + 1]
  BY <1>8, ReverseIs
<1>10. /\ F[n] = FirstIn(s)
       /\ \A i \in 1..Len(s) : s[i] # NoAttr /\ V[s[i]] = PrevIn(s, i)
  BY <1>2, <1>7, ReadLinks
<1>11. LastAttribute(n) = FirstIn(r)
  <2>1. CASE s = <<>>
    <3>1. Len(s) = 0
      BY <2>1
    <3>2. r = <<>>
      BY <1>9, <3>1
    <3>3. QED
      BY <1>1, <1>10, <2>1, <3>2 DEF LastAttribute, FirstIn
  <2>2. CASE s # <<>>
    <3>1. 1 \in 1..Len(s) /\ Len(s) \in 1..Len(s) /\ (Len(s) - 1) + 1 = Len(s) /\ Len(s) # 0
      BY <1>8, <2>2
    <3>2. F[n] = s[1] /\ F[n] # NoAttr
      BY <1>10, <2>2, <3>1 DEF FirstIn
    <3>3. V[s[1]] = s[Len(s)]
      BY <1>10, <3>1 DEF PrevIn
    <3>4. LastAttribute(n) = s[Len(s)]
      BY <1>1, <3>2, <3>3 DEF LastAttribute
    <3>5. r[1] = s[Len(s)] /\ r # <<>>
      BY <1>9, <3>1
    <3>6. QED
      BY <3>4, <3>5 DEF FirstIn
  <2>3. QED
    BY <2>1, <2>2
<1>12. QED
  BY <1>2, <1>6, <1>7, <1>8, <1>11

LEMMA InvWhole == AttrInv => ListsWhole
<1>1. SUFFICES ASSUME AttrInv PROVE ListsWhole
  OBVIOUS
<1>2. PICK L : L = AttributeLists
  OBVIOUS
<1>3. /\ \A n \in Holder : Attributes(n) = L[n] /\ L[n] \in Seq(Attribute)
      /\ Distinct(L) /\ NamesOf(L, attrName)
  BY <1>1, <1>2, ListsAre DEF AttrInv, Laid, Leads
<1>4. \A n \in Holder : BackFrom[LastAttribute(n)] = Reverse(Attributes(n))
  BY <1>1, InvBack
<1>5. \A a \in Attribute : a \notin Free <=> \E n \in Holder : IsAttributeOf(a, n)
  BY <1>3 DEF Free, NamesOf, Listed, IsAttributeOf, Contains
<1>6. \A m, n \in Holder : \A i \in DOMAIN Attributes(m), j \in DOMAIN Attributes(n) :
        Attributes(m)[i] = Attributes(n)[j] => m = n /\ i = j
  <2>1. \A n \in Holder : DOMAIN Attributes(n) = 1..Len(L[n]) /\ Attributes(n) = L[n]
    BY <1>3
  <2>2. SUFFICES ASSUME NEW m \in Holder, NEW n \in Holder,
                        NEW i \in 1..Len(L[m]), NEW j \in 1..Len(L[n]), L[m][i] = L[n][j]
                 PROVE  m = n /\ i = j
    BY <2>1
  <2>3. QED
    BY ONLY <1>3, <2>2 DEF Distinct
<1>7. QED
  BY <1>4, <1>5, <1>6 DEF ListsWhole

LEMMA InvType == AttrInv => AttributesTypeOK
BY DEF AttrInv, Laid, Leads, NamesOf, HintsOf, Nullable, AttributesTypeOK
-----------------------------------------------------------------------------
(* The steps. *)

LEMMA LookupKeeps ==
  ASSUME AttrInv, NEW n \in Holder, NEW s \in AttrName, LookupHinted(n, s)
  PROVE  AttrInv'
<1> USE AttributeAssumption
<1>1. PICK L : L = AttributeLists
  OBVIOUS
<1>2. /\ Laid(L, firstAttr, nextAttr, prevAttr) /\ NamesOf(L, attrName) /\ HintsOf(L, hint)
      /\ Attributes(n) = L[n]
  BY <1>1, ListsAre DEF AttrInv
<1>3. firstAttr' = firstAttr /\ nextAttr' = nextAttr /\ prevAttr' = prevAttr /\ attrName' = attrName
  BY DEF LookupHinted, attrLinks
<1>4. PICK f, q : f = Hinted(n, s, hint[n]) /\ q = IF f = NoAttr THEN hint[n] ELSE nextAttr[f]
  OBVIOUS
<1>5. hint' = [hint EXCEPT ![n] = q]
  BY <1>4 DEF LookupHinted
<1>6. L[n] \in Seq(Attribute) /\ Len(L[n]) \in Nat
      /\ \A i \in 1..Len(L[n]) : L[n][i] \in Attribute /\ nextAttr[L[n][i]] = NextIn(L[n], i)
  BY <1>2, ReadLinks
<1>7. f = NoAttr \/ \E i \in 1..Len(L[n]) : f = L[n][i]
  <2>1. PICK l : l = L[n]
    OBVIOUS
  <2>2. Attributes(n) = l
    BY <1>2, <2>1
  <2>3. f = NoAttr \/ \E i \in 1..Len(l) : f = l[i]
    BY <1>4, <2>2, HintedIs
  <2>4. QED
    BY ONLY <2>1, <2>3
<1>8. q = NoAttr \/ \E i \in 1..Len(L[n]) : q = L[n][i]
  <2>1. CASE f = NoAttr
    BY <1>2, <1>4, <2>1 DEF HintsOf
  <2>2. CASE f # NoAttr
    <3>1. PICK i \in 1..Len(L[n]) : f = L[n][i]
      BY <1>7, <2>2
    <3>2. q = NextIn(L[n], i)
      BY <1>4, <1>6, <2>2, <3>1
    <3>3. i < Len(L[n]) => i + 1 \in 1..Len(L[n])
      BY <1>6
    <3>4. QED
      BY <3>2, <3>3 DEF NextIn
  <2>3. QED
    BY <2>1, <2>2
<1>9. q \in Nullable
  BY <1>6, <1>8 DEF Nullable
<1>10. HintsOf(L, hint')
  <2>1. hint' \in [Holder -> Nullable]
    BY <1>2, <1>5, <1>9 DEF HintsOf
  <2>2. ASSUME NEW m \in Holder, hint'[m] # NoAttr PROVE \E i \in 1..Len(L[m]) : L[m][i] = hint'[m]
    <3>1. hint \in [Holder -> Nullable] /\ \A j \in Holder : hint[j] # NoAttr => \E i \in 1..Len(L[j]) : L[j][i] = hint[j]
      BY <1>2 DEF HintsOf
    <3>2. hint'[m] = IF m = n THEN q ELSE hint[m]
      BY <1>5, <3>1
    <3>3. QED
      BY <1>8, <2>2, <3>1, <3>2
  <2>3. QED
    BY <2>1, <2>2 DEF HintsOf
<1>11. Laid(L, firstAttr', nextAttr', prevAttr') /\ NamesOf(L, attrName')
  BY <1>2, <1>3
<1>12. QED
  BY <1>10, <1>11, InvFromNext

LEMMA NextAttrInv == AttrInv /\ [AttributesNext]_attributeVars => AttrInv'
<1> USE AttributeAssumption
<1>1. ASSUME AttrInv, UNCHANGED attributeVars PROVE AttrInv'
  <2>1. PICK L : L = AttributeLists
    OBVIOUS
  <2>2. Laid(L, firstAttr, nextAttr, prevAttr) /\ NamesOf(L, attrName) /\ HintsOf(L, hint)
    BY <1>1, <2>1 DEF AttrInv
  <2>3. Laid(L, firstAttr', nextAttr', prevAttr') /\ NamesOf(L, attrName') /\ HintsOf(L, hint')
    BY <1>1, <2>2 DEF attributeVars
  <2>4. QED
    BY <2>3, InvFromNext
<1>2. ASSUME AttrInv, NEW n \in Holder, NEW a \in Attribute, NEW s \in AttrName, AppendAttribute(n, a, s)
      PROVE  AttrInv'
  BY <1>2, AppendKeeps
<1>3. ASSUME AttrInv, NEW n \in Holder, NEW a \in Attribute, NEW s \in AttrName, PrependAttribute(n, a, s)
      PROVE  AttrInv'
  BY <1>3, PrependKeeps
<1>4. ASSUME AttrInv, NEW n \in Holder, NEW a \in Attribute, NEW s \in AttrName, NEW p,
             InsertAttributeAfter(n, a, s, p)
      PROVE  AttrInv'
  <2>1. PICK k \in 1..Len(Attributes(n)) : Attributes(n)[k] = p
    BY <1>4 DEF InsertAttributeAfter, IsAttributeOf, Contains
  <2>2. QED
    BY <1>4, <2>1, AfterKeeps
<1>5. ASSUME AttrInv, NEW n \in Holder, NEW a \in Attribute, NEW s \in AttrName, NEW p,
             InsertAttributeBefore(n, a, s, p)
      PROVE  AttrInv'
  <2>1. PICK k \in 1..Len(Attributes(n)) : Attributes(n)[k] = p
    BY <1>5 DEF InsertAttributeBefore, IsAttributeOf, Contains
  <2>2. QED
    BY <1>5, <2>1, BeforeKeeps
<1>6. ASSUME AttrInv, NEW proto \in Attribute, proto \notin Free
      PROVE  attrName[proto] \in AttrName
  BY <1>6 DEF AttrInv, NamesOf, Free
<1>7. ASSUME AttrInv, NEW n \in Holder, NEW a, RemoveAttribute(n, a)
      PROVE  AttrInv'
  <2>1. PICK i \in 1..Len(Attributes(n)) : Attributes(n)[i] = a
    BY <1>7 DEF RemoveAttribute, IsAttributeOf, Contains
  <2>2. QED
    BY <1>7, <2>1, RemoveKeeps
<1>8. ASSUME AttrInv, NEW n \in Holder, NEW s \in AttrName, RemoveNamed(n, s) PROVE AttrInv'
  BY <1>7, <1>8 DEF RemoveNamed
<1>9. ASSUME AttrInv, NEW n \in Holder, NEW a \in Attribute, NEW proto \in Attribute, NEW p \in Attribute,
             \/ AppendCopy(n, a, proto) \/ PrependCopy(n, a, proto)
             \/ InsertCopyAfter(n, a, proto, p) \/ InsertCopyBefore(n, a, proto, p)
      PROVE  AttrInv'
  <2>1. PICK s : s = attrName[proto]
    OBVIOUS
  <2>2. proto \notin Free
    BY <1>9 DEF AppendCopy, PrependCopy, InsertCopyAfter, InsertCopyBefore
  <2>3. s \in AttrName
    BY <1>6, <1>9, <2>1, <2>2
  <2>4. \/ AppendAttribute(n, a, s) \/ PrependAttribute(n, a, s)
        \/ InsertAttributeAfter(n, a, s, p) \/ InsertAttributeBefore(n, a, s, p)
    BY <1>9, <2>1 DEF AppendCopy, PrependCopy, InsertCopyAfter, InsertCopyBefore
  <2>5. QED
    BY <1>2, <1>3, <1>4, <1>5, <1>9, <2>3, <2>4
<1>10. QED
  BY <1>1, <1>2, <1>3, <1>4, <1>5, <1>7, <1>8, <1>9, LookupKeeps DEF AttributesNext

(***************************************************************************)
(* For any nodes, attributes and names: the lists of attributes are whole  *)
(* from both ends, no attribute is in two places, every edit is made at    *)
(* the place it names, and attribute(name, hint) finds an attribute        *)
(* whenever attribute(name) does.                                          *)
(***************************************************************************)
THEOREM AttributesKeptAlways == AttributesSpec => AttributesKept
<1>1. AttrInv => AttributesTypeOK /\ ListsWhole /\ HintHidesNothing /\ EditInPlace
  BY InvType, InvWhole, InvHints, InvEdits
<1>2. QED
  BY <1>1, InitAttrInv, NextAttrInv, PTL DEF AttributesSpec, AttributesKept

-----------------------------------------------------------------------------
(* Strings: who has which, when the nodes of al are alive.                 *)

Places == Buffer \cup Heap

StringsType(m) ==
  m \in [string : [Node -> Places \cup {None}], allocated : SUBSET Node, sharing : SUBSET Node, content : [Places -> Text]]

Owned(al, m) ==
  /\ \A n \in al : m.string[n] \in Heap <=> n \in m.allocated
  /\ \A k, n \in al : k # n /\ m.string[k] = m.string[n] /\ m.string[k] # None =>
       {k, n} \subseteq m.sharing /\ m.string[k] \in Buffer

StringsIn(al, m) ==
  /\ StringsType(m) /\ al \subseteq Node
  /\ m.allocated \subseteq al /\ m.sharing \subseteq al
  /\ \A n \in Node \ al : m.string[n] = None
  /\ Owned(al, m)

Reads(m, n) == IF m.string[n] = None THEN None ELSE m.content[m.string[n]]

\* What a call that gives n the content t makes of the strings.
Gives(al, m, n, t, w) ==
  /\ StringsIn(al \cup {n}, w)
  /\ Reads(w, n) = t
  /\ \A x \in Node \ {n} : Reads(w, x) = Reads(m, x)

\* A document has heap to spare while there is a node to spare.
LEMMA HeapLeft ==
  ASSUME NEW al, NEW m, StringsIn(al, m), al # Node
  PROVE  UnusedHeap(m) # {}
<1> DEFINE U == {m.string[n] : n \in m.allocated}
<1>1. m.allocated \subseteq al /\ al \subseteq Node /\ IsFiniteSet(Node) /\ IsFiniteSet(Heap)
  BY CopyAssumption DEF StringsIn
<1>2. IsFiniteSet(m.allocated) /\ Cardinality(m.allocated) < Cardinality(Node)
  <2>1. PICK x \in Node : x \notin m.allocated
    BY <1>1
  <2>2. m.allocated \subseteq Node \ {x}
    BY <1>1, <2>1
  <2>3. IsFiniteSet(Node \ {x}) /\ Cardinality(Node \ {x}) = Cardinality(Node) - 1
    BY <1>1, FS_RemoveElement
  <2>4. IsFiniteSet(m.allocated) /\ Cardinality(m.allocated) <= Cardinality(Node \ {x})
    BY <2>2, <2>3, FS_Subset
  <2>5. Cardinality(m.allocated) \in Nat /\ Cardinality(Node) \in Nat
    BY <1>1, <2>4, FS_CardinalityType
  <2>6. QED
    BY <2>3, <2>4, <2>5
<1>3. IsFiniteSet(U) /\ Cardinality(U) <= Cardinality(m.allocated)
  <2> DEFINE f == [n \in m.allocated |-> m.string[n]]
  <2>1. f \in Surjection(m.allocated, U)
    BY DEF Surjection
  <2> HIDE DEF f, U
  <2>2. QED
    BY <1>2, <2>1, FS_Surjection
<1>4. Cardinality(U) < Cardinality(Heap)
  <2>1. Cardinality(U) \in Nat /\ Cardinality(m.allocated) \in Nat /\ Cardinality(Node) \in Nat /\ Cardinality(Heap) \in Nat
    BY <1>1, <1>2, <1>3, FS_CardinalityType
  <2>2. QED
    BY <1>2, <1>3, <2>1, CopyAssumption
<1>5. ~ (Heap \subseteq U)
  <2>1. SUFFICES ASSUME Heap \subseteq U PROVE FALSE
    OBVIOUS
  <2> HIDE DEF U
  <2>2. Cardinality(Heap) <= Cardinality(U)
    BY <1>3, <2>1, FS_Subset
  <2>3. Cardinality(U) \in Nat /\ Cardinality(Heap) \in Nat
    BY <1>1, <1>3, FS_CardinalityType
  <2>4. QED
    BY <1>4, <2>2, <2>3
<1>6. QED
  BY <1>5 DEF UnusedHeap

\* An unused place is no node's.
LEMMA UnusedIsFree ==
  ASSUME NEW al, NEW m, StringsIn(al, m), NEW b \in UnusedHeap(m)
  PROVE  b \in Heap /\ b # None /\ b \notin Buffer /\ \A x \in Node : m.string[x] # b
<1>1. b \in Heap /\ b # None /\ b \notin Buffer
  BY CopyAssumption DEF UnusedHeap
<1>2. ASSUME NEW x \in Node, m.string[x] = b PROVE FALSE
  <2>1. x \in al
    BY <1>1, <1>2 DEF StringsIn
  <2>2. x \in m.allocated
    BY <1>1, <1>2, <2>1 DEF StringsIn, Owned
  <2>3. QED
    BY <1>2, <2>2 DEF UnusedHeap
<1>3. QED
  BY <1>1, <1>2

\* strcpy_insitu() to a node alive or just made.
LEMMA InPlaceGives ==
  ASSUME NEW al, NEW m, StringsIn(al, m), NEW n \in Node, NEW t \in Text \cup {None}, UnusedHeap(m) # {}
  PROVE  Gives(al, m, n, t, CopyInPlace(m, n, t))
<1> DEFINE w == CopyInPlace(m, n, t)
<1> USE DEF StringsType, Places
<1>0. None \notin Places /\ None \notin Text /\ Buffer \cap Heap = {}
  BY CopyAssumption
<1>1. CASE t = None
  <2>1. w = [m EXCEPT !.string[n] = None, !.allocated = @ \ {n}]
    BY <1>1 DEF CopyInPlace
  <2>2. /\ w.string = [m.string EXCEPT ![n] = None] /\ w.allocated = m.allocated \ {n}
        /\ w.sharing = m.sharing /\ w.content = m.content
    BY <2>1 DEF StringsIn
  <2>3. StringsType(w)
    <3>1. w = [string |-> [m.string EXCEPT ![n] = None], allocated |-> m.allocated \ {n},
               sharing |-> m.sharing, content |-> m.content]
      BY <2>1 DEF StringsIn
    <3>2. [m.string EXCEPT ![n] = None] \in [Node -> Places \cup {None}] /\ m.allocated \ {n} \in SUBSET Node
      BY DEF StringsIn
    <3> HIDE DEF w
    <3>3. QED
      BY <3>1, <3>2 DEF StringsIn
  <2> HIDE DEF w
  <2>4. Owned(al \cup {n}, w)
    BY <1>0, <2>2 DEF StringsIn, Owned
  <2>5. StringsIn(al \cup {n}, w)
    BY <2>2, <2>3, <2>4 DEF StringsIn
  <2>6. QED
    BY <1>1, <2>2, <2>5 DEF Gives, Reads, StringsIn, w
<1>2. CASE t # None /\ m.string[n] # None /\ ReuseAllowed(m, n, LengthOf(t))
  <2> DEFINE b == m.string[n]
  <2>1. w = [m EXCEPT !.content[b] = t]
    BY <1>2 DEF CopyInPlace
  <2>2. /\ w.string = m.string /\ w.allocated = m.allocated
        /\ w.sharing = m.sharing /\ w.content = [m.content EXCEPT ![b] = t]
    BY <2>1 DEF StringsIn
  <2>3. b \in Places /\ n \in al /\ n \notin m.sharing
    BY <1>2 DEF StringsIn, ReuseAllowed
  <2>4. StringsType(w)
    BY <1>2, <2>1, <2>3 DEF StringsIn
  <2> HIDE DEF w
  <2>5. StringsIn(al \cup {n}, w)
    <3>1. al \cup {n} = al
      BY <2>3
    <3>2. QED
      BY <2>2, <2>4, <3>1 DEF StringsIn, Owned
  <2>6. ASSUME NEW x \in Node \ {n} PROVE Reads(w, x) = Reads(m, x)
    <3>1. m.string[x] # b
      BY <1>2, <2>3 DEF StringsIn, Owned
    <3>2. QED
      BY <2>2, <3>1 DEF Reads, StringsIn
  <2>7. Reads(w, n) = t
    BY <1>2, <2>2, <2>3 DEF Reads, StringsIn
  <2>8. QED
    BY <2>5, <2>6, <2>7 DEF Gives, w
<1>3. CASE t # None /\ ~ (m.string[n] # None /\ ReuseAllowed(m, n, LengthOf(t)))
  <2> DEFINE b == CHOOSE b \in UnusedHeap(m) : TRUE
  <2>1. w = [m EXCEPT !.string[n] = b, !.allocated = @ \cup {n}, !.content[b] = t]
    BY <1>3 DEF CopyInPlace
  <2>2. b \in UnusedHeap(m)
    OBVIOUS
  <2> HIDE DEF b
  <2>3. b \in Heap /\ b # None /\ b \notin Buffer /\ \A x \in Node : m.string[x] # b
    BY <2>2, UnusedIsFree
  <2>4. /\ w.string = [m.string EXCEPT ![n] = b] /\ w.allocated = m.allocated \cup {n}
        /\ w.sharing = m.sharing /\ w.content = [m.content EXCEPT ![b] = t]
    BY <2>1 DEF StringsIn
  <2>5. StringsType(w)
    <3>1. w = [string |-> [m.string EXCEPT ![n] = b], allocated |-> m.allocated \cup {n},
               sharing |-> m.sharing, content |-> [m.content EXCEPT ![b] = t]]
      BY <2>1 DEF StringsIn
    <3>2. /\ [m.string EXCEPT ![n] = b] \in [Node -> Places \cup {None}] /\ m.allocated \cup {n} \in SUBSET Node
          /\ [m.content EXCEPT ![b] = t] \in [Places -> Text]
      BY <1>3, <2>3 DEF StringsIn
    <3> HIDE DEF w
    <3>3. QED
      BY <3>1, <3>2 DEF StringsIn
  <2> HIDE DEF w
  <2>6. Owned(al \cup {n}, w)
    <3>1. \A x \in al \cup {n} : w.string[x] \in Heap <=> x \in w.allocated
      BY <2>3, <2>4 DEF StringsIn, Owned
    <3>2. ASSUME NEW k \in al \cup {n}, NEW x \in al \cup {n}, k # x, w.string[k] = w.string[x], w.string[k] # None
          PROVE  {k, x} \subseteq w.sharing /\ w.string[k] \in Buffer
      <4>1. k # n /\ x # n
        BY <2>3, <2>4, <3>2 DEF StringsIn
      <4>2. k \in al /\ x \in al /\ m.string[k] = w.string[k] /\ m.string[x] = w.string[x]
        BY <2>4, <4>1 DEF StringsIn
      <4>3. QED
        BY <2>4, <3>2, <4>2 DEF StringsIn, Owned
    <3>3. QED
      BY <3>1, <3>2 DEF Owned
  <2>7. StringsIn(al \cup {n}, w)
    BY <2>4, <2>5, <2>6 DEF StringsIn
  <2>8. ASSUME NEW x \in Node \ {n} PROVE Reads(w, x) = Reads(m, x)
    BY <2>3, <2>4 DEF Reads, StringsIn
  <2>9. Reads(w, n) = t
    BY <2>3, <2>4 DEF Reads, StringsIn
  <2>10. QED
    BY <2>7, <2>8, <2>9 DEF Gives, w
<1>4. QED
  BY <1>1, <1>2, <1>3

\* node_copy_string() to a node just made.
LEMMA CopyGives ==
  ASSUME NEW al, NEW m, StringsIn(al, m), NEW dn \in Node \ al, NEW sn \in Node, NEW same
  PROVE  Gives(al, m, dn, Reads(m, sn), CopyString(m, dn, sn, same))
<1> DEFINE w == CopyString(m, dn, sn, same)
<1> USE DEF StringsType, Places
<1>0. None \notin Places /\ None \notin Text /\ Buffer \cap Heap = {}
  BY CopyAssumption
<1>1. CASE m.string[sn] = None
  <2>1. w = m
    BY <1>1 DEF CopyString
  <2>2. m.string[dn] = None /\ dn \notin m.allocated
    BY DEF StringsIn
  <2>3. StringsIn(al \cup {dn}, m)
    BY <1>0, <2>2 DEF StringsIn, Owned
  <2>4. QED
    BY <1>1, <2>1, <2>2, <2>3 DEF Gives, Reads
<1>2. CASE m.string[sn] # None /\ same /\ sn \notin m.allocated
  <2>1. w = [m EXCEPT !.string[dn] = m.string[sn], !.sharing = @ \cup {dn, sn}]
    BY <1>2 DEF CopyString
  <2>2. /\ w.string = [m.string EXCEPT ![dn] = m.string[sn]] /\ w.allocated = m.allocated
        /\ w.sharing = m.sharing \cup {dn, sn} /\ w.content = m.content
    BY <2>1 DEF StringsIn
  <2>3. sn \in al /\ m.string[sn] \in Buffer
    BY <1>2 DEF StringsIn, Owned
  <2>4. StringsType(w)
    <3>1. w = [string |-> [m.string EXCEPT ![dn] = m.string[sn]], allocated |-> m.allocated,
               sharing |-> m.sharing \cup {dn, sn}, content |-> m.content]
      BY <2>1 DEF StringsIn
    <3>2. [m.string EXCEPT ![dn] = m.string[sn]] \in [Node -> Places \cup {None}] /\ m.sharing \cup {dn, sn} \in SUBSET Node
      BY <2>3 DEF StringsIn
    <3> HIDE DEF w
    <3>3. QED
      BY <3>1, <3>2 DEF StringsIn
  <2> HIDE DEF w
  <2>5. Owned(al \cup {dn}, w)
    <3>1. \A x \in al \cup {dn} : w.string[x] \in Heap <=> x \in w.allocated
      BY <1>0, <2>2, <2>3 DEF StringsIn, Owned
    <3>2. ASSUME NEW k \in al \cup {dn}, NEW x \in al \cup {dn}, k # x, w.string[k] = w.string[x], w.string[k] # None
          PROVE  {k, x} \subseteq w.sharing /\ w.string[k] \in Buffer
      <4>1. CASE k # dn /\ x # dn
        <5>1. k \in al /\ x \in al /\ m.string[k] = w.string[k] /\ m.string[x] = w.string[x]
          BY <2>2, <4>1 DEF StringsIn
        <5>2. QED
          BY <2>2, <3>2, <5>1 DEF StringsIn, Owned
      <4>2. CASE k = dn
        <5>1. x \in al /\ w.string[k] = m.string[sn] /\ w.string[x] = m.string[x]
          BY <2>2, <3>2, <4>2 DEF StringsIn
        <5>2. x = sn \/ x \in m.sharing
          BY <2>3, <3>2, <5>1 DEF StringsIn, Owned
        <5>3. QED
          BY <2>2, <2>3, <4>2, <5>1, <5>2
      <4>3. CASE x = dn
        <5>1. k \in al /\ w.string[x] = m.string[sn] /\ w.string[k] = m.string[k]
          BY <2>2, <3>2, <4>3 DEF StringsIn
        <5>2. k = sn \/ k \in m.sharing
          BY <2>3, <3>2, <5>1 DEF StringsIn, Owned
        <5>3. QED
          BY <2>2, <2>3, <3>2, <4>3, <5>1, <5>2
      <4>4. QED
        BY <4>1, <4>2, <4>3
    <3>3. QED
      BY <3>1, <3>2 DEF Owned
  <2>6. StringsIn(al \cup {dn}, w)
    BY <2>2, <2>3, <2>4, <2>5 DEF StringsIn
  <2>7. QED
    BY <2>2, <2>3, <2>6 DEF Gives, Reads, StringsIn, w
<1>3. CASE m.string[sn] # None /\ ~ (same /\ sn \notin m.allocated)
  <2>1. w = CopyInPlace(m, dn, m.content[m.string[sn]])
    BY <1>3 DEF CopyString
  <2>2. m.content[m.string[sn]] \in Text /\ Reads(m, sn) = m.content[m.string[sn]]
    BY <1>3 DEF StringsIn, Reads
  <2>3. UnusedHeap(m) # {}
    BY HeapLeft
  <2>4. QED
    BY <2>1, <2>2, <2>3, InPlaceGives
<1>4. QED
  BY <1>1, <1>2, <1>3

-----------------------------------------------------------------------------
(* Trees: the lists of children while the nodes of al are alive. *)

Forest(al, kids) ==
  /\ kids \in [Node -> Seq(Node)] /\ al \subseteq Node
  /\ OnePlace(kids) /\ Acyclic(kids)
  /\ \A n \in Node \ al : kids[n] = <<>>
  /\ \A n \in Node : \A i \in 1..Len(kids[n]) : kids[n][i] \in al

LEMMA OneSpot ==
  ASSUME NEW kids, OnePlace(kids), NEW m \in Node, NEW n \in Node,
         NEW i \in 1..Len(kids[m]), NEW j \in 1..Len(kids[n]), kids[m][i] = kids[n][j]
  PROVE  m = n /\ i = j
BY DEF OnePlace

\* A node just made is put into a list.
LEMMA ForestGrows ==
  ASSUME NEW al, NEW kids, Forest(al, kids), NEW q \in al, NEW c \in Node \ al, NEW i,
         NEW w, With(Node, kids[q], i, c, w), i \in 1..(Len(kids[q]) + 1)
  PROVE  Forest(al \cup {c}, [kids EXCEPT ![q] = w])
<1> DEFINE new == [kids EXCEPT ![q] = w]
<1>0. OnePlace(kids) /\ q \in Node
  BY DEF Forest
<1>1. new \in [Node -> Seq(Node)] /\ al \cup {c} \subseteq Node /\ new[q] = w
  BY DEF Forest, With
<1>2. \A n \in Node : n # q => new[n] = kids[n]
  BY DEF Forest
<1>3. new[c] = <<>> /\ c # q
  BY <1>2 DEF Forest
<1> HIDE DEF new
<1>4. Len(kids[q]) \in Nat
  BY DEF Forest
\* What is at h was at Was(h), but for c.
<1> DEFINE Was(h) == IF h < i THEN h ELSE h - 1
<1>5. ASSUME NEW h \in 1..Len(w)
      PROVE  \/ h = i /\ w[h] = c
             \/ h # i /\ Was(h) \in 1..Len(kids[q]) /\ w[h] = kids[q][Was(h)]
  <2>1. CASE h = i
    BY <2>1 DEF With
  <2>2. CASE h < i
    BY <1>4, <1>5, <2>2 DEF With
  <2>3. CASE h > i
    <3> DEFINE k == h - 1
    <3>1. k \in i..Len(kids[q]) /\ k + 1 = h
      BY <1>4, <2>3 DEF With
    <3> HIDE DEF k
    <3>2. w[k + 1] = kids[q][k]
      BY <3>1 DEF With
    <3>3. Was(h) = k /\ k \in 1..Len(kids[q])
      BY <1>4, <2>3, <3>1
    <3>4. QED
      BY <2>3, <3>1, <3>2, <3>3
  <2>4. QED
    BY <1>4, <2>1, <2>2, <2>3
<1>6. \A n \in Node : \A h \in 1..Len(kids[n]) : kids[n][h] # c
  BY DEF Forest
<1>7. OnePlace(new)
  <2>1. SUFFICES ASSUME NEW m \in Node, NEW n \in Node, NEW h \in 1..Len(new[m]), NEW j \in 1..Len(new[n]),
                        new[m][h] = new[n][j]
                 PROVE  m = n /\ h = j
    BY DEF OnePlace
  <2>2. CASE m # q /\ n # q
    <3>1. kids[m][h] = kids[n][j] /\ h \in 1..Len(kids[m]) /\ j \in 1..Len(kids[n])
      BY <1>2, <2>1, <2>2
    <3>2. QED
      BY <3>1 DEF Forest, OnePlace
  <2>3. CASE m = q /\ n # q
    <3>1. j \in 1..Len(kids[n]) /\ new[n][j] = kids[n][j] /\ h \in 1..Len(w) /\ w[h] = kids[n][j]
      BY <1>1, <1>2, <2>1, <2>3
    <3>2. PICK k \in 1..Len(kids[q]) : w[h] = kids[q][k]
      BY <1>5, <1>6, <3>1
    <3>3. kids[q][k] = kids[n][j]
      BY <3>1, <3>2
    <3>4. q = n
      BY <1>0, <3>1, <3>3, OneSpot
    <3>5. QED
      BY <2>3, <3>4
  <2>4. CASE m # q /\ n = q
    <3>1. h \in 1..Len(kids[m]) /\ new[m][h] = kids[m][h] /\ j \in 1..Len(w) /\ w[j] = kids[m][h]
      BY <1>1, <1>2, <2>1, <2>4
    <3>2. PICK k \in 1..Len(kids[q]) : w[j] = kids[q][k]
      BY <1>5, <1>6, <3>1
    <3>3. kids[q][k] = kids[m][h]
      BY <3>1, <3>2
    <3>4. q = m
      BY <1>0, <3>1, <3>3, OneSpot
    <3>5. QED
      BY <2>4, <3>4
  <2>5. CASE m = q /\ n = q
    <3>1. h \in 1..Len(w) /\ j \in 1..Len(w) /\ w[h] = w[j]
      BY <1>1, <2>1, <2>5
    <3>2. CASE h = i \/ j = i
      BY <1>5, <1>6, <2>5, <3>1, <3>2
    <3>3. CASE h # i /\ j # i
      <4>1. /\ Was(h) \in 1..Len(kids[q]) /\ w[h] = kids[q][Was(h)]
            /\ Was(j) \in 1..Len(kids[q]) /\ w[j] = kids[q][Was(j)]
        BY <1>5, <3>1, <3>3
      <4>2. Was(h) = Was(j)
        <5> HIDE DEF Was
        <5>1. kids[q][Was(h)] = kids[q][Was(j)]
          BY <3>1, <4>1
        <5>2. QED
          BY <1>0, <4>1, <5>1, OneSpot
      <4>3. h \in Nat /\ j \in Nat /\ i \in Nat
        BY <1>4, <3>1
      <4>4. QED
        BY <2>5, <3>3, <4>2, <4>3
    <3>4. QED
      BY <3>2, <3>3
  <2>6. QED
    BY <2>2, <2>3, <2>4, <2>5
<1>8. ASSUME NEW n \in Node, NEW h \in 1..Len(new[n])
      PROVE  new[n][h] = c \/ \E k \in 1..Len(kids[n]) : new[n][h] = kids[n][k]
  <2>1. CASE n = q
    <3>1. h \in 1..Len(w) /\ new[n][h] = w[h]
      BY <1>1, <1>8, <2>1
    <3> HIDE DEF Was
    <3>2. QED
      BY <1>5, <2>1, <3>1
  <2>2. CASE n # q
    BY <1>2, <1>8, <2>2
  <2>3. QED
    BY <2>1, <2>2
<1>9. Acyclic(new)
  <2>1. SUFFICES ASSUME NEW S \in SUBSET Node, S # {}
                 PROVE  \E n \in S : \A h \in 1..Len(new[n]) : new[n][h] \notin S
    BY DEF Acyclic
  <2>2. CASE c \in S
    <3>1. \A h \in 1..Len(new[c]) : new[c][h] \notin S
      BY <1>3
    <3>2. QED
      BY <2>2, <3>1
  <2>3. CASE c \notin S
    <3>1. PICK n \in S : \A h \in 1..Len(kids[n]) : kids[n][h] \notin S
      BY <2>1 DEF Forest, Acyclic
    <3>2. n \in Node
      BY <2>1
    <3>3. \A h \in 1..Len(new[n]) : new[n][h] \notin S
      BY <1>8, <2>3, <3>1, <3>2
    <3>4. QED
      BY <3>3
  <2>4. QED
    BY <2>2, <2>3
<1>10. \A n \in Node \ (al \cup {c}) : new[n] = <<>>
  BY <1>2 DEF Forest
<1>11. \A n \in Node : \A h \in 1..Len(new[n]) : new[n][h] \in al \cup {c}
  <2>1. ASSUME NEW n \in Node, NEW h \in 1..Len(new[n]) PROVE new[n][h] \in al \cup {c}
    <3>1. CASE new[n][h] = c
      BY <3>1
    <3>2. CASE \E k \in 1..Len(kids[n]) : new[n][h] = kids[n][k]
      BY <3>2 DEF Forest
    <3>3. QED
      BY <1>8, <3>1, <3>2
  <2>2. QED
    BY <2>1
<1>12. Forest(al \cup {c}, new)
  BY <1>1, <1>7, <1>9, <1>10, <1>11 DEF Forest
<1>13. QED
  BY <1>12 DEF new

\* e tells where what is left in the lists was.
Thins(kids, less, new, e) ==
  /\ \A n \in Node : \A i \in 1..Len(new[n]) : e[n][i] \in 1..Len(kids[n]) /\ new[n][i] = kids[n][e[n][i]]
  /\ \A n \in Node : \A i, j \in 1..Len(new[n]) : e[n][i] = e[n][j] => i = j
  /\ \A n \in Node \ less : new[n] = <<>>
  /\ \A n \in Node : \A i \in 1..Len(new[n]) : new[n][i] \in less

LEMMA ForestShrinks ==
  ASSUME NEW al, NEW kids, Forest(al, kids), NEW less, NEW new \in [Node -> Seq(Node)], less \subseteq al,
         NEW e, Thins(kids, less, new, e)
  PROVE  Forest(less, new)
<1> USE DEF Thins
<1>1. OnePlace(new)
  <2>1. SUFFICES ASSUME NEW m \in Node, NEW n \in Node, NEW i \in 1..Len(new[m]), NEW j \in 1..Len(new[n]),
                        new[m][i] = new[n][j]
                 PROVE  m = n /\ i = j
    BY DEF OnePlace
  <2>2. PICK k \in 1..Len(kids[m]) : k = e[m][i] /\ new[m][i] = kids[m][k]
    <3>1. e[m][i] \in 1..Len(kids[m]) /\ new[m][i] = kids[m][e[m][i]]
      OBVIOUS
    <3>2. QED
      BY ONLY <3>1
  <2>3. PICK l \in 1..Len(kids[n]) : l = e[n][j] /\ new[n][j] = kids[n][l]
    <3>1. e[n][j] \in 1..Len(kids[n]) /\ new[n][j] = kids[n][e[n][j]]
      OBVIOUS
    <3>2. QED
      BY ONLY <3>1
  <2>4. m = n /\ k = l
    <3>1. OnePlace(kids) /\ kids[m][k] = kids[n][l]
      BY <2>1, <2>2, <2>3 DEF Forest
    <3>2. QED
      BY ONLY <3>1, m \in Node, n \in Node, k \in 1..Len(kids[m]), l \in 1..Len(kids[n]) DEF OnePlace
  <2>5. QED
    BY <2>2, <2>3, <2>4
<1>2. Acyclic(new)
  <2>1. SUFFICES ASSUME NEW S \in SUBSET Node, S # {}
                 PROVE  \E n \in S : \A h \in 1..Len(new[n]) : new[n][h] \notin S
    BY DEF Acyclic
  <2>2. PICK n \in S : \A h \in 1..Len(kids[n]) : kids[n][h] \notin S
    BY <2>1 DEF Forest, Acyclic
  <2>3. n \in Node
    BY <2>1
  <2>4. ASSUME NEW h \in 1..Len(new[n]) PROVE new[n][h] \notin S
    <3>1. PICK k \in 1..Len(kids[n]) : new[n][h] = kids[n][k]
      <4>1. e[n][h] \in 1..Len(kids[n]) /\ new[n][h] = kids[n][e[n][h]]
        BY <2>3
      <4>2. QED
        BY ONLY <4>1
    <3>2. QED
      BY <2>2, <3>1
  <2>5. QED
    BY <2>4
<1>3. QED
  BY <1>1, <1>2 DEF Forest

\* What is at h in the list of q is a child of q alone.
LEMMA ParentIs ==
  ASSUME NEW al, Forest(al, children), NEW q \in Node, NEW h \in 1..Len(children[q])
  PROVE  Parent(children[q][h]) = q
<1> DEFINE n == children[q][h]
<1>1. Contains(children[q], n)
  BY DEF Contains
<1>2. \A p \in Node : Contains(children[p], n) => p = q
  BY DEF Contains, Forest, OnePlace
<1> HIDE DEF n
<1>3. Parent(n) = q
  BY <1>1, <1>2 DEF Parent
<1>4. QED
  BY <1>3 DEF n

LEMMA NextSiblingIs ==
  ASSUME NEW al, Forest(al, children), NEW q \in Node, NEW h \in 1..Len(children[q])
  PROVE  NextSibling(children[q][h]) = IF h = Len(children[q]) THEN None ELSE children[q][h + 1]
<1> DEFINE n == children[q][h]
<1>1. Parent(n) = q
  BY ParentIs
<1>2. \A i \in DOMAIN children[q] : children[q][i] = n => i = h
  <2>1. OnePlace(children) /\ DOMAIN children[q] = 1..Len(children[q])
    BY DEF Forest
  <2>2. SUFFICES ASSUME NEW i \in 1..Len(children[q]), children[q][i] = children[q][h] PROVE i = h
    BY <2>1
  <2>3. QED
    BY <2>1, <2>2, OneSpot
<1>3. h \in DOMAIN children[q] /\ children[q][h] = n
  BY DEF Forest
<1> DEFINE list == children[Parent(n)]
           at == CHOOSE i \in DOMAIN list : list[i] = n
<1>4. NextSibling(n) = IF at = Len(list) THEN None ELSE list[at + 1]
  BY Zenon DEF NextSibling
<1>5. list = children[q]
  BY <1>1
<1>6. at = h
  <2>1. \A i \in DOMAIN list : list[i] = n => i = h
    BY <1>2, <1>5
  <2>2. h \in DOMAIN list /\ list[h] = n
    BY <1>3, <1>5
  <2> HIDE DEF list, n
  <2>3. QED
    BY <2>1, <2>2
<1> HIDE DEF list, at
<1>7. NextSibling(n) = IF h = Len(children[q]) THEN None ELSE children[q][h + 1]
  BY <1>4, <1>5, <1>6
<1>8. QED
  BY <1>7 DEF n

-----------------------------------------------------------------------------
(* A list as it was, had, and as it is when dn may have been put into it.  *)

Kept(had, list, dn) ==
  /\ had \in Seq(Node) /\ list \in Seq(Node)
  /\ \A j \in 1..Len(had) : had[j] # dn
  /\ list = had \/ \E z \in 1..(Len(had) + 1) : With(Node, had, z, dn, list)

\* How many of the first i of list it had before.
Olds(list, dn, i) == IF \E z \in 1..i : list[z] = dn THEN i - 1 ELSE i

LEMMA OldsAre ==
  ASSUME NEW dn, NEW had, NEW list, Kept(had, list, dn)
  PROVE  /\ Olds(list, dn, 0) = 0
         /\ Olds(list, dn, Len(list)) = Len(had)
         /\ \A i \in 1..Len(list) :
              IF list[i] = dn THEN Olds(list, dn, i) = Olds(list, dn, i - 1)
              ELSE /\ Olds(list, dn, i) = Olds(list, dn, i - 1) + 1
                   /\ Olds(list, dn, i) \in 1..Len(had) /\ had[Olds(list, dn, i)] = list[i]
<1>0. Len(had) \in Nat /\ Len(list) \in Nat
  BY DEF Kept
<1>1. Olds(list, dn, 0) = 0
  BY DEF Olds
<1>2. CASE list = had
  <2>1. \A i \in 0..Len(list) : Olds(list, dn, i) = i
    BY <1>0, <1>2 DEF Kept, Olds
  <2>2. \A i \in 1..Len(list) : list[i] # dn /\ Olds(list, dn, i) = i /\ Olds(list, dn, i - 1) = i - 1
    BY <1>0, <1>2, <2>1 DEF Kept
  <2>3. QED
    BY <1>0, <1>1, <1>2, <2>1, <2>2
<1>3. CASE list # had
  <2>1. PICK z \in 1..(Len(had) + 1) : With(Node, had, z, dn, list)
    BY <1>3 DEF Kept
  <2>2. Len(list) = Len(had) + 1 /\ list[z] = dn /\ z \in 1..Len(list)
    BY <1>0, <2>1 DEF With
  <2>3. ASSUME NEW i \in 1..Len(list), i < z
        PROVE  i \in 1..Len(had) /\ list[i] = had[i] /\ list[i] # dn
    BY <1>0, <2>1, <2>2, <2>3 DEF With, Kept
  <2>4. ASSUME NEW i \in 1..Len(list), i > z
        PROVE  i - 1 \in 1..Len(had) /\ list[i] = had[i - 1] /\ list[i] # dn
    <3> DEFINE k == i - 1
    <3>1. k \in z..Len(had) /\ k + 1 = i /\ k \in 1..Len(had)
      BY <1>0, <2>2, <2>4
    <3> HIDE DEF k
    <3>2. list[k + 1] = had[k] /\ had[k] # dn
      BY <2>1, <3>1 DEF With, Kept
    <3>3. i - 1 = k
      BY <3>1
    <3>4. QED
      BY <3>1, <3>2, <3>3
  <2>5. \A i \in 1..Len(list) : list[i] = dn => i = z
    BY <1>0, <2>3, <2>4
  <2>6. \A i \in 0..Len(list) : Olds(list, dn, i) = IF i < z THEN i ELSE i - 1
    <3>1. ASSUME NEW i \in 0..Len(list), i < z PROVE Olds(list, dn, i) = i
      <4>1. \A y \in 1..i : list[y] # dn
        BY <1>0, <2>5, <3>1
      <4>2. QED
        BY <4>1 DEF Olds
    <3>2. ASSUME NEW i \in 0..Len(list), ~ (i < z) PROVE Olds(list, dn, i) = i - 1
      <4>1. z \in 1..i
        BY <1>0, <3>2
      <4>2. QED
        BY <2>2, <4>1 DEF Olds
    <3>3. QED
      BY <3>1, <3>2
  <2>7. ASSUME NEW i \in 1..Len(list)
        PROVE  IF list[i] = dn THEN Olds(list, dn, i) = Olds(list, dn, i - 1)
               ELSE /\ Olds(list, dn, i) = Olds(list, dn, i - 1) + 1
                    /\ Olds(list, dn, i) \in 1..Len(had) /\ had[Olds(list, dn, i)] = list[i]
    <3>1. i \in 0..Len(list) /\ i - 1 \in 0..Len(list) /\ i \in Nat /\ z \in Nat
      BY <1>0
    <3>2. CASE i < z
      <4>1. Olds(list, dn, i) = i /\ Olds(list, dn, i - 1) = i - 1
        BY <2>6, <3>1, <3>2
      <4>2. QED
        BY <2>3, <3>1, <3>2, <4>1
    <3>3. CASE i = z
      <4>1. Olds(list, dn, i) = i - 1 /\ Olds(list, dn, i - 1) = i - 1
        BY <2>6, <3>1, <3>3
      <4>2. QED
        BY <2>2, <3>3, <4>1
    <3>4. CASE i > z
      <4>1. Olds(list, dn, i) = i - 1 /\ Olds(list, dn, i - 1) = (i - 1) - 1
        BY <2>6, <3>1, <3>4
      <4>2. QED
        BY <2>4, <3>1, <3>4, <4>1
    <3>5. QED
      BY <3>1, <3>2, <3>3, <3>4
  <2>8. Olds(list, dn, Len(list)) = Len(had)
    BY <1>0, <2>2, <2>6
  <2>9. QED
    BY <1>1, <2>7, <2>8
<1>4. QED
  BY <1>2, <1>3

LEMMA OldsInRange ==
  ASSUME NEW dn, NEW had, NEW list, Kept(had, list, dn), NEW i \in 0..Len(list)
  PROVE  Olds(list, dn, i) \in Nat /\ Olds(list, dn, i) <= Len(had)
<1>1. Len(had) \in Nat /\ Len(list) \in Nat /\ (i = 0 \/ i \in 1..Len(list))
  BY DEF Kept
<1>2. CASE i = 0
  BY <1>1, <1>2, OldsAre
<1>3. CASE i \in 1..Len(list) /\ list[i] # dn
  BY <1>1, <1>3, OldsAre
<1>4. CASE i \in 1..Len(list) /\ list[i] = dn
  <2>1. Olds(list, dn, i) = i - 1
    BY <1>1, <1>4 DEF Olds
  <2>2. list # had
    BY <1>4 DEF Kept
  <2>3. Len(list) = Len(had) + 1
    BY <1>1, <2>2 DEF Kept, With
  <2>4. QED
    BY <1>1, <1>4, <2>1, <2>3
<1>5. QED
  BY <1>1, <1>2, <1>3, <1>4

-----------------------------------------------------------------------------
(* What has been copied of a list, had. *)

OneEach(had) == \A i, j \in 1..Len(had) : had[i] = had[j] => i = j

Copied(made, had, of, failed, k) ==
  /\ \A i \in 1..Len(made) : \E j \in 1..k : of[made[i]] = had[j]
  /\ \A i, h \in 1..Len(made) : \A j, l \in 1..k :
       i < h /\ of[made[i]] = had[j] /\ of[made[h]] = had[l] => j < l
  /\ failed \/ \A j \in 1..k : \E i \in 1..Len(made) : of[made[i]] = had[j]

LEMMA CopiedNone ==
  ASSUME NEW had, NEW of, NEW failed
  PROVE  Copied(<<>>, had, of, failed, 0)
BY DEF Copied

LEMMA CopiedSame ==
  ASSUME NEW made, NEW had, NEW of, NEW other, NEW failed, NEW k, Copied(made, had, of, failed, k),
         \A i \in 1..Len(made) : other[made[i]] = of[made[i]]
  PROVE  Copied(made, had, other, failed, k)
BY DEF Copied

LEMMA CopiedWithout ==
  ASSUME NEW made, NEW had \in Seq(Node), OneEach(had), NEW of, NEW failed \in BOOLEAN, NEW k \in Nat, NEW l \in Nat,
         Copied(made, had, of, failed, k), k <= l, l <= Len(had)
  PROVE  Copied(made, had, of, TRUE, l)
<1>1. \A i \in 1..Len(made) : \E j \in 1..l : of[made[i]] = had[j]
  BY DEF Copied
<1>2. ASSUME NEW i \in 1..Len(made), NEW h \in 1..Len(made), NEW j \in 1..l, NEW g \in 1..l,
             i < h, of[made[i]] = had[j], of[made[h]] = had[g]
      PROVE  j < g
  <2>1. PICK a \in 1..k : of[made[i]] = had[a]
    BY DEF Copied
  <2>2. PICK b \in 1..k : of[made[h]] = had[b]
    BY DEF Copied
  <2>3. a < b
    BY <1>2, <2>1, <2>2 DEF Copied
  <2>4. a = j /\ b = g
    <3>1. had[a] = had[j] /\ had[b] = had[g]
      BY <1>2, <2>1, <2>2
    <3>2. a \in 1..Len(had) /\ b \in 1..Len(had) /\ j \in 1..Len(had) /\ g \in 1..Len(had)
      OBVIOUS
    <3>3. QED
      BY <3>1, <3>2 DEF OneEach
  <2>5. QED
    BY <2>3, <2>4
<1>3. QED
  BY <1>1, <1>2 DEF Copied

LEMMA CopiedMore ==
  ASSUME NEW made \in Seq(Node), NEW had \in Seq(Node), OneEach(had), NEW of, NEW failed \in BOOLEAN,
         NEW k \in Nat, k + 1 <= Len(had), Copied(made, had, of, failed, k),
         NEW c \in Node, NEW other, \A i \in 1..Len(made) : other[made[i]] = of[made[i]],
         other[c] = had[k + 1]
  PROVE  Copied(Append(made, c), had, other, failed, k + 1)
<1> DEFINE w == Append(made, c)
           n == Len(made)
<1>1. n \in Nat /\ Len(w) = n + 1 /\ w[n + 1] = c /\ \A i \in 1..n : w[i] = made[i]
  OBVIOUS
<1> HIDE DEF w
<1>2. \A i \in 1..n : other[w[i]] = of[made[i]]
  BY <1>1
<1>3. other[w[n + 1]] = had[k + 1]
  BY <1>1
<1>4. \A i \in 1..n : \E j \in 1..k : other[w[i]] = had[j]
  BY <1>2 DEF Copied
<1>5. \A i \in 1..(n + 1) : \E j \in 1..(k + 1) : other[w[i]] = had[j]
  <2>1. ASSUME NEW i \in 1..(n + 1) PROVE \E j \in 1..(k + 1) : other[w[i]] = had[j]
    <3>1. CASE i = n + 1
      BY <1>3, <3>1
    <3>2. CASE i # n + 1
      BY <1>1, <1>4, <3>2
    <3>3. QED
      BY <3>1, <3>2
  <2>2. QED
    BY <2>1
<1>6. ASSUME NEW i \in 1..(n + 1), NEW h \in 1..(n + 1), NEW j \in 1..(k + 1), NEW g \in 1..(k + 1),
             i < h, other[w[i]] = had[j], other[w[h]] = had[g]
      PROVE  j < g
  <2>1. i \in 1..n
    BY <1>1, <1>6
  <2>2. PICK a \in 1..k : other[w[i]] = had[a]
    BY <1>4, <2>1
  <2>3. a = j
    <3>1. had[a] = had[j]
      BY <1>6, <2>2
    <3>2. a \in 1..Len(had) /\ j \in 1..Len(had)
      OBVIOUS
    <3>3. QED
      BY <3>1, <3>2 DEF OneEach
  <2>4. CASE h = n + 1
    <3>1. g = k + 1
      BY <1>3, <1>6, <2>4 DEF OneEach
    <3>2. QED
      BY <2>3, <3>1
  <2>5. CASE h # n + 1
    <3>1. h \in 1..n
      BY <1>1, <2>5
    <3>2. PICK b \in 1..k : other[w[h]] = had[b]
      BY <1>4, <3>1
    <3>3. b = g
      <4>1. had[b] = had[g]
        BY <1>6, <3>2
      <4>2. b \in 1..Len(had) /\ g \in 1..Len(had)
        OBVIOUS
      <4>3. QED
        BY <4>1, <4>2 DEF OneEach
    <3>4. of[made[i]] = had[a] /\ of[made[h]] = had[b]
      BY <1>2, <2>1, <2>2, <3>1, <3>2
    <3>5. a < b
      BY <1>6, <2>1, <3>1, <3>4 DEF Copied
    <3>6. QED
      BY <2>3, <3>3, <3>5
  <2>6. QED
    BY <2>4, <2>5
<1>7. failed \/ \A j \in 1..(k + 1) : \E i \in 1..(n + 1) : other[w[i]] = had[j]
  <2>1. SUFFICES ASSUME ~ failed, NEW j \in 1..(k + 1)
                 PROVE  \E i \in 1..(n + 1) : other[w[i]] = had[j]
    OBVIOUS
  <2>2. CASE j = k + 1
    BY <1>1, <1>3, <2>2
  <2>3. CASE j # k + 1
    <3>1. j \in 1..k
      BY <2>3
    <3>2. PICK i \in 1..n : of[made[i]] = had[j]
      BY <2>1, <3>1 DEF Copied
    <3>3. i \in 1..(n + 1) /\ other[w[i]] = had[j]
      BY <1>1, <1>2, <3>2
    <3>4. QED
      BY <3>3
  <2>4. QED
    BY <2>2, <2>3
<1>8. Copied(w, had, other, failed, k + 1)
  BY <1>1, <1>5, <1>6, <1>7 DEF Copied
<1>9. QED
  BY <1>8 DEF w

-----------------------------------------------------------------------------
(* The loop of a copy.  of tells what each copy was made of, had the lists *)
(* as they were; whatever is alive and no copy is as it was, but for dn.   *)

Copying(al, kids, had, of, dn, sn) ==
  /\ dn \in DOMAIN of /\ DOMAIN of \subseteq al
  /\ sn \in al \ DOMAIN of /\ of[dn] = sn
  /\ \A x \in DOMAIN of : of[x] \in al \ DOMAIN of /\ (x # dn => of[x] # sn)
  /\ had \in [Node -> Seq(Node)] /\ OnePlace(had)
  /\ \A q \in al \ DOMAIN of : Kept(had[q], kids[q], dn) /\ \A i \in 1..Len(had[q]) : had[q][i] \in al \ DOMAIN of
  /\ \A x \in DOMAIN of : \A i \in 1..Len(kids[x]) : kids[x][i] \in DOMAIN of \ {dn}

\* The children of what x was made of are copied up to s, and s as well if the
\* loop is over it.
Reached(kids, had, of, dn, failed, x, s, over) ==
  \E h \in 1..Len(kids[of[x]]) :
    /\ kids[of[x]][h] = s
    /\ Copied(kids[x], had[of[x]], of, failed, Olds(kids[of[x]], dn, IF over THEN h ELSE h - 1))

Whole(kids, had, of, failed, x) == Copied(kids[x], had[of[x]], of, failed, Len(had[of[x]]))

\* P leads from dn down to dit; the loop is done with all other copies.
Path(kids, had, of, dn, dit, sit, next, failed, P) ==
  /\ P \in Seq(DOMAIN of) /\ P # <<>> /\ P[1] = dn /\ P[Len(P)] = dit
  /\ \A i \in 1..(Len(P) - 1) :
       /\ \E h \in 1..Len(kids[P[i]]) : kids[P[i]][h] = P[i + 1]
       /\ Reached(kids, had, of, dn, failed, P[i], of[P[i + 1]], TRUE)
  /\ Reached(kids, had, of, dn, failed, dit, sit, next)
  /\ \A x \in DOMAIN of : (\A i \in 1..Len(P) : P[i] # x) => Whole(kids, had, of, failed, x)

Walk(al, kids, had, of, dn, sn, dit, sit, next, failed) ==
  /\ Copying(al, kids, had, of, dn, sn)
  /\ IF sit = None THEN \A x \in DOMAIN of : Whole(kids, had, of, failed, x)
     ELSE \E P : Path(kids, had, of, dn, dit, sit, next, failed, P)

LEMMA HadOneEach ==
  ASSUME NEW had \in [Node -> Seq(Node)], OnePlace(had), NEW q \in Node
  PROVE  had[q] \in Seq(Node) /\ OneEach(had[q])
BY DEF OnePlace, OneEach

\* What the loop starts from.
Begun(kids, p, dn, sn, i, new, first, of) ==
  /\ i \in 1..(Len(kids[p]) + 1)
  /\ new = [kids EXCEPT ![p] = InsertAt(kids[p], i, dn)]
  /\ first = IF new[sn] = <<>> THEN None ELSE Head(new[sn])
  /\ DOMAIN of = {dn} /\ of[dn] = sn

\* append_copy() and the like, and the loop before its first turn.
LEMMA WalkBegins ==
  ASSUME NEW al, NEW kids, Forest(al, kids), NEW p \in al, NEW sn \in al, NEW dn \in Node \ al,
         NEW i, NEW new, NEW first, NEW of, Begun(kids, p, dn, sn, i, new, first, of)
  PROVE  /\ Forest(al \cup {dn}, new)
         /\ first \in Node \cup {None}
         /\ Walk(al \cup {dn}, new, kids, of, dn, sn, dn, first, FALSE, FALSE)
<1> USE DEF Begun
<1> DEFINE w == InsertAt(kids[p], i, dn)
<1>0. p \in Node /\ sn \in Node /\ kids \in [Node -> Seq(Node)] /\ OnePlace(kids)
  BY DEF Forest
<1>1. With(Node, kids[p], i, dn, w)
  BY <1>0, InsertIs
<1> HIDE DEF w
<1>2. Forest(al \cup {dn}, new)
  BY <1>1, ForestGrows DEF w
<1>3. new[p] = w /\ \A n \in Node : n # p => new[n] = kids[n]
  BY <1>0 DEF w
<1>4. new[dn] = <<>> /\ dn # sn
  BY <1>3 DEF Forest
<1>5. DOMAIN of = {dn} /\ of[dn] = sn
  OBVIOUS
<1>6. ASSUME NEW q \in al PROVE Kept(kids[q], new[q], dn) /\ \A h \in 1..Len(kids[q]) : kids[q][h] \in al
  <2>1. q \in Node /\ kids[q] \in Seq(Node) /\ new[q] \in Seq(Node) /\ \A h \in 1..Len(kids[q]) : kids[q][h] \in al
    BY <1>2 DEF Forest
  <2>2. \A h \in 1..Len(kids[q]) : kids[q][h] # dn
    BY <2>1
  <2>3. new[q] = kids[q] \/ \E z \in 1..(Len(kids[q]) + 1) : With(Node, kids[q], z, dn, new[q])
    BY <1>1, <1>3, <2>1
  <2>4. QED
    BY <2>1, <2>2, <2>3 DEF Kept
<1>7. Copying(al \cup {dn}, new, kids, of, dn, sn)
  BY <1>0, <1>4, <1>5, <1>6 DEF Copying
<1>8. CASE new[sn] = <<>>
  <2>1. kids[sn] = <<>>
    <3>1. Kept(kids[sn], new[sn], dn)
      BY <1>6
    <3>2. Len(new[sn]) = 0
      BY <1>8
    <3>3. Len(kids[sn]) = 0 \/ Len(kids[sn]) + 1 = 0
      BY <3>1, <3>2 DEF Kept, With
    <3>4. QED
      BY <1>0, <3>3
  <2>2. Whole(new, kids, of, FALSE, dn)
    <3>1. Len(kids[sn]) = 0
      BY <2>1
    <3>2. QED
      BY <1>4, <1>5, <3>1, CopiedNone DEF Whole
  <2>3. first = None
    BY <1>8
  <2>4. QED
    BY <1>2, <1>5, <1>7, <2>2, <2>3 DEF Walk
<1>9. CASE new[sn] # <<>>
  <2>1. new[sn] \in Seq(Node) /\ Len(new[sn]) \in Nat /\ Len(new[sn]) # 0
    BY <1>0, <1>2, <1>9 DEF Forest
  <2>2. 1 \in 1..Len(new[sn]) /\ first = new[sn][1] /\ first \in Node
    BY <1>9, <2>1
  <2>3. first # None
    BY <2>2, CopyAssumption
  <2> DEFINE P == <<dn>>
  <2>4. P \in Seq(DOMAIN of) /\ P # <<>> /\ P[1] = dn /\ P[Len(P)] = dn /\ Len(P) = 1
    BY <1>5
  <2> HIDE DEF P
  <2>5. Reached(new, kids, of, dn, FALSE, dn, first, FALSE)
    <3>1. Olds(new[sn], dn, 1 - 1) = 0
      BY DEF Olds
    <3>2. Copied(new[dn], kids[of[dn]], of, FALSE, Olds(new[sn], dn, 1 - 1))
      BY <1>4, <3>1, CopiedNone
    <3>3. QED
      BY <1>5, <2>2, <3>2 DEF Reached
  <2>6. Path(new, kids, of, dn, dn, first, FALSE, FALSE, P)
    <3>1. \A x \in DOMAIN of : P[1] = x
      BY <1>5, <2>4
    <3>2. 1 \in 1..Len(P) /\ 1..(Len(P) - 1) = {}
      BY <2>4
    <3>3. QED
      BY <2>4, <2>5, <3>1, <3>2 DEF Path
  <2>7. QED
    BY <1>2, <1>7, <2>2, <2>3, <2>6 DEF Walk
<1>10. QED
  BY <1>8, <1>9

\* What the loop is at, when it is at something.
IsAt(al, kids, had, of, dn, sn, dit, sit, P) ==
  /\ dit \in DOMAIN of /\ dit \in Node /\ of[dit] \in Node /\ of[dit] \in al \ DOMAIN of
  /\ Len(P) \in Nat /\ Len(P) >= 1 /\ \A i \in 1..Len(P) : P[i] \in DOMAIN of
  /\ Kept(had[of[dit]], kids[of[dit]], dn) /\ OneEach(had[of[dit]])
  /\ sit # dn => sit \in al \ DOMAIN of
  /\ sit # sn

LEMMA WalkIsAt ==
  ASSUME NEW al, NEW kids, Forest(al, kids), NEW had, NEW of, NEW dn, NEW sn, NEW dit, NEW sit, NEW next, NEW failed,
         Copying(al, kids, had, of, dn, sn), NEW P, Path(kids, had, of, dn, dit, sit, next, failed, P)
  PROVE  IsAt(al, kids, had, of, dn, sn, dit, sit, P)
<1>1. Len(P) \in Nat /\ Len(P) >= 1 /\ \A i \in 1..Len(P) : P[i] \in DOMAIN of
  <2>1. P \in Seq(DOMAIN of) /\ P # <<>>
    BY DEF Path
  <2>2. Len(P) \in Nat /\ \A i \in 1..Len(P) : P[i] \in DOMAIN of
    BY <2>1
  <2>3. Len(P) # 0
    BY <2>1
  <2>4. QED
    BY <2>2, <2>3
<1>2. dit \in DOMAIN of /\ dit \in Node /\ of[dit] \in Node /\ of[dit] \in al \ DOMAIN of
  <2>1. dit \in DOMAIN of
    BY <1>1 DEF Path
  <2>2. of[dit] \in al \ DOMAIN of /\ DOMAIN of \subseteq al
    BY <2>1 DEF Copying
  <2>3. al \subseteq Node
    BY DEF Forest
  <2>4. QED
    BY <2>1, <2>2, <2>3
<1>3. Kept(had[of[dit]], kids[of[dit]], dn) /\ OneEach(had[of[dit]])
  BY <1>2, HadOneEach DEF Copying
<1>4. PICK h \in 1..Len(kids[of[dit]]) : kids[of[dit]][h] = sit
  BY DEF Path, Reached
<1>5. sit # dn => sit \in al \ DOMAIN of
  <2>1. SUFFICES ASSUME sit # dn PROVE sit \in al \ DOMAIN of
    OBVIOUS
  <2>2. PICK j \in 1..Len(had[of[dit]]) : had[of[dit]][j] = sit
    BY <1>3, <1>4, <2>1, OldsAre
  <2>3. QED
    BY <1>2, <2>2 DEF Copying
<1>6. sit # sn
  <2>1. SUFFICES ASSUME sit = sn PROVE FALSE
    OBVIOUS
  <2> DEFINE S == {of[P[i]] : i \in 1..Len(P)}
  <2>2. of[P[1]] = sn /\ 1 \in 1..Len(P) /\ of[P[Len(P)]] = of[dit]
    BY <1>1 DEF Path, Copying
  <2>3. S \in SUBSET Node /\ S # {} /\ sn \in S
    <3>1. \A x \in DOMAIN of : of[x] \in Node
      BY DEF Copying, Forest
    <3>2. \A i \in 1..Len(P) : of[P[i]] \in Node
      BY <1>1, <3>1
    <3>3. sn \in S
      BY <2>2
    <3>4. QED
      BY <3>2, <3>3
  <2>4. PICK n \in S : \A g \in 1..Len(kids[n]) : kids[n][g] \notin S
    <3> HIDE DEF S
    <3>1. QED
      BY <2>3 DEF Forest, Acyclic
  <2>5. PICK i \in 1..Len(P) : n = of[P[i]]
    BY <2>4
  <2>6. CASE i = Len(P)
    BY <1>4, <2>1, <2>2, <2>3, <2>4, <2>5, <2>6
  <2>7. CASE i # Len(P)
    <3>1. i \in 1..(Len(P) - 1) /\ i + 1 \in 1..Len(P)
      BY <1>1, <2>7
    <3>2. PICK g \in 1..Len(kids[n]) : kids[n][g] = of[P[i + 1]]
      BY <2>5, <3>1 DEF Path, Reached
    <3>3. of[P[i + 1]] \in S
      BY <3>1
    <3>4. QED
      BY <2>4, <3>2, <3>3
  <2>8. QED
    BY <2>6, <2>7
<1>7. QED
  BY <1>1, <1>2, <1>3, <1>5, <1>6 DEF IsAt

\* A node that is stepped over: the copy, or one without memory.
LEMMA WalkSkips ==
  ASSUME NEW al, NEW kids, Forest(al, kids), NEW had, NEW of, NEW dn, NEW sn, NEW dit, NEW sit, NEW failed \in BOOLEAN,
         Walk(al, kids, had, of, dn, sn, dit, sit, FALSE, failed), sit # None
  PROVE  /\ sit = dn => Walk(al, kids, had, of, dn, sn, dit, sit, TRUE, failed)
         /\ sit # dn => Walk(al, kids, had, of, dn, sn, dit, sit, TRUE, TRUE)
<1>1. Copying(al, kids, had, of, dn, sn)
  BY DEF Walk
<1>2. PICK P : Path(kids, had, of, dn, dit, sit, FALSE, failed, P)
  BY DEF Walk
<1>3. /\ dit \in DOMAIN of /\ of[dit] \in al \ DOMAIN of /\ Len(P) \in Nat /\ \A i \in 1..Len(P) : P[i] \in DOMAIN of
      /\ Kept(had[of[dit]], kids[of[dit]], dn)
  <2>1. IsAt(al, kids, had, of, dn, sn, dit, sit, P)
    BY <1>1, <1>2, WalkIsAt
  <2>2. QED
    BY <2>1 DEF IsAt
<1>4. PICK h \in 1..Len(kids[of[dit]]) :
        /\ kids[of[dit]][h] = sit
        /\ Copied(kids[dit], had[of[dit]], of, failed, Olds(kids[of[dit]], dn, h - 1))
  BY <1>2 DEF Path, Reached
<1>5. CASE sit = dn
  <2>1. Olds(kids[of[dit]], dn, h) = Olds(kids[of[dit]], dn, h - 1)
    BY <1>3, <1>4, <1>5, OldsAre
  <2>2. Reached(kids, had, of, dn, failed, dit, sit, TRUE)
    BY <1>4, <2>1 DEF Reached
  <2>3. Path(kids, had, of, dn, dit, sit, TRUE, failed, P)
    BY <1>2, <2>2 DEF Path
  <2>4. QED
    BY <1>1, <1>5, <2>3 DEF Walk
<1>6. CASE sit # dn
  <2>1. ASSUME NEW x \in DOMAIN of, NEW k \in Nat, NEW l \in Nat, k <= l, l <= Len(had[of[x]]),
               Copied(kids[x], had[of[x]], of, failed, k)
        PROVE  Copied(kids[x], had[of[x]], of, TRUE, l)
    <3>1. had[of[x]] \in Seq(Node) /\ OneEach(had[of[x]])
      BY <1>1, HadOneEach DEF Copying, Forest
    <3>2. QED
      BY <2>1, <3>1, CopiedWithout
  <2>2. ASSUME NEW x \in DOMAIN of, NEW g \in 0..Len(kids[of[x]])
        PROVE  Olds(kids[of[x]], dn, g) \in Nat /\ Olds(kids[of[x]], dn, g) <= Len(had[of[x]])
    <3>1. Kept(had[of[x]], kids[of[x]], dn) /\ Len(had[of[x]]) \in Nat /\ Len(kids[of[x]]) \in Nat
      BY <1>1 DEF Copying, Kept
    <3>2. QED
      BY <3>1, OldsInRange
  <2>3. \A x \in DOMAIN of : \A s : Reached(kids, had, of, dn, failed, x, s, TRUE) => Reached(kids, had, of, dn, TRUE, x, s, TRUE)
    <3>1. SUFFICES ASSUME NEW x \in DOMAIN of, NEW s, Reached(kids, had, of, dn, failed, x, s, TRUE)
                   PROVE  Reached(kids, had, of, dn, TRUE, x, s, TRUE)
      OBVIOUS
    <3>2. PICK g \in 1..Len(kids[of[x]]) :
            kids[of[x]][g] = s /\ Copied(kids[x], had[of[x]], of, failed, Olds(kids[of[x]], dn, g))
      BY <3>1 DEF Reached
    <3>3. g \in 0..Len(kids[of[x]])
      BY <3>2
    <3>4. PICK k : k = Olds(kids[of[x]], dn, g)
      OBVIOUS
    <3>5. k \in Nat /\ k <= Len(had[of[x]]) /\ k <= k /\ Copied(kids[x], had[of[x]], of, failed, k)
      BY <2>2, <3>2, <3>3, <3>4
    <3>6. Copied(kids[x], had[of[x]], of, TRUE, k)
      BY <2>1, <3>5
    <3>7. QED
      BY <3>2, <3>4, <3>6 DEF Reached
  <2>4. Reached(kids, had, of, dn, TRUE, dit, sit, TRUE)
    <3>1. h \in 0..Len(kids[of[dit]]) /\ h - 1 \in 0..Len(kids[of[dit]])
      BY <1>4
    <3>2. Olds(kids[of[dit]], dn, h - 1) <= Olds(kids[of[dit]], dn, h)
      <4>1. Olds(kids[of[dit]], dn, h) = Olds(kids[of[dit]], dn, h - 1) + 1
        BY <1>3, <1>4, <1>6, OldsAre
      <4>2. Olds(kids[of[dit]], dn, h - 1) \in Nat
        BY <1>3, <2>2, <3>1
      <4>3. QED
        BY <4>1, <4>2
    <3>3. Copied(kids[dit], had[of[dit]], of, TRUE, Olds(kids[of[dit]], dn, h))
      BY <1>3, <1>4, <2>1, <2>2, <3>1, <3>2
    <3>4. QED
      BY <1>4, <3>3 DEF Reached
  <2>5. \A x \in DOMAIN of : Whole(kids, had, of, failed, x) => Whole(kids, had, of, TRUE, x)
    <3>1. SUFFICES ASSUME NEW x \in DOMAIN of, Whole(kids, had, of, failed, x) PROVE Whole(kids, had, of, TRUE, x)
      OBVIOUS
    <3>2. PICK k : k = Len(had[of[x]])
      OBVIOUS
    <3>3. k \in Nat /\ k <= k /\ k <= Len(had[of[x]])
      BY <1>1, <3>2 DEF Copying, Kept
    <3>4. Copied(kids[x], had[of[x]], of, TRUE, k)
      BY <2>1, <3>1, <3>2, <3>3 DEF Whole
    <3>5. QED
      BY <3>2, <3>4 DEF Whole
  <2>6. Path(kids, had, of, dn, dit, sit, TRUE, TRUE, P)
    <3>1. ASSUME NEW i \in 1..(Len(P) - 1) PROVE Reached(kids, had, of, dn, TRUE, P[i], of[P[i + 1]], TRUE)
      <4>1. i \in 1..Len(P)
        BY <1>3
      <4>2. QED
        BY <1>2, <1>3, <2>3, <4>1 DEF Path
    <3>2. QED
      BY <1>2, <2>4, <2>5, <3>1 DEF Path
  <2>7. QED
    BY <1>1, <1>6, <2>6 DEF Walk
<1>7. QED
  BY <1>5, <1>6

\* A path does not come back to where it ends.
LEMMA PathLeaves ==
  ASSUME NEW al, NEW kids, Forest(al, kids), NEW had, NEW of, NEW dn, NEW sn, NEW dit, NEW sit, NEW next, NEW failed,
         Copying(al, kids, had, of, dn, sn), NEW P, Path(kids, had, of, dn, dit, sit, next, failed, P),
         NEW i \in 1..(Len(P) - 1)
  PROVE  P[i] # dit
<1>1. IsAt(al, kids, had, of, dn, sn, dit, sit, P)
  BY WalkIsAt
<1>2. Len(P) \in Nat /\ \A j \in 1..Len(P) : P[j] \in DOMAIN of
  BY <1>1 DEF IsAt
<1>3. SUFFICES ASSUME P[i] = dit PROVE FALSE
  OBVIOUS
<1> DEFINE S == {P[j] : j \in i..(Len(P) - 1)}
<1>4. P[i] \in S /\ P[Len(P)] \in S
  BY <1>2, <1>3 DEF Path
<1>5. S \in SUBSET Node
  <2>1. DOMAIN of \subseteq Node
    BY DEF Copying, Forest
  <2>2. QED
    BY <1>2, <2>1
<1>6. ASSUME NEW n \in S PROVE \E g \in 1..Len(kids[n]) : kids[n][g] \in S
  <2>1. PICK j \in i..(Len(P) - 1) : n = P[j]
    OBVIOUS
  <2>2. j \in 1..(Len(P) - 1) /\ (j + 1 = Len(P) \/ j + 1 \in i..(Len(P) - 1))
    BY <1>2, <2>1
  <2>3. PICK g \in 1..Len(kids[n]) : kids[n][g] = P[j + 1]
    BY <2>1, <2>2 DEF Path
  <2>4. P[j + 1] \in S
    BY <1>4, <2>2
  <2>5. QED
    BY <2>3, <2>4
<1> HIDE DEF S
<1>7. QED
  BY <1>4, <1>5, <1>6 DEF Forest, Acyclic

\* c is a copy of s as well.
Longer(of, c, s, more) == DOMAIN more = DOMAIN of \cup {c} /\ more[c] = s /\ \A x \in DOMAIN of : more[x] = of[x]

\* c is the last child of p now.
Added(kids, p, c, new) == new = [kids EXCEPT ![p] = Append(kids[p], c)]

\* Where the loop is when sit is copied.
Copies(al, kids, had, of, dn, sn, dit, sit, failed, c, new, more) ==
  /\ Forest(al \cup {c}, new) /\ dit \in Node /\ sit \in Node
  /\ kids[sit] = <<>> => Walk(al \cup {c}, new, had, more, dn, sn, dit, sit, TRUE, failed)
  /\ kids[sit] # <<>> => Walk(al \cup {c}, new, had, more, dn, sn, c, Head(kids[sit]), FALSE, failed)

\* A child is copied, and the loop goes below it, or is over it.
LEMMA WalkCopies ==
  ASSUME NEW al, NEW kids, Forest(al, kids), NEW had, NEW of, NEW dn, NEW sn, NEW dit, NEW sit, NEW failed \in BOOLEAN,
         Walk(al, kids, had, of, dn, sn, dit, sit, FALSE, failed), sit # None, sit # dn,
         NEW c \in Node \ al, NEW new, Added(kids, dit, c, new),
         NEW more, Longer(of, c, sit, more)
  PROVE  Copies(al, kids, had, of, dn, sn, dit, sit, failed, c, new, more)
<1>1. Copying(al, kids, had, of, dn, sn)
  BY DEF Walk
<1>2. PICK P : Path(kids, had, of, dn, dit, sit, FALSE, failed, P)
  BY DEF Walk
<1>3. IsAt(al, kids, had, of, dn, sn, dit, sit, P)
  BY <1>1, <1>2, WalkIsAt
<1>4. PICK h \in 1..Len(kids[of[dit]]) :
        /\ kids[of[dit]][h] = sit
        /\ Copied(kids[dit], had[of[dit]], of, failed, Olds(kids[of[dit]], dn, h - 1))
  BY <1>2 DEF Path, Reached
<1>5. /\ dit \in DOMAIN of /\ dit \in Node /\ dit \in al /\ DOMAIN of \subseteq al /\ al \subseteq Node
      /\ sit \in al \ DOMAIN of /\ sit # sn /\ sit \in Node
      /\ Len(P) \in Nat /\ Len(P) >= 1 /\ \A i \in 1..Len(P) : P[i] \in DOMAIN of
      /\ kids \in [Node -> Seq(Node)] /\ c \notin DOMAIN of /\ c \in Node /\ kids[dit] \in Seq(Node)
      /\ \A x \in DOMAIN of : of[x] \in al \ DOMAIN of
  BY <1>1, <1>3 DEF IsAt, Copying, Forest
<1>6. DOMAIN more = DOMAIN of \cup {c} /\ more[c] = sit /\ \A x \in DOMAIN of : more[x] = of[x]
  BY DEF Longer
<1> DEFINE w == Append(kids[dit], c)
<1>7. w \in Seq(Node) /\ Len(w) = Len(kids[dit]) + 1 /\ w[Len(kids[dit]) + 1] = c
      /\ (\A k \in 1..Len(kids[dit]) : w[k] = kids[dit][k]) /\ Len(kids[dit]) \in Nat
  BY <1>5
<1>8. new = [kids EXCEPT ![dit] = w]
  BY DEF Added
<1> HIDE DEF w
<1>9. new[dit] = w /\ \A n \in Node : n # dit => new[n] = kids[n]
  BY <1>5, <1>8
<1>10. Forest(al \cup {c}, new)
  <2>1. With(Node, kids[dit], Len(kids[dit]) + 1, c, w)
    BY <1>7 DEF With
  <2>2. Len(kids[dit]) + 1 \in 1..(Len(kids[dit]) + 1)
    BY <1>7
  <2>3. PICK at : at = Len(kids[dit]) + 1
    OBVIOUS
  <2>4. With(Node, kids[dit], at, c, w) /\ at \in 1..(Len(kids[dit]) + 1)
    BY <2>1, <2>2, <2>3
  <2>5. Forest(al, kids) /\ dit \in al /\ c \in Node \ al
    BY <1>5
  <2>6. Forest(al \cup {c}, [kids EXCEPT ![dit] = w])
    BY ONLY <2>4, <2>5, ForestGrows
  <2>7. QED
    BY <1>8, <2>6
<1>11. new[c] = <<>> /\ new[sit] = kids[sit] /\ c # dit
  BY <1>5, <1>9 DEF Forest
<1>12. \A x \in DOMAIN of : new[of[x]] = kids[of[x]]
  BY <1>5, <1>9
<1>13. Copying(al \cup {c}, new, had, more, dn, sn)
  <2>1. dn \in DOMAIN more /\ DOMAIN more \subseteq al \cup {c} /\ sn \in (al \cup {c}) \ DOMAIN more /\ more[dn] = sn
    BY <1>1, <1>5, <1>6 DEF Copying
  <2>2. (al \cup {c}) \ DOMAIN more = al \ DOMAIN of
    BY <1>5, <1>6
  <2>3. \A x \in DOMAIN more : more[x] \in al \ DOMAIN of /\ (x # dn => more[x] # sn)
    BY <1>1, <1>5, <1>6 DEF Copying
  <2>4. \A q \in al \ DOMAIN of : new[q] = kids[q]
    BY <1>5, <1>9
  <2>5. ASSUME NEW x \in DOMAIN more, NEW i \in 1..Len(new[x]) PROVE new[x][i] \in DOMAIN more \ {dn}
    <3>1. CASE x = c
      BY <1>11, <3>1
    <3>2. CASE x = dit
      <4>1. i \in 1..Len(kids[dit]) \/ i = Len(kids[dit]) + 1
        BY <1>7, <1>9, <3>2
      <4>2. w[i] = c \/ w[i] \in DOMAIN of \ {dn}
        BY <1>1, <1>5, <1>7, <4>1 DEF Copying
      <4>3. c # dn
        BY <1>1, <1>5 DEF Copying
      <4>4. QED
        BY <1>6, <1>9, <3>2, <4>2, <4>3
    <3>3. CASE x # c /\ x # dit
      <4>1. x \in DOMAIN of /\ new[x] = kids[x]
        BY <1>5, <1>6, <1>9, <3>3
      <4>2. QED
        BY <1>1, <1>6, <4>1 DEF Copying
    <3>4. QED
      BY <3>1, <3>2, <3>3
  <2>6. /\ had \in [Node -> Seq(Node)] /\ OnePlace(had)
        /\ \A q \in al \ DOMAIN of : Kept(had[q], kids[q], dn) /\ \A i \in 1..Len(had[q]) : had[q][i] \in al \ DOMAIN of
    BY <1>1 DEF Copying
  <2>7. \A q \in al \ DOMAIN of : Kept(had[q], new[q], dn) /\ \A i \in 1..Len(had[q]) : had[q][i] \in al \ DOMAIN of
    BY <2>4, <2>6
  <2>8. QED
    BY <2>1, <2>2, <2>3, <2>5, <2>6, <2>7 DEF Copying
<1>14. \A x \in DOMAIN of : \A i \in 1..Len(kids[x]) : more[kids[x][i]] = of[kids[x][i]]
  BY <1>1, <1>6 DEF Copying
<1>15. ASSUME NEW x \in DOMAIN of, x # dit, NEW k, Copied(kids[x], had[of[x]], of, failed, k)
       PROVE  Copied(new[x], had[more[x]], more, failed, k)
  <2>1. new[x] = kids[x] /\ more[x] = of[x]
    BY <1>5, <1>6, <1>9, <1>15
  <2>2. \A i \in 1..Len(kids[x]) : more[kids[x][i]] = of[kids[x][i]]
    BY <1>14
  <2>3. Copied(kids[x], had[of[x]], more, failed, k)
    BY ONLY <1>15, <2>2, CopiedSame
  <2>4. QED
    BY <2>1, <2>3
<1>16. Reached(new, had, more, dn, failed, dit, sit, TRUE)
  <2>1. Kept(had[of[dit]], kids[of[dit]], dn) /\ OneEach(had[of[dit]])
    BY <1>3 DEF IsAt
  <2>2. /\ Olds(kids[of[dit]], dn, h) = Olds(kids[of[dit]], dn, h - 1) + 1
        /\ Olds(kids[of[dit]], dn, h) \in 1..Len(had[of[dit]])
        /\ had[of[dit]][Olds(kids[of[dit]], dn, h)] = sit
    BY <1>4, <2>1, OldsAre
  <2>3. PICK k : k = Olds(kids[of[dit]], dn, h - 1)
    OBVIOUS
  <2>4. k \in Nat
    <3>1. h - 1 \in 0..Len(kids[of[dit]])
      BY <1>4
    <3>2. QED
      BY <2>1, <2>3, <3>1, OldsInRange
  <2>5. had[of[dit]] \in Seq(Node) /\ k + 1 <= Len(had[of[dit]]) /\ more[c] = had[of[dit]][k + 1]
    BY <1>6, <2>1, <2>2, <2>3, <2>4 DEF Kept
  <2>6. Copied(kids[dit], had[of[dit]], of, failed, k)
    BY <1>4, <2>3
  <2>7. \A i \in 1..Len(kids[dit]) : more[kids[dit][i]] = of[kids[dit][i]]
    BY <1>5, <1>14
  <2>8. Copied(Append(kids[dit], c), had[of[dit]], more, failed, k + 1)
    <3>1. PICK before : before = had[of[dit]]
      OBVIOUS
    <3>2. PICK made : made = kids[dit]
      OBVIOUS
    <3>3. before \in Seq(Node) /\ OneEach(before) /\ k + 1 <= Len(before) /\ more[c] = before[k + 1]
      BY <2>1, <2>5, <3>1
    <3>4. made \in Seq(Node) /\ (\A i \in 1..Len(made) : more[made[i]] = of[made[i]]) /\ Copied(made, before, of, failed, k)
      BY <1>5, <2>6, <2>7, <3>1, <3>2
    <3>5. c \in Node /\ failed \in BOOLEAN
      BY <1>5
    <3>6. Copied(Append(made, c), before, more, failed, k + 1)
      <4>1. k \in Nat
        BY ONLY <2>4
      <4>2. QED
        BY ONLY <3>3, <3>4, <3>5, <4>1, CopiedMore
    <3>7. QED
      BY <3>1, <3>2, <3>6
  <2>9. Copied(new[dit], had[more[dit]], more, failed, Olds(kids[of[dit]], dn, h))
    BY <1>5, <1>6, <1>9, <2>2, <2>3, <2>8 DEF w
  <2>10. new[more[dit]] = kids[of[dit]]
    BY <1>5, <1>6, <1>12
  <2>11. QED
    BY <1>4, <2>9, <2>10 DEF Reached
<1>17. ASSUME NEW i \in 1..(Len(P) - 1)
       PROVE  /\ \E g \in 1..Len(new[P[i]]) : new[P[i]][g] = P[i + 1]
              /\ Reached(new, had, more, dn, failed, P[i], more[P[i + 1]], TRUE)
  <2>1. P[i] # dit
    BY <1>1, <1>2, PathLeaves
  <2>2. i \in 1..Len(P) /\ i + 1 \in 1..Len(P)
    BY <1>5
  <2>3. P[i] \in DOMAIN of /\ P[i + 1] \in DOMAIN of
    BY <1>5, <2>2
  <2>4. PICK x : x = P[i]
    OBVIOUS
  <2>5. new[x] = kids[x] /\ more[x] = of[x] /\ more[P[i + 1]] = of[P[i + 1]] /\ new[of[x]] = kids[of[x]]
    BY <1>5, <1>6, <1>9, <1>12, <2>1, <2>3, <2>4
  <2>6. \E g \in 1..Len(kids[x]) : kids[x][g] = P[i + 1]
    BY <1>2, <2>4 DEF Path
  <2>7. Reached(kids, had, of, dn, failed, x, of[P[i + 1]], TRUE)
    BY <1>2, <2>4 DEF Path
  <2>8. PICK g \in 1..Len(kids[of[x]]) :
          kids[of[x]][g] = of[P[i + 1]] /\ Copied(kids[x], had[of[x]], of, failed, Olds(kids[of[x]], dn, g))
    BY <2>7 DEF Reached
  <2>9. Copied(new[x], had[more[x]], more, failed, Olds(kids[of[x]], dn, g))
    BY <1>15, <2>1, <2>3, <2>4, <2>8
  <2>10. Reached(new, had, more, dn, failed, x, more[P[i + 1]], TRUE)
    BY <2>5, <2>8, <2>9 DEF Reached
  <2>11. QED
    BY <2>4, <2>5, <2>6, <2>10
<1>18. ASSUME NEW x \in DOMAIN of, \A i \in 1..Len(P) : P[i] # x PROVE Whole(new, had, more, failed, x)
  <2>1. Whole(kids, had, of, failed, x)
    BY <1>2, <1>18 DEF Path
  <2>2. P[Len(P)] = dit
    BY <1>2 DEF Path
  <2>3. x # dit
    BY <1>5, <1>18, <2>2
  <2>4. more[x] = of[x]
    BY <1>6
  <2>5. QED
    BY <1>15, <2>1, <2>3, <2>4 DEF Whole
<1>19. P \in Seq(DOMAIN of) /\ P # <<>> /\ P[1] = dn /\ P[Len(P)] = dit
  BY <1>2 DEF Path
<1>20. Kept(had[sit], kids[sit], dn)
  BY <1>1, <1>5 DEF Copying
<1>21. CASE kids[sit] = <<>>
  <2>1. Whole(new, had, more, failed, c)
    <3>1. Len(had[sit]) = 0
      <4>1. Len(kids[sit]) = 0
        BY <1>21
      <4>2. Len(had[sit]) = 0 \/ Len(had[sit]) + 1 = 0
        BY <1>20, <4>1 DEF Kept, With
      <4>3. had[sit] \in Seq(Node)
        BY <1>20 DEF Kept
      <4>4. QED
        BY <4>2, <4>3
    <3>2. QED
      BY <1>6, <1>11, <3>1, CopiedNone DEF Whole
  <2>2. \A x \in DOMAIN more : (\A i \in 1..Len(P) : P[i] # x) => Whole(new, had, more, failed, x)
    BY <1>6, <1>18, <2>1
  <2>3. P \in Seq(DOMAIN more)
    BY <1>6, <1>19
  <2>4. Path(new, had, more, dn, dit, sit, TRUE, failed, P)
    BY <1>16, <1>17, <1>19, <2>2, <2>3 DEF Path
  <2>5. QED
    BY <1>5, <1>10, <1>13, <1>21, <2>4 DEF Walk, Copies
<1>22. CASE kids[sit] # <<>>
  <2> DEFINE s == Head(kids[sit])
             Q == Append(P, c)
  <2>1. kids[sit] \in Seq(Node) /\ 1 \in 1..Len(kids[sit]) /\ kids[sit][1] = s /\ s \in Node
    <3>1. kids[sit] \in Seq(Node)
      BY <1>5
    <3>2. Len(kids[sit]) # 0 /\ Len(kids[sit]) \in Nat
      BY <1>22, <3>1
    <3>3. QED
      BY <1>22, <3>1, <3>2
  <2>2. s # None
    BY <2>1, CopyAssumption
  <2> HIDE DEF s
  <2>3. Reached(new, had, more, dn, failed, c, s, FALSE)
    <3>1. Olds(new[sit], dn, 1 - 1) = 0
      BY DEF Olds
    <3>2. Copied(new[c], had[more[c]], more, failed, Olds(new[more[c]], dn, 1 - 1))
      BY <1>6, <1>11, <3>1, CopiedNone
    <3>3. QED
      BY <1>6, <1>11, <2>1, <3>2 DEF Reached
  <2>4. /\ Q \in Seq(DOMAIN more) /\ Len(Q) = Len(P) + 1 /\ Q[Len(P) + 1] = c
        /\ \A i \in 1..Len(P) : Q[i] = P[i]
    BY <1>6, <1>19
  <2> HIDE DEF Q
  <2>5. Q # <<>> /\ Q[1] = dn /\ Q[Len(Q)] = c
    BY <1>5, <1>19, <2>4
  <2>6. ASSUME NEW i \in 1..(Len(Q) - 1)
        PROVE  /\ \E g \in 1..Len(new[Q[i]]) : new[Q[i]][g] = Q[i + 1]
               /\ Reached(new, had, more, dn, failed, Q[i], more[Q[i + 1]], TRUE)
    <3>1. i \in 1..Len(P)
      BY <1>5, <2>4
    <3>2. CASE i = Len(P)
      <4>1. Q[i] = dit /\ Q[i + 1] = c
        BY ONLY <1>19, <2>4, <3>1, <3>2
      <4>2. Len(kids[dit]) + 1 \in 1..Len(new[dit]) /\ new[dit][Len(kids[dit]) + 1] = c
        BY <1>7, <1>9
      <4>3. QED
        BY <1>6, <1>16, <4>1, <4>2
    <3>3. CASE i # Len(P)
      <4>1. i \in 1..(Len(P) - 1) /\ i + 1 \in 1..Len(P)
        <5>1. Len(P) \in Nat
          BY <1>5
        <5>2. QED
          BY ONLY <3>1, <3>3, <5>1
      <4>2. Q[i] = P[i] /\ Q[i + 1] = P[i + 1]
        BY <2>4, <3>1, <4>1
      <4>3. QED
        BY <1>17, <4>1, <4>2
    <3>4. QED
      BY <3>2, <3>3
  <2>7. ASSUME NEW x \in DOMAIN more, \A i \in 1..Len(Q) : Q[i] # x PROVE Whole(new, had, more, failed, x)
    <3>1. Len(Q) \in 1..Len(Q) /\ \A i \in 1..Len(P) : i \in 1..Len(Q)
      BY <1>5, <2>4
    <3>2. x # c
      BY <2>5, <2>7, <3>1
    <3>3. \A i \in 1..Len(P) : P[i] # x
      BY <2>4, <2>7, <3>1
    <3>4. QED
      BY <1>6, <1>18, <3>2, <3>3
  <2>8. Path(new, had, more, dn, c, s, FALSE, failed, Q)
    BY <2>3, <2>4, <2>5, <2>6, <2>7 DEF Path
  <2>9. Walk(al \cup {c}, new, had, more, dn, sn, c, s, FALSE, failed)
    BY <1>13, <2>2, <2>8 DEF Walk
  <2>10. QED
    BY <1>5, <1>10, <1>22, <2>9 DEF s, Copies
<1>23. QED
  BY <1>21, <1>22

\* A turn of the inner loop from sit, the child at h of q.
Turns(al, kids, had, of, dn, sn, dit, sit, failed, q, h) ==
  /\ kids[q][h] = sit
  /\ h < Len(kids[q]) => Walk(al, kids, had, of, dn, sn, dit, kids[q][h + 1], FALSE, failed)
  /\ h = Len(kids[q]) /\ q = sn => \A x : Walk(al, kids, had, of, dn, sn, x, None, TRUE, failed)
  /\ h = Len(kids[q]) /\ q # sn =>
       \E up \in Node : \E g \in 1..Len(kids[up]) :
         kids[up][g] = dit /\ Walk(al, kids, had, of, dn, sn, up, q, TRUE, failed)

LEMMA WalkGoes ==
  ASSUME NEW al, NEW kids, Forest(al, kids), NEW had, NEW of, NEW dn, NEW sn, NEW dit, NEW sit, NEW failed,
         Walk(al, kids, had, of, dn, sn, dit, sit, TRUE, failed), sit # None
  PROVE  \E q \in Node : \E h \in 1..Len(kids[q]) : Turns(al, kids, had, of, dn, sn, dit, sit, failed, q, h)
<1>1. Copying(al, kids, had, of, dn, sn)
  BY DEF Walk
<1>2. PICK P : Path(kids, had, of, dn, dit, sit, TRUE, failed, P)
  BY DEF Walk
<1>3. IsAt(al, kids, had, of, dn, sn, dit, sit, P)
  BY <1>1, <1>2, WalkIsAt
<1>4. PICK q : q = of[dit]
  OBVIOUS
<1>5. PICK h \in 1..Len(kids[q]) :
        /\ kids[q][h] = sit
        /\ Copied(kids[dit], had[q], of, failed, Olds(kids[q], dn, h))
  BY <1>2, <1>4 DEF Path, Reached
<1>6. /\ dit \in DOMAIN of /\ dit \in Node /\ DOMAIN of \subseteq Node /\ q \in Node /\ Kept(had[q], kids[q], dn)
      /\ Len(P) \in Nat /\ Len(P) >= 1 /\ \A i \in 1..Len(P) : P[i] \in DOMAIN of
      /\ kids[q] \in Seq(Node) /\ Len(kids[q]) \in Nat
  <2>1. /\ dit \in DOMAIN of /\ dit \in Node /\ q \in Node /\ Kept(had[q], kids[q], dn)
        /\ Len(P) \in Nat /\ Len(P) >= 1 /\ \A i \in 1..Len(P) : P[i] \in DOMAIN of
    BY <1>3, <1>4 DEF IsAt
  <2>2. DOMAIN of \subseteq Node
    BY <1>1 DEF Copying, Forest
  <2>3. kids[q] \in Seq(Node) /\ Len(kids[q]) \in Nat
    BY <2>1 DEF Forest
  <2>4. QED
    BY <2>1, <2>2, <2>3
<1>7. P \in Seq(DOMAIN of) /\ P # <<>> /\ P[1] = dn /\ P[Len(P)] = dit
  BY <1>2 DEF Path
<1>8. \A i \in 1..(Len(P) - 1) : /\ \E g \in 1..Len(kids[P[i]]) : kids[P[i]][g] = P[i + 1]
                                /\ Reached(kids, had, of, dn, failed, P[i], of[P[i + 1]], TRUE)
  BY <1>2 DEF Path
<1>9. \A x \in DOMAIN of : (\A i \in 1..Len(P) : P[i] # x) => Whole(kids, had, of, failed, x)
  BY <1>2 DEF Path
<1>10. h < Len(kids[q]) => Walk(al, kids, had, of, dn, sn, dit, kids[q][h + 1], FALSE, failed)
  <2>1. SUFFICES ASSUME h < Len(kids[q]) PROVE Walk(al, kids, had, of, dn, sn, dit, kids[q][h + 1], FALSE, failed)
    OBVIOUS
  <2>2. PICK g : g = h + 1
    OBVIOUS
  <2>3. g \in 1..Len(kids[q]) /\ g - 1 = h
    BY <1>5, <1>6, <2>1, <2>2
  <2>4. kids[q][g] \in Node /\ kids[q][g] # None
    BY <1>6, <2>3, CopyAssumption
  <2>5. Reached(kids, had, of, dn, failed, dit, kids[q][g], FALSE)
    BY <1>4, <1>5, <2>3 DEF Reached
  <2>6. Path(kids, had, of, dn, dit, kids[q][g], FALSE, failed, P)
    BY <1>7, <1>8, <1>9, <2>5 DEF Path
  <2>7. QED
    BY <1>1, <2>2, <2>4, <2>6 DEF Walk
<1>11. ASSUME h = Len(kids[q]) PROVE Whole(kids, had, of, failed, dit)
  <2>1. Olds(kids[q], dn, Len(kids[q])) = Len(had[q])
    BY <1>6, OldsAre
  <2>2. QED
    BY <1>4, <1>5, <1>11, <2>1 DEF Whole
<1>12. ASSUME h = Len(kids[q]), q = sn PROVE \A x : Walk(al, kids, had, of, dn, sn, x, None, TRUE, failed)
  <2>1. dit = dn
    BY <1>1, <1>4, <1>6, <1>12 DEF Copying
  <2>2. Len(P) = 1
    <3>1. SUFFICES ASSUME Len(P) # 1 PROVE FALSE
      OBVIOUS
    <3>2. PICK j : j = Len(P) - 1
      OBVIOUS
    <3>3. j \in 1..(Len(P) - 1) /\ j \in 1..Len(P) /\ j + 1 = Len(P)
      <4>1. Len(P) \in Nat /\ Len(P) >= 1
        BY <1>6
      <4>2. QED
        BY ONLY <3>1, <3>2, <4>1
    <3>4. PICK g \in 1..Len(kids[P[j]]) : kids[P[j]][g] = dn
      BY <1>7, <1>8, <2>1, <3>3
    <3>5. P[j] \in DOMAIN of
      BY <1>6, <3>3
    <3>6. QED
      BY <1>1, <3>4, <3>5 DEF Copying
  <2>3. ASSUME NEW x \in DOMAIN of PROVE Whole(kids, had, of, failed, x)
    <3>1. CASE x = dn
      BY <1>11, <1>12, <2>1, <3>1
    <3>2. CASE x # dn
      BY <1>7, <1>9, <2>2, <3>2
    <3>3. QED
      BY <3>1, <3>2
  <2>4. QED
    BY <1>1, <2>3 DEF Walk
<1>13. ASSUME h = Len(kids[q]), q # sn
       PROVE  \E up \in Node : \E g \in 1..Len(kids[up]) :
                kids[up][g] = dit /\ Walk(al, kids, had, of, dn, sn, up, q, TRUE, failed)
  <2>1. Len(P) # 1
    BY <1>1, <1>4, <1>7, <1>13 DEF Copying
  <2>2. PICK j : j = Len(P) - 1
    OBVIOUS
  <2>3. j \in 1..(Len(P) - 1) /\ j \in 1..Len(P) /\ j + 1 = Len(P) /\ j >= 1 /\ j \in Nat
    <3>1. Len(P) \in Nat /\ Len(P) >= 1
      BY <1>6
    <3>2. QED
      BY ONLY <2>1, <2>2, <3>1
  <2>4. PICK up : up = P[j]
    OBVIOUS
  <2>5. PICK g \in 1..Len(kids[up]) : kids[up][g] = dit
    BY <1>7, <1>8, <2>3, <2>4
  <2>6. Reached(kids, had, of, dn, failed, up, q, TRUE)
    BY <1>4, <1>7, <1>8, <2>3, <2>4
  <2>7. up \in DOMAIN of /\ up \in Node
    BY <1>6, <2>3, <2>4
  <2> DEFINE Q == SubSeq(P, 1, j)
  <2>8. Q \in Seq(DOMAIN of) /\ Len(Q) = j /\ \A i \in 1..j : Q[i] = P[i]
    BY <1>7, <2>3
  <2> HIDE DEF Q
  <2>9. Q # <<>> /\ Q[1] = dn /\ Q[Len(Q)] = up
    BY <1>7, <2>3, <2>4, <2>8
  <2>10. ASSUME NEW i \in 1..(Len(Q) - 1)
         PROVE  /\ \E k \in 1..Len(kids[Q[i]]) : kids[Q[i]][k] = Q[i + 1]
                /\ Reached(kids, had, of, dn, failed, Q[i], of[Q[i + 1]], TRUE)
    <3>1. i \in 1..j /\ i + 1 \in 1..j /\ i \in 1..(Len(P) - 1)
      BY <2>3, <2>8
    <3>2. Q[i] = P[i] /\ Q[i + 1] = P[i + 1]
      BY <2>8, <3>1
    <3>3. QED
      BY <1>8, <3>1, <3>2
  <2>11. ASSUME NEW x \in DOMAIN of, \A i \in 1..Len(Q) : Q[i] # x PROVE Whole(kids, had, of, failed, x)
    <3>1. CASE x = dit
      BY <1>11, <1>13, <3>1
    <3>2. CASE x # dit
      <4>1. ASSUME NEW i \in 1..Len(P) PROVE P[i] # x
        <5>1. i \in 1..j \/ i = Len(P)
          BY <2>3
        <5>2. QED
          BY <1>7, <2>8, <2>11, <3>2, <5>1
      <4>2. QED
        BY <1>9, <4>1
    <3>3. QED
      BY <3>1, <3>2
  <2>12. Path(kids, had, of, dn, up, q, TRUE, failed, Q)
    BY <2>6, <2>8, <2>9, <2>10, <2>11 DEF Path
  <2>13. q # None
    BY <1>6, CopyAssumption
  <2>14. Walk(al, kids, had, of, dn, sn, up, q, TRUE, failed)
    BY <1>1, <2>12, <2>13 DEF Walk
  <2>15. QED
    BY <2>5, <2>7, <2>14
<1>14. QED
  <2>1. Turns(al, kids, had, of, dn, sn, dit, sit, failed, q, h)
    BY <1>5, <1>10, <1>12, <1>13 DEF Turns
  <2>2. QED
    BY <1>6, <2>1

-----------------------------------------------------------------------------
(* The inductive invariant. *)

\* What the copies read is what was read when the loop began.
Texts(al, m, of, text) ==
  /\ \A x \in DOMAIN of : Reads(m, x) = text[of[x]]
  /\ \A q \in al \ DOMAIN of : Reads(m, q) = text[q]

JobAt(j, dn, sn, dit, sit, next, before, of, failed) ==
  j = [dn |-> dn, sn |-> sn, dit |-> dit, sit |-> sit, next |-> next, before |-> before, of |-> of, failed |-> failed]

JobOK(al, kids, m, j) ==
  \E dn, sn, dit, sit, before, of : \E next, failed \in BOOLEAN :
    /\ JobAt(j, dn, sn, dit, sit, next, before, of, failed)
    /\ Walk(al, kids, before.kids, of, dn, sn, dit, sit, next, failed)
    /\ Texts(al, m, of, before.text)

CopyInv ==
  /\ docOf \in [Node -> Document \cup {None}]
  /\ edits \in 0..MaxEdits
  /\ Forest(Alive, children)
  /\ StringsIn(Alive, strings)
  /\ job # None => JobOK(Alive, children, strings, job)

LEMMA TextReads == \A n : TextOf(n) = Reads(strings, n)
BY DEF TextOf, Reads, strings

LEMMA InvCopyType == CopyInv => CopyTypeOK
<1>1. SUFFICES ASSUME CopyInv PROVE CopyTypeOK
  OBVIOUS
<1>2. children \in [Node -> Seq(Node)]
  BY <1>1 DEF CopyInv, Forest
<1>3. StringsType(strings) /\ strings.allocated \subseteq Alive /\ strings.sharing \subseteq Alive
  BY <1>1 DEF CopyInv, StringsIn
<1>4. string \in [Node -> Places \cup {None}] /\ content \in [Places -> Text] /\ allocated \subseteq Alive /\ sharing \subseteq Alive
  BY <1>3 DEF StringsType, strings
<1>5. QED
  BY <1>1, <1>2, <1>4 DEF CopyInv, CopyTypeOK, Places

LEMMA InvOwned == CopyInv => StringsOwned
BY DEF CopyInv, StringsIn, Owned, StringsOwned, strings

\* What the loop leaves.
LEMMA InvFaithful == CopyInv => CopyFaithful
<1>1. SUFFICES ASSUME CopyInv, job # None, job.sit = None
               PROVE  /\ job.of[job.dn] = job.sn
                      /\ \A x \in Subtree(job.dn) : /\ x \in DOMAIN job.of
                                                    /\ TextOf(x) = job.before.text[job.of[x]]
                                                    /\ CopiedTo(x, Len(job.before.kids[job.of[x]]))
  BY DEF CopyFaithful
<1>2. JobOK(Alive, children, strings, job)
  BY <1>1 DEF CopyInv
<1>3. PICK dn, sn, dit, sit, before, of : \E next, failed \in BOOLEAN :
        /\ JobAt(job, dn, sn, dit, sit, next, before, of, failed)
        /\ Walk(Alive, children, before.kids, of, dn, sn, dit, sit, next, failed)
        /\ Texts(Alive, strings, of, before.text)
  BY <1>2 DEF JobOK
<1>4. PICK next \in BOOLEAN, failed \in BOOLEAN :
        /\ JobAt(job, dn, sn, dit, sit, next, before, of, failed)
        /\ Walk(Alive, children, before.kids, of, dn, sn, dit, sit, next, failed)
        /\ Texts(Alive, strings, of, before.text)
  BY <1>3
<1>5. job.dn = dn /\ job.sn = sn /\ job.sit = sit /\ job.before = before /\ job.of = of /\ job.failed = failed
  BY <1>4 DEF JobAt
<1>6. Copying(Alive, children, before.kids, of, dn, sn) /\ \A x \in DOMAIN of : Whole(children, before.kids, of, failed, x)
  BY <1>1, <1>4, <1>5 DEF Walk
<1>7. Subtree(dn) \subseteq DOMAIN of
  <2>1. DOMAIN of \in SUBSET Node /\ dn \in DOMAIN of
    BY <1>1, <1>6 DEF Copying, CopyInv, Forest
  <2>2. ASSUME NEW p \in DOMAIN of PROVE ToSet(children[p]) \subseteq DOMAIN of
    <3>1. p \in Node
      BY <2>1
    <3>2. \A i \in 1..Len(children[p]) : children[p][i] \in DOMAIN of
      BY <1>6 DEF Copying
    <3>3. DOMAIN children[p] = 1..Len(children[p])
      BY <1>1, <3>1 DEF CopyInv, Forest
    <3>4. QED
      BY <3>2, <3>3 DEF ToSet
  <2>3. QED
    BY <2>1, <2>2, Zenon DEF Subtree
<1>8. ASSUME NEW x \in Subtree(dn) PROVE x \in DOMAIN of /\ TextOf(x) = before.text[of[x]] /\ CopiedTo(x, Len(before.kids[of[x]]))
  <2>1. x \in DOMAIN of
    BY <1>7
  <2>2. TextOf(x) = before.text[of[x]]
    BY <1>4, <2>1, TextReads DEF Texts
  <2>3. Copied(children[x], before.kids[of[x]], of, failed, Len(before.kids[of[x]]))
    BY <1>6, <2>1 DEF Whole
  <2>4. CopiedTo(x, Len(before.kids[of[x]]))
    BY <1>5, <2>3 DEF Copied, CopiedTo
  <2>5. QED
    BY <2>1, <2>2, <2>4
<1>9. QED
  BY <1>5, <1>6, <1>8 DEF Copying

\* What a step lemma is about: the variables of a copy as values.
LEMMA JobIsOK ==
  ASSUME NEW al, NEW kids, NEW m, NEW j, NEW dn, NEW sn, NEW dit, NEW sit, NEW next \in BOOLEAN, NEW before, NEW of,
         NEW failed \in BOOLEAN, JobAt(j, dn, sn, dit, sit, next, before, of, failed),
         Walk(al, kids, before.kids, of, dn, sn, dit, sit, next, failed), Texts(al, m, of, before.text)
  PROVE  JobOK(al, kids, m, j)
BY DEF JobOK

LEMMA StringsAre ==
  ASSUME NEW m, StringsType(m)
  PROVE  m = [string |-> m.string, allocated |-> m.allocated, sharing |-> m.sharing, content |-> m.content]
BY DEF StringsType

LEMMA StringsSet ==
  ASSUME NEW m, StringsType(m), SetStrings(m)
  PROVE  strings' = m
BY StringsAre DEF SetStrings, strings

LEMMA FreshIs ==
  ASSUME CopyInv, Alive # Node
  PROVE  FreshNode \in Node \ Alive
<1>1. \E n \in Node : n \notin Alive
  BY DEF Alive
<1>2. QED
  BY <1>1 DEF FreshNode

LEMMA AliveIs ==
  ASSUME CopyInv
  PROVE  /\ Alive \subseteq Node /\ None \notin Node
         /\ \A n \in Alive : docOf[n] \in Document
BY CopyAssumption DEF CopyInv, Alive

\* A node just made is alive.
LEMMA AliveGrows ==
  ASSUME CopyInv, NEW c \in Node, NEW d \in Document, docOf' = [docOf EXCEPT ![c] = d]
  PROVE  /\ Alive' = Alive \cup {c}
         /\ docOf' \in [Node -> Document \cup {None}]
<1>1. d # None
  BY CopyAssumption
<1>2. QED
  BY <1>1 DEF CopyInv, Alive

-----------------------------------------------------------------------------
LEMMA InitCopyInv == CopyInit => CopyInv
<1>1. SUFFICES ASSUME CopyInit PROVE CopyInv
  OBVIOUS
<1>2. PICK l \in Loaded : children = l.kids /\ docOf = l.owner /\ string = l.string /\ content = l.text
  BY <1>1 DEF CopyInit
<1>3. FromParser(l)
  BY CopyAssumption
<1>4. Forest(Alive, children)
  BY <1>2, <1>3 DEF FromParser, Forest, Alive
<1>5. StringsIn(Alive, strings)
  <2>1. /\ strings.string = string /\ strings.allocated = {} /\ strings.sharing = {} /\ strings.content = content
    BY <1>1 DEF CopyInit, strings
  <2>2. string \in [Node -> Buffer \cup {None}] /\ content \in [Places -> Text]
    BY <1>2, <1>3 DEF FromParser, Places
  <2>3. string \in [Node -> Places \cup {None}]
    BY <2>2 DEF Places
  <2>4. StringsType(strings)
    BY <1>1, <2>2, <2>3 DEF StringsType, strings, CopyInit
  <2>5. \A n \in Node : string[n] \notin Heap
    BY <2>2, CopyAssumption
  <2>6. \A m, n \in Node : string[m] = string[n] /\ string[m] # None => m = n
    BY <1>2, <1>3 DEF FromParser
  <2>7. \A n \in Node \ Alive : string[n] = None
    BY <1>2, <1>3 DEF FromParser, Alive
  <2>8. Alive \subseteq Node
    BY DEF Alive
  <2>9. Owned(Alive, strings)
    BY <2>1, <2>5, <2>6, <2>8 DEF Owned
  <2>10. QED
    BY <2>1, <2>4, <2>7, <2>8, <2>9 DEF StringsIn
<1>6. edits \in 0..MaxEdits
  BY <1>1, CopyAssumption DEF CopyInit
<1>7. QED
  BY <1>1, <1>2, <1>3, <1>4, <1>5, <1>6 DEF CopyInv, CopyInit, FromParser

LEMMA EditedIs ==
  ASSUME CopyInv, Edited
  PROVE  job = None /\ edits' \in 0..MaxEdits
BY CopyAssumption DEF CopyInv, Edited

\* A step of which only node c learns.
LEMMA OneLearns ==
  ASSUME NEW c, NEW w, strings' = w, \A x \in Node \ {c} : Reads(w, x) = Reads(strings, x)
  PROVE  \A x \in Node \ {c} : TextOf(x)' = TextOf(x)
<1>1. ASSUME NEW x PROVE TextOf(x)' = Reads(w, x)
  <2>1. w.string = string' /\ w.content = content'
    BY DEF strings
  <2>2. QED
    BY <2>1 DEF TextOf, Reads
<1>2. QED
  BY <1>1, TextReads

LEMMA SetStringKeeps ==
  ASSUME CopyInv, NEW n \in Node, NEW t \in Text \cup {None}, SetString(n, t)
  PROVE  CopyInv' /\ OthersKeepText
<1>1. n \in Alive /\ UnusedHeap(strings) # {} /\ SetStrings(CopyInPlace(strings, n, t)) /\ Edited
  BY DEF SetString
<1>2. children' = children /\ docOf' = docOf /\ job' = job /\ Alive' = Alive
  BY DEF SetString, Alive
<1>3. PICK w : w = CopyInPlace(strings, n, t)
  OBVIOUS
<1>4. Gives(Alive, strings, n, t, w)
  BY <1>1, <1>3, InPlaceGives DEF CopyInv
<1>5. StringsIn(Alive, w)
  <2>1. Alive \cup {n} = Alive
    BY <1>1
  <2>2. QED
    BY <1>4, <2>1 DEF Gives
<1>6. strings' = w
  BY <1>1, <1>3, <1>5, StringsSet DEF StringsIn
<1>7. \A x \in Node \ {n} : TextOf(x)' = TextOf(x)
  BY <1>4, <1>6, OneLearns DEF Gives
<1>8. OthersKeepText
  BY <1>7, AliveIs DEF OthersKeepText
<1>9. CopyInv'
  <2>1. job' = None /\ edits' \in 0..MaxEdits
    BY <1>1, <1>2, EditedIs
  <2>2. Forest(Alive', children') /\ StringsIn(Alive', strings')
    BY <1>2, <1>5, <1>6 DEF CopyInv
  <2>3. docOf' \in [Node -> Document \cup {None}]
    BY <1>2 DEF CopyInv
  <2>4. QED
    BY <2>1, <2>2, <2>3 DEF CopyInv
<1>10. QED
  BY <1>8, <1>9

LEMMA BeginCopyKeeps ==
  ASSUME CopyInv, NEW p \in Alive, NEW sn \in Node, NEW i \in 1..(Len(children[p]) + 1), BeginCopy(p, sn, i)
  PROVE  CopyInv' /\ OthersKeepText
<1>1. PICK dn : dn = FreshNode
  OBVIOUS
<1>2. /\ Edited /\ sn \in Alive /\ Alive # Node
      /\ children' = [children EXCEPT ![p] = InsertAt(children[p], i, dn)]
      /\ docOf' = [docOf EXCEPT ![dn] = docOf[p]]
      /\ SetStrings(CopyString(strings, dn, sn, docOf[p] = docOf[sn]))
      /\ job' = Job(dn, sn, IF children'[sn] = <<>> THEN None ELSE Head(children'[sn]))
  BY <1>1 DEF BeginCopy
<1>3. dn \in Node \ Alive
  BY <1>1, <1>2, FreshIs
<1>4. Alive' = Alive \cup {dn} /\ docOf' \in [Node -> Document \cup {None}]
  BY <1>2, <1>3, AliveIs, AliveGrows
<1>5. PICK w : w = CopyString(strings, dn, sn, docOf[p] = docOf[sn])
  OBVIOUS
<1>6. Gives(Alive, strings, dn, Reads(strings, sn), w)
  <2>1. PICK same : same = (docOf[p] = docOf[sn])
    OBVIOUS
  <2>2. w = CopyString(strings, dn, sn, same)
    BY <1>5, <2>1
  <2>3. StringsIn(Alive, strings)
    BY DEF CopyInv
  <2>4. QED
    BY <1>3, <2>2, <2>3, CopyGives
<1>7. strings' = w
  BY <1>2, <1>5, <1>6, StringsSet DEF Gives, StringsIn
<1>8. \A x \in Node \ {dn} : TextOf(x)' = TextOf(x)
  BY <1>6, <1>7, OneLearns DEF Gives
<1>9. OthersKeepText
  BY <1>3, <1>8, AliveIs DEF OthersKeepText
<1>10. PICK al : al = Alive
  OBVIOUS
<1>11. PICK kids : kids = children
  OBVIOUS
<1>12. PICK new : new = children'
  OBVIOUS
<1>13. PICK first : first = IF new[sn] = <<>> THEN None ELSE Head(new[sn])
  OBVIOUS
<1>14. PICK of : of = [n \in {dn} |-> sn]
  OBVIOUS
<1>15. PICK before : before = [kids |-> kids, text |-> [n \in Node |-> TextOf(n)]]
  OBVIOUS
<1>16. /\ Forest(al \cup {dn}, new)
       /\ Walk(al \cup {dn}, new, kids, of, dn, sn, dn, first, FALSE, FALSE)
  <2>1. Forest(al, kids) /\ p \in al /\ sn \in al /\ dn \in Node \ al
    BY <1>2, <1>3, <1>10, <1>11 DEF CopyInv
  <2>2. Begun(kids, p, dn, sn, i, new, first, of)
    BY <1>2, <1>11, <1>12, <1>13, <1>14 DEF Begun
  <2>3. QED
    BY ONLY <2>1, <2>2, WalkBegins
<1>17. job' = [dn |-> dn, sn |-> sn, dit |-> dn, sit |-> first, next |-> FALSE, before |-> before, of |-> of, failed |-> FALSE]
  BY <1>2, <1>11, <1>12, <1>13, <1>14, <1>15 DEF Job
<1>18. JobAt(job', dn, sn, dn, first, FALSE, before, of, FALSE)
  BY <1>17 DEF JobAt
<1>19. Texts(al \cup {dn}, w, of, before.text)
  <2>1. DOMAIN of = {dn} /\ of[dn] = sn
    BY <1>14
  <2>2. \A x \in Node : before.text[x] = Reads(strings, x)
    BY <1>15, TextReads
  <2>3. Reads(w, dn) = before.text[sn]
    BY <1>6, <2>2 DEF Gives
  <2>4. \A x \in Node \ {dn} : Reads(w, x) = before.text[x]
    BY <1>6, <2>2 DEF Gives
  <2>5. al \subseteq Node
    BY <1>10, AliveIs
  <2>6. QED
    BY <2>1, <2>3, <2>4, <2>5 DEF Texts
<1>20. before.kids = kids
  BY <1>15
<1>21. JobOK(al \cup {dn}, new, w, job')
  BY <1>16, <1>18, <1>19, <1>20, JobIsOK
<1>22. StringsIn(al \cup {dn}, w)
  BY <1>6, <1>10 DEF Gives
<1>23. CopyInv'
  <2>1. edits' \in 0..MaxEdits
    BY <1>2, EditedIs
  <2>2. Alive' = al \cup {dn}
    BY <1>4, <1>10
  <2>3. Forest(Alive', children') /\ StringsIn(Alive', strings') /\ JobOK(Alive', children', strings', job')
    BY <1>7, <1>12, <1>16, <1>21, <1>22, <2>2
  <2>4. QED
    BY <1>4, <2>1, <2>3 DEF CopyInv
<1>24. QED
  BY <1>9, <1>23

\* The copy being made.
LEMMA InTheLoop ==
  ASSUME CopyInv, NEW next \in BOOLEAN, InLoop(next)
  PROVE  \E dn, sn, dit, sit, before, of : \E failed \in BOOLEAN :
           /\ JobAt(job, dn, sn, dit, sit, next, before, of, failed) /\ sit # None
           /\ Walk(Alive, children, before.kids, of, dn, sn, dit, sit, next, failed)
           /\ Texts(Alive, strings, of, before.text)
<1>1. JobOK(Alive, children, strings, job) /\ job.sit # None /\ job.next = next
  BY DEF CopyInv, InLoop
<1>2. PICK dn, sn, dit, sit, before, of : \E n, failed \in BOOLEAN :
        /\ JobAt(job, dn, sn, dit, sit, n, before, of, failed)
        /\ Walk(Alive, children, before.kids, of, dn, sn, dit, sit, n, failed)
        /\ Texts(Alive, strings, of, before.text)
  BY <1>1 DEF JobOK
<1>3. PICK n \in BOOLEAN, failed \in BOOLEAN :
        /\ JobAt(job, dn, sn, dit, sit, n, before, of, failed)
        /\ Walk(Alive, children, before.kids, of, dn, sn, dit, sit, n, failed)
        /\ Texts(Alive, strings, of, before.text)
  BY <1>2
<1>4. n = next /\ sit # None
  BY <1>1, <1>3 DEF JobAt
<1>5. QED
  BY <1>3, <1>4

\* A step of the loop alone.
LEMMA LoopKeeps ==
  ASSUME CopyInv, JobOK(Alive, children, strings, job'), UNCHANGED <<children, docOf, string, allocated, sharing, content, edits>>
  PROVE  CopyInv' /\ OthersKeepText
<1>1. Alive' = Alive /\ strings' = strings
  BY DEF Alive, strings
<1>2. JobOK(Alive', children', strings', job') /\ Forest(Alive', children') /\ StringsIn(Alive', strings')
  BY <1>1 DEF CopyInv
<1>3. docOf' \in [Node -> Document \cup {None}] /\ edits' \in 0..MaxEdits
  BY DEF CopyInv
<1>4. CopyInv'
  BY <1>2, <1>3 DEF CopyInv
<1>5. OthersKeepText
  BY DEF OthersKeepText, TextOf
<1>6. QED
  BY <1>4, <1>5

\* To the inner loop.
LEMMA OnwardIs ==
  ASSUME NEW dn, NEW sn, NEW dit, NEW sit, NEW next, NEW before, NEW of, NEW failed \in BOOLEAN, NEW fails \in BOOLEAN,
         JobAt(job, dn, sn, dit, sit, next, before, of, failed), Onward(fails)
  PROVE  JobAt(job', dn, sn, dit, sit, TRUE, before, of, failed \/ fails)
<1>1. job = [dn |-> dn, sn |-> sn, dit |-> dit, sit |-> sit, next |-> next, before |-> before, of |-> of, failed |-> failed]
  BY DEF JobAt
<1>2. job' = [job EXCEPT !.next = TRUE, !.failed = job.failed \/ fails]
  BY DEF Onward
<1>3. job.failed = failed
  BY <1>1
<1>4. job' = [dn |-> dn, sn |-> sn, dit |-> dit, sit |-> sit, next |-> TRUE, before |-> before, of |-> of, failed |-> failed \/ fails]
  BY <1>1, <1>2, <1>3
<1>5. QED
  BY <1>4 DEF JobAt

LEMMA SkipCopyKeeps ==
  ASSUME CopyInv, SkipCopy
  PROVE  CopyInv' /\ OthersKeepText
<1>1. InLoop(FALSE) /\ job.sit = job.dn /\ Onward(FALSE) /\ UNCHANGED <<children, docOf, string, allocated, sharing, content, edits>>
  BY DEF SkipCopy, Skipped
<1>2. PICK dn, sn, dit, sit, before, of : \E failed \in BOOLEAN :
        /\ JobAt(job, dn, sn, dit, sit, FALSE, before, of, failed) /\ sit # None
        /\ Walk(Alive, children, before.kids, of, dn, sn, dit, sit, FALSE, failed)
        /\ Texts(Alive, strings, of, before.text)
  BY <1>1, InTheLoop
<1>3. PICK failed \in BOOLEAN :
        /\ JobAt(job, dn, sn, dit, sit, FALSE, before, of, failed) /\ sit # None
        /\ Walk(Alive, children, before.kids, of, dn, sn, dit, sit, FALSE, failed)
        /\ Texts(Alive, strings, of, before.text)
  BY <1>2
<1>4. sit = dn
  BY <1>1, <1>3 DEF JobAt
<1>5. Walk(Alive, children, before.kids, of, dn, sn, dit, sit, TRUE, failed)
  BY <1>3, <1>4, WalkSkips DEF CopyInv
<1>6. JobAt(job', dn, sn, dit, sit, TRUE, before, of, failed)
  <2>1. JobAt(job', dn, sn, dit, sit, TRUE, before, of, failed \/ FALSE)
    BY <1>1, <1>3, OnwardIs
  <2>2. (failed \/ FALSE) = failed
    OBVIOUS
  <2>3. QED
    BY <2>1, <2>2
<1>7. JobOK(Alive, children, strings, job')
  BY <1>3, <1>5, <1>6, JobIsOK
<1>8. QED
  BY <1>1, <1>7, LoopKeeps

LEMMA FailNodeKeeps ==
  ASSUME CopyInv, FailNode
  PROVE  CopyInv' /\ OthersKeepText
<1>1. InLoop(FALSE) /\ job.sit # job.dn /\ Onward(TRUE) /\ UNCHANGED <<children, docOf, string, allocated, sharing, content, edits>>
  BY DEF FailNode, Skipped
<1>2. PICK dn, sn, dit, sit, before, of : \E failed \in BOOLEAN :
        /\ JobAt(job, dn, sn, dit, sit, FALSE, before, of, failed) /\ sit # None
        /\ Walk(Alive, children, before.kids, of, dn, sn, dit, sit, FALSE, failed)
        /\ Texts(Alive, strings, of, before.text)
  BY <1>1, InTheLoop
<1>3. PICK failed \in BOOLEAN :
        /\ JobAt(job, dn, sn, dit, sit, FALSE, before, of, failed) /\ sit # None
        /\ Walk(Alive, children, before.kids, of, dn, sn, dit, sit, FALSE, failed)
        /\ Texts(Alive, strings, of, before.text)
  BY <1>2
<1>4. sit # dn
  BY <1>1, <1>3 DEF JobAt
<1>5. Walk(Alive, children, before.kids, of, dn, sn, dit, sit, TRUE, TRUE)
  BY <1>3, <1>4, WalkSkips DEF CopyInv
<1>6. JobAt(job', dn, sn, dit, sit, TRUE, before, of, TRUE)
  <2>1. JobAt(job', dn, sn, dit, sit, TRUE, before, of, failed \/ TRUE)
    BY <1>1, <1>3, OnwardIs
  <2>2. (failed \/ TRUE) = TRUE
    OBVIOUS
  <2>3. QED
    BY <2>1, <2>2
<1>7. JobOK(Alive, children, strings, job')
  BY <1>3, <1>5, <1>6, JobIsOK
<1>8. QED
  BY <1>1, <1>7, LoopKeeps

\* A node that is copied, and where the loop goes with it.
LEMMA CopyNodeKeeps ==
  ASSUME CopyInv, CopyNode
  PROVE  CopyInv' /\ OthersKeepText
<1>1. PICK c : c = FreshNode
  OBVIOUS
<1>2. /\ InLoop(FALSE) /\ job.sit # job.dn /\ Alive # Node
      /\ children' = [children EXCEPT ![job.dit] = Append(children[job.dit], c)]
      /\ docOf' = [docOf EXCEPT ![c] = docOf[job.dn]]
      /\ SetStrings(CopyString(strings, c, job.sit, SameDoc))
      /\ edits' = edits
  BY <1>1 DEF CopyNode, Skipped
<1>3. PICK dn, sn, dit, sit, before, of : \E failed \in BOOLEAN :
        /\ JobAt(job, dn, sn, dit, sit, FALSE, before, of, failed) /\ sit # None
        /\ Walk(Alive, children, before.kids, of, dn, sn, dit, sit, FALSE, failed)
        /\ Texts(Alive, strings, of, before.text)
  BY <1>2, InTheLoop
<1>4. PICK failed \in BOOLEAN :
        /\ JobAt(job, dn, sn, dit, sit, FALSE, before, of, failed) /\ sit # None
        /\ Walk(Alive, children, before.kids, of, dn, sn, dit, sit, FALSE, failed)
        /\ Texts(Alive, strings, of, before.text)
  BY <1>3
<1>5. job = [dn |-> dn, sn |-> sn, dit |-> dit, sit |-> sit, next |-> FALSE, before |-> before, of |-> of, failed |-> failed]
  BY <1>4 DEF JobAt
<1>6. job.dn = dn /\ job.sn = sn /\ job.dit = dit /\ job.sit = sit /\ job.of = of /\ sit # dn
  BY <1>2, <1>5
<1>7. c \in Node \ Alive
  BY <1>1, <1>2, FreshIs
<1>8. PICK more : more = [n \in DOMAIN of \cup {c} |-> IF n = c THEN sit ELSE of[n]]
  OBVIOUS
<1>9. IF children[sit] # <<>> THEN job' = [job EXCEPT !.of = more, !.dit = c, !.sit = Head(children[sit])]
      ELSE job' = [job EXCEPT !.of = more, !.next = TRUE]
  BY <1>1, <1>6, <1>8 DEF CopyNode
<1>10. PICK al : al = Alive
  OBVIOUS
<1>11. PICK kids : kids = children
  OBVIOUS
<1>12. PICK new : new = children'
  OBVIOUS
<1>13. Added(kids, dit, c, new)
  BY <1>2, <1>6, <1>11, <1>12 DEF Added
<1>14. PICK had : had = before.kids
  OBVIOUS
<1>15. Walk(al, kids, had, of, dn, sn, dit, sit, FALSE, failed) /\ Forest(al, kids)
  BY <1>4, <1>10, <1>11, <1>14 DEF CopyInv
<1>16. dn \in Alive /\ DOMAIN of \subseteq al /\ \A x \in DOMAIN of : of[x] \in al \ DOMAIN of
  BY <1>10, <1>15 DEF Walk, Copying
<1>17. Longer(of, c, sit, more)
  BY <1>7, <1>8, <1>10, <1>16 DEF Longer
<1>18. /\ Forest(al \cup {c}, new) /\ dit \in Node /\ sit \in Node
       /\ kids[sit] = <<>> => Walk(al \cup {c}, new, had, more, dn, sn, dit, sit, TRUE, failed)
       /\ kids[sit] # <<>> => Walk(al \cup {c}, new, had, more, dn, sn, c, Head(kids[sit]), FALSE, failed)
  <2>1. c \in Node \ al /\ failed \in BOOLEAN
    BY <1>7, <1>10
  <2>2. sit # None /\ sit # dn
    BY <1>4, <1>6
  <2>3. Copies(al, kids, had, of, dn, sn, dit, sit, failed, c, new, more)
    BY <1>13, <1>15, <1>17, <2>1, <2>2, WalkCopies
  <2>4. QED
    BY <2>3 DEF Copies
<1>19. sit \in al \ DOMAIN of
  <2>1. PICK P : Path(kids, had, of, dn, dit, sit, FALSE, failed, P)
    BY <1>4, <1>15 DEF Walk
  <2>2. IsAt(al, kids, had, of, dn, sn, dit, sit, P)
    BY <1>15, <2>1, WalkIsAt DEF Walk
  <2>3. QED
    BY <1>6, <2>2 DEF IsAt
<1>20. Alive' = Alive \cup {c} /\ docOf' \in [Node -> Document \cup {None}]
  <2>1. docOf[dn] \in Document /\ docOf' = [docOf EXCEPT ![c] = docOf[dn]]
    BY <1>2, <1>6, <1>16, AliveIs
  <2>2. QED
    BY <1>7, <2>1, AliveGrows
<1>21. PICK w : w = CopyString(strings, c, sit, SameDoc)
  OBVIOUS
<1>22. Gives(Alive, strings, c, Reads(strings, sit), w)
  <2>1. PICK same : same = SameDoc
    OBVIOUS
  <2>2. w = CopyString(strings, c, sit, same)
    BY <1>21, <2>1
  <2>3. StringsIn(Alive, strings)
    BY DEF CopyInv
  <2>4. QED
    BY <1>7, <1>18, <2>2, <2>3, CopyGives
<1>23. strings' = w
  BY <1>2, <1>6, <1>21, <1>22, StringsSet DEF Gives, StringsIn
<1>24. \A x \in Node \ {c} : TextOf(x)' = TextOf(x)
  BY <1>22, <1>23, OneLearns DEF Gives
<1>25. OthersKeepText
  BY <1>7, <1>24, AliveIs DEF OthersKeepText
<1>26. Texts(al \cup {c}, w, more, before.text)
  <2>1. al \subseteq Node
    BY <1>10, AliveIs
  <2>2. /\ \A x \in DOMAIN of : Reads(strings, x) = before.text[of[x]]
        /\ \A q \in al \ DOMAIN of : Reads(strings, q) = before.text[q]
    BY <1>4, <1>10 DEF Texts
  <2>3. Reads(w, c) = Reads(strings, sit) /\ \A x \in Node \ {c} : Reads(w, x) = Reads(strings, x)
    BY <1>22 DEF Gives
  <2>4. Reads(w, c) = before.text[more[c]]
    BY <1>19, <1>17, <2>2, <2>3 DEF Longer
  <2>5. \A x \in DOMAIN of : Reads(w, x) = before.text[more[x]]
    BY <1>7, <1>10, <1>16, <1>17, <2>1, <2>2, <2>3 DEF Longer
  <2>6. \A q \in (al \cup {c}) \ DOMAIN more : Reads(w, q) = before.text[q]
    BY <1>7, <1>10, <1>17, <2>1, <2>2, <2>3 DEF Longer
  <2>7. QED
    BY <1>17, <2>4, <2>5, <2>6 DEF Texts, Longer
<1>27. JobOK(al \cup {c}, new, w, job')
  <2>1. CASE kids[sit] = <<>>
    <3>1. job' = [dn |-> dn, sn |-> sn, dit |-> dit, sit |-> sit, next |-> TRUE, before |-> before, of |-> more, failed |-> failed]
      BY <1>5, <1>9, <1>11, <2>1
    <3>2. JobAt(job', dn, sn, dit, sit, TRUE, before, more, failed)
      BY <3>1 DEF JobAt
    <3>3. Walk(al \cup {c}, new, before.kids, more, dn, sn, dit, sit, TRUE, failed)
      BY <1>14, <1>18, <2>1
    <3>4. QED
      BY <1>26, <3>2, <3>3, JobIsOK
  <2>2. CASE kids[sit] # <<>>
    <3>1. PICK s : s = Head(kids[sit])
      OBVIOUS
    <3>2. job' = [dn |-> dn, sn |-> sn, dit |-> c, sit |-> s, next |-> FALSE, before |-> before, of |-> more, failed |-> failed]
      BY <1>5, <1>9, <1>11, <2>2, <3>1
    <3>3. JobAt(job', dn, sn, c, s, FALSE, before, more, failed)
      BY <3>2 DEF JobAt
    <3>4. Walk(al \cup {c}, new, before.kids, more, dn, sn, c, s, FALSE, failed)
      BY <1>14, <1>18, <2>2, <3>1
    <3>5. QED
      BY <1>26, <3>3, <3>4, JobIsOK
  <2>3. QED
    BY <2>1, <2>2
<1>28. CopyInv'
  <2>1. edits' \in 0..MaxEdits
    BY <1>2 DEF CopyInv
  <2>2. Alive' = al \cup {c}
    BY <1>10, <1>20
  <2>3. StringsIn(al \cup {c}, w)
    BY <1>10, <1>22 DEF Gives
  <2>4. Forest(Alive', children') /\ StringsIn(Alive', strings') /\ JobOK(Alive', children', strings', job')
    BY <1>12, <1>18, <1>23, <1>27, <2>2, <2>3
  <2>5. QED
    BY <1>20, <2>1, <2>4 DEF CopyInv
<1>29. QED
  BY <1>25, <1>28

\* A turn of the inner loop.
LEMMA TurnKeeps ==
  ASSUME CopyInv, GoAcross \/ GoUp
  PROVE  CopyInv' /\ OthersKeepText
<1>1. InLoop(TRUE) /\ UNCHANGED <<children, docOf, string, allocated, sharing, content, edits>>
  BY DEF GoAcross, GoUp
<1>2. PICK dn, sn, dit, sit, before, of : \E failed \in BOOLEAN :
        /\ JobAt(job, dn, sn, dit, sit, TRUE, before, of, failed) /\ sit # None
        /\ Walk(Alive, children, before.kids, of, dn, sn, dit, sit, TRUE, failed)
        /\ Texts(Alive, strings, of, before.text)
  BY <1>1, InTheLoop
<1>3. PICK failed \in BOOLEAN :
        /\ JobAt(job, dn, sn, dit, sit, TRUE, before, of, failed) /\ sit # None
        /\ Walk(Alive, children, before.kids, of, dn, sn, dit, sit, TRUE, failed)
        /\ Texts(Alive, strings, of, before.text)
  BY <1>2
<1>4. job = [dn |-> dn, sn |-> sn, dit |-> dit, sit |-> sit, next |-> TRUE, before |-> before, of |-> of, failed |-> failed]
  BY <1>3 DEF JobAt
<1>5. job.sit = sit /\ job.sn = sn /\ job.dit = dit
  BY <1>4
<1>6. Forest(Alive, children)
  BY DEF CopyInv
<1>7. PICK q \in Node : \E h \in 1..Len(children[q]) :
        Turns(Alive, children, before.kids, of, dn, sn, dit, sit, failed, q, h)
  <2>1. PICK had : had = before.kids
    OBVIOUS
  <2>2. PICK kids : kids = children
    OBVIOUS
  <2>3. PICK al : al = Alive
    OBVIOUS
  <2>4. Walk(al, kids, had, of, dn, sn, dit, sit, TRUE, failed) /\ Forest(al, kids) /\ sit # None
    BY <1>3, <1>6, <2>1, <2>2, <2>3
  <2>5. \E q \in Node : \E h \in 1..Len(kids[q]) : Turns(al, kids, had, of, dn, sn, dit, sit, failed, q, h)
    BY ONLY <2>4, WalkGoes
  <2>6. QED
    BY <2>1, <2>2, <2>3, <2>5
<1>8. PICK h \in 1..Len(children[q]) : Turns(Alive, children, before.kids, of, dn, sn, dit, sit, failed, q, h)
  BY <1>7
<1>9. children[q][h] = sit
  BY <1>8 DEF Turns
<1>10. Parent(sit) = q
  BY <1>6, <1>9, ParentIs
<1>11. NextSibling(sit) = IF h = Len(children[q]) THEN None ELSE children[q][h + 1]
  BY <1>6, <1>9, NextSiblingIs
<1>12. children[q] \in Seq(Node) /\ Len(children[q]) \in Nat
  BY <1>6 DEF Forest
<1>13. CASE GoAcross
  <2>1. NextSibling(sit) # None /\ job' = [job EXCEPT !.sit = NextSibling(sit), !.next = FALSE]
    BY <1>5, <1>13 DEF GoAcross
  <2>2. h < Len(children[q])
    BY <1>11, <1>12, <2>1
  <2>3. PICK s : s = children[q][h + 1]
    OBVIOUS
  <2>4. NextSibling(sit) = s
    BY <1>11, <2>2, <2>3
  <2>5. job' = [dn |-> dn, sn |-> sn, dit |-> dit, sit |-> s, next |-> FALSE, before |-> before, of |-> of, failed |-> failed]
    BY <1>4, <2>1, <2>4
  <2>6. JobAt(job', dn, sn, dit, s, FALSE, before, of, failed)
    BY <2>5 DEF JobAt
  <2>7. Walk(Alive, children, before.kids, of, dn, sn, dit, s, FALSE, failed)
    BY <1>8, <2>2, <2>3 DEF Turns
  <2>8. JobOK(Alive, children, strings, job')
    BY <1>3, <2>6, <2>7, JobIsOK
  <2>9. QED
    BY <1>1, <2>8, LoopKeeps
<1>14. CASE GoUp
  <2>1. NextSibling(sit) = None /\ job' = [job EXCEPT !.sit = IF q = sn THEN None ELSE q, !.dit = Parent(dit)]
    BY <1>5, <1>10, <1>14 DEF GoUp
  <2>2. h = Len(children[q])
    <3>1. SUFFICES ASSUME h # Len(children[q]) PROVE FALSE
      OBVIOUS
    <3>2. PICK g : g = h + 1
      OBVIOUS
    <3>3. g \in 1..Len(children[q]) /\ children[q][g] = None
      BY <1>11, <1>12, <2>1, <3>1, <3>2
    <3>4. QED
      BY <1>12, <3>3, CopyAssumption
  <2>3. CASE q = sn
    <3>1. PICK x : x = Parent(dit)
      OBVIOUS
    <3>2. job' = [dn |-> dn, sn |-> sn, dit |-> x, sit |-> None, next |-> TRUE, before |-> before, of |-> of, failed |-> failed]
      BY <1>4, <2>1, <2>3, <3>1
    <3>3. JobAt(job', dn, sn, x, None, TRUE, before, of, failed)
      BY <3>2 DEF JobAt
    <3>4. Walk(Alive, children, before.kids, of, dn, sn, x, None, TRUE, failed)
      BY <1>8, <2>2, <2>3 DEF Turns
    <3>5. JobOK(Alive, children, strings, job')
      BY <1>3, <3>3, <3>4, JobIsOK
    <3>6. QED
      BY <1>1, <3>5, LoopKeeps
  <2>4. CASE q # sn
    <3>1. PICK up \in Node : \E g \in 1..Len(children[up]) :
            children[up][g] = dit /\ Walk(Alive, children, before.kids, of, dn, sn, up, q, TRUE, failed)
      BY <1>8, <2>2, <2>4 DEF Turns
    <3>2. Parent(dit) = up
      BY <1>6, <3>1, ParentIs
    <3>3. job' = [dn |-> dn, sn |-> sn, dit |-> up, sit |-> q, next |-> TRUE, before |-> before, of |-> of, failed |-> failed]
      BY <1>4, <2>1, <2>4, <3>2
    <3>4. JobAt(job', dn, sn, up, q, TRUE, before, of, failed)
      BY <3>3 DEF JobAt
    <3>5. JobOK(Alive, children, strings, job')
      BY <1>3, <3>1, <3>4, JobIsOK
    <3>6. QED
      BY <1>1, <3>5, LoopKeeps
  <2>5. QED
    BY <2>3, <2>4
<1>15. QED
  BY <1>13, <1>14

LEMMA EndCopyKeeps ==
  ASSUME CopyInv, EndCopy
  PROVE  CopyInv' /\ OthersKeepText
<1>1. Alive' = Alive /\ strings' = strings /\ job' = None /\ children' = children /\ docOf' = docOf /\ edits' = edits
  BY DEF EndCopy, Alive, strings
<1>2. CopyInv'
  BY <1>1 DEF CopyInv
<1>3. OthersKeepText
  BY DEF EndCopy, OthersKeepText, TextOf
<1>4. QED
  BY <1>2, <1>3

-----------------------------------------------------------------------------
(* A node is destroyed with all that is below it. *)

LEMMA SubtreeIs ==
  ASSUME NEW n \in Node, NEW D, D = Subtree(n), children \in [Node -> Seq(Node)],
         \A p \in Node : \A i \in 1..Len(children[p]) : children[p][i] \in Node
  PROVE  /\ D \subseteq Node /\ n \in D
         /\ \A p \in D : \A i \in 1..Len(children[p]) : children[p][i] \in D
         /\ \A S \in SUBSET Node : n \in S /\ (\A p \in S : \A i \in 1..Len(children[p]) : children[p][i] \in S) => D \subseteq S
<1> DEFINE closed == {S \in SUBSET Node : n \in S /\ \A p \in S : ToSet(children[p]) \subseteq S}
<1>1. D = {m \in Node : \A S \in closed : m \in S}
  BY Zenon DEF Subtree
<1>2. ASSUME NEW p \in Node, NEW S PROVE ToSet(children[p]) \subseteq S <=> \A i \in 1..Len(children[p]) : children[p][i] \in S
  <2>1. DOMAIN children[p] = 1..Len(children[p])
    OBVIOUS
  <2>2. QED
    BY <2>1 DEF ToSet
<1>3. \A S : S \in closed <=> S \in SUBSET Node /\ n \in S /\ \A p \in S : \A i \in 1..Len(children[p]) : children[p][i] \in S
  BY <1>2
<1> HIDE DEF closed
<1>4. D \subseteq Node /\ n \in D
  BY <1>1, <1>3
<1>5. ASSUME NEW p \in D, NEW i \in 1..Len(children[p]) PROVE children[p][i] \in D
  <2>1. children[p][i] \in Node
    BY <1>4
  <2>2. ASSUME NEW S \in closed PROVE children[p][i] \in S
    <3>1. p \in S
      BY <1>1
    <3>2. QED
      BY <1>3, <3>1
  <2>3. QED
    BY <1>1, <2>1, <2>2
<1>6. ASSUME NEW S \in SUBSET Node, n \in S, \A p \in S : \A i \in 1..Len(children[p]) : children[p][i] \in S
      PROVE  D \subseteq S
  <2>1. S \in closed
    BY <1>3, <1>6
  <2>2. QED
    BY <1>1, <2>1
<1>7. QED
  BY <1>4, <1>5, <1>6

\* Only n is in the list of a node that stays.
LEMMA EdgeOfSubtree ==
  ASSUME NEW al, Forest(al, children), NEW n \in Node, NEW D, D = Subtree(n),
         NEW p \in Node \ D, NEW j \in 1..Len(children[p]), children[p][j] # n
  PROVE  children[p][j] \notin D
<1>1. /\ D \subseteq Node /\ n \in D
      /\ \A q \in D : \A i \in 1..Len(children[q]) : children[q][i] \in D
      /\ \A S \in SUBSET Node : n \in S /\ (\A q \in S : \A i \in 1..Len(children[q]) : children[q][i] \in S) => D \subseteq S
  <2>1. children \in [Node -> Seq(Node)] /\ \A q \in Node : \A i \in 1..Len(children[q]) : children[q][i] \in Node
    BY DEF Forest
  <2>2. QED
    BY <2>1, SubtreeIs
<1>2. SUFFICES ASSUME children[p][j] \in D PROVE FALSE
  OBVIOUS
<1>3. PICK y : y = children[p][j]
  OBVIOUS
<1>4. PICK S : S = D \ {y}
  OBVIOUS
<1>5. S \in SUBSET Node /\ n \in S
  BY <1>1, <1>3, <1>4
<1>6. ASSUME NEW q \in S, NEW i \in 1..Len(children[q]) PROVE children[q][i] \in S
  <2>1. q \in D /\ q \in Node /\ q # p
    BY <1>1, <1>4
  <2>2. children[q][i] # y
    <3>1. OnePlace(children)
      BY DEF Forest
    <3>2. QED
      BY <1>3, <2>1, <3>1, OneSpot
  <2>3. QED
    BY <1>1, <1>4, <2>1, <2>2
<1>7. D \subseteq S
  BY <1>1, <1>5, <1>6
<1>8. QED
  BY <1>2, <1>3, <1>4, <1>7

\* f tells where the members of w, n not among them, are in list.
Picks(list, n, w, f) ==
  /\ f \in [1..Len(w) -> 1..Len(list)]
  /\ \A i \in 1..Len(w) : w[i] = list[f[i]] /\ w[i] # n
  /\ \A i, j \in 1..Len(w) : f[i] = f[j] => i = j

\* A list that stays.
Rid(list, n, w) == w = IF Contains(list, n) THEN RemoveAt(list, CHOOSE i \in DOMAIN list : list[i] = n) ELSE list

LEMMA ListRemoves ==
  ASSUME NEW list \in Seq(Node), \A i, j \in 1..Len(list) : list[i] = list[j] => i = j, NEW n,
         NEW w, Rid(list, n, w)
  PROVE  w \in Seq(Node) /\ \E f : Picks(list, n, w, f)
<1> USE DEF Rid
<1>1. Len(list) \in Nat /\ DOMAIN list = 1..Len(list)
  OBVIOUS
<1>2. CASE ~ Contains(list, n)
  <2>1. w = list /\ \A i \in 1..Len(list) : list[i] # n
    BY <1>2 DEF Contains
  <2> DEFINE f == [i \in 1..Len(w) |-> i]
  <2>2. f \in [1..Len(w) -> 1..Len(list)] /\ \A i \in 1..Len(w) : f[i] = i
    BY <2>1
  <2> HIDE DEF f
  <2>3. Picks(list, n, w, f)
    BY <2>1, <2>2 DEF Picks
  <2>4. QED
    BY <2>1, <2>3
<1>3. CASE Contains(list, n)
  <2>1. PICK z : z = CHOOSE i \in DOMAIN list : list[i] = n
    OBVIOUS
  <2>2. z \in 1..Len(list) /\ list[z] = n
    <3>1. \E i \in DOMAIN list : list[i] = n
      BY <1>1, <1>3 DEF Contains
    <3>2. z \in DOMAIN list /\ list[z] = n
      BY <2>1, <3>1
    <3>3. QED
      BY <1>1, <3>2
  <2>3. w = RemoveAt(list, z)
    BY <1>3, <2>1
  <2>4. Lacking(Node, list, z, w)
    BY <2>2, <2>3, RemoveIs
  <2>5. w \in Seq(Node) /\ Len(w) = Len(list) - 1
    BY <2>4 DEF Lacking
  <2> DEFINE f == [i \in 1..Len(w) |-> IF i < z THEN i ELSE i + 1]
  <2>6. ASSUME NEW i \in 1..Len(w)
        PROVE  /\ f[i] = (IF i < z THEN i ELSE i + 1) /\ f[i] \in 1..Len(list) /\ f[i] # z
               /\ w[i] = list[f[i]]
    <3>1. f[i] = (IF i < z THEN i ELSE i + 1)
      OBVIOUS
    <3> HIDE DEF f
    <3>2. PICK l : l = Len(list)
      OBVIOUS
    <3>3. l \in Nat /\ i \in 1..(l - 1) /\ z \in 1..l
      BY <1>1, <2>2, <2>5, <3>2
    <3>4. f[i] \in 1..Len(list) /\ f[i] # z
      <4>1. PICK k : k = f[i]
        OBVIOUS
      <4>2. k \in 1..l /\ k # z
        BY ONLY <3>1, <3>3, <4>1
      <4>3. QED
        BY <3>2, <4>1, <4>2
    <3>5. CASE i < z
      <4>1. i \in 1..(z - 1)
        BY <2>2, <3>5
      <4>2. QED
        BY <2>4, <3>1, <3>5, <4>1 DEF Lacking
    <3>6. CASE ~ (i < z)
      <4>1. i \in z..(Len(list) - 1)
        <5>1. i \in z..(l - 1)
          BY ONLY <3>3, <3>6
        <5>2. QED
          BY <3>2, <5>1
      <4>2. QED
        BY <2>4, <3>1, <3>6, <4>1 DEF Lacking
    <3>7. QED
      BY <3>1, <3>4, <3>5, <3>6
  <2>7. f \in [1..Len(w) -> 1..Len(list)]
    BY <2>6
  <2> HIDE DEF f
  <2>8. ASSUME NEW i \in 1..Len(w), NEW j \in 1..Len(w), f[i] = f[j] PROVE i = j
    <3>1. PICK k : k = f[i]
      OBVIOUS
    <3>2. k = (IF i < z THEN i ELSE i + 1) /\ k = (IF j < z THEN j ELSE j + 1)
      BY <2>6, <2>8, <3>1
    <3>3. i \in Int /\ j \in Int /\ z \in Int
      BY <2>2
    <3>4. QED
      BY ONLY <3>2, <3>3
  <2>9. ASSUME NEW i \in 1..Len(w) PROVE w[i] # n
    <3>1. PICK k : k = f[i]
      OBVIOUS
    <3>2. k \in 1..Len(list) /\ k # z /\ w[i] = list[k]
      BY <2>6, <3>1
    <3>3. QED
      BY <2>2, <3>2
  <2>10. Picks(list, n, w, f)
    BY <2>6, <2>7, <2>8, <2>9 DEF Picks
  <2>11. QED
    BY <2>5, <2>10
<1>4. QED
  BY <1>2, <1>3

LEMMA RemoveChildKeeps ==
  ASSUME CopyInv, NEW n \in Node, RemoveChild(n)
  PROVE  CopyInv' /\ OthersKeepText
<1>1. PICK D : D = Subtree(n)
  OBVIOUS
<1> DEFINE without(list) == IF Contains(list, n) THEN RemoveAt(list, CHOOSE i \in DOMAIN list : list[i] = n) ELSE list
<1>2. /\ Edited
      /\ children' = [p \in Node |-> IF p \in D THEN <<>> ELSE without(children[p])]
      /\ docOf' = [m \in Node |-> IF m \in D THEN None ELSE docOf[m]]
      /\ string' = [m \in Node |-> IF m \in D THEN None ELSE string[m]]
      /\ allocated' = allocated \ D /\ sharing' = sharing \ D /\ content' = content
  BY <1>1 DEF RemoveChild, Destroyed
<1>3. PICK al : al = Alive
  OBVIOUS
<1>4. PICK kids : kids = children
  OBVIOUS
<1>5. Forest(al, kids) /\ Forest(al, children) /\ StringsIn(al, strings)
  BY <1>3, <1>4 DEF CopyInv
<1>6. Alive' = al \ D
  <2>1. \A m \in Node : docOf'[m] = IF m \in D THEN None ELSE docOf[m]
    BY <1>2
  <2>2. QED
    BY <1>3, <2>1 DEF Alive
<1>7. PICK less : less = al \ D
  OBVIOUS
<1>8. PICK new : new = children'
  OBVIOUS
<1>9. ASSUME NEW p \in Node PROVE new[p] \in Seq(Node) /\ (\E f : Picks(kids[p], n, new[p], f)) /\ (p \in D => new[p] = <<>>)
  <2>1. CASE p \in D
    <3>1. new[p] = <<>>
      BY <1>2, <1>8, <2>1
    <3> DEFINE f == [i \in 1..0 |-> i]
    <3>2. Picks(kids[p], n, <<>>, f)
      BY DEF Picks
    <3> HIDE DEF f
    <3>3. QED
      BY <3>1, <3>2
  <2>2. CASE p \notin D
    <3>1. PICK list : list = kids[p]
      OBVIOUS
    <3>2. PICK w : w = new[p]
      OBVIOUS
    <3>3. w = without(list)
      BY <1>2, <1>4, <1>8, <2>2, <3>1, <3>2
    <3>4. list \in Seq(Node) /\ \A i, j \in 1..Len(list) : list[i] = list[j] => i = j
      BY <1>5, <3>1 DEF Forest, OnePlace
    <3>5. Rid(list, n, w)
      BY <3>3 DEF Rid
    <3>6. w \in Seq(Node) /\ \E f : Picks(list, n, w, f)
      BY ONLY <3>4, <3>5, ListRemoves
    <3>7. QED
      BY <2>2, <3>1, <3>2, <3>6
  <2>3. QED
    BY <2>1, <2>2
<1> HIDE DEF without
<1>10. Forest(less, new)
  <2> DEFINE e == [p \in Node |-> CHOOSE f : Picks(kids[p], n, new[p], f)]
  <2>1. ASSUME NEW p \in Node PROVE Picks(kids[p], n, new[p], e[p])
    <3>1. e[p] = CHOOSE f : Picks(kids[p], n, new[p], f)
      OBVIOUS
    <3> HIDE DEF e
    <3>2. QED
      BY <1>9, <3>1
  <2> HIDE DEF e
  <2>2. new \in [Node -> Seq(Node)]
    <3>1. DOMAIN new = Node /\ new = [p \in Node |-> new[p]]
      BY <1>2, <1>8
    <3>2. QED
      BY <1>9, <3>1
  <2>3. ASSUME NEW p \in Node, NEW i \in 1..Len(new[p])
        PROVE  e[p][i] \in 1..Len(kids[p]) /\ new[p][i] = kids[p][e[p][i]]
    BY <2>1 DEF Picks
  <2>4. ASSUME NEW p \in Node, NEW i \in 1..Len(new[p]), NEW j \in 1..Len(new[p]), e[p][i] = e[p][j]
        PROVE  i = j
    BY <2>1, <2>4 DEF Picks
  <2>5. ASSUME NEW p \in Node \ less PROVE new[p] = <<>>
    <3>1. CASE p \in D
      BY <1>9, <3>1
    <3>2. CASE p \notin D
      <4>1. p \notin al
        BY <1>7, <3>2
      <4>2. Len(kids[p]) = 0
        BY <1>5, <4>1 DEF Forest
      <4>3. \A i \in 1..Len(new[p]) : FALSE
        BY <2>3, <4>2
      <4>4. new[p] \in Seq(Node)
        BY <1>9
      <4>5. QED
        BY ONLY <4>3, <4>4
    <3>3. QED
      BY <3>1, <3>2
  <2>6. ASSUME NEW p \in Node, NEW i \in 1..Len(new[p]) PROVE new[p][i] \in less
    <3>1. p \notin D
      <4>1. SUFFICES ASSUME p \in D PROVE FALSE
        OBVIOUS
      <4>2. new[p] = <<>>
        BY <1>9, <4>1
      <4>3. QED
        BY <4>2
    <3>2. PICK j \in 1..Len(kids[p]) : new[p][i] = kids[p][j]
      <4>1. PICK j : j = e[p][i]
        OBVIOUS
      <4>2. QED
        BY <2>3, <4>1
    <3>3. new[p][i] # n
      BY <2>1 DEF Picks
    <3>4. kids[p][j] \in al
      BY <1>5 DEF Forest
    <3>5. kids[p][j] \notin D
      BY <1>1, <1>4, <1>5, <3>1, <3>2, <3>3, EdgeOfSubtree
    <3>6. QED
      BY <1>7, <3>2, <3>4, <3>5
  <2>7. less \subseteq al
    BY <1>7
  <2>8. QED
    <3>1. Thins(kids, less, new, e)
      BY <2>3, <2>4, <2>5, <2>6 DEF Thins
    <3>2. QED
      BY <1>5, <2>2, <2>7, <3>1, ForestShrinks
<1>11. StringsIn(less, strings') /\ \A m \in less : TextOf(m)' = TextOf(m)
  <2>1. /\ strings.string = string /\ strings.allocated = allocated /\ strings.sharing = sharing /\ strings.content = content
        /\ strings'.string = string' /\ strings'.allocated = allocated' /\ strings'.sharing = sharing' /\ strings'.content = content'
    BY DEF strings
  <2>2. /\ string \in [Node -> Places \cup {None}] /\ content \in [Places -> Text]
        /\ allocated \subseteq al /\ sharing \subseteq al /\ al \subseteq Node
        /\ \A m \in Node \ al : string[m] = None
    BY <1>5, <2>1 DEF StringsIn, StringsType
  <2>3. \A m \in Node : string'[m] = IF m \in D THEN None ELSE string[m]
    BY <1>2
  <2>4. string' \in [Node -> Places \cup {None}] /\ content' \in [Places -> Text]
    BY <1>2, <2>2
  <2>5. StringsType(strings')
    BY <1>2, <2>2, <2>4 DEF StringsType, strings
  <2>6. Owned(less, strings')
    <3>1. \A m \in less : m \in al /\ m \notin D /\ m \in Node /\ string'[m] = string[m]
      BY <1>7, <2>2, <2>3
    <3>2. \A m \in less : string'[m] \in Heap <=> m \in allocated'
      BY <1>2, <1>5, <2>1, <3>1 DEF StringsIn, Owned
    <3>3. \A k, m \in less : k # m /\ string'[k] = string'[m] /\ string'[k] # None => {k, m} \subseteq sharing' /\ string'[k] \in Buffer
      BY <1>2, <1>5, <2>1, <3>1 DEF StringsIn, Owned
    <3>4. QED
      BY <2>1, <3>2, <3>3 DEF Owned
  <2>7. allocated' \subseteq less /\ sharing' \subseteq less /\ less \subseteq Node
    BY <1>2, <1>7, <2>2
  <2>8. \A m \in Node \ less : string'[m] = None
    BY <1>7, <2>2, <2>3
  <2>9. StringsIn(less, strings')
    BY <2>1, <2>5, <2>6, <2>7, <2>8 DEF StringsIn
  <2>10. \A m \in less : TextOf(m)' = TextOf(m)
    BY <1>2, <1>7, <2>2, <2>3 DEF TextOf
  <2>11. QED
    BY <2>9, <2>10
<1>12. OthersKeepText
  BY <1>6, <1>7, <1>11 DEF OthersKeepText
<1>13. CopyInv'
  <2>1. edits' \in 0..MaxEdits /\ job' = None
    BY <1>2, EditedIs DEF RemoveChild
  <2>2. docOf' \in [Node -> Document \cup {None}]
    BY <1>2 DEF CopyInv
  <2>3. Forest(Alive', children') /\ StringsIn(Alive', strings')
    BY <1>6, <1>7, <1>8, <1>10, <1>11
  <2>4. QED
    BY <2>1, <2>2, <2>3 DEF CopyInv
<1>14. QED
  BY <1>12, <1>13

-----------------------------------------------------------------------------
LEMMA NextCopyInv == CopyInv /\ [CopyNext]_copyVars => CopyInv' /\ OthersKeepText
<1>1. SUFFICES ASSUME CopyInv, [CopyNext]_copyVars PROVE CopyInv' /\ OthersKeepText
  OBVIOUS
<1>2. CASE \E n \in Node, t \in Text \cup {None} : SetString(n, t)
  BY <1>1, <1>2, SetStringKeeps
<1>3. CASE \E p \in Alive, sn \in Node : \E i \in 1..(Len(children[p]) + 1) : BeginCopy(p, sn, i)
  BY <1>1, <1>3, BeginCopyKeeps
<1>4. CASE SkipCopy
  BY <1>1, <1>4, SkipCopyKeeps
<1>5. CASE FailNode
  BY <1>1, <1>5, FailNodeKeeps
<1>6. CASE CopyNode
  BY <1>1, <1>6, CopyNodeKeeps
<1>7. CASE GoAcross \/ GoUp
  BY <1>1, <1>7, TurnKeeps
<1>8. CASE EndCopy
  BY <1>1, <1>8, EndCopyKeeps
<1>9. CASE \E n \in Node : RemoveChild(n)
  BY <1>1, <1>9, RemoveChildKeeps
<1>10. CASE UNCHANGED copyVars
  <2>1. Alive' = Alive /\ strings' = strings /\ children' = children /\ docOf' = docOf /\ job' = job /\ edits' = edits
    BY <1>10 DEF copyVars, Alive, strings
  <2>2. CopyInv'
    BY <1>1, <2>1 DEF CopyInv
  <2>3. OthersKeepText
    BY <1>10 DEF OthersKeepText, TextOf, copyVars
  <2>4. QED
    BY <2>2, <2>3
<1>11. QED
  BY <1>1, <1>2, <1>3, <1>4, <1>5, <1>6, <1>7, <1>8, <1>9, <1>10 DEF CopyNext, CopyStep

(***************************************************************************)
(* For any nodes, strings and loaded trees, and wherever memory runs out:  *)
(* node_copy_tree() leaves a copy of the tree as it was when it began,     *)
(* also when the copy is below that tree, no two nodes own a string, and   *)
(* no call changes what a node reads that it was not made for.             *)
(***************************************************************************)
THEOREM CopiesFaithfulAlways == CopySpec => CopiesFaithful
<1>1. CopyInv => CopyTypeOK /\ StringsOwned /\ CopyFaithful
  BY InvCopyType, InvOwned, InvFaithful
<1>2. QED
  BY <1>1, InitCopyInv, NextCopyInv, PTL DEF CopySpec, CopiesFaithful
=============================================================================
