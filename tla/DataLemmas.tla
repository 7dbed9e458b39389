----------------------------- MODULE DataLemmas -----------------------------
(***************************************************************************)
(* Facts about data that the proofs of several components need: induction  *)
(* over the naturals and over the parts of a finite set, stacks kept as    *)
(* sequences with their top last, sums, remainders and concatenations.     *)
(***************************************************************************)
EXTENDS Integers, Sequences, SequencesExt, SequenceTheorems, FiniteSetTheorems,
        WellFoundedInduction, TLAPS

\* A set of naturals has a least element.
LEMMA SetMin ==
  ASSUME NEW T, T \subseteq Nat, T # {}
  PROVE \E x \in T : \A y \in T : x <= y
<1>1. IsWellFoundedOn(OpToRel(<, Nat), Nat)
  BY NatLessThanWellFounded
<1>2. \A x, y \in Nat : x < y => <<x, y>> \in OpToRel(<, Nat)
  BY DEF OpToRel
<1> HIDE DEF OpToRel
<1>3. PICK x \in T : \A y \in T : ~ (<<y, x>> \in OpToRel(<, Nat))
  BY <1>1, WFMin
<1>4. \A y \in T : ~ (y < x)
  BY <1>2, <1>3
<1>5. QED BY <1>4

\* Induction, for a set in place of a predicate.
LEMMA NatSetInduction ==
  ASSUME NEW T, 0 \in T, \A n \in Nat : n \in T => n + 1 \in T
  PROVE Nat \subseteq T
<1>1. SUFFICES ASSUME Nat \ T # {} PROVE FALSE
  OBVIOUS
<1>2. PICK x \in Nat \ T : \A y \in Nat \ T : x <= y
  BY <1>1, SetMin
<1>3. x # 0 /\ x - 1 \in Nat
  OBVIOUS
<1>4. x - 1 \in T
  BY <1>2, <1>3
<1>5. QED BY <1>3, <1>4

\* And one that is bounded has a greatest.
LEMMA SetMax ==
  ASSUME NEW n \in Nat, NEW T, T \subseteq 0..n, T # {}
  PROVE  \E x \in T : \A y \in T : y <= x
<1> DEFINE U == {i \in Nat : n - i \in T}
<1>1. \A y \in T : n - y \in U
  OBVIOUS
<1>2. PICK i \in U : \A j \in U : i <= j
  BY <1>1, SetMin
<1>3. n - i \in T /\ \A y \in T : i <= n - y
  BY <1>1, <1>2
<1>4. QED
  BY <1>3

\* A function defined by recursion on the naturals up to n exists.
StepsIn(step, n, V) == step \in [1..n -> [V -> V]]
RecursionOf(g, n, V, base, step) ==
  g \in [0..n -> V] /\ g[0] = base /\ \A i \in 1..n : g[i] = step[i][g[i - 1]]

LEMMA NatRecursion ==
  ASSUME NEW n \in Nat, NEW V, NEW base \in V, NEW step, StepsIn(step, n, V)
  PROVE  \E g : RecursionOf(g, n, V, base, step)
<1> DEFINE Until(g, m) == RecursionOf(g, m, V, base, step)
<1> USE DEF RecursionOf, StepsIn
<1> DEFINE T == {m \in Nat : m <= n => \E g : Until(g, m)}
<1>1. 0 \in T
  <2>1. Until([i \in 0..0 |-> base], 0)
    OBVIOUS
  <2> HIDE DEF Until
  <2>2. QED
    BY <2>1
<1>2. ASSUME NEW m \in Nat, m \in T
      PROVE  m + 1 \in T
  <2>1. SUFFICES ASSUME m + 1 <= n
                 PROVE  \E g : Until(g, m + 1)
    OBVIOUS
  <2>2. PICK g : Until(g, m)
    BY <1>2, <2>1
  <2> DEFINE h == [i \in 0..(m + 1) |-> IF i = m + 1 THEN step[m + 1][g[m]] ELSE g[i]]
  <2>3. g[m] \in V /\ step[m + 1][g[m]] \in V
    <3>1. m \in 0..m /\ m + 1 \in 1..n
      BY <2>1
    <3>2. QED
      BY <2>2, <3>1
  <2>4. h \in [0..(m + 1) -> V] /\ h[0] = base
    BY <2>2, <2>3
  <2>5. ASSUME NEW i \in 1..(m + 1)
        PROVE  h[i] = step[i][h[i - 1]]
    <3>1. h[i - 1] = g[i - 1]
      OBVIOUS
    <3>2. CASE i = m + 1
      BY <3>1, <3>2
    <3>3. CASE i # m + 1
      <4>1. i \in 1..m /\ h[i] = g[i]
        BY <3>3
      <4>2. QED
        BY <2>2, <3>1, <4>1
    <3>4. QED
      BY <3>2, <3>3
  <2>6. Until(h, m + 1)
    BY <2>4, <2>5
  <2> HIDE DEF h, Until
  <2>7. QED
    BY <2>6
<1>3. \A m \in Nat : m \in T => m + 1 \in T
  BY <1>2
<1> HIDE DEF T
<1>4. n \in T
  BY <1>1, <1>3, NatSetInduction
<1>5. QED
  BY <1>4 DEF T

-----------------------------------------------------------------------------
\* push_back: one element more, on top of those there were.
LEMMA PushType ==
  ASSUME NEW S, NEW s \in Seq(S), NEW e \in S
  PROVE  Append(s, e) \in Seq(S)
OBVIOUS

LEMMA PushLen ==
  ASSUME NEW S, NEW s \in Seq(S), NEW e
  PROVE  Len(Append(s, e)) = Len(s) + 1
OBVIOUS

LEMMA PushKeeps ==
  ASSUME NEW S, NEW s \in Seq(S), NEW e, NEW i \in 1..Len(s)
  PROVE  Append(s, e)[i] = s[i]
OBVIOUS

LEMMA PushTop ==
  ASSUME NEW S, NEW s \in Seq(S), NEW e
  PROVE  Last(Append(s, e)) = e
<1>1. Len(Append(s, e)) = Len(s) + 1
  OBVIOUS
<1>2. Append(s, e)[Len(s) + 1] = e
  OBVIOUS
<1>3. QED
  BY <1>1, <1>2 DEF Last

\* back.
LEMMA TopType ==
  ASSUME NEW S, NEW s \in Seq(S), s # <<>>
  PROVE  Last(s) \in S
<1>1. Len(s) \in 1..Len(s)
  OBVIOUS
<1>2. QED
  BY <1>1, ElementOfSeq DEF Last

\* pop_back: one element less, and the others stay.
LEMMA PopType ==
  ASSUME NEW S, NEW s \in Seq(S), s # <<>>
  PROVE  Front(s) \in Seq(S)
BY DEF Front

LEMMA PopLen ==
  ASSUME NEW S, NEW s \in Seq(S), s # <<>>
  PROVE  Len(Front(s)) = Len(s) - 1
<1>1. Len(s) \in Nat /\ Len(s) > 0
  OBVIOUS
<1>2. \A i \in 1..(Len(s) - 1) : s[i] \in S
  BY ElementOfSeq
<1>3. Len(SubSeq(s, 1, Len(s) - 1))
        = IF 1 <= Len(s) - 1 THEN (Len(s) - 1) - 1 + 1 ELSE 0
  BY <1>1, <1>2, SubSeqProperties
<1>4. ASSUME NEW n \in Nat, n > 0
      PROVE  (IF 1 <= n - 1 THEN (n - 1) - 1 + 1 ELSE 0) = n - 1
  BY <1>4
<1>5. Len(SubSeq(s, 1, Len(s) - 1)) = Len(s) - 1
  BY ONLY <1>1, <1>3, <1>4, Zenon
<1>6. QED
  BY <1>5, Zenon DEF Front

LEMMA PopKeeps ==
  ASSUME NEW S, NEW s \in Seq(S), s # <<>>, NEW i \in 1..(Len(s) - 1)
  PROVE  Front(s)[i] = s[i]
<1>1. 1 + i - 1 = i /\ i \in 1..((Len(s) - 1) - 1 + 1)
  OBVIOUS
<1>2. SubSeq(s, 1, Len(s) - 1)[i] = s[1 + i - 1]
  BY <1>1
<1>3. QED
  BY <1>1, <1>2 DEF Front

\* pop_back undoes push_back.
LEMMA PopPush ==
  ASSUME NEW S, NEW s \in Seq(S), NEW e \in S
  PROVE  Front(Append(s, e)) = s
<1> DEFINE a == Append(s, e)
<1>1. a \in Seq(S) /\ a # <<>> /\ Len(a) = Len(s) + 1
  <2>1. a \in Seq(S)
    OBVIOUS
  <2>2. Len(a) = Len(s) + 1
    OBVIOUS
  <2>3. Len(a) # 0
    BY <2>2
  <2>4. QED
    BY <2>1, <2>2, <2>3
<1>2. Front(a) \in Seq(S) /\ Len(Front(a)) = Len(s)
  <2>1. Front(a) \in Seq(S)
    BY <1>1, PopType
  <2>2. Len(Front(a)) = Len(a) - 1
    BY <1>1, PopLen
  <2>3. QED
    BY <1>1, <2>1, <2>2
<1>3. ASSUME NEW i \in 1..Len(s)
      PROVE  Front(a)[i] = s[i]
  <2>1. i \in 1..(Len(a) - 1)
    BY <1>1
  <2>2. Front(a)[i] = a[i]
    BY <1>1, <2>1, PopKeeps
  <2>3. QED
    BY <2>2
<1>4. QED
  BY <1>2, <1>3

\* push_back of the top undoes pop_back.
LEMMA PushPop ==
  ASSUME NEW S, NEW s \in Seq(S), s # <<>>
  PROVE  Append(Front(s), Last(s)) = s
<1> DEFINE f == Front(s)
           a == Append(f, Last(s))
<1>1. f \in Seq(S) /\ Last(s) \in S
  BY PopType, TopType
<1>2. Len(f) = Len(s) - 1
  BY PopLen
<1>3. a \in Seq(S) /\ Len(a) = Len(s)
  BY <1>1, <1>2
<1>4. ASSUME NEW i \in 1..Len(s)
      PROVE  a[i] = s[i]
  <2>1. CASE i = Len(s)
    BY <1>1, <1>2, <2>1 DEF Last
  <2>2. CASE i # Len(s)
    <3>1. i \in 1..(Len(s) - 1)
      BY <2>2
    <3>2. f[i] = s[i]
      BY <3>1, PopKeeps
    <3>3. a[i] = f[i]
      BY <1>1, <1>2, <3>1
    <3>4. QED
      BY <3>2, <3>3
  <2>3. QED
    BY <2>1, <2>2
<1>5. QED
  BY <1>3, <1>4
-----------------------------------------------------------------------------
\* What the fold takes first of a set.
Taken(T) == CHOOSE x \in T : TRUE

\* g sums up f over every part of S, as the fold defines it.
SumsOf(g, f, S) ==
  g = [T \in SUBSET S |-> IF T = {} THEN 0 ELSE f[Taken(T)] + g[T \ {Taken(T)}]]

LEMMA TakenIn ==
  ASSUME NEW T, T # {}
  PROVE  Taken(T) \in T
BY DEF Taken

\* A part of a finite set, and one with an element less.
LEMMA FinitePart ==
  ASSUME NEW S, IsFiniteSet(S), NEW T \in SUBSET S
  PROVE  /\ IsFiniteSet(T) /\ Cardinality(T) \in Nat
         /\ \A x \in T : Cardinality(T) > 0 /\ Cardinality(T \ {x}) = Cardinality(T) - 1
<1>1. IsFiniteSet(T) /\ Cardinality(T) \in Nat
  BY FS_Subset, FS_CardinalityType
<1>2. ASSUME NEW x \in T PROVE Cardinality(T) # 0
  BY <1>1, <1>2, FS_EmptySet
<1>3. \A x \in T : Cardinality(T \ {x}) = Cardinality(T) - 1
  BY <1>1, FS_RemoveElement
<1>4. QED
  BY <1>1, <1>2, <1>3

\* Induction over the parts of a finite set.
LEMMA PartsInduction ==
  ASSUME NEW S, IsFiniteSet(S), NEW P,
         \A T \in SUBSET S : (\A x \in T : T \ {x} \in P) => T \in P
  PROVE  SUBSET S \subseteq P
<1> DEFINE N == {n \in Nat : \A T \in SUBSET S : Cardinality(T) = n => T \in P}
<1>1. 0 \in N
  <2>1. ASSUME NEW T \in SUBSET S, Cardinality(T) = 0, NEW x \in T
        PROVE  FALSE
    <3>1. Cardinality(T) > 0
      BY FinitePart
    <3>2. QED
      BY <2>1, <3>1
  <2>2. QED
    BY <2>1
<1>2. ASSUME NEW n \in Nat, n \in N
      PROVE  n + 1 \in N
  <2>1. SUFFICES ASSUME NEW T \in SUBSET S, Cardinality(T) = n + 1
                 PROVE  T \in P
    OBVIOUS
  <2>2. ASSUME NEW x \in T
        PROVE  T \ {x} \in P
    <3>1. Cardinality(T \ {x}) = n
      BY <2>1, FinitePart
    <3>2. QED
      BY <1>2, <3>1
  <2>3. QED
    BY <2>2
<1>3. \A n \in Nat : n \in N => n + 1 \in N
  BY <1>2
<1> HIDE DEF N
<1>4. Nat \subseteq N
  BY <1>1, <1>3, NatSetInduction
<1>5. QED
  BY <1>4, FinitePart DEF N

\* The function that SumFunction chooses exists.
LEMMA SumsExist ==
  ASSUME NEW f, NEW S, IsFiniteSet(S)
  PROVE  \E g : SumsOf(g, f, S)
<1> DEFINE Small(n) == {T \in SUBSET S : Cardinality(T) <= n}
           SumsUpTo(g, n) ==
             g = [T \in Small(n) |-> IF T = {} THEN 0 ELSE f[Taken(T)] + g[T \ {Taken(T)}]]
           N == {n \in Nat : \E g : SumsUpTo(g, n)}
<1>0. \A T \in SUBSET S : T # {} => Taken(T) \in T /\ T \ {Taken(T)} \in SUBSET S
  BY TakenIn
<1>1. 0 \in N
  <2> DEFINE g == [T \in Small(0) |-> 0]
  <2>1. ASSUME NEW T \in Small(0) PROVE T = {}
    <3>1. SUFFICES ASSUME NEW x \in T PROVE FALSE
      OBVIOUS
    <3>2. Cardinality(T) > 0 /\ Cardinality(T) \in Nat
      BY FinitePart
    <3>3. QED
      BY <3>2
  <2>2. SumsUpTo(g, 0)
    BY <2>1
  <2>3. QED
    BY <2>2
<1>2. ASSUME NEW n \in Nat, n \in N
      PROVE  n + 1 \in N
  <2>1. PICK g : SumsUpTo(g, n)
    BY <1>2
  <2> DEFINE h == [T \in Small(n + 1) |-> IF T = {} THEN 0 ELSE f[Taken(T)] + g[T \ {Taken(T)}]]
  <2>2. \A T \in Small(n + 1) : T # {} => T \ {Taken(T)} \in Small(n)
    BY <1>0, FinitePart
  <2>3. \A T \in Small(n) : h[T] = g[T]
    <3>1. \A T \in Small(n) : T \in Small(n + 1)
      BY FinitePart
    <3>2. \A T \in Small(n) : g[T] = IF T = {} THEN 0 ELSE f[Taken(T)] + g[T \ {Taken(T)}]
      BY <2>1
    <3> HIDE DEF Small
    <3>3. \A T \in Small(n) : h[T] = IF T = {} THEN 0 ELSE f[Taken(T)] + g[T \ {Taken(T)}]
      BY <3>1
    <3>4. QED
      BY <3>2, <3>3
  <2>4. SumsUpTo(h, n + 1)
    <3> HIDE DEF Small
    <3>1. \A T \in Small(n + 1) : T # {} => h[T \ {Taken(T)}] = g[T \ {Taken(T)}]
      BY <2>2, <2>3
    <3> DEFINE k == [T \in Small(n + 1) |-> IF T = {} THEN 0 ELSE f[Taken(T)] + h[T \ {Taken(T)}]]
    <3>2. h = k
      BY <3>1
    <3>3. QED
      BY <3>2
  <2> HIDE DEF h, SumsUpTo
  <2>5. QED
    BY <2>4
<1>3. \A n \in Nat : n \in N => n + 1 \in N
  BY <1>2
<1> HIDE DEF N
<1>4. Nat \subseteq N
  BY <1>1, <1>3, NatSetInduction
<1>5. PICK g : SumsUpTo(g, Cardinality(S))
  BY <1>4, FinitePart DEF N
<1>6. Small(Cardinality(S)) = SUBSET S
  BY FS_Subset, FS_CardinalityType
<1> HIDE DEF Small
<1>7. QED
  BY <1>5, <1>6 DEF SumsOf

LEMMA SumFolds ==
  ASSUME NEW f, IsFiniteSet(DOMAIN f)
  PROVE  \E g : SumsOf(g, f, DOMAIN f) /\ SumFunction(f) = g[DOMAIN f]
<1>1. SumFunction(f) = (CHOOSE g : SumsOf(g, f, DOMAIN f))[DOMAIN f]
  BY DEF SumFunction, SumFunctionOnSet, FoldFunctionOnSet, MapThenFoldSet, SumsOf, Taken
<1>2. QED
  BY <1>1, SumsExist

\* Each element may be taken first.
LEMMA SumsStep ==
  ASSUME NEW S, IsFiniteSet(S), NEW f \in [S -> Nat], NEW g, SumsOf(g, f, S),
         NEW T \in SUBSET S
  PROVE  /\ g[T] \in Nat
         /\ \A x \in T : g[T] = f[x] + g[T \ {x}]
         /\ T = {} => g[T] = 0
<1> DEFINE Q == SUBSET S
<1>1. ASSUME NEW U \in Q
      PROVE  /\ U = {} => g[U] = 0
             /\ U # {} => Taken(U) \in U /\ g[U] = f[Taken(U)] + g[U \ {Taken(U)}]
             /\ \A x \in U : U \ {x} \in Q /\ f[x] \in Nat
  BY TakenIn DEF SumsOf
<1> DEFINE N == {U \in Q : g[U] \in Nat}
           P == {U \in Q : \A x \in U : g[U] = f[x] + g[U \ {x}]}
<1> HIDE DEF Q
<1>2. \A U \in Q : (\A x \in U : U \ {x} \in N) => U \in N
  <2>1. SUFFICES ASSUME NEW U \in Q, \A x \in U : U \ {x} \in N
                 PROVE  g[U] \in Nat
    OBVIOUS
  <2>2. CASE U = {}
    <3>1. g[U] = 0
      BY <1>1, <2>2
    <3>2. QED
      BY <3>1
  <2>3. CASE U # {}
    <3>1. PICK a \in U : g[U] = f[a] + g[U \ {a}]
      BY <1>1, <2>3
    <3>2. f[a] \in Nat /\ g[U \ {a}] \in Nat
      BY <1>1, <2>1
    <3>3. QED
      BY <3>1, <3>2
  <2>4. QED
    BY <2>2, <2>3
<1>3. Q \subseteq N
  <2> HIDE DEF N
  <2>1. QED
    BY <1>2, PartsInduction DEF Q
<1>4. ASSUME NEW U \in Q, \A x \in U : U \ {x} \in P, NEW x \in U
      PROVE  g[U] = f[x] + g[U \ {x}]
  <2> DEFINE a == Taken(U)
             V == U \ {a, x}
  <2>1. a \in U /\ g[U] = f[a] + g[U \ {a}]
    BY <1>1
  <2> HIDE DEF a
  <2>2. CASE x = a
    BY <2>1, <2>2
  <2>3. CASE x # a
    <3>1. (U \ {a}) \ {x} = V /\ (U \ {x}) \ {a} = V
      OBVIOUS
    <3>2. x \in U \ {a} /\ a \in U \ {x}
      BY <2>1, <2>3
    <3>3. U \ {a} \in P /\ U \ {x} \in P
      BY <1>4, <2>1
    <3>4. g[U \ {a}] = f[x] + g[V] /\ g[U \ {x}] = f[a] + g[V]
      BY <3>1, <3>2, <3>3
    <3>5. f[x] \in Nat /\ f[a] \in Nat /\ g[V] \in Nat
      BY <1>1, <1>3, <2>1, <3>1, <3>2, <3>3
    <3> HIDE DEF V, P
    <3>6. QED
      BY <2>1, <3>4, <3>5
  <2>4. QED
    BY <2>2, <2>3
<1>5. \A U \in Q : (\A x \in U : U \ {x} \in P) => U \in P
  BY <1>4
<1>6. Q \subseteq P
  <2> HIDE DEF P
  <2>1. QED
    BY <1>5, PartsInduction DEF Q
<1>7. T \in Q
  BY DEF Q
<1>8. QED
  BY <1>1, <1>3, <1>6, <1>7

LEMMA SumsWhole ==
  ASSUME NEW S, IsFiniteSet(S), NEW f \in [S -> Nat], NEW g, SumsOf(g, f, S), NEW x \in S
  PROVE  g[S] = f[x] + g[S \ {x}]
<1> DEFINE T == S
<1>1. T \in SUBSET S /\ x \in T
  OBVIOUS
<1> HIDE DEF T
<1>2. /\ g[T] \in Nat
      /\ \A y \in T : g[T] = f[y] + g[T \ {y}]
      /\ T = {} => g[T] = 0
  BY <1>1, SumsStep
<1>3. QED
  BY <1>1, <1>2 DEF T

\* The sum of what is left when one element is left out.
LEMMA SumStep ==
  ASSUME NEW S, IsFiniteSet(S), NEW f \in [S -> Nat], NEW x \in S
  PROVE  SumFunction(f) = f[x] + SumFunction([y \in S \ {x} |-> f[y]])
<1> DEFINE R == S \ {x}
           e == [y \in R |-> f[y]]
<1>1. IsFiniteSet(R) /\ R \in SUBSET S /\ e \in [R -> Nat]
  BY FS_Subset
<1>2. PICK g : SumsOf(g, f, S) /\ SumFunction(f) = g[S]
  BY SumFolds
<1>3. PICK h : SumsOf(h, e, R) /\ SumFunction(e) = h[R]
  BY <1>1, SumFolds
<1> DEFINE Q == SUBSET R
           P == {T \in Q : g[T] = h[T]}
<1>a. ASSUME NEW T \in Q
      PROVE  /\ \A y \in T : g[T] = f[y] + g[T \ {y}] /\ h[T] = e[y] + h[T \ {y}] /\ e[y] = f[y]
             /\ T = {} => g[T] = 0 /\ h[T] = 0
  <2>1. T \in SUBSET S
    OBVIOUS
  <2>2. QED
    <3>1. /\ \A y \in T : g[T] = f[y] + g[T \ {y}]
          /\ T = {} => g[T] = 0
      BY <1>2, <2>1, SumsStep
    <3> HIDE DEF e, R
    <3>2. /\ \A y \in T : h[T] = e[y] + h[T \ {y}]
          /\ T = {} => h[T] = 0
      BY <1>1, <1>3, SumsStep DEF Q
    <3>3. \A y \in T : e[y] = f[y]
      BY DEF e
    <3>4. QED
      BY <3>1, <3>2, <3>3
<1> HIDE DEF Q, e, R
<1>4. ASSUME NEW T \in Q, \A y \in T : T \ {y} \in P
      PROVE  g[T] = h[T]
  <2>1. CASE T = {}
    BY <1>a, <2>1
  <2>2. CASE T # {}
    <3>1. PICK y \in T : g[T \ {y}] = h[T \ {y}]
      BY <1>4, <2>2
    <3>2. QED
      BY <1>a, <3>1
  <2>3. QED
    BY <2>1, <2>2
<1>5. \A T \in Q : (\A y \in T : T \ {y} \in P) => T \in P
  BY <1>4
<1> HIDE DEF P
<1>6. R \in P
  <2>1. SUBSET R \subseteq P
    BY <1>1, <1>5, PartsInduction DEF Q
  <2>2. QED
    BY <2>1
<1>7. g[R] = h[R]
  BY <1>6 DEF P
<1>8. g[S] = f[x] + g[R]
  BY <1>2, SumsWhole DEF R
<1>9. QED
  BY <1>2, <1>3, <1>7, <1>8 DEF e, R

\* The type of a sum; that of nothing is 0.
LEMMA SumNat ==
  ASSUME NEW S, IsFiniteSet(S), NEW f \in [S -> Nat]
  PROVE  SumFunction(f) \in Nat /\ (S = {} => SumFunction(f) = 0)
<1>1. PICK g : SumsOf(g, f, S) /\ SumFunction(f) = g[S]
  BY SumFolds
<1>2. S \in SUBSET S
  OBVIOUS
<1>3. QED
  BY <1>1, <1>2, SumsStep

\* No element is more than the sum.
LEMMA SumAtLeast ==
  ASSUME NEW S, IsFiniteSet(S), NEW f \in [S -> Nat], NEW x \in S
  PROVE  SumFunction(f) >= f[x]
<1> DEFINE e == [y \in S \ {x} |-> f[y]]
<1>1. SumFunction(f) = f[x] + SumFunction(e)
  BY SumStep
<1>2. SumFunction(e) \in Nat
  BY FS_Subset, SumNat
<1>3. QED
  BY <1>1, <1>2

\* The sum of a sequence with one element more.
LEMMA SumAppend ==
  ASSUME NEW s \in Seq(Nat), NEW n \in Nat
  PROVE  SumFunction(Append(s, n)) = SumFunction(s) + n
<1> DEFINE a == Append(s, n)
           d == 1..(Len(s) + 1)
<1>1. IsFiniteSet(d) /\ IsFiniteSet(1..Len(s))
  BY FS_Interval
<1>2. s \in [1..Len(s) -> Nat]
  OBVIOUS
<1>3. a \in [d -> Nat] /\ Len(s) + 1 \in d /\ a[Len(s) + 1] = n
  <2>1. a \in Seq(Nat) /\ Len(a) = Len(s) + 1 /\ a[Len(s) + 1] = n
    OBVIOUS
  <2> HIDE DEF a
  <2>2. QED
    BY <2>1
<1> DEFINE r == [i \in d \ {Len(s) + 1} |-> a[i]]
<1>4. r = s
  <2>1. d \ {Len(s) + 1} = 1..Len(s)
    OBVIOUS
  <2>2. \A i \in 1..Len(s) : a[i] = s[i]
    OBVIOUS
  <2> HIDE DEF a, d
  <2>3. r = [i \in 1..Len(s) |-> s[i]]
    BY <2>1, <2>2
  <2>4. QED
    BY <1>2, <2>3
<1> HIDE DEF a, d
<1>5. SumFunction(a) = a[Len(s) + 1] + SumFunction(r)
  <2>1. \A i \in d : SumFunction(a) = a[i] + SumFunction([j \in d \ {i} |-> a[j]])
    BY <1>1, <1>3, SumStep
  <2>2. QED
    BY <1>3, <2>1, Zenon DEF r
<1>6. SumFunction(s) \in Nat
  BY <1>1, <1>2, SumNat
<1> HIDE DEF r
<1>7. QED
  BY <1>3, <1>4, <1>5, <1>6 DEF a

LEMMA ModUnique ==
  ASSUME NEW M \in Nat \ {0}, NEW q \in Int, NEW r \in 0..(M - 1)
  PROVE  (M * q + r) % M = r
OBVIOUS

LEMMA DivMod ==
  ASSUME NEW M \in Nat \ {0}, NEW a \in Nat
  PROVE  \E q \in Int, r \in 0..(M - 1) : a = M * q + r /\ a % M = r
<1>1. a = M * (a \div M) + (a % M) /\ a % M \in 0..(M - 1) /\ a \div M \in Int
  OBVIOUS
<1>2. QED
  BY <1>1

\* A total may be reduced before something is added to it.
LEMMA ModAdd ==
  ASSUME NEW M \in Nat \ {0}, NEW a \in Nat, NEW b \in Nat
  PROVE  ((a % M) + b) % M = (a + b) % M
<1>1. PICK q \in Int, r \in 0..(M - 1) : a = M * q + r /\ a % M = r
  BY DivMod
<1>2. r + b \in Nat
  OBVIOUS
<1>3. PICK p \in Int, t \in 0..(M - 1) : r + b = M * p + t /\ (r + b) % M = t
  BY <1>2, DivMod
<1>4. a + b = M * (q + p) + t
  <2>1. M * (q + p) = M * q + M * p /\ M * q \in Int /\ M * p \in Int
    OBVIOUS
  <2>2. QED
    BY <1>1, <1>3, <2>1
<1>5. (M * (q + p) + t) % M = t
  BY ModUnique
<1>6. QED
  BY <1>1, <1>3, <1>4, <1>5
-----------------------------------------------------------------------------
\* g[i] is the concatenation of the first i elements of s.
Joins(g, s, T) ==
  /\ g \in [0..Len(s) -> Seq(T)]
  /\ g[0] = <<>>
  /\ \A i \in 1..Len(s) : g[i] = g[i - 1] \o s[i]

LEMMA JoinsExist ==
  ASSUME NEW T, NEW s \in Seq(Seq(T))
  PROVE  \E g : Joins(g, s, T)
<1> DEFINE n == Len(s)
           step == [i \in 1..n |-> [x \in Seq(T) |-> x \o s[i]]]
<1>1. n \in Nat /\ <<>> \in Seq(T) /\ \A i \in 1..n : s[i] \in Seq(T)
  OBVIOUS
<1>2. StepsIn(step, n, Seq(T))
  <2>1. ASSUME NEW i \in 1..n PROVE [x \in Seq(T) |-> x \o s[i]] \in [Seq(T) -> Seq(T)]
    <3>1. s[i] \in Seq(T)
      BY <1>1
    <3>2. \A x \in Seq(T) : x \o s[i] \in Seq(T)
      BY <3>1
    <3>3. QED
      BY <3>2
  <2>2. QED
    BY <2>1 DEF StepsIn
<1>3. PICK g : RecursionOf(g, n, Seq(T), <<>>, step)
  BY <1>1, <1>2, NatRecursion
<1>4. ASSUME NEW i \in 1..n PROVE g[i] = g[i - 1] \o s[i]
  <2>1. i - 1 \in 0..n
    BY <1>1
  <2>2. g[i - 1] \in Seq(T)
    BY <1>3, <2>1 DEF RecursionOf
  <2>3. QED
    BY <1>3, <2>2 DEF RecursionOf
<1>5. QED
  BY <1>3, <1>4 DEF Joins, RecursionOf

\* A recursive definition has at most one solution.
LEMMA FlattenIs ==
  ASSUME NEW T, NEW s \in Seq(Seq(T)), NEW g, Joins(g, s, T)
  PROVE  FlattenSeq(s) = g[Len(s)]
<1> DEFINE n == Len(s)
           Solves(f) == f = [i \in 1..n |-> IF i = 1 THEN s[i] ELSE f[i - 1] \o s[i]]
<1>1. n \in Nat /\ \A i \in 1..n : s[i] \in Seq(T)
  OBVIOUS
<1>2. CASE n = 0
  <2>1. s = <<>>
    BY <1>2
  <2>2. FlattenSeq(s) = <<>>
    BY <1>2, <2>1, Zenon DEF FlattenSeq
  <2>3. QED
    BY <1>2, <2>2 DEF Joins
<1>3. CASE n # 0
  <2>1. \E f : Solves(f)
    <3> DEFINE f == [i \in 1..n |-> g[i]]
    <3>1. ASSUME NEW i \in 1..n
          PROVE  f[i] = IF i = 1 THEN s[i] ELSE f[i - 1] \o s[i]
      <4>1. g[i] = g[i - 1] \o s[i]
        BY DEF Joins
      <4>2. CASE i = 1
        <5>1. g[i - 1] = <<>> /\ s[i] \in Seq(T)
          BY <1>1, <4>2 DEF Joins
        <5>2. QED
          BY <4>1, <4>2, <5>1
      <4>3. CASE i # 1
        <5>1. i - 1 \in 1..n
          BY <1>1, <4>3
        <5>2. QED
          BY <4>1, <4>3, <5>1
      <4>4. QED
        BY <4>2, <4>3
    <3>2. f = [i \in 1..n |-> f[i]]
      OBVIOUS
    <3>3. f = [i \in 1..n |-> IF i = 1 THEN s[i] ELSE f[i - 1] \o s[i]]
      BY <3>1, <3>2, Zenon
    <3> HIDE DEF f
    <3>4. QED
      BY <3>3
  <2>2. PICK c : Solves(c) /\ FlattenSeq(s) = c[n]
    <3> DEFINE c == CHOOSE f : Solves(f)
    <3>1. Solves(c)
      BY <2>1, Zenon
    <3>2. FlattenSeq(s) = c[n]
      BY <1>3, Zenon DEF FlattenSeq
    <3>3. QED
      BY <3>1, <3>2, Zenon
  <2>3. /\ c[1] = s[1]
        /\ \A i \in 1..n : i # 1 => c[i] = c[i - 1] \o s[i]
    <3>1. \A i \in 1..n : c[i] = IF i = 1 THEN s[i] ELSE c[i - 1] \o s[i]
      BY <2>2, Zenon
    <3>2. 1 \in 1..n
      BY <1>1, <1>3
    <3>3. QED
      BY <3>1, <3>2
  <2>4. ASSUME NEW i \in Nat, NEW j, j = i + 1, j <= n
        PROVE  /\ j \in 1..n /\ g[j] = g[i] \o s[j]
               /\ i # 0 => c[j] = c[i] \o s[j]
    <3>1. j \in 1..n /\ j - 1 = i /\ (i # 0 => j # 1)
      BY <1>1, <2>4
    <3>2. g[j] = g[j - 1] \o s[j]
      BY <3>1 DEF Joins
    <3>3. j # 1 => c[j] = c[j - 1] \o s[j]
      BY <2>3, <3>1
    <3>4. QED
      BY <3>1, <3>2, <3>3
  <2> DEFINE U == {i \in Nat : i = 0 \/ i > n \/ c[i] = g[i]}
  <2>5. 0 \in U
    OBVIOUS
  <2>6. ASSUME NEW i \in Nat, i \in U PROVE i + 1 \in U
    <3>1. CASE i + 1 > n
      BY <3>1
    <3>2. CASE i + 1 <= n
      <4>1. PICK j : j = i + 1
        OBVIOUS
      <4>2. /\ j \in 1..n /\ g[j] = g[i] \o s[j]
            /\ i # 0 => c[j] = c[i] \o s[j]
        BY <2>4, <3>2, <4>1
      <4>3. CASE i = 0
        <5>1. g[0] = <<>> /\ s[1] \in Seq(T) /\ j = 1
          BY <1>1, <1>3, <4>1, <4>3 DEF Joins
        <5>2. c[j] = g[j]
          BY <2>3, <4>2, <4>3, <5>1
        <5>3. QED
          BY <4>1, <5>2
      <4>4. CASE i # 0
        <5>1. c[i] = g[i]
          BY <1>1, <2>6, <3>2, <4>4
        <5>2. c[j] = g[j]
          BY <4>2, <4>4, <5>1
        <5>3. QED
          BY <4>1, <5>2
      <4>5. QED
        BY <4>3, <4>4
    <3>3. QED
      BY <1>1, <3>1, <3>2
  <2> HIDE DEF U
  <2>7. Nat \subseteq U
    BY <2>5, <2>6, NatSetInduction
  <2>8. n \in U
    BY <1>1, <2>7
  <2>9. QED
    BY <1>1, <1>3, <2>2, <2>8 DEF U
<1>4. QED
  BY <1>2, <1>3

\* The concatenation of the elements of a sequence, with one element more.
LEMMA FlattenAppend ==
  ASSUME NEW T, NEW s \in Seq(Seq(T)), NEW e \in Seq(T)
  PROVE  /\ FlattenSeq(<<>>) = <<>>
         /\ FlattenSeq(s) \in Seq(T)
         /\ FlattenSeq(Append(s, e)) = FlattenSeq(s) \o e
<1> DEFINE n == Len(s)
           a == Append(s, e)
<1>1. /\ n \in Nat /\ a \in Seq(Seq(T)) /\ Len(a) = n + 1 /\ a[n + 1] = e
      /\ \A i \in 1..n : a[i] = s[i]
  OBVIOUS
<1> HIDE DEF a
<1>2. PICK g : Joins(g, a, T)
  BY <1>1, JoinsExist
<1> DEFINE h == [i \in 0..n |-> g[i]]
<1>3. Joins(h, s, T)
  <2>1. h \in [0..n -> Seq(T)] /\ h[0] = <<>>
    BY <1>1, <1>2 DEF Joins
  <2>2. ASSUME NEW i \in 1..n PROVE h[i] = h[i - 1] \o s[i]
    <3>1. i \in 1..(n + 1) /\ i - 1 \in 0..n /\ i \in 0..n
      BY <1>1
    <3>2. g[i] = g[i - 1] \o a[i]
      BY <1>1, <1>2, <3>1 DEF Joins
    <3>3. QED
      BY <1>1, <3>1, <3>2
  <2> HIDE DEF h
  <2>3. QED
    BY <2>1, <2>2 DEF Joins
<1>4. FlattenSeq(s) = g[n]
  <2>1. FlattenSeq(s) = h[n]
    BY <1>3, FlattenIs
  <2>2. QED
    BY <1>1, <2>1
<1>5. FlattenSeq(a) = g[n + 1]
  BY <1>1, <1>2, FlattenIs
<1>6. g[n + 1] = g[n] \o e /\ g[n] \in Seq(T)
  <2>1. PICK j : j = n + 1
    OBVIOUS
  <2>2. j \in 1..Len(a) /\ n \in 0..Len(a) /\ j - 1 = n
    BY <1>1, <2>1
  <2>3. g[j] = g[j - 1] \o a[j] /\ g[n] \in Seq(T)
    BY <1>2, <2>2 DEF Joins
  <2>4. QED
    BY <1>1, <2>1, <2>2, <2>3
<1>7. FlattenSeq(<<>>) = <<>>
  BY Zenon, EmptySeq DEF FlattenSeq
<1>8. QED
  BY <1>4, <1>5, <1>6, <1>7 DEF a

\* The same for a function on 1..(n + 1), as the models write sequences.
LEMMA FlattenStep ==
  ASSUME NEW T, NEW n \in Nat, NEW f \in [1..(n + 1) -> Seq(T)],
         NEW g, g = [i \in 1..n |-> f[i]]
  PROVE  /\ FlattenSeq(g) \in Seq(T)
         /\ FlattenSeq(f) = FlattenSeq(g) \o f[n + 1]
<1>1. PICK e \in Seq(T) : e = f[n + 1]
  OBVIOUS
<1>2. g \in [1..n -> Seq(T)]
  OBVIOUS
<1>3. g \in Seq(Seq(T)) /\ Len(g) = n
  BY <1>2
<1>4. f = [i \in 1..(n + 1) |-> f[i]] /\ \A i \in 1..n : f[i] = g[i]
  OBVIOUS
<1>5. Append(g, e) = [i \in 1..(n + 1) |-> f[i]]
  BY <1>1, <1>3, <1>4
<1>6. f = Append(g, e)
  BY <1>4, <1>5
<1>7. FlattenSeq(g) \in Seq(T) /\ FlattenSeq(Append(g, e)) = FlattenSeq(g) \o e
  BY <1>3, FlattenAppend
<1>8. QED
  BY <1>1, <1>6, <1>7

LEMMA FlattenType ==
  ASSUME NEW T, NEW n \in Nat, NEW f \in [1..n -> Seq(T)]
  PROVE  FlattenSeq(f) \in Seq(T)
<1>1. f \in Seq(Seq(T)) /\ <<>> \in Seq(T)
  OBVIOUS
<1>2. QED
  BY <1>1, FlattenAppend

\* Nothing but empty sequences.
LEMMA FlattenNone ==
  ASSUME NEW n \in Nat, NEW f \in [1..n -> {<<>>}]
  PROVE  FlattenSeq(f) = <<>>
<1>1. <<>> \in Seq({}) /\ \A s \in Seq({}) : s = <<>>
  <2>1. ASSUME NEW s \in Seq({}) PROVE s = <<>>
    <3>1. Len(s) \in Nat /\ \A i \in 1..Len(s) : s[i] \in {}
      OBVIOUS
    <3>2. Len(s) = 0
      BY <3>1
    <3>3. QED
      BY <3>2
  <2>2. QED
    BY <2>1, EmptySeq
<1>2. f \in [1..n -> Seq({})]
  BY <1>1
<1>3. FlattenSeq(f) \in Seq({})
  BY <1>2, FlattenType
<1>4. QED
  BY <1>1, <1>3
-----------------------------------------------------------------------------
\* Concatenations.
LEMMA JoinTypes ==
  ASSUME NEW T, NEW a \in Seq(T), NEW b \in Seq(T), NEW c \in Seq(T)
  PROVE  a \o b \in Seq(T) /\ (a \o b) \o c = a \o (b \o c) /\ Len(a \o b) = Len(a) + Len(b)
         /\ a \o <<>> = a
BY ConcatAssociative, ConcatProperties, ConcatEmptySeq

\* A sequence that is taken apart and put together.
LEMMA AppendRest ==
  ASSUME NEW T, NEW s \in Seq(T), NEW x \in T, NEW t \in Seq(T)
  PROVE  s \o (<<x>> \o t) = Append(s, x) \o t /\ s \o <<x>> = Append(s, x) /\ s \o <<>> = s
         /\ <<x>> \o t \in Seq(T) /\ s \o t \in Seq(T)
<1>1. <<x>> \in Seq(T)
  OBVIOUS
<1>2. s \o (<<x>> \o t) = (s \o <<x>>) \o t
  BY <1>1, ConcatAssociative
<1>3. s \o <<x>> = Append(s, x)
  BY AppendIsConcat
<1>4. QED
  BY <1>1, <1>2, <1>3, ConcatEmptySeq, ConcatProperties

\* What follows the first o elements, and the n elements behind them.
Rest(data, o) == SubSeq(data, o + 1, Len(data))

LEMMA RestIs ==
  ASSUME NEW T, NEW data \in Seq(T), NEW o \in 0..Len(data)
  PROVE  /\ Rest(data, o) \in Seq(T) /\ Len(Rest(data, o)) = Len(data) - o
         /\ \A j \in 1..(Len(data) - o) : Rest(data, o)[j] = data[o + j]
         /\ o = 0 => Rest(data, o) = data
         /\ o = Len(data) => Rest(data, o) = <<>>
<1>1. Len(data) \in Nat
  OBVIOUS
<1>2. \A i \in (o + 1)..Len(data) : data[i] \in T
  BY <1>1, ElementOfSeq
<1>3. /\ Rest(data, o) \in Seq(T) /\ Len(Rest(data, o)) = Len(data) - o
      /\ \A j \in 1..(Len(data) - o) : Rest(data, o)[j] = data[o + j]
  <2>1. SubSeq(data, o + 1, Len(data)) \in Seq(T)
    BY <1>1, <1>2, SubSeqProperties
  <2>2. Len(SubSeq(data, o + 1, Len(data))) = IF o + 1 <= Len(data) THEN Len(data) - (o + 1) + 1 ELSE 0
    BY <1>1, <1>2, SubSeqProperties
  <2>3. Len(SubSeq(data, o + 1, Len(data))) = Len(data) - o
    BY <1>1, <2>2
  <2>4. ASSUME NEW j \in 1..(Len(data) - o) PROVE SubSeq(data, o + 1, Len(data))[j] = data[o + j]
    <3>1. j \in 1..(Len(data) - (o + 1) + 1) /\ o + 1 + j - 1 = o + j
      BY <1>1
    <3>2. SubSeq(data, o + 1, Len(data))[j] = data[o + 1 + j - 1]
      BY <1>1, <1>2, <3>1, SubSeqProperties
    <3>3. QED
      BY <3>1, <3>2
  <2>5. QED
    BY <2>1, <2>3, <2>4 DEF Rest
<1>4. QED
  <2> DEFINE r == Rest(data, o)
  <2> HIDE DEF r
  <2>1. /\ r \in Seq(T) /\ Len(r) = Len(data) - o
        /\ \A j \in 1..(Len(data) - o) : r[j] = data[o + j]
    BY <1>3 DEF r
  <2>2. o = Len(data) => r = <<>>
    BY <1>1, <2>1
  <2>3. o = 0 => r = data
    BY <1>1, <2>1
  <2>4. QED
    BY <2>1, <2>2, <2>3 DEF r

Part(data, o, n) == SubSeq(data, o + 1, o + n)

LEMMA PartIs ==
  ASSUME NEW T, NEW data \in Seq(T), NEW o \in Nat, NEW n \in Nat, o + n <= Len(data)
  PROVE  /\ Part(data, o, n) \in Seq(T) /\ Len(Part(data, o, n)) = n
         /\ \A j \in 1..n : Part(data, o, n)[j] = data[o + j]
<1>1. Len(data) \in Nat
  OBVIOUS
<1>2. \A i \in (o + 1)..(o + n) : data[i] \in T
  BY <1>1, ElementOfSeq
<1>3. SubSeq(data, o + 1, o + n) \in Seq(T)
  BY <1>1, <1>2, SubSeqProperties
<1>4. Len(SubSeq(data, o + 1, o + n)) = IF o + 1 <= o + n THEN o + n - (o + 1) + 1 ELSE 0
  BY <1>1, <1>2, SubSeqProperties
<1>5. Len(SubSeq(data, o + 1, o + n)) = n
  BY <1>1, <1>4
<1>6. ASSUME NEW j \in 1..n PROVE SubSeq(data, o + 1, o + n)[j] = data[o + j]
  <2>1. j \in 1..(o + n - (o + 1) + 1) /\ o + 1 + j - 1 = o + j
    BY <1>1
  <2>2. SubSeq(data, o + 1, o + n)[j] = data[o + 1 + j - 1]
    BY <1>1, <1>2, <2>1, SubSeqProperties
  <2>3. QED
    BY <2>1, <2>2
<1>7. QED
  BY <1>3, <1>5, <1>6 DEF Part

LEMMA FirstPartIs ==
  ASSUME NEW T, NEW data \in Seq(T), NEW n \in Nat, n <= Len(data)
  PROVE  /\ Part(data, 0, n) \in Seq(T) /\ Len(Part(data, 0, n)) = n
         /\ \A j \in 1..n : Part(data, 0, n)[j] = data[j]
<1>1. PICK o \in Nat : o = 0
  OBVIOUS
<1>2. Len(data) \in Nat /\ o + n <= Len(data)
  BY <1>1
<1>3. /\ Part(data, o, n) \in Seq(T) /\ Len(Part(data, o, n)) = n
      /\ \A j \in 1..n : Part(data, o, n)[j] = data[o + j]
  BY <1>2, PartIs
<1>4. \A j \in 1..n : o + j = j
  BY <1>1
<1>5. \A j \in 1..n : Part(data, o, n)[j] = data[j]
  BY <1>3, <1>4
<1>6. QED
  BY <1>1, <1>3, <1>5

LEMMA PartThenRest ==
  ASSUME NEW T, NEW data \in Seq(T), NEW o \in Nat, NEW n \in Nat, o + n <= Len(data)
  PROVE  Part(data, o, n) \o Rest(data, o + n) = Rest(data, o)
<1> DEFINE a == Part(data, o, n)
           b == Rest(data, o + n)
           c == Rest(data, o)
           m == Len(data)
<1>1. /\ a \in Seq(T) /\ Len(a) = n
      /\ \A j \in 1..n : a[j] = data[o + j]
  BY PartIs
<1>2. m \in Nat /\ o + n \in 0..m /\ o \in 0..m
  OBVIOUS
<1>3. /\ b \in Seq(T) /\ Len(b) = m - (o + n)
      /\ \A j \in 1..(m - (o + n)) : b[j] = data[(o + n) + j]
  BY <1>2, RestIs
<1>4. /\ c \in Seq(T) /\ Len(c) = m - o
      /\ \A j \in 1..(m - o) : c[j] = data[o + j]
  BY <1>2, RestIs
<1> HIDE DEF a, b, c, m
<1>5. a \o b \in Seq(T) /\ Len(a \o b) = Len(a) + Len(b)
      /\ \A j \in 1..(Len(a) + Len(b)) : (a \o b)[j] = IF j <= Len(a) THEN a[j] ELSE b[j - Len(a)]
  BY <1>1, <1>3, ConcatProperties
<1> DEFINE d == a \o b
<1> HIDE DEF d
<1>6. Len(d) = Len(c)
  BY <1>1, <1>2, <1>3, <1>4, <1>5 DEF d
<1>7. ASSUME NEW j \in 1..Len(c) PROVE d[j] = c[j]
  <2>1. c[j] = data[o + j] /\ j \in 1..(Len(a) + Len(b))
    BY <1>1, <1>2, <1>3, <1>4
  <2>2. CASE j <= n
    <3>1. d[j] = a[j] /\ j \in 1..n
      BY <1>1, <1>5, <2>1, <2>2 DEF d
    <3>2. QED
      BY <1>1, <2>1, <3>1
  <2>3. CASE j > n
    <3>0. PICK i \in Nat : i = j - n
      BY <1>4, <2>3
    <3>1. i \in 1..(m - (o + n)) /\ i = j - n /\ (o + n) + i = o + j
      BY <1>2, <1>4, <2>3, <3>0
    <3>2. d[j] = IF j <= Len(a) THEN a[j] ELSE b[j - Len(a)]
      BY <1>5, <2>1, Zenon DEF d
    <3>3. ~(j <= Len(a)) /\ j - Len(a) = i
      BY <1>1, <2>3, <3>0
    <3>4. d[j] = b[i]
      BY <3>2, <3>3, Zenon
    <3>5. QED
      BY <1>3, <2>1, <3>1, <3>4
  <2>4. QED
    BY <1>2, <2>2, <2>3
<1>8. d \in Seq(T)
  BY <1>5 DEF d
<1>9. d = c
  BY <1>4, <1>6, <1>7, <1>8
<1>10. QED
  BY <1>9 DEF a, b, c, d

LEMMA PrefixOfAppend ==
  ASSUME NEW T, NEW s \in Seq(T), NEW x \in T, NEW k \in Nat, k <= Len(s)
  PROVE  /\ SubSeq(Append(s, x), 1, k) = SubSeq(s, 1, k)
         /\ SubSeq(Append(s, x), 1, Len(s) + 1) = Append(s, x)
<1> DEFINE a == Append(s, x)
<1>1. /\ a \in Seq(T) /\ Len(a) = Len(s) + 1 /\ Len(s) \in Nat
      /\ \A i \in 1..Len(s) : a[i] = s[i]
  OBVIOUS
<1> HIDE DEF a
<1>2. /\ Part(a, 0, k) \in Seq(T) /\ Len(Part(a, 0, k)) = k
      /\ \A j \in 1..k : Part(a, 0, k)[j] = a[j]
  BY <1>1, FirstPartIs
<1>3. /\ Part(s, 0, k) \in Seq(T) /\ Len(Part(s, 0, k)) = k
      /\ \A j \in 1..k : Part(s, 0, k)[j] = s[j]
  BY <1>1, FirstPartIs
<1>4. Part(a, 0, k) = Part(s, 0, k)
  <2> DEFINE u == Part(a, 0, k)
             v == Part(s, 0, k)
  <2> HIDE DEF u, v
  <2>1. \A j \in 1..k : u[j] = v[j]
    <3>1. \A j \in 1..k : j \in 1..Len(s)
      BY <1>1
    <3>2. QED
      BY <1>1, <1>2, <1>3, <3>1 DEF u, v
  <2>2. u = v
    BY <1>2, <1>3, <2>1 DEF u, v
  <2>3. QED
    BY <2>2 DEF u, v
<1>5. Rest(a, 0) = a
  BY <1>1, RestIs
<1>6. QED
  BY <1>1, <1>4, <1>5 DEF Part, Rest, a

-----------------------------------------------------------------------------
\* w is s with c put in at i.
With(S, s, i, c, w) ==
  /\ w \in Seq(S) /\ Len(w) = Len(s) + 1 /\ w[i] = c
  /\ \A k \in 1..(i - 1) : w[k] = s[k]
  /\ \A k \in i..Len(s) : w[k + 1] = s[k]

\* w is s without its member at i.
Lacking(S, s, i, w) ==
  /\ w \in Seq(S) /\ Len(w) = Len(s) - 1
  /\ \A k \in 1..(i - 1) : w[k] = s[k]
  /\ \A k \in i..(Len(s) - 1) : w[k] = s[k + 1]

LEMMA InsertIs ==
  ASSUME NEW S, NEW s \in Seq(S), NEW c \in S, NEW i \in 1..(Len(s) + 1)
  PROVE  With(S, s, i, c, InsertAt(s, i, c))
<1> DEFINE w == InsertAt(s, i, c)
<1> DEFINE a == SubSeq(s, 1, i - 1)
           b == SubSeq(s, i, Len(s))
<1>1. /\ a \in Seq(S) /\ Len(a) = i - 1 /\ \A k \in 1..(i - 1) : a[k] = s[k]
      /\ b \in Seq(S) /\ Len(b) = Len(s) - i + 1 /\ \A k \in 1..(Len(s) - i + 1) : b[k] = s[i + k - 1]
  OBVIOUS
<1>2. w = (a \o <<c>>) \o b
  BY DEF InsertAt
<1> HIDE DEF a, b, w
<1> DEFINE d == a \o <<c>>
<1>3. d \in Seq(S) /\ Len(d) = i /\ d[i] = c /\ \A k \in 1..(i - 1) : d[k] = a[k]
  BY <1>1
<1>4. w = d \o b
  BY <1>2
<1> HIDE DEF d
<1>5. w \in Seq(S) /\ Len(w) = Len(s) + 1
  <2>1. d \o b \in Seq(S) /\ Len(d \o b) = Len(d) + Len(b)
    BY <1>1, <1>3, JoinTypes
  <2>2. QED
    BY <1>1, <1>3, <1>4, <2>1
<1>6. \A k \in 1..i : w[k] = d[k]
  BY <1>1, <1>3, <1>4
<1>7. \A k \in 1..(Len(s) - i + 1) : w[i + k] = b[k]
  BY <1>1, <1>3, <1>4
<1>8. \A k \in i..Len(s) : w[k + 1] = s[k]
  <2>1. ASSUME NEW k \in i..Len(s) PROVE w[k + 1] = s[k]
    <3> DEFINE j == k - i + 1
    <3>1. j \in 1..(Len(s) - i + 1) /\ i + j = k + 1 /\ i + j - 1 = k
      OBVIOUS
    <3> HIDE DEF j
    <3>2. w[i + j] = b[j] /\ b[j] = s[i + j - 1]
      BY <1>1, <1>7, <3>1
    <3>3. QED
      BY <3>1, <3>2
  <2>2. QED
    BY <2>1
<1>9. With(S, s, i, c, w)
  BY <1>1, <1>3, <1>5, <1>6, <1>8 DEF With
<1>10. QED
  BY <1>9 DEF w

LEMMA RemoveIs ==
  ASSUME NEW S, NEW s \in Seq(S), NEW i \in 1..Len(s)
  PROVE  Lacking(S, s, i, RemoveAt(s, i))
<1> DEFINE w == RemoveAt(s, i)
<1> DEFINE a == SubSeq(s, 1, i - 1)
           b == SubSeq(s, i + 1, Len(s))
<1>1. /\ a \in Seq(S) /\ Len(a) = i - 1 /\ \A k \in 1..(i - 1) : a[k] = s[k]
      /\ b \in Seq(S) /\ Len(b) = Len(s) - i /\ \A k \in 1..(Len(s) - i) : b[k] = s[i + k]
  OBVIOUS
<1>2. w = a \o b
  BY DEF RemoveAt
<1> HIDE DEF a, b, w
<1>3. w \in Seq(S) /\ Len(w) = Len(s) - 1 /\ \A k \in 1..(i - 1) : w[k] = a[k]
  BY <1>1, <1>2
<1>4. \A k \in 1..(Len(s) - i) : w[(i - 1) + k] = b[k]
  BY <1>1, <1>2
<1>5. ASSUME NEW k \in i..(Len(s) - 1) PROVE w[k] = s[k + 1]
  <2> DEFINE j == k - i + 1
  <2>1. j \in 1..(Len(s) - i) /\ (i - 1) + j = k /\ i + j = k + 1
    OBVIOUS
  <2> HIDE DEF j
  <2>2. w[(i - 1) + j] = b[j] /\ b[j] = s[i + j]
    BY <1>1, <1>4, <2>1
  <2>3. QED
    BY <2>1, <2>2
<1>6. Lacking(S, s, i, w)
  BY <1>1, <1>3, <1>5 DEF Lacking
<1>7. QED
  BY <1>6 DEF w

\* f is put together from o on, each time from a later place.
Descends(f, D, stop, take, next) ==
  f = [o \in D |-> IF o \in stop THEN <<>> ELSE take[o] \o f[next[o]]]

LEMMA DescentExists ==
  ASSUME NEW M \in Nat, NEW stop, NEW take, NEW next,
         \A o \in Nat : o \notin stop => o < M /\ next[o] \in Nat /\ next[o] > o
  PROVE  \E f : Descends(f, Nat, stop, take, next)
<1> DEFINE D(m) == {o \in Nat : M - o <= m}
           N == {m \in Nat : \E f : Descends(f, D(m), stop, take, next)}
<1>1. 0 \in N
  <2> DEFINE f == [o \in D(0) |-> <<>>]
  <2>1. \A o \in D(0) : o \in stop
    OBVIOUS
  <2>2. Descends(f, D(0), stop, take, next)
    <3> HIDE DEF D
    <3>1. QED
      BY <2>1 DEF Descends
  <2> HIDE DEF f, D
  <2>3. QED
    BY <2>2
<1>2. ASSUME NEW m \in Nat, m \in N PROVE m + 1 \in N
  <2>1. PICK g : Descends(g, D(m), stop, take, next)
    BY <1>2
  <2> DEFINE E == D(m + 1)
             h == [o \in E |-> IF o \in stop THEN <<>> ELSE take[o] \o g[next[o]]]
  <2>2. \A o \in D(m) : o \in E
    OBVIOUS
  <2>3. \A o \in E : o \notin stop => next[o] \in D(m)
    OBVIOUS
  <2> HIDE DEF D, E
  <2>4. \A o \in D(m) : g[o] = IF o \in stop THEN <<>> ELSE take[o] \o g[next[o]]
    BY <2>1, Zenon DEF Descends
  <2>5. \A o \in E : h[o] = IF o \in stop THEN <<>> ELSE take[o] \o g[next[o]]
    BY Zenon
  <2>6. \A o \in D(m) : h[o] = g[o]
    <3> HIDE DEF h
    <3>1. QED
      BY <2>2, <2>4, <2>5, Zenon
  <2>7. ASSUME NEW o \in E
        PROVE  h[o] = IF o \in stop THEN <<>> ELSE take[o] \o h[next[o]]
    <3> HIDE DEF h
    <3>1. o \notin stop => h[next[o]] = g[next[o]]
      BY <2>3, <2>6, Zenon
    <3>2. QED
      BY <2>5, <3>1, Zenon
  <2>8. h = [o \in E |-> h[o]]
    BY Zenon
  <2>9. Descends(h, E, stop, take, next)
    <3>1. h = [o \in E |-> IF o \in stop THEN <<>> ELSE take[o] \o h[next[o]]]
      <4> DEFINE r(o) == IF o \in stop THEN <<>> ELSE take[o] \o h[next[o]]
      <4>1. \A o \in E : h[o] = r(o)
        BY <2>7
      <4> HIDE DEF h
      <4>2. [o \in E |-> h[o]] = [o \in E |-> r(o)]
        BY <4>1, Zenon
      <4>3. QED
        BY <2>8, <4>2, Zenon
    <3> HIDE DEF h
    <3>2. QED
      BY <3>1, Zenon DEF Descends
  <2> HIDE DEF h
  <2>10. QED
    BY <2>9 DEF E
<1>3. Nat \subseteq N
  <2>1. \A m \in Nat : m \in N => m + 1 \in N
    BY <1>2
  <2> HIDE DEF N
  <2>2. QED
    BY <1>1, <2>1, NatSetInduction
<1>4. D(M) = Nat
  OBVIOUS
<1> HIDE DEF D
<1>5. PICK f : Descends(f, D(M), stop, take, next)
  BY <1>3
<1>6. QED
  BY <1>4, <1>5
-----------------------------------------------------------------------------
LEMMA JoinThree ==
  ASSUME NEW T, NEW a \in Seq(T), NEW b \in Seq(T), NEW c \in Seq(T)
  PROVE  (a \o b) \o c = a \o (b \o c)
BY ConcatAssociative

Assoc(a, b, c) == (a \o b) \o c = a \o (b \o c)

LEMMA JoinAssoc ==
  ASSUME NEW T, NEW a \in Seq(T), NEW b \in Seq(T), NEW c \in Seq(T)
  PROVE  Assoc(a, b, c)
BY JoinThree DEF Assoc

\* What the first n parts come to, and what the others do.
JoinFirst(s, n) == FlattenSeq([i \in 1..n |-> s[i]])
JoinNext(s, n, k) == FlattenSeq([i \in 1..k |-> s[n + i]])

LEMMA JoinFirstIs ==
  ASSUME NEW T, NEW n \in Nat, NEW f, NEW g \in [1..n -> Seq(T)], \A i \in 1..n : g[i] = f[i]
  PROVE  JoinFirst(f, n) = FlattenSeq(g) /\ JoinFirst(f, n) \in Seq(T)
<1>1. [i \in 1..n |-> f[i]] = g
  OBVIOUS
<1>2. FlattenSeq(g) \in Seq(T)
  BY FlattenType
<1>3. QED
  BY <1>1, <1>2 DEF JoinFirst

LEMMA JoinNextIs ==
  ASSUME NEW T, NEW n \in Nat, NEW k \in Nat, NEW f, NEW g \in [1..k -> Seq(T)],
         \A i \in 1..k : g[i] = f[n + i]
  PROVE  JoinNext(f, n, k) = FlattenSeq(g) /\ JoinNext(f, n, k) \in Seq(T)
<1>1. [i \in 1..k |-> f[n + i]] = g
  OBVIOUS
<1>2. FlattenSeq(g) \in Seq(T)
  BY FlattenType
<1>3. QED
  BY <1>1, <1>2 DEF JoinNext

LEMMA JoinSteps ==
  ASSUME NEW T, NEW n \in Nat, NEW f, \A i \in 1..(n + 1) : f[i] \in Seq(T)
  PROVE  /\ JoinFirst(f, 0) = <<>> /\ JoinFirst(f, n) \in Seq(T)
         /\ JoinFirst(f, n + 1) = JoinFirst(f, n) \o f[n + 1]
<1> DEFINE g == [i \in 1..(n + 1) |-> f[i]]
           h == [i \in 1..n |-> f[i]]
<1>1. g \in [1..(n + 1) -> Seq(T)] /\ h = [i \in 1..n |-> g[i]] /\ g[n + 1] = f[n + 1]
  OBVIOUS
<1>2. [i \in 1..0 |-> f[i]] = <<>>
  OBVIOUS
<1>3. JoinFirst(f, 0) = <<>>
  BY <1>2, EmptySeq, FlattenAppend, Zenon DEF JoinFirst
<1>4. JoinFirst(f, n + 1) = FlattenSeq(g) /\ JoinFirst(f, n) = FlattenSeq(h)
  BY DEF JoinFirst
<1> HIDE DEF g, h
<1>5. FlattenSeq(h) \in Seq(T) /\ FlattenSeq(g) = FlattenSeq(h) \o g[n + 1]
  BY <1>1, FlattenStep
<1>6. QED
  BY <1>1, <1>3, <1>4, <1>5

\* A concatenation in two parts.
LEMMA JoinSplit ==
  ASSUME NEW T, NEW n \in Nat, NEW k \in Nat, NEW f, \A i \in 1..(n + k) : f[i] \in Seq(T)
  PROVE  /\ JoinFirst(f, n) \in Seq(T) /\ JoinNext(f, n, k) \in Seq(T)
         /\ JoinFirst(f, n + k) = JoinFirst(f, n) \o JoinNext(f, n, k)
<1> DEFINE Good(j) == /\ JoinNext(f, n, j) \in Seq(T)
                      /\ JoinFirst(f, n + j) = JoinFirst(f, n) \o JoinNext(f, n, j)
           N == {j \in Nat : j <= k => Good(j)}
<1>1. JoinFirst(f, n) \in Seq(T)
  <2>1. [i \in 1..n |-> f[i]] \in [1..n -> Seq(T)]
    OBVIOUS
  <2>2. PICK g \in [1..n -> Seq(T)] : \A i \in 1..n : g[i] = f[i]
    BY <2>1
  <2>3. QED
    BY <2>2, JoinFirstIs
<1>2. 0 \in N
  <2>1. n + 0 = n
    OBVIOUS
  <2>2. [i \in 1..0 |-> f[n + i]] = <<>>
    OBVIOUS
  <2>3. JoinNext(f, n, 0) = <<>>
    BY <2>2, EmptySeq, FlattenAppend, Zenon DEF JoinNext
  <2>4. <<>> \in Seq(T) /\ JoinFirst(f, n) \o <<>> = JoinFirst(f, n)
    BY <1>1, ConcatEmptySeq
  <2>5. QED
    BY <2>1, <2>3, <2>4
<1>3. ASSUME NEW j \in Nat, j \in N PROVE j + 1 \in N
  <2>1. ASSUME j + 1 <= k PROVE Good(j + 1)
    <3>1. PICK m \in Nat : m = n + j
      OBVIOUS
    <3>2. m + 1 = n + (j + 1) /\ j <= k /\ \A i \in 1..(m + 1) : i \in 1..(n + k)
      BY <2>1, <3>1
    <3>3. \A i \in 1..(m + 1) : f[i] \in Seq(T)
      BY <3>2
    <3>4. JoinFirst(f, m + 1) = JoinFirst(f, m) \o f[m + 1]
      BY <3>3, JoinSteps
    <3>5. Good(j)
      BY <1>3, <3>2
    <3>6. PICK g : g = [i \in 1..(j + 1) |-> f[n + i]]
      OBVIOUS
    <3>7. \A i \in 1..(j + 1) : g[i] \in Seq(T)
      BY <3>1, <3>3, <3>6
    <3>8. JoinFirst(g, j + 1) = JoinFirst(g, j) \o g[j + 1]
      BY <3>7, JoinSteps
    <3>9. g[j + 1] = f[m + 1] /\ f[m + 1] \in Seq(T)
      BY <3>1, <3>2, <3>3, <3>6
    <3>10. g \in [1..(j + 1) -> Seq(T)] /\ \A i \in 1..(j + 1) : g[i] = f[n + i]
      BY <3>6, <3>7
    <3>11. JoinNext(f, n, j + 1) = FlattenSeq(g)
      BY <3>6 DEF JoinNext
    <3>23. g = [i \in 1..(j + 1) |-> g[i]]
      BY <3>6
    <3>24. JoinFirst(g, j + 1) = FlattenSeq(g)
      BY <3>23 DEF JoinFirst
    <3>12. JoinNext(f, n, j) = JoinFirst(g, j)
      <4>1. [i \in 1..j |-> f[n + i]] = [i \in 1..j |-> g[i]]
        BY <3>6
      <4>2. QED
        BY <4>1 DEF JoinNext, JoinFirst
    <3>13. JoinNext(f, n, j + 1) = JoinNext(f, n, j) \o f[m + 1]
      BY <3>8, <3>9, <3>11, <3>12, <3>24
    <3> HIDE DEF N
    <3>21. PICK u \in Seq(T), v \in Seq(T), w \in Seq(T) :
             u = JoinFirst(f, n) /\ v = JoinNext(f, n, j) /\ w = f[m + 1]
      BY <1>1, <3>5, <3>9
    <3>22. (u \o v) \o w = u \o (v \o w)
      BY JoinThree
    <3>14. (JoinFirst(f, n) \o JoinNext(f, n, j)) \o f[m + 1] = JoinFirst(f, n) \o (JoinNext(f, n, j) \o f[m + 1])
      BY <3>21, <3>22
    <3>15. JoinNext(f, n, j) \o f[m + 1] \in Seq(T)
      BY <3>5, <3>9, ConcatProperties
    <3>16. QED
      BY <3>1, <3>2, <3>4, <3>5, <3>13, <3>14, <3>15
  <2>2. QED
    BY <2>1
<1> HIDE DEF N
<1>4. k \in N
  BY <1>2, <1>3, NatSetInduction
<1>5. QED
  BY <1>1, <1>4 DEF N

\* What n of the parts of s leave.
JoinRest(s, n) == JoinNext(s, n, Len(s) - n)

LEMMA JoinAt ==
  ASSUME NEW T, NEW s \in Seq(Seq(T)), NEW n \in 0..Len(s)
  PROVE  /\ JoinFirst(s, n) \in Seq(T) /\ JoinRest(s, n) \in Seq(T)
         /\ FlattenSeq(s) = JoinFirst(s, n) \o JoinRest(s, n)
         /\ JoinFirst(s, 0) = <<>> /\ JoinRest(s, 0) = FlattenSeq(s)
         /\ n = Len(s) => JoinRest(s, n) = <<>> /\ JoinFirst(s, n) = FlattenSeq(s)
         /\ n < Len(s) => /\ JoinFirst(s, n + 1) = JoinFirst(s, n) \o s[n + 1]
                          /\ JoinRest(s, n) = s[n + 1] \o JoinRest(s, n + 1)
                          /\ JoinRest(s, n + 1) \in Seq(T) /\ s[n + 1] \in Seq(T)
<1>1. PICK m \in Nat : m = Len(s)
  OBVIOUS
<1>2. \A i \in 1..m : s[i] \in Seq(T)
  BY <1>1
<1>3. s \in [1..m -> Seq(T)]
  BY <1>1
<1>4. JoinFirst(s, m) = FlattenSeq(s)
  BY <1>3, JoinFirstIs
<1>5. ASSUME NEW a \in 0..m
      PROVE  /\ JoinFirst(s, a) \in Seq(T) /\ JoinRest(s, a) \in Seq(T)
             /\ JoinFirst(s, m) = JoinFirst(s, a) \o JoinRest(s, a)
  <2>1. PICK k \in Nat : k = m - a /\ a + k = m
    OBVIOUS
  <2>2. a \in Nat /\ \A i \in 1..(a + k) : s[i] \in Seq(T)
    BY <1>2, <2>1
  <2>5. PICK b \in Nat : b = a
    OBVIOUS
  <2>6. \A i \in 1..(b + k) : s[i] \in Seq(T)
    BY <2>2, <2>5
  <2>7. /\ JoinFirst(s, b) \in Seq(T) /\ JoinNext(s, b, k) \in Seq(T)
        /\ JoinFirst(s, b + k) = JoinFirst(s, b) \o JoinNext(s, b, k)
    BY <2>6, JoinSplit
  <2>3. /\ JoinFirst(s, a) \in Seq(T) /\ JoinNext(s, a, k) \in Seq(T)
        /\ JoinFirst(s, a + k) = JoinFirst(s, a) \o JoinNext(s, a, k)
    BY <2>5, <2>7
  <2>4. QED
    BY <1>1, <2>1, <2>3 DEF JoinRest
<1>6. JoinFirst(s, 0) = <<>>
  <2>1. [i \in 1..0 |-> s[i]] = <<>>
    OBVIOUS
  <2>2. QED
    BY <2>1, EmptySeq, FlattenAppend, Zenon DEF JoinFirst
<1>7. JoinRest(s, 0) = FlattenSeq(s)
  <2>1. 0 \in 0..m
    OBVIOUS
  <2>2. JoinFirst(s, m) = <<>> \o JoinRest(s, 0) /\ JoinRest(s, 0) \in Seq(T)
    BY <1>5, <1>6, <2>1
  <2>3. QED
    BY <1>4, <2>2, ConcatEmptySeq
<1>8. ASSUME n = m PROVE JoinRest(s, n) = <<>>
  <2>1. Len(s) - n = 0
    BY <1>1, <1>8
  <2>2. [i \in 1..0 |-> s[n + i]] = <<>>
    OBVIOUS
  <2>3. JoinNext(s, n, 0) = <<>>
    BY <2>2, EmptySeq, FlattenAppend, Zenon DEF JoinNext
  <2>4. QED
    BY <2>1, <2>3 DEF JoinRest
<1>9. ASSUME n < m
      PROVE  /\ JoinFirst(s, n + 1) = JoinFirst(s, n) \o s[n + 1]
             /\ JoinRest(s, n) = s[n + 1] \o JoinRest(s, n + 1)
             /\ JoinRest(s, n + 1) \in Seq(T) /\ s[n + 1] \in Seq(T)
  <2>1. n \in Nat /\ n + 1 \in 0..m /\ n + 1 \in 1..m
    BY <1>1, <1>9
  <2>2. \A i \in 1..(n + 1) : s[i] \in Seq(T)
    BY <1>2, <2>1
  <2>3. JoinFirst(s, n + 1) = JoinFirst(s, n) \o s[n + 1]
    BY <2>1, <2>2, JoinSteps
  <2>4. JoinRest(s, n + 1) \in Seq(T) /\ s[n + 1] \in Seq(T)
    BY <1>2, <1>5, <2>1
  <2>17. PICK k \in Nat : k = m - (n + 1)
    BY <2>1
  <2>5. k + 1 = m - n
    BY <2>1, <2>17
  <2>6. PICK g : g = [i \in 1..(k + 1) |-> s[n + i]]
    OBVIOUS
  <2>7. \A i \in 1..(k + 1) : g[i] \in Seq(T) /\ g[i] = s[n + i]
    BY <1>2, <2>1, <2>5, <2>6
  <2>8. g \in [1..(k + 1) -> Seq(T)]
    BY <2>6, <2>7
  <2>18. JoinNext(s, n, k + 1) = FlattenSeq(g)
    BY <2>6 DEF JoinNext
  <2>19. g = [i \in 1..(k + 1) |-> g[i]]
    BY <2>6
  <2>20. JoinFirst(g, k + 1) = FlattenSeq(g)
    BY <2>19 DEF JoinFirst
  <2>9. JoinNext(s, n, k + 1) = FlattenSeq(g) /\ JoinFirst(g, k + 1) = FlattenSeq(g)
    BY <2>18, <2>20
  <2>10. PICK o \in Nat : o = 1
    OBVIOUS
  <2>11. o + k = k + 1
    BY <2>10
  <2>21. \A i \in 1..(o + k) : g[i] \in Seq(T)
    BY <2>7, <2>10
  <2>12. /\ JoinFirst(g, o) \in Seq(T) /\ JoinNext(g, o, k) \in Seq(T)
         /\ JoinFirst(g, o + k) = JoinFirst(g, o) \o JoinNext(g, o, k)
    BY <2>10, <2>17, <2>21, JoinSplit
  <2>13. JoinFirst(g, o) = s[n + 1]
    <3>1. PICK z \in Nat : z = 0 /\ z + 1 = o
      BY <2>10
    <3>2. \A i \in 1..(z + 1) : g[i] \in Seq(T)
      BY <2>7, <2>10, <3>1
    <3>3. JoinFirst(g, z + 1) = JoinFirst(g, z) \o g[z + 1] /\ JoinFirst(g, 0) = <<>>
      BY <3>2, JoinSteps
    <3>4. g[o] = s[n + 1]
      BY <2>7, <2>10
    <3>5. <<>> \o s[n + 1] = s[n + 1]
      BY <2>4, ConcatEmptySeq
    <3>6. QED
      BY <3>1, <3>3, <3>4, <3>5
  <2>14. JoinNext(g, o, k) = JoinRest(s, n + 1)
    <3>1. PICK p \in Nat : p = n + 1
      BY <2>1
    <3>2. PICK h : h = [i \in 1..k |-> g[o + i]]
      OBVIOUS
    <3>8. ASSUME NEW i \in 1..k
          PROVE  h[i] = g[o + i] /\ h[i] \in Seq(T) /\ h[i] = s[p + i]
      <4>1. PICK j \in 1..(k + 1) : j = o + i
        BY <2>10
      <4>2. g[j] \in Seq(T) /\ g[j] = s[n + j]
        BY <2>7
      <4>3. n + j = p + i
        BY <2>1, <2>10, <3>1, <4>1
      <4>4. QED
        BY <3>2, <4>1, <4>2, <4>3
    <3>3. \A i \in 1..k : h[i] = g[o + i] /\ h[i] \in Seq(T) /\ h[i] = s[p + i]
      BY <3>8
    <3>4. h = [i \in 1..k |-> s[p + i]]
      BY <3>2, <3>3
    <3>5. JoinNext(g, o, k) = FlattenSeq(h)
      BY <3>2 DEF JoinNext
    <3>9. JoinNext(s, p, k) = FlattenSeq(h)
      BY <3>4 DEF JoinNext
    <3>6. k = Len(s) - p
      BY <1>1, <2>5, <3>1
    <3>7. QED
      BY <3>1, <3>5, <3>6, <3>9 DEF JoinRest
  <2>15. JoinNext(s, n, k + 1) = JoinRest(s, n)
    BY <1>1, <2>5 DEF JoinRest
  <2>16. QED
    BY <2>3, <2>4, <2>9, <2>11, <2>12, <2>13, <2>14, <2>15
<1>10. QED
  BY <1>1, <1>4, <1>5, <1>6, <1>7, <1>8, <1>9

\* The first part is a prefix.
LEMMA JoinPrefix ==
  ASSUME NEW T, NEW a \in Seq(T), NEW b \in Seq(T)
  PROVE  /\ IsPrefix(a, a \o b) /\ a \o b \in Seq(T) /\ Len(a) <= Len(a \o b)
         /\ \A i \in 1..Len(a) : (a \o b)[i] = a[i]
         /\ \A i \in 1..Len(b) : (a \o b)[Len(a) + i] = b[i]
<1> DEFINE c == a \o b
           n == Len(a)
<1>1. /\ c \in Seq(T) /\ Len(c) = n + Len(b) /\ n \in Nat /\ Len(b) \in Nat
      /\ \A i \in 1..(n + Len(b)) : c[i] = IF i <= n THEN a[i] ELSE b[i - n]
  BY ConcatProperties
<1> HIDE DEF c
<1>2. \A i \in 1..n : c[i] = a[i]
  BY <1>1
<1>3. \A i \in 1..Len(b) : c[n + i] = b[i]
  <2>1. ASSUME NEW i \in 1..Len(b) PROVE c[n + i] = b[i]
    <3>1. PICK j \in 1..(n + Len(b)) : j = n + i
      BY <1>1
    <3>2. ~(j <= n) /\ j - n = i
      BY <1>1, <3>1
    <3>3. c[j] = b[i]
      BY <1>1, <3>2
    <3>4. QED
      BY <3>1, <3>3
  <2>2. QED
    BY <2>1
<1>4. n <= Len(c)
  BY <1>1
<1>5. /\ Part(c, 0, n) \in Seq(T) /\ Len(Part(c, 0, n)) = n
      /\ \A j \in 1..n : Part(c, 0, n)[j] = c[j]
  BY <1>1, <1>4, FirstPartIs
<1>6. /\ Part(a, 0, n) \in Seq(T) /\ Len(Part(a, 0, n)) = n
      /\ \A j \in 1..n : Part(a, 0, n)[j] = a[j]
  BY <1>1, FirstPartIs
<1>7. Part(c, 0, n) = Part(a, 0, n)
  <2> DEFINE u == Part(c, 0, n)
             v == Part(a, 0, n)
  <2> HIDE DEF u, v, n
  <2>1. \A j \in 1..n : u[j] = v[j]
    BY <1>2, <1>5, <1>6 DEF u, v
  <2>2. u = v
    BY <1>5, <1>6, <2>1 DEF u, v
  <2>3. QED
    BY <2>2 DEF u, v
<1>8. Len(a) <= Len(c) /\ SubSeq(a, 1, Len(a)) = SubSeq(c, 1, Len(a))
  BY <1>1, <1>4, <1>7 DEF Part
<1>9. IsPrefix(a, c)
  BY <1>8 DEF IsPrefix
<1>10. QED
  BY <1>1, <1>2, <1>3, <1>4, <1>9 DEF c
=============================================================================
