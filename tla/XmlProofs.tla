----------------------------- MODULE XmlProofs -----------------------------
(***************************************************************************)
(* The links of pugixml's trees, for any sets of nodes and of documents:   *)
(* after any calls the lists of children are lists and the trees trees.    *)
(* Then the memory of documents that are loaded (XmlLoad), and the chunks  *)
(* in which a document is saved (XmlBufferedWriter).                       *)
(***************************************************************************)
EXTENDS XmlDom, XmlLoad, XmlBufferedWriter, DataLemmas

Pointers == [Node -> Node \cup {None}]

Links == [parent : Pointers, next : Pointers, prev : Pointers, first : Pointers]

\* Linked of the four functions, one node at a time.
RingAt(P, N, V, F, n) ==
  /\ P[n] # None =>
       /\ F[P[n]] \in Node /\ P[F[P[n]]] = P[n]
       /\ V[n] \in Node /\ P[V[n]] = P[n]
       /\ N[V[n]] = n \/ (N[V[n]] = None /\ F[P[n]] = n)
       /\ N[n] # None => P[N[n]] = P[n] /\ V[N[n]] = n
       /\ N[n] = None => V[F[P[n]]] = n
  /\ P[n] = None => N[n] = None
  /\ F[n] # None => P[F[n]] = n /\ N[V[F[n]]] = None

Ring(P, N, V, F) ==
  /\ P \in Pointers /\ N \in Pointers /\ V \in Pointers /\ F \in Pointers
  /\ \A n \in Node : RingAt(P, N, V, F, n)

RingOf(t) == t \in Links /\ Ring(t.parent, t.next, t.prev, t.first)

LEMMA RingIsLinked ==
  ASSUME NEW t \in Links
  PROVE  Linked(t) <=> RingOf(t)
BY DomAssumption DEF Links, Pointers, RingOf, Ring, RingAt, Linked, ChildLinked
-----------------------------------------------------------------------------
\* Linking a node that is nowhere keeps every list a list.
LEMMA AppendRing ==
  ASSUME NEW P, NEW N, NEW V, NEW F, Ring(P, N, V, F),
         NEW c \in Node, NEW p \in Node, P[c] = None, c # p, F[p] # None
  PROVE  Ring([P EXCEPT ![c] = p], [N EXCEPT ![V[F[p]]] = c],
              [V EXCEPT ![c] = V[F[p]], ![F[p]] = c], F)
<1> USE DomAssumption
<1> DEFINE h == F[p]
           l == V[h]
<1>1. /\ h \in Node /\ P[h] = p /\ l \in Node /\ P[l] = p
      /\ N[l] = None /\ N[c] = None /\ h # c /\ l # c
  BY DEF Ring, RingAt, Pointers
<1>2. QED BY <1>1 DEF Ring, RingAt, Pointers

LEMMA AppendFirstRing ==
  ASSUME NEW P, NEW N, NEW V, NEW F, Ring(P, N, V, F),
         NEW c \in Node, NEW p \in Node, P[c] = None, c # p, F[p] = None
  PROVE  Ring([P EXCEPT ![c] = p], N, [V EXCEPT ![c] = c], [F EXCEPT ![p] = c])
BY DomAssumption DEF Ring, RingAt, Pointers

LEMMA PrependRing ==
  ASSUME NEW P, NEW N, NEW V, NEW F, Ring(P, N, V, F),
         NEW c \in Node, NEW p \in Node, P[c] = None, c # p, F[p] # None
  PROVE  Ring([P EXCEPT ![c] = p], [N EXCEPT ![c] = F[p]],
              [V EXCEPT ![c] = V[F[p]], ![F[p]] = c], [F EXCEPT ![p] = c])
<1> USE DomAssumption
<1> DEFINE h == F[p]
           l == V[h]
<1>1. /\ h \in Node /\ P[h] = p /\ l \in Node /\ P[l] = p
      /\ N[l] = None /\ N[c] = None /\ h # c /\ l # c
  BY DEF Ring, RingAt, Pointers
<1> DEFINE P1 == [P EXCEPT ![c] = p]
           N1 == [N EXCEPT ![c] = h]
           V1 == [V EXCEPT ![c] = l, ![h] = c]
           F1 == [F EXCEPT ![p] = c]
<1>2. P1 \in Pointers /\ N1 \in Pointers /\ V1 \in Pointers /\ F1 \in Pointers
  BY <1>1 DEF Ring, Pointers
<1>3. RingAt(P1, N1, V1, F1, c)
  BY <1>1 DEF Ring, RingAt, Pointers
<1>4. ASSUME NEW n \in Node, n # c PROVE RingAt(P1, N1, V1, F1, n)
  <2>1. P1[n] = P[n] /\ N1[n] = N[n] /\ V1[n] = IF n = h THEN c ELSE V[n]
    BY <1>1, <1>4 DEF Ring, Pointers
  <2>2. RingAt(P, N, V, F, n) /\ N[n] # c /\ F[n] # c /\ (P[n] # None => V[n] # c)
    BY <1>1, <1>4 DEF Ring, RingAt, Pointers
  <2>3. CASE n = h
    BY <1>1, <1>4, <2>1, <2>2, <2>3 DEF Ring, RingAt, Pointers
  <2>4. CASE n # h
    BY <1>1, <1>4, <2>1, <2>2, <2>4 DEF Ring, RingAt, Pointers
  <2>5. QED BY <2>3, <2>4
<1>5. QED BY <1>2, <1>3, <1>4 DEF Ring

LEMMA AfterRing ==
  ASSUME NEW P, NEW N, NEW V, NEW F, Ring(P, N, V, F),
         NEW c \in Node, NEW n \in Node, P[c] = None, P[n] # None, P[n] # c,
         NEW told \in Node, told = IF N[n] # None THEN N[n] ELSE F[P[n]]
  PROVE  Ring([P EXCEPT ![c] = P[n]], [N EXCEPT ![c] = N[n], ![n] = c],
              [V EXCEPT ![told] = c, ![c] = n], F)
<1> USE DomAssumption
<1>1. P[told] = P[n] /\ N[c] = None /\ told # c /\ n # c
  BY DEF Ring, RingAt, Pointers
<1>2. QED BY <1>1 DEF Ring, RingAt, Pointers

LEMMA BeforeRing ==
  ASSUME NEW P, NEW N, NEW V, NEW F, Ring(P, N, V, F),
         NEW c \in Node, NEW n \in Node, P[c] = None, P[n] # None, P[n] # c, N[V[n]] # None
  PROVE  Ring([P EXCEPT ![c] = P[n]], [N EXCEPT ![V[n]] = c, ![c] = n],
              [V EXCEPT ![c] = V[n], ![n] = c], F)
<1> USE DomAssumption
<1>1. /\ V[n] \in Node /\ P[V[n]] = P[n] /\ N[V[n]] = n
      /\ N[c] = None /\ n # c /\ V[n] # c
  BY DEF Ring, RingAt, Pointers
<1>2. QED BY <1>1 DEF Ring, RingAt, Pointers

LEMMA BeforeFirstRing ==
  ASSUME NEW P, NEW N, NEW V, NEW F, Ring(P, N, V, F),
         NEW c \in Node, NEW n \in Node, P[c] = None, P[n] # None, P[n] # c, N[V[n]] = None
  PROVE  Ring([P EXCEPT ![c] = P[n]], [N EXCEPT ![c] = n],
              [V EXCEPT ![c] = V[n], ![n] = c], [F EXCEPT ![P[n]] = c])
<1> USE DomAssumption
<1>1. /\ V[n] \in Node /\ P[V[n]] = P[n] /\ F[P[n]] = n
      /\ N[c] = None /\ n # c /\ V[n] # c
  BY DEF Ring, RingAt, Pointers
<1>2. QED BY <1>1 DEF Ring, RingAt, Pointers

LEMMA FreedRing ==
  ASSUME NEW P, NEW N, NEW V, NEW F, Ring(P, N, V, F), NEW D \in SUBSET Node,
         \A n \in Node : P[n] # None => (n \in D <=> P[n] \in D),
         NEW P1 \in Pointers, \A n \in Node : P1[n] = IF n \in D THEN None ELSE P[n],
         NEW N1 \in Pointers, \A n \in Node : N1[n] = IF n \in D THEN None ELSE N[n],
         NEW V1 \in Pointers, \A n \in Node : V1[n] = IF n \in D THEN None ELSE V[n],
         NEW F1 \in Pointers, \A n \in Node : F1[n] = IF n \in D THEN None ELSE F[n]
  PROVE  Ring(P1, N1, V1, F1)
<1> USE DomAssumption
<1>1. ASSUME NEW n \in Node PROVE RingAt(P1, N1, V1, F1, n)
  <2>1. CASE n \in D
    BY <2>1 DEF RingAt
  <2>2. CASE n \notin D
    <3>1. /\ P[n] # None => P[n] \notin D /\ F[P[n]] \notin D /\ V[n] \notin D /\ N[n] \notin D
          /\ P[n] # None => P[n] \in Node
          /\ N[n] # None => N[n] \in Node
          /\ F[n] # None => F[n] \notin D /\ F[n] \in Node /\ V[F[n]] \in Node /\ V[F[n]] \notin D
      BY <2>2 DEF Ring, RingAt, Pointers
    <3>2. RingAt(P, N, V, F, n)
      BY DEF Ring
    <3>3. QED BY <2>2, <3>1, <3>2 DEF RingAt
  <2>3. QED BY <2>1, <2>2
<1>2. QED BY <1>1 DEF Ring

LEMMA RemoveRing ==
  ASSUME NEW P, NEW N, NEW V, NEW F, Ring(P, N, V, F), NEW n \in Node, P[n] # None,
         NEW told \in Node, told = IF N[n] # None THEN N[n] ELSE F[P[n]], N[V[n]] # None
  PROVE  Ring([P EXCEPT ![n] = None], [N EXCEPT ![V[n]] = N[n], ![n] = None],
              [V EXCEPT ![told] = V[n], ![n] = None], F)
<1> USE DomAssumption
<1>1. V[n] \in Node /\ P[V[n]] = P[n] /\ N[V[n]] = n /\ P[told] = P[n]
  BY DEF Ring, RingAt, Pointers
<1>2. QED BY <1>1 DEF Ring, RingAt, Pointers

\* A node without siblings around it is the only child there is: the others
\* would be in lists that have no end.
LEMMA OnlyChild ==
  ASSUME NEW P, NEW N, NEW V, NEW F, Ring(P, N, V, F), NoCycle(N),
         NEW n \in Node, P[n] # None, N[V[n]] = None, N[n] = None,
         NEW x \in Node, P[x] = P[n]
  PROVE  x = n
<1> USE DomAssumption
<1> DEFINE S == {y \in Node : P[y] = P[n] /\ y # n}
<1>1. SUFFICES ASSUME S # {} PROVE FALSE
  OBVIOUS
<1>2. PICK y \in S : N[y] \notin S
  BY <1>1 DEF NoCycle
<1>3. F[P[n]] = n /\ V[n] = n
  BY DEF Ring, RingAt
<1>4. CASE N[y] = None
  BY <1>2, <1>3, <1>4 DEF Ring, RingAt
<1>5. CASE N[y] # None
  <2>1. N[y] \in Node /\ P[N[y]] = P[n] /\ V[N[y]] = y
    BY <1>2, <1>5 DEF Ring, RingAt, Pointers
  <2>2. N[y] = n
    BY <1>2, <2>1
  <2>3. QED BY <1>3, <1>2, <2>1, <2>2
<1>6. QED BY <1>4, <1>5

LEMMA RemoveFirstRing ==
  ASSUME NEW P, NEW N, NEW V, NEW F, Ring(P, N, V, F), NoCycle(N),
         NEW n \in Node, P[n] # None,
         NEW told \in Node, told = IF N[n] # None THEN N[n] ELSE F[P[n]], N[V[n]] = None
  PROVE  Ring([P EXCEPT ![n] = None], [N EXCEPT ![n] = None],
              [V EXCEPT ![told] = V[n], ![n] = None], [F EXCEPT ![P[n]] = N[n]])
<1> USE DomAssumption
<1>1. /\ V[n] \in Node /\ P[V[n]] = P[n] /\ F[P[n]] = n
      /\ P[told] = P[n] /\ N[n] # n
  BY DEF Ring, RingAt, Pointers
<1>2. CASE N[n] = None
  <2>1. \A x \in Node : P[x] = P[n] => x = n
    BY <1>2, OnlyChild
  <2>2. QED BY <1>1, <1>2, <2>1 DEF Ring, RingAt, Pointers
<1>3. CASE N[n] # None
  BY <1>1, <1>3 DEF Ring, RingAt, Pointers
<1>4. QED BY <1>2, <1>3
-----------------------------------------------------------------------------
\* What puts a node into a chain, or takes one out, makes no cycle.
LEMMA CutNoCycle ==
  ASSUME NEW f \in Pointers, NoCycle(f), NEW g \in Pointers,
         \A n \in Node : g[n] \in {f[n], None}
  PROVE  NoCycle(g)
BY DomAssumption DEF NoCycle, Pointers

LEMMA EndNoCycle ==
  ASSUME NEW f \in Pointers, NoCycle(f), NEW a \in Node, NEW c \in Node, f[c] = None, a # c
  PROVE  NoCycle([f EXCEPT ![a] = c])
<1> USE DomAssumption
<1> DEFINE g == [f EXCEPT ![a] = c]
<1>1. ASSUME NEW S \in SUBSET Node, S # {}, \A n \in S : g[n] \in S PROVE FALSE
  <2>1. c \notin S
    BY <1>1 DEF Pointers
  <2>2. a \notin S
    BY <1>1, <2>1 DEF Pointers
  <2>3. \A n \in S : f[n] \in S
    BY <1>1, <2>2 DEF Pointers
  <2>4. QED BY <1>1, <2>3 DEF NoCycle
<1>2. QED BY <1>1 DEF NoCycle

LEMMA StartNoCycle ==
  ASSUME NEW f \in Pointers, NoCycle(f), NEW b \in Node, NEW c \in Node,
         b # c, \A n \in Node : f[n] # c
  PROVE  NoCycle([f EXCEPT ![c] = b])
<1> USE DomAssumption
<1> DEFINE g == [f EXCEPT ![c] = b]
<1>1. ASSUME NEW S \in SUBSET Node, S # {}, \A n \in S : g[n] \in S PROVE FALSE
  <2>1. S \ {c} # {}
    BY <1>1 DEF Pointers
  <2>2. \A n \in S \ {c} : f[n] \in S \ {c}
    BY <1>1 DEF Pointers
  <2>3. QED BY <2>1, <2>2 DEF NoCycle
<1>2. QED BY <1>1 DEF NoCycle

LEMMA BetweenNoCycle ==
  ASSUME NEW f \in Pointers, NoCycle(f), NEW a \in Node, NEW c \in Node,
         a # c, \A n \in Node : f[n] # c,
         NEW g \in Pointers, \A n \in Node : g[n] = IF n = a THEN c ELSE IF n = c THEN f[a] ELSE f[n]
  PROVE  NoCycle(g)
<1> USE DomAssumption
<1>1. ASSUME NEW S \in SUBSET Node, S # {}, \A n \in S : g[n] \in S PROVE FALSE
  <2>1. S \ {c} # {}
    BY <1>1 DEF Pointers
  <2>2. \A n \in S \ {c} : f[n] \in S \ {c}
    BY <1>1 DEF Pointers
  <2>3. QED BY <2>1, <2>2 DEF NoCycle
<1>2. QED BY <1>1 DEF NoCycle

LEMMA BypassNoCycle ==
  ASSUME NEW f \in Pointers, NoCycle(f), NEW a \in Node, NEW c \in Node, f[a] = c
  PROVE  NoCycle([f EXCEPT ![a] = f[c], ![c] = None])
<1> USE DomAssumption
<1> DEFINE g == [f EXCEPT ![a] = f[c], ![c] = None]
<1>1. ASSUME NEW S \in SUBSET Node, S # {}, \A n \in S : g[n] \in S PROVE FALSE
  <2>1. c \notin S
    BY <1>1 DEF Pointers
  <2>2. CASE a \in S
    <3>1. \A n \in S \cup {c} : f[n] \in S \cup {c}
      BY <1>1, <2>1, <2>2 DEF Pointers
    <3>2. QED BY <3>1 DEF NoCycle
  <2>3. CASE a \notin S
    <3>1. \A n \in S : f[n] \in S
      BY <1>1, <2>1, <2>3 DEF Pointers
    <3>2. QED BY <1>1, <3>1 DEF NoCycle
  <2>4. QED BY <2>2, <2>3
<1>2. QED BY <1>1 DEF NoCycle
-----------------------------------------------------------------------------
\* Links that are those of lists, with their ends.
Good(t) == RingOf(t) /\ NoCycle(t.next)

\* A node that is below nothing is after nothing.
LEMMA Alone ==
  ASSUME NEW t, Good(t), NEW c \in Node, t.parent[c] = None
  PROVE  t.next[c] = None /\ \A n \in Node : t.next[n] # c /\ t.first[n] # c
BY DomAssumption DEF Good, RingOf, Ring, RingAt, Pointers

LEMMA AppendGood ==
  ASSUME NEW t, Good(t), NEW c \in Node, NEW p \in Node, t.parent[c] = None, c # p
  PROVE  /\ Good(AppendLinks(t, c, p))
         /\ AppendLinks(t, c, p).parent = [t.parent EXCEPT ![c] = p]
<1> USE DomAssumption
<1> DEFINE h == t.first[p]
           l == t.prev[h]
           u == AppendLinks(t, c, p)
<1>1. CASE h = None
  <2>1. u = [parent |-> [t.parent EXCEPT ![c] = p], next |-> t.next,
             prev |-> [t.prev EXCEPT ![c] = c], first |-> [t.first EXCEPT ![p] = c]]
    BY <1>1 DEF AppendLinks
  <2>2. Ring(u.parent, u.next, u.prev, u.first)
    BY <1>1, <2>1, AppendFirstRing DEF Good, RingOf
  <2>3. QED BY <2>1, <2>2 DEF Good, RingOf, Ring, Links
<1>2. CASE h # None
  <2>1. u = [parent |-> [t.parent EXCEPT ![c] = p], next |-> [t.next EXCEPT ![l] = c],
             prev |-> [t.prev EXCEPT ![c] = l, ![h] = c], first |-> t.first]
    BY <1>2 DEF AppendLinks
  <2>2. Ring(u.parent, u.next, u.prev, u.first)
    BY <1>2, <2>1, AppendRing DEF Good, RingOf
  <2>3. l \in Node /\ l # c /\ t.next[c] = None
    BY <1>2 DEF Good, RingOf, Ring, RingAt, Pointers
  <2>4. NoCycle(u.next)
    BY <2>1, <2>3, EndNoCycle DEF Good, RingOf, Ring
  <2>5. QED BY <2>1, <2>2, <2>4 DEF Good, RingOf, Ring, Links
<1>3. QED BY <1>1, <1>2

LEMMA PrependGood ==
  ASSUME NEW t, Good(t), NEW c \in Node, NEW p \in Node, t.parent[c] = None, c # p
  PROVE  /\ Good(PrependLinks(t, c, p))
         /\ PrependLinks(t, c, p).parent = [t.parent EXCEPT ![c] = p]
<1> USE DomAssumption
<1> DEFINE h == t.first[p]
           u == PrependLinks(t, c, p)
<1>0. t.next[c] = None /\ \A n \in Node : t.next[n] # c /\ t.first[n] # c
  BY Alone
<1>1. CASE h = None
  <2>1. [t.next EXCEPT ![c] = h] = t.next
    BY <1>0, <1>1 DEF Good, RingOf, Ring, Pointers
  <2>2. u = [parent |-> [t.parent EXCEPT ![c] = p], next |-> t.next,
             prev |-> [t.prev EXCEPT ![c] = c], first |-> [t.first EXCEPT ![p] = c]]
    BY <1>1, <2>1 DEF PrependLinks
  <2>3. Ring(u.parent, u.next, u.prev, u.first)
    BY <1>1, <2>2, AppendFirstRing DEF Good, RingOf
  <2>4. QED BY <2>2, <2>3 DEF Good, RingOf, Ring, Links
<1>2. CASE h # None
  <2>1. u = [parent |-> [t.parent EXCEPT ![c] = p], next |-> [t.next EXCEPT ![c] = h],
             prev |-> [t.prev EXCEPT ![c] = t.prev[h], ![h] = c], first |-> [t.first EXCEPT ![p] = c]]
    BY <1>2 DEF PrependLinks
  <2>2. Ring(u.parent, u.next, u.prev, u.first)
    BY <1>2, <2>1, PrependRing DEF Good, RingOf
  <2>3. h \in Node /\ h # c
    BY <1>0, <1>2 DEF Good, RingOf, Ring, Pointers
  <2>4. NoCycle(u.next)
    <3>1. t.next \in Pointers /\ NoCycle(t.next)
      BY DEF Good, RingOf, Ring
    <3>2. \A n \in Node : t.next[n] # c
      BY <1>0
    <3>3. NoCycle([t.next EXCEPT ![c] = h])
      BY <2>3, <3>1, <3>2, StartNoCycle
    <3>4. QED BY <2>1, <3>3
  <2>5. QED BY <2>1, <2>2, <2>4 DEF Good, RingOf, Ring, Links
<1>3. QED BY <1>1, <1>2

LEMMA AfterGood ==
  ASSUME NEW t, Good(t), NEW c \in Node, NEW n \in Node,
         t.parent[c] = None, t.parent[n] # None, t.parent[n] # c
  PROVE  /\ Good(AfterLinks(t, c, n))
         /\ AfterLinks(t, c, n).parent = [t.parent EXCEPT ![c] = t.parent[n]]
<1> USE DomAssumption
<1> DEFINE told == IF t.next[n] # None THEN t.next[n] ELSE t.first[t.parent[n]]
           u == AfterLinks(t, c, n)
<1>1. told \in Node /\ n # c
  BY DEF Good, RingOf, Ring, RingAt, Pointers
<1>6. \A x \in Node : t.next[x] # c
  BY Alone
<1>7. Ring(t.parent, t.next, t.prev, t.first) /\ t.next \in Pointers /\ NoCycle(t.next)
  BY DEF Good, RingOf, Ring
<1>2. u = [parent |-> [t.parent EXCEPT ![c] = t.parent[n]],
           next |-> [t.next EXCEPT ![c] = t.next[n], ![n] = c],
           prev |-> [t.prev EXCEPT ![told] = c, ![c] = n], first |-> t.first]
  BY DEF AfterLinks
<1>3. Ring(u.parent, u.next, u.prev, u.first)
  <2> HIDE DEF told
  <2>1. told = IF t.next[n] # None THEN t.next[n] ELSE t.first[t.parent[n]]
    BY DEF told
  <2>2. Ring([t.parent EXCEPT ![c] = t.parent[n]], [t.next EXCEPT ![c] = t.next[n], ![n] = c],
             [t.prev EXCEPT ![told] = c, ![c] = n], t.first)
    BY <1>1, <1>7, <2>1, AfterRing
  <2>3. QED BY <1>2, <2>2
<1>4. NoCycle(u.next)
  <2>1. \A x \in Node : u.next[x] = IF x = n THEN c ELSE IF x = c THEN t.next[n] ELSE t.next[x]
    BY <1>1, <1>2, <1>7 DEF Pointers
  <2>2. u.next \in Pointers
    BY <1>3 DEF Ring
  <2>3. QED BY <1>1, <1>6, <1>7, <2>1, <2>2, BetweenNoCycle
<1>5. QED BY <1>2, <1>3, <1>4 DEF Good, RingOf, Ring, Links

LEMMA BeforeGood ==
  ASSUME NEW t, Good(t), NEW c \in Node, NEW n \in Node,
         t.parent[c] = None, t.parent[n] # None, t.parent[n] # c
  PROVE  /\ Good(BeforeLinks(t, c, n))
         /\ BeforeLinks(t, c, n).parent = [t.parent EXCEPT ![c] = t.parent[n]]
<1> USE DomAssumption
<1> DEFINE b == t.prev[n]
           u == BeforeLinks(t, c, n)
<1>1. n # c /\ b \in Node /\ b # c
  BY DEF Good, RingOf, Ring, RingAt, Pointers
<1>6. \A x \in Node : t.next[x] # c
  BY Alone
<1>7. Ring(t.parent, t.next, t.prev, t.first) /\ t.next \in Pointers /\ NoCycle(t.next)
  BY DEF Good, RingOf, Ring
<1>2. CASE t.next[b] = None
  <2>1. u = [parent |-> [t.parent EXCEPT ![c] = t.parent[n]], next |-> [t.next EXCEPT ![c] = n],
             prev |-> [t.prev EXCEPT ![c] = b, ![n] = c],
             first |-> [t.first EXCEPT ![t.parent[n]] = c]]
    BY <1>2 DEF BeforeLinks
  <2>2. Ring(u.parent, u.next, u.prev, u.first)
    BY <1>2, <1>7, <2>1, BeforeFirstRing
  <2>3. NoCycle(u.next)
    BY <1>1, <1>6, <1>7, <2>1, StartNoCycle
  <2>4. QED BY <2>1, <2>2, <2>3 DEF Good, RingOf, Ring, Links
<1>3. CASE t.next[b] # None
  <2>1. u = [parent |-> [t.parent EXCEPT ![c] = t.parent[n]],
             next |-> [t.next EXCEPT ![b] = c, ![c] = n],
             prev |-> [t.prev EXCEPT ![c] = b, ![n] = c], first |-> t.first]
    BY <1>3 DEF BeforeLinks
  <2>2. Ring(u.parent, u.next, u.prev, u.first)
    BY <1>3, <1>7, <2>1, BeforeRing
  <2>3. NoCycle(u.next)
    <3>1. t.next[b] = n
      BY <1>3 DEF Good, RingOf, Ring, RingAt
    <3>2. \A x \in Node : u.next[x] = IF x = b THEN c ELSE IF x = c THEN t.next[b] ELSE t.next[x]
      BY <1>1, <1>7, <2>1, <3>1 DEF Pointers
    <3>3. u.next \in Pointers
      BY <2>2 DEF Ring
    <3>4. QED BY <1>1, <1>6, <1>7, <3>2, <3>3, BetweenNoCycle
  <2>4. QED BY <2>1, <2>2, <2>3 DEF Good, RingOf, Ring, Links
<1>4. QED BY <1>2, <1>3

LEMMA RemoveGood ==
  ASSUME NEW t, Good(t), NEW n \in Node, t.parent[n] # None
  PROVE  /\ Good(RemoveLinks(t, n))
         /\ RemoveLinks(t, n).parent = [t.parent EXCEPT ![n] = None]
<1> USE DomAssumption
<1> DEFINE told == IF t.next[n] # None THEN t.next[n] ELSE t.first[t.parent[n]]
           b == t.prev[n]
           u == RemoveLinks(t, n)
<1>1. told \in Node /\ b \in Node
  BY DEF Good, RingOf, Ring, RingAt, Pointers
<1>2. CASE t.next[b] = None
  <2>1. u = [parent |-> [t.parent EXCEPT ![n] = None], next |-> [t.next EXCEPT ![n] = None],
             prev |-> [t.prev EXCEPT ![told] = b, ![n] = None],
             first |-> [t.first EXCEPT ![t.parent[n]] = t.next[n]]]
    BY <1>2 DEF RemoveLinks
  <2>2. Ring(u.parent, u.next, u.prev, u.first)
    BY <1>1, <1>2, <2>1, RemoveFirstRing DEF Good, RingOf
  <2>3. NoCycle(u.next)
    <3>1. \A x \in Node : u.next[x] \in {t.next[x], None}
      BY <2>1 DEF Good, RingOf, Ring, Pointers
    <3>2. QED BY <2>2, <3>1, CutNoCycle DEF Good, RingOf, Ring
  <2>4. QED BY <2>1, <2>2, <2>3 DEF Good, RingOf, Ring, Links
<1>3. CASE t.next[b] # None
  <2>1. u = [parent |-> [t.parent EXCEPT ![n] = None],
             next |-> [t.next EXCEPT ![b] = t.next[n], ![n] = None],
             prev |-> [t.prev EXCEPT ![told] = b, ![n] = None], first |-> t.first]
    BY <1>3 DEF RemoveLinks
  <2>2. Ring(u.parent, u.next, u.prev, u.first)
    BY <1>1, <1>3, <2>1, RemoveRing DEF Good, RingOf
  <2>3. t.next[b] = n
    BY <1>3 DEF Good, RingOf, Ring, RingAt
  <2>4. NoCycle(u.next)
    BY <1>1, <2>1, <2>3, BypassNoCycle DEF Good, RingOf, Ring
  <2>5. QED BY <2>1, <2>2, <2>4 DEF Good, RingOf, Ring, Links
<1>4. QED BY <1>2, <1>3

\* Whole trees may be given back.
LEMMA FreedGood ==
  ASSUME NEW t, Good(t), NEW D \in SUBSET Node,
         \A n \in Node : t.parent[n] # None => (n \in D <=> t.parent[n] \in D)
  PROVE  /\ Good(FreedLinks(t, D))
         /\ \A n \in Node : FreedLinks(t, D).parent[n] = IF n \in D THEN None ELSE t.parent[n]
<1> USE DomAssumption
<1> DEFINE u == FreedLinks(t, D)
<1>1. Ring(u.parent, u.next, u.prev, u.first)
  <2>1. Ring(t.parent, t.next, t.prev, t.first)
    BY DEF Good, RingOf
  <2>2. /\ u.parent \in Pointers /\ u.next \in Pointers /\ u.prev \in Pointers /\ u.first \in Pointers
        /\ \A n \in Node : /\ u.parent[n] = IF n \in D THEN None ELSE t.parent[n]
                           /\ u.next[n] = IF n \in D THEN None ELSE t.next[n]
                           /\ u.prev[n] = IF n \in D THEN None ELSE t.prev[n]
                           /\ u.first[n] = IF n \in D THEN None ELSE t.first[n]
    BY <2>1 DEF FreedLinks, Ring, Pointers
  <2> HIDE DEF u
  <2>3. QED BY <2>1, <2>2, FreedRing
<1>2. NoCycle(u.next)
  <2>1. \A x \in Node : u.next[x] \in {t.next[x], None}
    BY DEF FreedLinks
  <2>2. QED BY <1>1, <2>1, CutNoCycle DEF Good, RingOf, Ring
<1>3. QED BY <1>1, <1>2 DEF Good, RingOf, Ring, Links, FreedLinks

\* The place before a node that is in no list says nothing.
LEMMA PrevGood ==
  ASSUME NEW t, Good(t), NEW d \in Node, t.parent[d] = None, NEW v \in Node \cup {None}
  PROVE  Good([t EXCEPT !.prev = [t.prev EXCEPT ![d] = v]])
<1> USE DomAssumption
<1> DEFINE V1 == [t.prev EXCEPT ![d] = v]
           u == [t EXCEPT !.prev = V1]
<1>1. Ring(t.parent, t.next, t.prev, t.first)
  BY DEF Good, RingOf
<1>2. u = [parent |-> t.parent, next |-> t.next, prev |-> V1, first |-> t.first]
  BY DEF Good, RingOf, Links
<1>3. Ring(t.parent, t.next, V1, t.first)
  <2>1. V1 \in Pointers
    BY <1>1 DEF Ring, Pointers
  <2>2. ASSUME NEW n \in Node PROVE RingAt(t.parent, t.next, V1, t.first, n)
    BY <1>1 DEF Ring, RingAt, Pointers
  <2>3. QED BY <1>1, <2>1, <2>2 DEF Ring
<1>4. QED BY <1>2, <1>3 DEF Good, RingOf, Ring, Links

\* The children of one root become those of another that has none.
LEMMA TakenGood ==
  ASSUME NEW t, Good(t), NEW d \in Node, NEW e \in Node, d # e,
         t.parent[d] = None, t.parent[e] = None, t.first[d] = None
  PROVE  /\ Good(TakenLinks(t, d, e))
         /\ TakenLinks(t, d, e).parent =
              [n \in Node |-> IF t.parent[n] = e THEN d ELSE t.parent[n]]
<1> USE DomAssumption
<1> DEFINE u == TakenLinks(t, d, e)
<1>1. Ring(t.parent, t.next, t.prev, t.first)
  BY DEF Good, RingOf
<1>2. /\ u = [parent |-> u.parent, next |-> t.next, prev |-> u.prev, first |-> u.first]
      /\ u.parent \in Pointers /\ u.prev \in Pointers /\ u.first \in Pointers
      /\ \A n \in Node : /\ u.parent[n] = IF t.parent[n] = e THEN d ELSE t.parent[n]
                         /\ u.prev[n] = IF n = e THEN None ELSE t.prev[n]
                         /\ u.first[n] = IF n = e THEN None ELSE IF n = d THEN t.first[e] ELSE t.first[n]
  BY <1>1 DEF TakenLinks, Ring, Pointers
<1> HIDE DEF u
<1>3. ASSUME NEW n \in Node PROVE RingAt(u.parent, t.next, u.prev, u.first, n)
  <2>1. RingAt(t.parent, t.next, t.prev, t.first, n)
    BY <1>1 DEF Ring
  <2>2. t.parent[n] # d
    BY <1>1 DEF Ring, RingAt
  <2>3. CASE t.parent[n] = None
    <3>1. CASE n = d
      BY <1>1, <1>2, <2>1, <2>3, <3>1 DEF Ring, RingAt, Pointers
    <3>2. CASE n # d
      BY <1>1, <1>2, <2>1, <2>3, <3>2 DEF Ring, RingAt, Pointers
    <3>3. QED BY <3>1, <3>2
  <2>4. CASE t.parent[n] # None
    <3> DEFINE q == t.parent[n]
    <3>1. /\ n # e /\ n # d /\ q \in Node /\ q # d
          /\ t.first[q] \in Node /\ t.parent[t.first[q]] = q /\ t.first[q] # e
          /\ t.prev[n] \in Node /\ t.parent[t.prev[n]] = q
          /\ t.next[n] # None => t.next[n] \in Node /\ t.parent[t.next[n]] = q /\ t.next[n] # e
          /\ t.first[n] # None => t.first[n] \in Node /\ t.parent[t.first[n]] = n /\ t.first[n] # e
      BY <1>1, <2>1, <2>2, <2>4 DEF Ring, RingAt, Pointers
    <3>2. u.parent[n] = IF q = e THEN d ELSE q
      BY <1>2
    <3>3. u.first[u.parent[n]] = t.first[q] /\ u.parent[t.first[q]] = u.parent[n]
      BY <1>2, <3>1, <3>2
    <3>4. u.prev[n] = t.prev[n] /\ u.parent[t.prev[n]] = u.parent[n]
      BY <1>2, <3>1, <3>2
    <3>5. t.next[n] # None => u.parent[t.next[n]] = u.parent[n] /\ u.prev[t.next[n]] = t.prev[t.next[n]]
      BY <1>2, <3>1, <3>2
    <3>6. u.prev[t.first[q]] = t.prev[t.first[q]]
      BY <1>2, <3>1
    <3>7. /\ u.first[n] = t.first[n]
          /\ t.first[n] # None => u.parent[t.first[n]] = n /\ u.prev[t.first[n]] = t.prev[t.first[n]]
      BY <1>2, <3>1
    <3>8. u.parent[n] # None
      BY <3>1, <3>2
    <3> HIDE DEF q
    <3>9. QED BY <2>1, <3>1, <3>3, <3>4, <3>5, <3>6, <3>7, <3>8 DEF RingAt, q
  <2>5. QED BY <2>3, <2>4
<1>4. Ring(u.parent, u.next, u.prev, u.first) /\ u.next = t.next
  BY <1>1, <1>2, <1>3 DEF Ring
<1>5. u \in Links
  BY <1>1, <1>2 DEF Ring, Links
<1>6. QED BY <1>4, <1>5 DEF Good, RingOf, u, TakenLinks
-----------------------------------------------------------------------------
LEMMA AboveSelf ==
  ASSUME NEW t, NEW n \in Node
  PROVE  n \in Above(t, n)
BY DEF Above

LEMMA AboveParent ==
  ASSUME NEW t, t.parent \in Pointers, NEW n \in Node, NEW m \in Above(t, n), t.parent[m] # None
  PROVE  t.parent[m] \in Above(t, n)
BY DEF Above, Pointers

LEMMA AboveOfParent ==
  ASSUME NEW t, t.parent \in Pointers, NEW n \in Node, t.parent[n] # None, NEW m \in Node, m # n
  PROVE  m \in Above(t, n) <=> m \in Above(t, t.parent[n])
<1>1. ASSUME m \in Above(t, n), NEW S \in SUBSET Node, t.parent[n] \in S,
             \A x \in S : t.parent[x] # None => t.parent[x] \in S
      PROVE  m \in S
  <2>1. m \in S \cup {n}
    BY <1>1 DEF Above
  <2>2. QED BY <2>1
<1>2. ASSUME m \in Above(t, t.parent[n]) PROVE m \in Above(t, n)
  BY <1>2 DEF Above
<1>3. QED BY <1>1, <1>2 DEF Above

LEMMA HangNoCycle ==
  ASSUME NEW t, t.parent \in Pointers, NoCycle(t.parent),
         NEW c \in Node, NEW p \in Node, c \notin Above(t, p)
  PROVE  NoCycle([t.parent EXCEPT ![c] = p])
<1> USE DomAssumption
<1> DEFINE g == [t.parent EXCEPT ![c] = p]
<1>1. ASSUME NEW S \in SUBSET Node, S # {}, \A n \in S : g[n] \in S PROVE FALSE
  <2>1. CASE c \notin S
    BY <1>1, <2>1 DEF NoCycle, Pointers
  <2>2. CASE c \in S
    <3> DEFINE T == Above(t, p) \cap S
    <3>1. p \in T
      BY <1>1, <2>2, AboveSelf DEF Pointers
    <3>2. ASSUME NEW x \in T PROVE t.parent[x] \in T
      <4>1. x # c /\ x \in Node
        BY <1>1
      <4>2. t.parent[x] \in S /\ t.parent[x] # None
        BY <1>1, <4>1 DEF Pointers
      <4>3. QED BY <4>1, <4>2, AboveParent
    <3>3. QED BY <3>1, <3>2 DEF NoCycle
  <2>3. QED BY <2>1, <2>2
<1>2. QED BY <1>1 DEF NoCycle
-----------------------------------------------------------------------------
(***************************************************************************)
(* The invariant that is inductive: the properties of the runs, and what   *)
(* a document is.                                                          *)
(***************************************************************************)
IInv ==
  /\ Good(tree)
  /\ NoCycle(tree.parent)
  /\ type \in [Node -> Type \cup {"null", "document"}]
  /\ owner \in [Node -> Document \cup {None}]
  /\ AliveAttached
  /\ ChildrenAllowed
  /\ \A d \in Document : type[d] = "document" /\ owner[d] = d

LEMMA InitIInv == Init => IInv
<1> USE DomAssumption
<1> SUFFICES ASSUME Init PROVE IInv
  OBVIOUS
<1>1. Good(tree)
  BY DEF Init, Good, RingOf, Ring, RingAt, Links, Pointers, NoCycle
<1>2. NoCycle(tree.parent)
  BY DEF Init, NoCycle
<1>3. QED BY <1>1, <1>2 DEF Init, IInv, AliveAttached, ChildrenAllowed, Alive

\* A new node below p.
LEMMA NewChildIInv ==
  ASSUME IInv, NEW p \in Alive, NEW c \in Node, NEW ty \in Type, NEW t,
         NewChild(p, c, ty, t), Good(t), t.parent = [tree.parent EXCEPT ![c] = p]
  PROVE  IInv'
<1> USE DomAssumption
<1>1. /\ c \notin Alive /\ c \notin Document /\ c # p /\ p \in Node /\ tree.parent[c] = None
      /\ tree.parent \in Pointers /\ ty # "null" /\ ty # "document"
  BY DEF IInv, NewChild, Alive, AliveAttached, AllowInsertChild, Good, RingOf, Ring
<1>2. \A x \in Node : tree.parent[x] # c
  BY <1>1 DEF IInv, AliveAttached
<1>3. c \notin Above(tree, p)
  <2>1. \A x \in Node \ {c} : tree.parent[x] # None => tree.parent[x] \in Node \ {c}
    BY <1>1, <1>2 DEF Pointers
  <2>2. QED BY <1>1, <2>1 DEF Above
<1>4. NoCycle(tree'.parent)
  BY <1>1, <1>3, HangNoCycle DEF IInv, NewChild
<1>5. Alive' = Alive \cup {c}
  BY <1>1 DEF IInv, NewChild, Alive
<1>6. AliveAttached'
  <2>1. \A x \in Node : tree'.parent[x] = IF x = c THEN p ELSE tree.parent[x]
    BY <1>1 DEF NewChild, Pointers
  <2>2. \A x \in Node : owner'[x] = IF x = c THEN owner[p] ELSE owner[x]
    BY DEF IInv, NewChild
  <2>3. \A x \in Node : /\ x \in Alive' \ Document <=> tree'.parent[x] # None
                        /\ tree'.parent[x] # None => /\ tree'.parent[x] \in Alive'
                                                     /\ owner'[x] = owner'[tree'.parent[x]]
    <3>1. ASSUME NEW x \in Node, x # c
          PROVE  /\ x \in Alive' \ Document <=> tree.parent[x] # None
                 /\ tree.parent[x] # None => /\ tree.parent[x] \in Alive'
                                             /\ owner[x] = owner[tree.parent[x]]
      BY <1>5, <3>1 DEF IInv, AliveAttached
    <3>2. \A x \in Node : tree.parent[x] # None => tree.parent[x] \in Node
      BY <1>1 DEF Pointers
    <3>3. QED BY <1>1, <1>2, <1>5, <2>1, <2>2, <3>1, <3>2
  <2>4. \A x \in Node : x \notin Alive' => tree'.first[x] = None
    BY <2>3 DEF NewChild, Good, RingOf, Ring, RingAt, Pointers, Alive
  <2>5. QED BY <2>3, <2>4 DEF AliveAttached
<1>7. ChildrenAllowed'
  BY <1>1, <1>2 DEF IInv, NewChild, ChildrenAllowed, Pointers, AllowInsertChild
<1>8. QED BY <1>1, <1>4, <1>6, <1>7 DEF IInv, NewChild, Alive

\* A node that is moved below p.
LEMMA MovedIInv ==
  ASSUME IInv, NEW p \in Alive, NEW m \in Alive, NEW t,
         Moved(p, m, t), Good(t), t.parent = [tree.parent EXCEPT ![m] = p]
  PROVE  IInv'
<1> USE DomAssumption
<1>1. /\ m \in Node /\ m \notin Document /\ p \in Node /\ tree.parent \in Pointers
      /\ AllowMove(p, m) /\ Alive' = Alive
  BY DEF IInv, Moved, Alive, AllowMove, AllowInsertChild, Good, RingOf, Ring
<1>2. NoCycle(tree'.parent)
  BY <1>1, HangNoCycle DEF IInv, Moved, AllowMove
<1>3. \A x \in Node : tree'.parent[x] = IF x = m THEN p ELSE tree.parent[x]
  BY <1>1 DEF Moved, Pointers
<1>4. AliveAttached'
  <2>1. \A x \in Node : /\ x \in Alive' \ Document <=> tree'.parent[x] # None
                        /\ tree'.parent[x] # None => /\ tree'.parent[x] \in Alive'
                                                     /\ owner'[x] = owner'[tree'.parent[x]]
    BY <1>1, <1>3 DEF IInv, Moved, AliveAttached, AllowMove
  <2>2. \A x \in Node : x \notin Alive' => tree'.first[x] = None
    BY <2>1 DEF Moved, Good, RingOf, Ring, RingAt, Pointers, Alive
  <2>3. QED BY <2>1, <2>2 DEF AliveAttached
<1>5. ChildrenAllowed'
  BY <1>1, <1>3 DEF IInv, Moved, ChildrenAllowed, AllowMove
<1>6. QED BY <1>1, <1>2, <1>4, <1>5 DEF IInv, Moved

\* The node that is moved, taken out of its list first.
LEMMA TakenOut ==
  ASSUME IInv, NEW p \in Alive, NEW m \in Alive, AllowMove(p, m)
  PROVE  LET r == RemoveLinks(tree, m) IN
         /\ m \in Node /\ p \in Node /\ m # p
         /\ Good(r) /\ r.parent = [tree.parent EXCEPT ![m] = None]
         /\ tree.parent \in Pointers
         /\ [[tree.parent EXCEPT ![m] = None] EXCEPT ![m] = p] = [tree.parent EXCEPT ![m] = p]
<1> USE DomAssumption
<1>1. m \in Node /\ p \in Node /\ m # p /\ tree.parent \in Pointers
  BY AboveSelf DEF IInv, Alive, AllowMove, Good, RingOf, Ring
<1>2. tree.parent[m] # None
  BY <1>1 DEF IInv, AliveAttached, AllowMove, AllowInsertChild
<1>3. QED BY <1>1, <1>2, RemoveGood DEF IInv, Pointers
-----------------------------------------------------------------------------
LEMMA AddStep ==
  ASSUME IInv, NEW p \in Alive, NEW c \in Node, NEW ty \in Type,
         \/ AppendChild(p, c, ty)
         \/ PrependChild(p, c, ty)
         \/ \E n \in Alive : InsertChildAfter(p, c, ty, n) \/ InsertChildBefore(p, c, ty, n)
  PROVE  IInv'
<1> USE DomAssumption
<1>1. /\ c \notin Alive /\ c # p /\ p \in Node /\ tree.parent[c] = None /\ Good(tree)
  BY DEF IInv, NewChild, Alive, AliveAttached, AppendChild, PrependChild, InsertChildAfter,
         InsertChildBefore
<1>2. CASE AppendChild(p, c, ty)
  BY <1>1, <1>2, AppendGood, NewChildIInv DEF AppendChild
<1>3. CASE PrependChild(p, c, ty)
  BY <1>1, <1>3, PrependGood, NewChildIInv DEF PrependChild
<1>4. ASSUME NEW n \in Alive, InsertChildAfter(p, c, ty, n) PROVE IInv'
  <2>1. n \in Node /\ tree.parent[n] = p /\ p # None
    BY <1>1, <1>4 DEF InsertChildAfter, Alive
  <2>2. /\ Good(AfterLinks(tree, c, n))
        /\ AfterLinks(tree, c, n).parent = [tree.parent EXCEPT ![c] = p]
    BY <1>1, <2>1, AfterGood
  <2>3. QED BY <1>4, <2>2, NewChildIInv DEF InsertChildAfter
<1>5. ASSUME NEW n \in Alive, InsertChildBefore(p, c, ty, n) PROVE IInv'
  <2>1. n \in Node /\ tree.parent[n] = p /\ p # None
    BY <1>1, <1>5 DEF InsertChildBefore, Alive
  <2>2. /\ Good(BeforeLinks(tree, c, n))
        /\ BeforeLinks(tree, c, n).parent = [tree.parent EXCEPT ![c] = p]
    BY <1>1, <2>1, BeforeGood
  <2>3. QED BY <1>5, <2>2, NewChildIInv DEF InsertChildBefore
<1>6. QED BY <1>2, <1>3, <1>4, <1>5

LEMMA MoveStep ==
  ASSUME IInv, NEW p \in Alive, NEW m \in Alive,
         \/ AppendMove(p, m)
         \/ PrependMove(p, m)
         \/ \E n \in Alive : InsertMoveAfter(p, m, n) \/ InsertMoveBefore(p, m, n)
  PROVE  IInv'
<1> USE DomAssumption
<1> DEFINE r == RemoveLinks(tree, m)
<1>1. AllowMove(p, m)
  BY DEF AppendMove, PrependMove, InsertMoveAfter, InsertMoveBefore, Moved
<1>2. /\ m \in Node /\ p \in Node /\ m # p
      /\ Good(r) /\ r.parent = [tree.parent EXCEPT ![m] = None]
      /\ tree.parent \in Pointers
      /\ [[tree.parent EXCEPT ![m] = None] EXCEPT ![m] = p] = [tree.parent EXCEPT ![m] = p]
  BY <1>1, TakenOut
<1>3. r.parent[m] = None /\ [r.parent EXCEPT ![m] = p] = [tree.parent EXCEPT ![m] = p]
  BY <1>2 DEF Pointers
<1>9. r.parent[m] = None /\ m # p /\ m \in Node /\ p \in Node /\ Good(r)
  BY <1>2, <1>3
<1> HIDE DEF r
<1>4. CASE AppendMove(p, m)
  <2>1. Good(AppendLinks(r, m, p)) /\ AppendLinks(r, m, p).parent = [tree.parent EXCEPT ![m] = p]
    <3>1. Good(AppendLinks(r, m, p)) /\ AppendLinks(r, m, p).parent = [r.parent EXCEPT ![m] = p]
      BY <1>9, AppendGood
    <3>2. QED BY <1>3, <3>1
  <2>2. QED BY <1>4, <2>1, MovedIInv DEF AppendMove, r
<1>5. CASE PrependMove(p, m)
  <2>1. Good(PrependLinks(r, m, p)) /\ PrependLinks(r, m, p).parent = [tree.parent EXCEPT ![m] = p]
    <3>1. Good(PrependLinks(r, m, p)) /\ PrependLinks(r, m, p).parent = [r.parent EXCEPT ![m] = p]
      BY <1>9, PrependGood
    <3>2. QED BY <1>3, <3>1
  <2>2. QED BY <1>5, <2>1, MovedIInv DEF PrependMove, r
<1>6. ASSUME NEW n \in Alive, InsertMoveAfter(p, m, n) PROVE IInv'
  <2>1. n \in Node /\ r.parent[n] = p /\ p # None
    BY <1>2, <1>6 DEF InsertMoveAfter, Alive, Pointers
  <2>2. Good(AfterLinks(r, m, n)) /\ AfterLinks(r, m, n).parent = [tree.parent EXCEPT ![m] = p]
    <3>1. Good(AfterLinks(r, m, n)) /\ AfterLinks(r, m, n).parent = [r.parent EXCEPT ![m] = r.parent[n]]
      BY <1>9, <2>1, AfterGood
    <3>2. QED BY <1>3, <2>1, <3>1
  <2>3. QED BY <1>6, <2>2, MovedIInv DEF InsertMoveAfter, r
<1>7. ASSUME NEW n \in Alive, InsertMoveBefore(p, m, n) PROVE IInv'
  <2>1. n \in Node /\ r.parent[n] = p /\ p # None
    BY <1>2, <1>7 DEF InsertMoveBefore, Alive, Pointers
  <2>2. Good(BeforeLinks(r, m, n)) /\ BeforeLinks(r, m, n).parent = [tree.parent EXCEPT ![m] = p]
    <3>1. Good(BeforeLinks(r, m, n)) /\ BeforeLinks(r, m, n).parent = [r.parent EXCEPT ![m] = r.parent[n]]
      BY <1>9, <2>1, BeforeGood
    <3>2. QED BY <1>3, <2>1, <3>1
  <2>3. QED BY <1>7, <2>2, MovedIInv DEF InsertMoveBefore, r
<1>8. QED BY <1>4, <1>5, <1>6, <1>7

\* Whole trees, without a document, go.
LEMMA GoneIInv ==
  ASSUME IInv, NEW D \in SUBSET (Node \ Document), NEW t, t.parent \in Pointers, Good(t),
         \A n \in Node : t.parent[n] = IF n \in D THEN None ELSE tree.parent[n],
         \A n \in Node \ D : tree.parent[n] # None => tree.parent[n] \notin D,
         tree' = t,
         type' = [m \in Node |-> IF m \in D THEN "null" ELSE type[m]],
         owner' = [m \in Node |-> IF m \in D THEN None ELSE owner[m]]
  PROVE  IInv'
<1> USE DomAssumption
<1>1. tree.parent \in Pointers /\ Alive' = Alive \ D
  BY DEF IInv, Good, RingOf, Ring, Alive
<1>2. NoCycle(tree'.parent)
  BY <1>1, CutNoCycle DEF IInv
<1>3. AliveAttached'
  <2>1. ASSUME NEW x \in Node
        PROVE  /\ x \in Alive' \ Document <=> tree'.parent[x] # None
               /\ tree'.parent[x] # None => /\ tree'.parent[x] \in Alive'
                                            /\ owner'[x] = owner'[tree'.parent[x]]
    <3>1. CASE x \in D
      BY <1>1, <3>1
    <3>2. CASE x \notin D
      BY <1>1, <3>2 DEF IInv, AliveAttached, Alive
    <3>3. QED BY <3>1, <3>2
  <2>2. ASSUME NEW x \in Node, x \notin Alive', tree'.first[x] # None PROVE FALSE
    <3>1. t.first[x] \in Node /\ t.parent[t.first[x]] = x
      BY <2>2 DEF Good, RingOf, Ring, RingAt, Pointers
    <3>2. QED BY <2>1, <2>2, <3>1
  <2>3. QED BY <2>1, <2>2 DEF AliveAttached
<1>4. ChildrenAllowed'
  BY <1>1 DEF IInv, ChildrenAllowed, Pointers
<1>5. QED BY <1>2, <1>3, <1>4 DEF IInv

LEMMA RemoveStep ==
  ASSUME IInv, NEW p \in Alive, NEW n \in Alive, RemoveChild(p, n)
  PROVE  IInv'
<1> USE DomAssumption
<1> DEFINE D == Subtree(tree, n)
           r == RemoveLinks(tree, n)
           t == FreedLinks(r, D)
<1>1. /\ n \in Node /\ p \in Node /\ tree.parent[n] = p /\ tree.parent[n] # None
      /\ tree.parent \in Pointers /\ Good(tree) /\ n \notin Document
  BY DEF IInv, RemoveChild, Alive, Good, RingOf, Ring, AliveAttached
<1>2. Good(r) /\ r.parent = [tree.parent EXCEPT ![n] = None]
  BY <1>1, RemoveGood
<1>3. D \in SUBSET Node /\ n \in D
  BY <1>1, AboveSelf DEF Subtree
<1>4. \A x \in Node : x # n /\ tree.parent[x] # None => (x \in D <=> tree.parent[x] \in D)
  <2>1. ASSUME NEW x \in Node, x # n, tree.parent[x] # None
        PROVE  x \in D <=> tree.parent[x] \in D
    <3>1. tree.parent[x] \in Node
      BY <1>1, <2>1 DEF Pointers
    <3>2. n \in Above(tree, x) <=> n \in Above(tree, tree.parent[x])
      BY <1>1, <2>1, AboveOfParent
    <3>3. QED BY <3>1, <3>2 DEF Subtree
  <2>2. QED BY <2>1
<1>5. D \cap Document = {}
  <2>1. ASSUME NEW d \in Document, n \in Above(tree, d) PROVE FALSE
    <3>1. tree.parent[d] = None /\ d # n
      BY <1>1 DEF IInv, AliveAttached
    <3>2. n \in {d}
      BY <1>1, <2>1, <3>1 DEF Above
    <3>3. QED BY <3>1, <3>2
  <2>2. QED BY <2>1 DEF Subtree
<1> HIDE DEF D
<1>6. \A x \in Node : r.parent[x] # None => (x \in D <=> r.parent[x] \in D)
  BY <1>1, <1>2, <1>4 DEF Pointers
<1>7. Good(t) /\ \A x \in Node : t.parent[x] = IF x \in D THEN None ELSE r.parent[x]
  BY <1>2, <1>3, <1>6, FreedGood
<1>8. t.parent \in Pointers /\ \A x \in Node : t.parent[x] = IF x \in D THEN None ELSE tree.parent[x]
  BY <1>1, <1>2, <1>3, <1>7 DEF Pointers, Good, RingOf, Ring
<1>9. \A x \in Node \ D : tree.parent[x] # None => tree.parent[x] \notin D
  BY <1>3, <1>4
<1>10. tree' = t /\ type' = [m \in Node |-> IF m \in D THEN "null" ELSE type[m]]
       /\ owner' = [m \in Node |-> IF m \in D THEN None ELSE owner[m]]
  BY DEF RemoveChild, D
<1> HIDE DEF t
<1>11. QED BY <1>3, <1>5, <1>7, <1>8, <1>9, <1>10, GoneIInv

\* What a reset leaves of the links.
LEMMA ResetGood ==
  ASSUME IInv, NEW d \in Document
  PROVE  LET t == ResetLinks(tree, d) IN
         /\ Good(t) /\ t.parent \in Pointers
         /\ \A n \in Node : t.parent[n] = IF n \in Held(d) THEN None ELSE tree.parent[n]
         /\ \A n \in Node \ Held(d) : tree.parent[n] # None => tree.parent[n] \notin Held(d) \cup {d}
<1> USE DomAssumption
<1> DEFINE D == Held(d) \cup {d}
           u == FreedLinks(tree, D)
           t == ResetLinks(tree, d)
<1>1. d \in Node /\ tree.parent[d] = None /\ tree.parent \in Pointers /\ Good(tree)
  BY DEF IInv, AliveAttached, Good, RingOf, Ring
<1>2. \A n \in Node : tree.parent[n] # None => (n \in D <=> tree.parent[n] \in D)
  <2>1. ASSUME NEW n \in Node, tree.parent[n] # None
        PROVE  n \in D <=> tree.parent[n] \in D
    <3>1. n \notin Document /\ tree.parent[n] \in Node /\ owner[n] = owner[tree.parent[n]]
      BY <1>1, <2>1 DEF IInv, AliveAttached, Pointers
    <3>2. \A x \in Node : x \in D <=> owner[x] = d
      BY DEF Held, IInv
    <3>3. QED BY <3>1, <3>2
  <2>2. QED BY <2>1
<1>3. D \in SUBSET Node
  BY <1>1 DEF Held
<1> HIDE DEF D
<1>4. Good(u) /\ \A n \in Node : u.parent[n] = IF n \in D THEN None ELSE tree.parent[n]
  BY <1>1, <1>2, <1>3, FreedGood
<1>5. t = [u EXCEPT !.prev = [u.prev EXCEPT ![d] = d]]
  BY DEF ResetLinks, D
<1> HIDE DEF u, t
<1>6. u.parent[d] = None
  BY <1>1, <1>4
<1>7. Good(t)
  BY <1>1, <1>4, <1>5, <1>6, PrevGood
<1>8. t.parent = u.parent
  BY <1>4, <1>5 DEF Good, RingOf, Links
<1>9. /\ t.parent \in Pointers
      /\ \A n \in Node : t.parent[n] = IF n \in Held(d) THEN None ELSE tree.parent[n]
  BY <1>1, <1>3, <1>4, <1>7, <1>8 DEF Good, RingOf, Ring, Pointers, D
<1>10. \A n \in Node \ Held(d) : tree.parent[n] # None => tree.parent[n] \notin D
  BY <1>1, <1>2 DEF D
<1>11. QED BY <1>7, <1>9, <1>10 DEF t, D

LEMMA ResetStep ==
  ASSUME IInv, NEW d \in Document, Reset(d)
  PROVE  IInv'
<1> DEFINE t == ResetLinks(tree, d)
<1>1. /\ Good(t) /\ t.parent \in Pointers
      /\ \A n \in Node : t.parent[n] = IF n \in Held(d) THEN None ELSE tree.parent[n]
      /\ \A n \in Node \ Held(d) : tree.parent[n] # None => tree.parent[n] \notin Held(d)
  BY ResetGood
<1>2. Held(d) \in SUBSET (Node \ Document)
  BY DEF Held
<1>3. tree' = t
  BY DEF Reset
<1> HIDE DEF t
<1>4. QED BY <1>1, <1>2, <1>3, GoneIInv DEF Reset

LEMMA MoveDocumentStep ==
  ASSUME IInv, NEW d \in Document, NEW e \in Document, MoveDocument(d, e)
  PROVE  IInv'
<1> USE DomAssumption
<1> DEFINE r == ResetLinks(tree, d)
           u == TakenLinks(r, d, e)
<1>1. /\ Good(r) /\ r.parent \in Pointers
      /\ \A n \in Node : r.parent[n] = IF n \in Held(d) THEN None ELSE tree.parent[n]
      /\ \A n \in Node \ Held(d) : tree.parent[n] # None => tree.parent[n] \notin Held(d) \cup {d}
  BY ResetGood
<1>2. /\ d # e /\ d \in Node /\ e \in Node /\ tree' = u
      /\ d \notin Held(d) /\ e \notin Held(d) /\ tree.parent[d] = None /\ tree.parent[e] = None
      /\ tree.parent \in Pointers /\ Held(d) \cap Held(e) = {} /\ Held(e) \cap Document = {}
  BY DEF MoveDocument, Held, IInv, AliveAttached, Good, RingOf, Ring
<1> HIDE DEF r
<1>3. r.parent[d] = None /\ r.parent[e] = None /\ r.first[d] = None
  <2>1. r.parent[d] = None /\ r.parent[e] = None
    BY <1>1, <1>2
  <2>2. ASSUME r.first[d] # None PROVE FALSE
    <3>1. r.first[d] \in Node /\ r.parent[r.first[d]] = d
      BY <1>1, <1>2, <2>2 DEF Good, RingOf, Ring, RingAt, Pointers
    <3>2. QED BY <1>1, <1>2, <3>1
  <2>3. QED BY <2>1, <2>2
<1>4. Good(u) /\ u.parent = [n \in Node |-> IF r.parent[n] = e THEN d ELSE r.parent[n]]
  BY <1>1, <1>2, <1>3, TakenGood
<1>5. \A n \in Node : u.parent[n] = IF n \in Held(d) THEN None
                                    ELSE IF tree.parent[n] = e THEN d ELSE tree.parent[n]
  BY <1>1, <1>2, <1>4
<1> HIDE DEF u
<1>6. NoCycle(u.parent)
  <2>1. ASSUME NEW S \in SUBSET Node, S # {}, \A n \in S : u.parent[n] \in S PROVE FALSE
    <3>1. d \notin S
      BY <1>2, <1>5, <2>1
    <3>2. \A n \in S : tree.parent[n] \in S
      BY <1>5, <2>1, <3>1
    <3>3. QED BY <2>1, <3>2 DEF IInv, NoCycle
  <2>2. QED BY <2>1 DEF NoCycle
<1>7. /\ \A n \in Node : type'[n] = IF n \in Held(d) THEN "null" ELSE type[n]
      /\ type' \in [Node -> Type \cup {"null", "document"}]
      /\ \A n \in Node : owner'[n] = IF n \in Held(d) THEN None ELSE IF n \in Held(e) THEN d ELSE owner[n]
      /\ owner' \in [Node -> Document \cup {None}]
      /\ \A c \in Document : type'[c] = "document" /\ owner'[c] = c
  BY <1>2 DEF MoveDocument, IInv, Held
<1>8. Alive' = Alive \ Held(d)
  BY <1>7 DEF Alive
<1>9. AliveAttached'
  <2>1. ASSUME NEW x \in Node
        PROVE  /\ x \in Alive' \ Document <=> u.parent[x] # None
               /\ u.parent[x] # None => u.parent[x] \in Alive' /\ owner'[x] = owner'[u.parent[x]]
    <3>1. CASE x \in Held(d)
      BY <1>5, <1>8, <3>1
    <3>2. CASE x \notin Held(d) /\ tree.parent[x] = None
      BY <1>2, <1>5, <1>8, <3>2 DEF IInv, AliveAttached
    <3>3. CASE x \notin Held(d) /\ tree.parent[x] # None /\ tree.parent[x] = e
      <4>1. x \in Alive /\ x \notin Document /\ owner[x] = e /\ d \in Alive
        BY <1>2, <3>3 DEF IInv, AliveAttached, Alive
      <4>2. QED BY <1>2, <1>5, <1>7, <1>8, <3>3, <4>1 DEF Held
    <3>4. CASE x \notin Held(d) /\ tree.parent[x] # None /\ tree.parent[x] # e
      <4> DEFINE q == tree.parent[x]
      <4>1. /\ x \in Alive /\ x \notin Document /\ q \in Alive /\ q \in Node /\ owner[x] = owner[q]
            /\ q \notin Held(d) /\ q # d
        BY <1>1, <1>2, <3>4 DEF IInv, AliveAttached, Alive, Pointers
      <4>2. q \in Held(e) <=> x \in Held(e)
        BY <1>2, <3>4, <4>1 DEF Held, IInv
      <4>3. QED BY <1>5, <1>7, <1>8, <3>4, <4>1, <4>2
    <3>5. QED BY <3>1, <3>2, <3>3, <3>4
  <2>2. ASSUME NEW x \in Node, x \notin Alive', u.first[x] # None PROVE FALSE
    <3>1. u.first[x] \in Node /\ u.parent[u.first[x]] = x
      <4>1. Good(u)
        BY <1>4
      <4>2. QED BY <2>2, <4>1 DEF Good, RingOf, Ring, RingAt, Pointers
    <3>2. QED BY <2>1, <2>2, <3>1
  <2>3. QED BY <1>2, <2>1, <2>2 DEF AliveAttached
<1>10. ChildrenAllowed'
  <2>1. ASSUME NEW x \in Node, u.parent[x] # None
        PROVE  AllowInsertChild(type'[u.parent[x]], type'[x])
    <3>1. x \notin Held(d) /\ tree.parent[x] # None
      BY <1>2, <1>5, <2>1
    <3>2. AllowInsertChild(type[tree.parent[x]], type[x]) /\ tree.parent[x] \in Node
      BY <1>2, <3>1 DEF IInv, ChildrenAllowed, Pointers
    <3>3. CASE tree.parent[x] = e
      BY <1>2, <1>5, <1>7, <3>1, <3>2, <3>3 DEF IInv
    <3>4. CASE tree.parent[x] # e
      BY <1>1, <1>5, <1>7, <3>1, <3>2, <3>4
    <3>5. QED BY <3>3, <3>4
  <2>2. QED BY <1>2, <2>1 DEF ChildrenAllowed, AllowInsertChild
<1>11. QED BY <1>2, <1>4, <1>6, <1>7, <1>9, <1>10 DEF IInv

LEMMA NextIInv == IInv /\ [Next]_vars => IInv'
<1> SUFFICES ASSUME IInv, [Next]_vars PROVE IInv'
  OBVIOUS
<1>1. CASE \E p \in Alive, c \in Node, ty \in Type :
             \/ AppendChild(p, c, ty)
             \/ PrependChild(p, c, ty)
             \/ \E n \in Alive : InsertChildAfter(p, c, ty, n) \/ InsertChildBefore(p, c, ty, n)
  BY <1>1, AddStep
<1>2. CASE \E p \in Alive, m \in Alive :
             \/ AppendMove(p, m)
             \/ PrependMove(p, m)
             \/ \E n \in Alive : InsertMoveAfter(p, m, n) \/ InsertMoveBefore(p, m, n)
  BY <1>2, MoveStep
<1>3. CASE \E p, n \in Alive : RemoveChild(p, n)
  BY <1>3, RemoveStep
<1>4. CASE \E d \in Document : Reset(d)
  BY <1>4, ResetStep
<1>5. CASE \E d, e \in Document : MoveDocument(d, e)
  BY <1>5, MoveDocumentStep
<1>6. CASE UNCHANGED vars
  BY <1>6 DEF vars, IInv, Alive, AliveAttached, ChildrenAllowed, Held
<1>7. QED BY <1>1, <1>2, <1>3, <1>4, <1>5, <1>6 DEF Next

THEOREM IInvAlways == Spec => []IInv
BY InitIInv, NextIInv, PTL DEF Spec
-----------------------------------------------------------------------------
(***************************************************************************)
(* The links of pugixml's nodes are those of lists both ways after any     *)
(* sequence of edits, moves, resets and moves of documents.                *)
(***************************************************************************)
THEOREM ListsLinkedAlways == Spec => []ListsLinked
<1>1. IInv => ListsLinked
  <2> SUFFICES ASSUME IInv PROVE ListsLinked
    OBVIOUS
  <2>1. RingOf(tree) /\ tree \in Links
    BY DEF IInv, Good, RingOf
  <2>2. QED BY <2>1, RingIsLinked DEF ListsLinked
<1>2. QED BY <1>1, IInvAlways, PTL

(***************************************************************************)
(* No call puts a node below itself, and no list of children turns back:   *)
(* every loop over parent() and over next_sibling() ends.                  *)
(***************************************************************************)
THEOREM LoopsEnd == Spec => [](ParentsEnd /\ SiblingsEnd)
<1>1. IInv => ParentsEnd /\ SiblingsEnd
  BY DEF IInv, Good, ParentsEnd, SiblingsEnd
<1>2. QED BY <1>1, IInvAlways, PTL

(***************************************************************************)
(* What is alive is below what is alive, in the same document, and allowed *)
(* to be there.                                                            *)
(***************************************************************************)
THEOREM WhollyAttachedAlways == Spec => []WhollyAttached
<1>1. IInv => WhollyAttached
  BY DEF IInv, WhollyAttached
<1>2. QED BY <1>1, IInvAlways, PTL

\* The variables keep their types.
THEOREM TypeCorrect == Spec => []TypeOK
<1>1. IInv => TypeOK
  BY DEF IInv, Good, RingOf, Links, Pointers, TypeOK
<1>2. QED BY <1>1, IInvAlways, PTL

(***************************************************************************)
(* Together: the lists and trees that the library's loops go over are      *)
(* whole and end, for any documents, nodes and sequence of calls.          *)
(***************************************************************************)
THEOREM ListsAndTreesAlways == Spec => []ListsAndTrees
<1>1. TypeOK /\ ListsLinked /\ (ParentsEnd /\ SiblingsEnd) => ListsAndTrees
  BY DEF ListsAndTrees
<1>2. QED BY <1>1, TypeCorrect, ListsLinkedAlways, LoopsEnd, PTL
-----------------------------------------------------------------------------
(***************************************************************************)
(* The edits of links as edits of sequences of children (XmlForest).  The  *)
(* sequence of a node's children is the chain that the links lead along    *)
(* (Chain): there is only one, by induction over its length, and there is  *)
(* one because next_sibling has no cycle.  For each edit of the links the  *)
(* sequences after it are given (Inserted, Removed), then the step of      *)
(* XmlForest that they are.                                                *)
(***************************************************************************)
\* s is what the links N lead to from x on.
Chain(N, x, s) ==
  /\ s \in Seq(Node)
  /\ x = None <=> s = <<>>
  /\ s # <<>> => s[1] = x /\ N[s[Len(s)]] = None
  /\ \A i \in 1..(Len(s) - 1) : N[s[i]] = s[i + 1]

LEMMA ChainsAgree ==
  ASSUME NEW N, NEW x, NEW s, NEW r, Chain(N, x, s), Chain(N, x, r)
  PROVE  Len(r) <= Len(s) /\ \A i \in 1..Len(r) : s[i] = r[i]
<1> USE DomAssumption
<1>1. s \in Seq(Node) /\ r \in Seq(Node) /\ (s = <<>> <=> r = <<>>)
  BY DEF Chain
<1> DEFINE T == {i \in Nat : i + 1 \in 1..Len(s) /\ i + 1 \in 1..Len(r) => s[i + 1] = r[i + 1]}
<1>2. 0 \in T
  BY <1>1 DEF Chain
<1>3. ASSUME NEW i \in Nat, i \in T PROVE i + 1 \in T
  <2>1. SUFFICES ASSUME i + 2 \in 1..Len(s), i + 2 \in 1..Len(r)
                 PROVE  s[i + 2] = r[i + 2]
    OBVIOUS
  <2>2. s[i + 1] = r[i + 1]
    BY <1>1, <1>3, <2>1
  <2>3. N[s[i + 1]] = s[(i + 1) + 1] /\ N[r[i + 1]] = r[(i + 1) + 1]
    BY <1>1, <2>1 DEF Chain
  <2>4. (i + 1) + 1 = i + 2
    OBVIOUS
  <2>5. QED
    BY <2>2, <2>3, <2>4
<1>4. Nat \subseteq T
  <2> HIDE DEF T
  <2>1. QED
    BY <1>2, <1>3, NatSetInduction
<1>5. \A i \in 1..Len(s) : i \in 1..Len(r) => s[i] = r[i]
  <2>1. SUFFICES ASSUME NEW i \in 1..Len(s), i \in 1..Len(r) PROVE s[i] = r[i]
    OBVIOUS
  <2>2. i - 1 \in T /\ (i - 1) + 1 = i
    BY <1>1, <1>4
  <2>3. QED
    BY <2>1, <2>2
<1>6. Len(r) <= Len(s)
  <2>1. SUFFICES ASSUME Len(s) < Len(r) PROVE FALSE
    BY <1>1
  <2> DEFINE k == Len(s)
  <2>2. k \in 1..(Len(r) - 1) /\ k \in 1..Len(s)
    BY <1>1, <2>1
  <2>3. s[k] = r[k] /\ N[s[k]] = None
    BY <1>1, <1>5, <2>2 DEF Chain
  <2>4. N[r[k]] = r[k + 1] /\ r[k + 1] \in Node
    BY <1>1, <2>2 DEF Chain
  <2>5. QED
    BY <2>3, <2>4
<1>7. QED
  BY <1>1, <1>5, <1>6

LEMMA ChainUnique ==
  ASSUME NEW N, NEW x, NEW s, NEW r, Chain(N, x, s), Chain(N, x, r)
  PROVE  s = r
<1>1. s \in Seq(Node) /\ r \in Seq(Node)
  BY DEF Chain
<1>2. Len(r) <= Len(s) /\ Len(s) <= Len(r) /\ \A i \in 1..Len(r) : s[i] = r[i]
  BY ChainsAgree
<1>3. Len(r) = Len(s)
  BY <1>1, <1>2
<1>4. QED
  BY <1>1, <1>2, <1>3

LEMMA ChainCons ==
  ASSUME NEW N \in Pointers, NEW x \in Node, NEW r, Chain(N, N[x], r)
  PROVE  Chain(N, x, <<x>> \o r)
<1> USE DomAssumption
<1> DEFINE s == <<x>> \o r
<1>1. r \in Seq(Node)
  BY DEF Chain
<1>2. s \in Seq(Node) /\ Len(s) = Len(r) + 1 /\ s # <<>>
      /\ s[1] = x /\ \A i \in 1..Len(r) : s[i + 1] = r[i]
  BY <1>1
<1> HIDE DEF s
<1>3. CASE r = <<>>
  BY <1>2, <1>3 DEF Chain
<1>4. CASE r # <<>>
  <2>1. Len(r) \in 1..Len(r) /\ Len(r) \in Nat /\ 1 \in 1..Len(r)
    BY <1>1, <1>4
  <2>2. N[s[Len(s)]] = None
    BY <1>2, <1>4, <2>1 DEF Chain
  <2>3. \A i \in 1..(Len(s) - 1) : N[s[i]] = s[i + 1]
    <3>1. ASSUME NEW i \in 1..(Len(s) - 1) PROVE N[s[i]] = s[i + 1]
      <4>1. CASE i = 1
        <5>1. s[i] = x /\ s[i + 1] = r[1] /\ r[1] = N[x]
          BY <1>2, <1>4, <2>1, <4>1 DEF Chain
        <5>2. QED
          BY <5>1
      <4>2. CASE i # 1
        <5> DEFINE j == i - 1
        <5>1. j \in 1..(Len(r) - 1) /\ j \in 1..Len(r) /\ j + 1 \in 1..Len(r) /\ j + 1 = i
          BY <1>2, <2>1, <4>2
        <5> HIDE DEF j
        <5>2. s[j + 1] = r[j] /\ s[(j + 1) + 1] = r[j + 1] /\ N[r[j]] = r[j + 1]
          BY <1>2, <5>1 DEF Chain
        <5>3. QED
          BY <5>1, <5>2
      <4>3. QED
        BY <4>1, <4>2
    <3>2. QED
      BY <3>1
  <2>4. QED
    BY <1>2, <2>2, <2>3 DEF Chain, s
<1>5. QED
  BY <1>3, <1>4 DEF s

LEMMA ChainExists ==
  ASSUME NEW N \in Pointers, NoCycle(N), NEW x \in Node \cup {None}
  PROVE  \E s : Chain(N, x, s)
<1> USE DomAssumption
<1>1. Chain(N, None, <<>>)
  BY DEF Chain
<1> DEFINE S == {y \in Node : ~ \E s : Chain(N, y, s)}
<1>2. SUFFICES ASSUME S # {} PROVE FALSE
  BY <1>1
<1>3. PICK y \in S : N[y] \notin S
  BY <1>2 DEF NoCycle
<1>4. PICK r : Chain(N, N[y], r)
  <2>1. N[y] \in Node \cup {None}
    BY <1>3 DEF Pointers
  <2>2. QED
    BY <1>1, <1>3, <2>1
<1>5. y \in Node /\ Chain(N, y, <<y>> \o r)
  BY <1>3, <1>4, ChainCons
<1>6. QED
  BY <1>3, <1>5

\* The recursion of Siblings, for any links.
SiblingsBy(N, f) == f = [n \in Node \cup {None} |-> IF n = None THEN <<>> ELSE <<n>> \o f[N[n]]]
SiblingsOf(N) == CHOOSE f : f = [n \in Node \cup {None} |-> IF n = None THEN <<>> ELSE <<n>> \o f[N[n]]]

LEMMA SiblingsAre ==
  /\ Siblings = SiblingsOf(tree.next)
  /\ Siblings' = SiblingsOf(tree'.next)
BY DEF Siblings, SiblingsOf

LEMMA SiblingsExist ==
  ASSUME NEW N \in Pointers, NoCycle(N)
  PROVE  SiblingsBy(N, SiblingsOf(N))
<1> USE DomAssumption
<1> DEFINE S == Node \cup {None}
           g == [n \in S |-> CHOOSE s : Chain(N, n, s)]
<1>1. \A n \in S : Chain(N, n, g[n])
  BY ChainExists
<1>2. g[None] = <<>>
  BY <1>1 DEF Chain
<1>3. \A n \in Node : g[n] = <<n>> \o g[N[n]]
  <2>1. ASSUME NEW n \in Node PROVE g[n] = <<n>> \o g[N[n]]
    <3>1. N[n] \in S
      BY DEF Pointers
    <3>2. Chain(N, n, g[n]) /\ Chain(N, n, <<n>> \o g[N[n]])
      <4> HIDE DEF g
      <4>1. QED
        BY <1>1, <3>1, ChainCons
    <3> HIDE DEF g
    <3>3. QED
      BY <3>2, ChainUnique
  <2>2. QED
    BY <2>1
<1>4. g = [n \in S |-> g[n]]
  <2> DEFINE c(n) == CHOOSE s : Chain(N, n, s)
  <2>1. g = [n \in S |-> c(n)]
    OBVIOUS
  <2> HIDE DEF c, g
  <2>2. QED
    BY <2>1
<1> HIDE DEF g
<1>5. \A n \in S : g[n] = IF n = None THEN <<>> ELSE <<n>> \o g[N[n]]
  BY <1>2, <1>3
<1>6. [n \in S |-> g[n]] = [n \in S |-> IF n = None THEN <<>> ELSE <<n>> \o g[N[n]]]
  BY <1>5, Zenon
<1>7. \E f : SiblingsBy(N, f)
  <2>1. SiblingsBy(N, g)
    BY <1>4, <1>6, Zenon DEF SiblingsBy
  <2>2. QED
    BY <2>1
<1>8. QED
  BY <1>7, Zenon DEF SiblingsBy, SiblingsOf

LEMMA SiblingsChain ==
  ASSUME NEW N \in Pointers, NoCycle(N), NEW x \in Node \cup {None}
  PROVE  Chain(N, x, SiblingsOf(N)[x])
<1> USE DomAssumption
<1> DEFINE f == SiblingsOf(N)
<1>1. SiblingsBy(N, f)
  BY SiblingsExist
<1> HIDE DEF f
<1>2. \A n \in Node \cup {None} : f[n] = IF n = None THEN <<>> ELSE <<n>> \o f[N[n]]
  BY <1>1, Zenon DEF SiblingsBy
<1>3. Chain(N, None, f[None])
  <2>1. f[None] = <<>>
    BY <1>2
  <2>2. QED
    BY <2>1 DEF Chain
<1> DEFINE S == {y \in Node : ~ Chain(N, y, f[y])}
<1>4. SUFFICES ASSUME S # {} PROVE FALSE
  BY <1>3 DEF f
<1>5. PICK y \in S : N[y] \notin S
  BY <1>4 DEF NoCycle
<1>6. Chain(N, N[y], f[N[y]])
  BY <1>3, <1>5 DEF Pointers
<1>7. Chain(N, y, f[y])
  BY <1>2, <1>5, <1>6, ChainCons
<1>8. QED
  BY <1>5, <1>7

\* The sequences of children that are in the links t.
Kids(t) == [n \in Node |-> SiblingsOf(t.next)[t.first[n]]]

LEMMA KidsAre ==
  /\ ChildSequences = Kids(tree) /\ ChildSequences' = Kids(tree')
  /\ \A n \in Node : ChildrenOf(n) = Kids(tree)[n] /\ ChildrenOf(n)' = Kids(tree')[n]
BY SiblingsAre DEF ChildSequences, ChildrenOf, Kids

LEMMA KidsChain ==
  ASSUME NEW t, Good(t), NEW n \in Node
  PROVE  Chain(t.next, t.first[n], Kids(t)[n])
BY SiblingsChain DEF Kids, Good, RingOf, Ring, Pointers

LEMMA KidsUnique ==
  ASSUME NEW t, Good(t), NEW n \in Node, NEW s, Chain(t.next, t.first[n], s)
  PROVE  Kids(t)[n] = s
BY KidsChain, ChainUnique

\* The members of a sequence of children are those whose parent it is, one
\* before the other as prev has them.
LEMMA KidsParent ==
  ASSUME NEW t, Good(t), NEW p \in Node
  PROVE  \A i \in 1..Len(Kids(t)[p]) : t.parent[Kids(t)[p][i]] = p
<1> USE DomAssumption
<1> DEFINE s == Kids(t)[p]
<1>1. Chain(t.next, t.first[p], s)
  BY KidsChain
<1> HIDE DEF s
<1>2. s \in Seq(Node)
  BY <1>1 DEF Chain
<1> DEFINE T == {i \in Nat : i + 1 \in 1..Len(s) => t.parent[s[i + 1]] = p}
<1>3. 0 \in T
  <2>1. s # <<>> => s[1] = t.first[p] /\ t.first[p] # None
    BY <1>1 DEF Chain
  <2>2. t.first[p] # None => t.parent[t.first[p]] = p
    BY DEF Good, RingOf, Ring, RingAt
  <2>3. QED
    BY <1>2, <2>1, <2>2
<1>4. ASSUME NEW i \in Nat, i \in T PROVE i + 1 \in T
  <2>1. SUFFICES ASSUME (i + 1) + 1 \in 1..Len(s) PROVE t.parent[s[(i + 1) + 1]] = p
    OBVIOUS
  <2> DEFINE j == i + 1
  <2>2. j \in 1..(Len(s) - 1) /\ j \in 1..Len(s) /\ t.parent[s[j]] = p
    BY <1>2, <1>4, <2>1
  <2> HIDE DEF j
  <2>3. t.next[s[j]] = s[j + 1] /\ s[j] \in Node /\ s[j + 1] \in Node
    BY <1>1, <1>2, <2>2 DEF Chain
  <2>4. t.parent[s[j + 1]] = p
    BY <2>2, <2>3 DEF Good, RingOf, Ring, RingAt
  <2>5. QED
    BY <2>4 DEF j
<1>5. Nat \subseteq T
  <2> HIDE DEF T
  <2>1. QED
    BY <1>3, <1>4, NatSetInduction
<1>6. ASSUME NEW i \in 1..Len(s) PROVE t.parent[s[i]] = p
  <2>1. i - 1 \in Nat /\ (i - 1) + 1 = i
    BY <1>2
  <2>2. i - 1 \in T
    <3> HIDE DEF T
    <3>1. QED
      BY <1>5, <2>1
  <2>3. QED
    BY <2>1, <2>2
<1>7. QED
  BY <1>6 DEF s

LEMMA KidsPrev ==
  ASSUME NEW t, Good(t), NEW p \in Node, NEW s, s = Kids(t)[p]
  PROVE  /\ s \in Seq(Node)
         /\ s = <<>> <=> t.first[p] = None
         /\ \A i \in 1..(Len(s) - 1) : /\ t.next[s[i]] = s[i + 1] /\ t.next[s[i]] # None
                                       /\ t.prev[s[i + 1]] = s[i]
         /\ s # <<>> => /\ 1 \in 1..Len(s) /\ Len(s) \in 1..Len(s)
                        /\ s[1] = t.first[p] /\ t.next[s[Len(s)]] = None
                        /\ t.prev[s[1]] = s[Len(s)]
<1> USE DomAssumption
<1>1. Chain(t.next, t.first[p], s)
  BY KidsChain
<1>2. s \in Seq(Node)
  BY <1>1 DEF Chain
<1>3. \A i \in 1..Len(s) : t.parent[s[i]] = p
  BY KidsParent
<1>4. ASSUME NEW i \in 1..(Len(s) - 1)
      PROVE  /\ t.next[s[i]] = s[i + 1] /\ t.next[s[i]] # None
             /\ t.prev[s[i + 1]] = s[i]
  <2>1. i \in 1..Len(s) /\ i + 1 \in 1..Len(s)
    BY <1>2
  <2>2. t.next[s[i]] = s[i + 1] /\ s[i] \in Node /\ s[i + 1] \in Node /\ t.parent[s[i]] = p
    BY <1>1, <1>2, <1>3, <2>1 DEF Chain
  <2>3. QED
    BY <2>2 DEF Good, RingOf, Ring, RingAt
<1>5. ASSUME s # <<>>
      PROVE  /\ 1 \in 1..Len(s) /\ Len(s) \in 1..Len(s)
             /\ s[1] = t.first[p] /\ t.next[s[Len(s)]] = None
             /\ t.prev[s[1]] = s[Len(s)]
  <2>1. 1 \in 1..Len(s) /\ Len(s) \in 1..Len(s)
    <3>1. Len(s) \in Nat /\ Len(s) # 0
      BY <1>2, <1>5, EmptySeq
    <3>2. QED
      BY <3>1
  <2>2. s[1] = t.first[p] /\ t.next[s[Len(s)]] = None
    BY <1>1, <1>5 DEF Chain
  <2>3. s[Len(s)] \in Node /\ t.parent[s[Len(s)]] = p
    BY <1>2, <1>3, <2>1
  <2>4. t.prev[t.first[p]] = s[Len(s)]
    BY <2>2, <2>3 DEF Good, RingOf, Ring, RingAt
  <2>5. QED
    BY <2>1, <2>2, <2>4
<1>6. s = <<>> <=> t.first[p] = None
  BY <1>1 DEF Chain
<1>7. QED
  BY <1>2, <1>4, <1>5, <1>6

LEMMA KidsAll ==
  ASSUME NEW t, Good(t), NEW p \in Node, NEW c \in Node, t.parent[c] = p
  PROVE  \E i \in 1..Len(Kids(t)[p]) : Kids(t)[p][i] = c
<1> USE DomAssumption
<1> DEFINE s == Kids(t)[p]
           M == {s[i] : i \in 1..Len(s)}
           S == {x \in Node : t.parent[x] = p /\ x \notin M}
<1>0. s = Kids(t)[p]
  OBVIOUS
<1> HIDE DEF s
<1>1. /\ s \in Seq(Node)
      /\ s = <<>> <=> t.first[p] = None
      /\ \A i \in 1..(Len(s) - 1) : t.prev[s[i + 1]] = s[i]
      /\ s # <<>> => /\ Len(s) \in 1..Len(s)
                     /\ s[1] = t.first[p] /\ t.prev[s[1]] = s[Len(s)]
  BY <1>0, KidsPrev
<1>2. SUFFICES ASSUME S # {} PROVE FALSE
  BY DEF s
<1>3. PICK x \in S : t.next[x] \notin S
  BY <1>2 DEF NoCycle, Good
<1>4. x \in Node /\ t.parent[x] = p /\ RingAt(t.parent, t.next, t.prev, t.first, x) /\ t.first[p] # None
  BY <1>3 DEF Good, RingOf, Ring, RingAt
<1>5. CASE t.next[x] = None
  <2>1. t.prev[t.first[p]] = x
    BY <1>4, <1>5 DEF RingAt
  <2>2. x = s[Len(s)] /\ Len(s) \in 1..Len(s)
    BY <1>1, <1>4, <2>1
  <2>3. QED
    BY <1>3, <2>2
<1>6. CASE t.next[x] # None
  <2>1. t.next[x] \in Node /\ t.parent[t.next[x]] = p /\ t.prev[t.next[x]] = x
    BY <1>4, <1>6 DEF RingAt, Good, RingOf, Ring, Pointers
  <2>2. PICK i \in 1..Len(s) : t.next[x] = s[i]
    BY <1>3, <2>1
  <2>3. CASE i = 1
    <3>1. t.next[t.prev[t.first[p]]] = None
      BY <1>4 DEF Good, RingOf, Ring, RingAt
    <3>2. s[1] = t.first[p]
      BY <1>1, <1>4
    <3>3. QED
      BY <1>6, <2>1, <2>2, <2>3, <3>1, <3>2
  <2>4. CASE i # 1
    <3> DEFINE j == i - 1
    <3>1. j \in 1..(Len(s) - 1) /\ j \in 1..Len(s) /\ j + 1 = i
      BY <1>1, <2>4
    <3> HIDE DEF j
    <3>2. t.prev[s[j + 1]] = s[j]
      BY <1>1, <3>1
    <3>3. x = s[j]
      BY <2>1, <2>2, <3>1, <3>2
    <3>4. QED
      BY <1>3, <3>1, <3>3
  <2>5. QED
    BY <2>3, <2>4
<1>7. QED
  BY <1>5, <1>6

\* No node is twice in a sequence of children.
LEMMA KidsDistinct ==
  ASSUME NEW t, Good(t), NEW p \in Node, NEW s, s = Kids(t)[p],
         NEW i \in 1..Len(s), NEW j \in 1..Len(s), s[i] = s[j]
  PROVE  i = j
<1>1. s \in Seq(Node) /\ \A k \in 1..(Len(s) - 1) : t.next[s[k]] = s[k + 1]
  BY KidsPrev
<1>2. ASSUME NEW a \in 1..Len(s), NEW b \in 1..Len(s), s[a] = s[b], a < b PROVE FALSE
  <2> DEFINE S == {s[k] : k \in a..(b - 1)}
  <2>1. S \in SUBSET Node /\ s[a] \in S
    BY <1>1, <1>2
  <2>2. PICK x \in S : t.next[x] \notin S
    BY <2>1 DEF Good, NoCycle
  <2>3. PICK k \in a..(b - 1) : x = s[k]
    BY <2>2
  <2>4. k \in 1..(Len(s) - 1) /\ t.next[s[k]] = s[k + 1]
    BY <1>1, <2>3
  <2>5. CASE k = b - 1
    <3>1. k + 1 = b
      BY <2>5
    <3>2. QED
      BY <1>2, <2>1, <2>2, <2>3, <2>4, <3>1
  <2>6. CASE k # b - 1
    <3>1. k + 1 \in a..(b - 1)
      BY <2>3, <2>6
    <3>2. QED
      BY <2>2, <2>3, <2>4, <3>1
  <2>7. QED
    BY <2>5, <2>6
<1>3. i \in Nat /\ j \in Nat
  BY <1>1
<1>4. QED
  BY <1>2, <1>3

\* An edit that leaves the links of a node's children leaves the children.
LEMMA KidsKept ==
  ASSUME NEW t, Good(t), NEW u, Good(u), NEW q \in Node, u.first[q] = t.first[q],
         \A x \in Node : t.parent[x] = q => u.next[x] = t.next[x]
  PROVE  Kids(u)[q] = Kids(t)[q]
<1> DEFINE r == Kids(t)[q]
<1>1. Chain(t.next, t.first[q], r)
  BY KidsChain
<1>2. \A i \in 1..Len(r) : t.parent[r[i]] = q
  BY KidsParent
<1> HIDE DEF r
<1>3. r \in Seq(Node) /\ (r # <<>> => Len(r) \in 1..Len(r))
  <2>1. r \in Seq(Node)
    BY <1>1 DEF Chain
  <2>2. r # <<>> => Len(r) \in Nat \ {0}
    BY <2>1, EmptySeq
  <2>3. QED
    BY <2>1, <2>2
<1>4. \A i \in 1..Len(r) : u.next[r[i]] = t.next[r[i]]
  BY <1>2, <1>3
<1>5. \A i \in 1..(Len(r) - 1) : i \in 1..Len(r)
  BY <1>3
<1>6. Chain(u.next, u.first[q], r)
  BY <1>1, <1>3, <1>4, <1>5 DEF Chain
<1>7. QED
  BY <1>6, KidsUnique DEF r

\* No children.
LEMMA KidsNone ==
  ASSUME NEW t, Good(t), NEW q \in Node
  PROVE  Kids(t)[q] = <<>> <=> t.first[q] = None
BY KidsChain DEF Chain

\* u is t with c as the i-th child of p.
Inserted(t, u, c, p, i) ==
  /\ i \in 1..(Len(Kids(t)[p]) + 1)
  /\ Kids(u)[p] = InsertAt(Kids(t)[p], i, c)
  /\ \A q \in Node \ {p} : Kids(u)[q] = Kids(t)[q]

LEMMA InsertKids ==
  ASSUME NEW t, Good(t), NEW u, Good(u), NEW c \in Node, NEW p \in Node, t.parent[c] = None,
         NEW s, s = Kids(t)[p], NEW i \in 1..(Len(s) + 1),
         \A q \in Node : u.first[q] = IF q = p /\ i = 1 THEN c ELSE t.first[q],
         \A x \in Node : u.next[x] = IF x = c THEN (IF i <= Len(s) THEN s[i] ELSE None)
                                     ELSE IF i > 1 /\ x = s[i - 1] THEN c ELSE t.next[x]
  PROVE  Inserted(t, u, c, p, i)
<1> USE DomAssumption
<1>1. /\ s \in Seq(Node)
      /\ s = <<>> <=> t.first[p] = None
      /\ \A k \in 1..(Len(s) - 1) : t.next[s[k]] = s[k + 1]
      /\ s # <<>> => /\ 1 \in 1..Len(s) /\ Len(s) \in 1..Len(s)
                     /\ s[1] = t.first[p] /\ t.next[s[Len(s)]] = None
  BY KidsPrev
<1>2. \A k \in 1..Len(s) : t.parent[s[k]] = p
  BY KidsParent
<1>3. \A k \in 1..Len(s) : s[k] \in Node /\ s[k] # c
  BY <1>1, <1>2
<1>4. \A j, k \in 1..Len(s) : s[j] = s[k] => j = k
  BY KidsDistinct
<1>5. i > 1 => i - 1 \in 1..Len(s)
  BY <1>1
<1>6. \A q \in Node \ {p} : Kids(u)[q] = Kids(t)[q]
  <2>1. ASSUME NEW q \in Node \ {p} PROVE Kids(u)[q] = Kids(t)[q]
    <3>1. \A x \in Node : t.parent[x] = q => x # c /\ ~(i > 1 /\ x = s[i - 1])
      BY <1>2, <1>5, <2>1
    <3>2. QED
      BY <2>1, <3>1, KidsKept
  <2>2. QED
    BY <2>1
<1> DEFINE w == InsertAt(s, i, c)
<1>0. With(Node, s, i, c, w)
  BY <1>1, InsertIs
<1> HIDE DEF w
<1>7. /\ w \in Seq(Node) /\ Len(w) = Len(s) + 1 /\ w[i] = c
      /\ \A k \in 1..(i - 1) : w[k] = s[k]
      /\ \A k \in i..Len(s) : w[k + 1] = s[k]
  BY <1>0 DEF With
<1>8. w # <<>> /\ Len(w) \in 1..Len(w) /\ Len(s) \in Nat
  BY <1>1, <1>7
<1>9. u.first[p] # None /\ w[1] = u.first[p]
  <2>1. CASE i = 1
    BY <1>7, <2>1
  <2>2. CASE i # 1
    <3>1. 1 \in 1..(i - 1) /\ s # <<>>
      BY <1>1, <2>2
    <3>2. w[1] = s[1]
      BY <1>7, <3>1
    <3>3. QED
      BY <1>1, <2>2, <3>1, <3>2
  <2>3. QED
    BY <2>1, <2>2
<1>10. u.next[w[Len(w)]] = None
  <2>1. CASE i = Len(s) + 1
    BY <1>7, <1>8, <2>1
  <2>2. CASE i # Len(s) + 1
    <3>1. Len(s) \in i..Len(s) /\ Len(s) \in 1..Len(s) /\ s # <<>>
      BY <1>1, <2>2
    <3>2. w[Len(w)] = s[Len(s)]
      BY <1>7, <3>1
    <3>3. i > 1 => s[Len(s)] # s[i - 1]
      BY <1>4, <1>5, <3>1
    <3>4. QED
      BY <1>1, <1>3, <3>1, <3>2, <3>3
  <2>3. QED
    BY <2>1, <2>2
<1>11. ASSUME NEW j \in 1..(Len(w) - 1) PROVE u.next[w[j]] = w[j + 1]
  <2>1. j \in 1..Len(s)
    BY <1>7
  <2>2. CASE j = i
    <3>1. w[j] = c /\ i \in i..Len(s) /\ i <= Len(s)
      BY <1>7, <1>8, <2>1, <2>2
    <3>2. w[j + 1] = s[i]
      BY <1>7, <2>2, <3>1
    <3>3. QED
      BY <3>1, <3>2
  <2>3. CASE j = i - 1
    <3>1. j + 1 = i /\ j \in 1..(i - 1) /\ i > 1
      BY <1>8, <2>1, <2>3
    <3>2. w[j] = s[i - 1] /\ w[j + 1] = c
      BY <1>7, <2>3, <3>1
    <3>3. QED
      BY <1>3, <1>5, <3>1, <3>2
  <2>4. CASE j < i - 1
    <3>1. j \in 1..(i - 1) /\ j + 1 \in 1..(i - 1) /\ j \in 1..(Len(s) - 1) /\ i > 1
      BY <1>8, <2>1, <2>4
    <3>2. w[j] = s[j] /\ w[j + 1] = s[j + 1]
      BY <1>7, <3>1
    <3>3. s[j] # s[i - 1]
      BY <1>4, <1>5, <2>1, <2>4, <3>1
    <3>4. u.next[s[j]] = t.next[s[j]]
      BY <1>3, <2>1, <3>3
    <3>5. QED
      BY <1>1, <3>1, <3>2, <3>4
  <2>5. CASE j > i
    <3> DEFINE k == j - 1
    <3>1. k \in i..Len(s) /\ j \in i..Len(s) /\ k \in 1..(Len(s) - 1) /\ k \in 1..Len(s) /\ k + 1 = j
          /\ k # i - 1
      BY <1>8, <2>1, <2>5
    <3> HIDE DEF k
    <3>2. w[k + 1] = s[k] /\ w[j + 1] = s[j]
      BY <1>7, <3>1
    <3>3. i > 1 => s[k] # s[i - 1]
      BY <1>4, <1>5, <3>1
    <3>4. u.next[s[k]] = t.next[s[k]]
      BY <1>3, <3>1, <3>3
    <3>5. QED
      BY <1>1, <3>1, <3>2, <3>4
  <2>6. QED
    BY <1>8, <2>1, <2>2, <2>3, <2>4, <2>5
<1>12. Chain(u.next, u.first[p], w)
  BY <1>7, <1>8, <1>9, <1>10, <1>11 DEF Chain
<1>13. Kids(u)[p] = w
  BY <1>12, KidsUnique
<1>14. QED
  BY <1>6, <1>13 DEF Inserted, w

LEMMA MoreThanOne ==
  ASSUME NEW m \in Nat, m >= 1, m # 1
  PROVE  m > 1 /\ 1 \in 1..(m - 1)
OBVIOUS

\* u is t without the k-th child of p.
Removed(t, u, p, k) ==
  /\ k \in 1..Len(Kids(t)[p])
  /\ Kids(u)[p] = RemoveAt(Kids(t)[p], k)
  /\ \A q \in Node \ {p} : Kids(u)[q] = Kids(t)[q]

LEMMA RemoveKids ==
  ASSUME NEW t, Good(t), NEW u, Good(u), NEW n \in Node, NEW p \in Node,
         NEW s, s = Kids(t)[p], NEW i \in 1..Len(s), s[i] = n,
         \A q \in Node : u.first[q] = IF q = p /\ i = 1 THEN t.next[n] ELSE t.first[q],
         \A x \in Node : u.next[x] = IF x = n THEN None
                                     ELSE IF i > 1 /\ x = s[i - 1] THEN t.next[n] ELSE t.next[x]
  PROVE  Removed(t, u, p, i)
<1> USE DomAssumption
<1>1. /\ s \in Seq(Node)
      /\ \A k \in 1..(Len(s) - 1) : t.next[s[k]] = s[k + 1] /\ t.next[s[k]] # None
      /\ s # <<>> => /\ 1 \in 1..Len(s) /\ Len(s) \in 1..Len(s)
                     /\ s[1] = t.first[p] /\ t.next[s[Len(s)]] = None
  BY KidsPrev
<1>2. \A k \in 1..Len(s) : t.parent[s[k]] = p
  BY KidsParent
<1>3. /\ s # <<>> /\ Len(s) \in 1..Len(s) /\ Len(s) \in Nat /\ 1 \in 1..Len(s)
      /\ \A k \in 1..Len(s) : s[k] \in Node
  BY <1>1
<1>15. Len(s) \in Nat /\ Len(s) >= 1
  BY <1>3
<1>4. \A j, k \in 1..Len(s) : s[j] = s[k] => j = k
  BY KidsDistinct
<1>5. i > 1 => i - 1 \in 1..Len(s)
  BY <1>1
<1>6. \A q \in Node \ {p} : Kids(u)[q] = Kids(t)[q]
  <2>1. ASSUME NEW q \in Node \ {p} PROVE Kids(u)[q] = Kids(t)[q]
    <3>1. \A x \in Node : t.parent[x] = q => x # n /\ ~(i > 1 /\ x = s[i - 1])
      BY <1>2, <1>5, <2>1
    <3>2. QED
      BY <2>1, <3>1, KidsKept
  <2>2. QED
    BY <2>1
<1> DEFINE w == RemoveAt(s, i)
<1>0. Lacking(Node, s, i, w)
  BY <1>1, RemoveIs
<1> HIDE DEF w
<1>7. /\ w \in Seq(Node) /\ Len(w) = Len(s) - 1
      /\ \A k \in 1..(i - 1) : w[k] = s[k]
      /\ \A k \in i..(Len(s) - 1) : w[k] = s[k + 1]
  BY <1>0 DEF Lacking
<1>8. w = <<>> <=> u.first[p] = None
  <2>1. w = <<>> <=> Len(s) = 1
    <3>1. w = <<>> <=> Len(w) = 0
      BY <1>7, EmptySeq
    <3>2. QED
      BY <1>3, <1>7, <3>1
  <2>2. CASE i = 1
    <3>1. u.first[p] = t.next[s[1]]
      BY <2>2
    <3>2. CASE Len(s) = 1
      BY <1>1, <1>3, <2>1, <3>1, <3>2
    <3>3. CASE Len(s) # 1
      <4>1. 1 \in 1..(Len(s) - 1)
        BY <1>15, <3>3, MoreThanOne
      <4>2. QED
        BY <1>1, <2>1, <3>1, <3>3, <4>1
    <3>4. QED
      BY <3>2, <3>3
  <2>3. CASE i # 1
    <3>1. Len(s) # 1 /\ u.first[p] = s[1]
      BY <1>1, <1>3, <2>3
    <3>2. QED
      BY <1>3, <2>1, <3>1
  <2>4. QED
    BY <2>2, <2>3
<1>9. ASSUME w # <<>> PROVE w[1] = u.first[p] /\ u.next[w[Len(w)]] = None
  <2>1. Len(s) > 1
    <3>1. Len(w) # 0 /\ Len(w) \in Nat /\ Len(w) = Len(s) - 1
      BY <1>7, <1>9, EmptySeq
    <3>2. Len(s) # 1
      BY <3>1
    <3>3. QED
      BY <1>15, <3>2, MoreThanOne
  <2>2. w[1] = u.first[p]
    <3>1. CASE i = 1
      <4>1. 1 \in 1..(Len(s) - 1) /\ 1 \in i..(Len(s) - 1)
        BY <1>3, <2>1, <3>1
      <4>2. w[1] = s[1 + 1] /\ t.next[s[1]] = s[1 + 1]
        BY <1>1, <1>7, <4>1
      <4>3. QED
        BY <3>1, <4>2
    <3>2. CASE i # 1
      <4>1. 1 \in 1..(i - 1)
        BY <1>3, <3>2
      <4>2. w[1] = s[1]
        BY <1>7, <4>1
      <4>3. QED
        BY <1>1, <1>3, <3>2, <4>2
    <3>3. QED
      BY <3>1, <3>2
  <2>3. u.next[w[Len(w)]] = None
    <3>1. CASE i = Len(s)
      <4>1. i - 1 \in 1..(i - 1) /\ i > 1 /\ Len(w) = i - 1
        BY <1>3, <1>7, <2>1, <3>1
      <4>2. w[Len(w)] = s[i - 1]
        BY <1>7, <4>1
      <4>3. t.next[n] = None
        BY <1>1, <1>3, <3>1
      <4>4. s[i - 1] \in Node
        BY <1>3, <1>5, <4>1
      <4>5. u.next[s[i - 1]] = None
        BY <4>1, <4>3, <4>4
      <4>6. QED
        BY <4>2, <4>5
    <3>2. CASE i # Len(s)
      <4> DEFINE k == Len(s) - 1
      <4>1. k \in i..(Len(s) - 1) /\ k + 1 = Len(s) /\ Len(w) = k
        BY <1>3, <1>7, <2>1, <3>2
      <4> HIDE DEF k
      <4>2. w[k] = s[Len(s)]
        BY <1>7, <4>1
      <4>3. s[Len(s)] # n
        BY <1>3, <1>4, <3>2
      <4>4. i > 1 => s[Len(s)] # s[i - 1]
        <5>1. i - 1 # Len(s)
          BY <1>3
        <5>2. QED
          BY <1>3, <1>4, <1>5, <5>1
      <4>5. u.next[s[Len(s)]] = t.next[s[Len(s)]]
        BY <1>3, <4>3, <4>4
      <4>6. QED
        BY <1>1, <1>3, <4>1, <4>2, <4>5
    <3>3. QED
      BY <3>1, <3>2
  <2>4. QED
    BY <2>2, <2>3
<1>10. ASSUME NEW j \in 1..(Len(w) - 1) PROVE u.next[w[j]] = w[j + 1]
  <2>1. j \in Nat /\ j >= 1 /\ j + 1 <= Len(s) - 1
    BY <1>3, <1>7
  <2>2. CASE j < i - 1
    <3>1. j \in 1..(i - 1) /\ j + 1 \in 1..(i - 1) /\ j \in 1..(Len(s) - 1) /\ j \in 1..Len(s) /\ i > 1
      BY <1>3, <2>1, <2>2
    <3>2. w[j] = s[j] /\ w[j + 1] = s[j + 1]
      BY <1>7, <3>1
    <3>3. s[j] # s[i - 1] /\ s[j] # n
      BY <1>4, <1>5, <2>2, <3>1
    <3>4. u.next[s[j]] = t.next[s[j]]
      BY <1>3, <3>1, <3>3
    <3>5. QED
      BY <1>1, <3>1, <3>2, <3>4
  <2>3. CASE j = i - 1
    <3>1. j \in 1..(i - 1) /\ j \in 1..Len(s) /\ i \in i..(Len(s) - 1) /\ i \in 1..(Len(s) - 1) /\ j + 1 = i /\ i > 1
      BY <1>3, <2>1, <2>3
    <3>2. w[j] = s[j] /\ w[i] = s[i + 1]
      BY <1>7, <3>1
    <3>3. t.next[n] = s[i + 1]
      BY <1>1, <3>1
    <3>4. s[j] # n /\ s[j] \in Node /\ s[j] = s[i - 1]
      <4>1. j # i
        BY <2>1, <2>3
      <4>2. QED
        BY <1>3, <1>4, <2>3, <3>1, <4>1
    <3>5. u.next[s[j]] = t.next[n]
      BY <3>1, <3>4
    <3>6. QED
      BY <3>1, <3>2, <3>3, <3>5
  <2>4. CASE j > i - 1
    <3> DEFINE k == j + 1
    <3>1. /\ j \in i..(Len(s) - 1) /\ k \in i..(Len(s) - 1) /\ k \in 1..(Len(s) - 1) /\ k \in 1..Len(s)
          /\ k = j + 1 /\ k # i /\ k # i - 1
      BY <1>3, <2>1, <2>4
    <3> HIDE DEF k
    <3>2. w[j] = s[k] /\ w[k] = s[k + 1]
      BY <1>7, <3>1
    <3>3. s[k] # n /\ (i > 1 => s[k] # s[i - 1])
      BY <1>4, <1>5, <3>1
    <3>4. u.next[s[k]] = t.next[s[k]]
      BY <1>3, <3>1, <3>3
    <3>5. QED
      BY <1>1, <3>1, <3>2, <3>4
  <2>5. QED
    BY <1>3, <2>1, <2>2, <2>3, <2>4
<1>11. Chain(u.next, u.first[p], w)
  BY <1>7, <1>8, <1>9, <1>10 DEF Chain
<1>12. Kids(u)[p] = w
  BY <1>11, KidsUnique
<1>13. QED
  BY <1>6, <1>12 DEF Removed, w

LEMMA AppendKids ==
  ASSUME NEW t, Good(t), NEW c \in Node, NEW p \in Node, t.parent[c] = None, c # p
  PROVE  Inserted(t, AppendLinks(t, c, p), c, p, Len(Kids(t)[p]) + 1)
<1> USE DomAssumption
<1> DEFINE s == Kids(t)[p]
           i == Len(s) + 1
           h == t.first[p]
           u == AppendLinks(t, c, p)
<1>0. s = Kids(t)[p]
  OBVIOUS
<1> HIDE DEF s
<1>1. Good(u)
  BY AppendGood
<1>2. /\ s \in Seq(Node) /\ Len(s) \in Nat /\ (s = <<>> => Len(s) = 0)
      /\ s = <<>> <=> h = None
      /\ s # <<>> => Len(s) \in 1..Len(s) /\ s[1] = h /\ t.prev[s[1]] = s[Len(s)]
  BY <1>0, KidsPrev
<1>3. t.next[c] = None /\ t.next \in Pointers /\ t.first \in Pointers
  BY Alone DEF Good, RingOf, Ring
<1>4. /\ \A q \in Node : u.first[q] = IF q = p /\ i = 1 THEN c ELSE t.first[q]
      /\ \A x \in Node : u.next[x] = IF x = c THEN (IF i <= Len(s) THEN s[i] ELSE None)
                                     ELSE IF i > 1 /\ x = s[i - 1] THEN c ELSE t.next[x]
  <2>1. CASE h = None
    <3>1. i = 1 /\ ~(i <= Len(s)) /\ ~(i > 1)
      BY <1>2, <2>1
    <3>2. u.first = [t.first EXCEPT ![p] = c] /\ u.next = t.next
      BY <2>1 DEF AppendLinks
    <3> HIDE DEF i, u
    <3>3. QED
      BY <1>3, <3>1, <3>2 DEF Pointers
  <2>2. CASE h # None
    <3>1. i # 1 /\ ~(i <= Len(s)) /\ i > 1 /\ i - 1 = Len(s)
      BY <1>2, <2>2
    <3>2. u.first = t.first /\ u.next = [t.next EXCEPT ![t.prev[h]] = c]
      BY <2>2 DEF AppendLinks
    <3>3. t.prev[h] = s[Len(s)] /\ s[Len(s)] \in Node /\ s[Len(s)] # c
      <4>1. t.prev[h] = s[Len(s)] /\ s[Len(s)] \in Node
        BY <1>2, <2>2
      <4>2. t.parent[s[Len(s)]] = p
        BY <1>0, <1>2, <2>2, KidsParent
      <4>3. QED
        BY <4>1, <4>2
    <3> HIDE DEF i, u
    <3>4. QED
      BY <1>3, <3>1, <3>2, <3>3 DEF Pointers
  <2>3. QED
    BY <2>1, <2>2
<1>5. i \in 1..(Len(s) + 1)
  BY <1>2
<1> HIDE DEF i, u
<1>6. Inserted(t, u, c, p, i)
  BY <1>0, <1>1, <1>4, <1>5, InsertKids
<1>7. QED
  BY <1>6 DEF u, i, s

LEMMA PrependKids ==
  ASSUME NEW t, Good(t), NEW c \in Node, NEW p \in Node, t.parent[c] = None, c # p
  PROVE  Inserted(t, PrependLinks(t, c, p), c, p, 1)
<1> USE DomAssumption
<1> DEFINE s == Kids(t)[p]
           h == t.first[p]
           u == PrependLinks(t, c, p)
<1>0. s = Kids(t)[p]
  OBVIOUS
<1> HIDE DEF s
<1>1. Good(u)
  BY PrependGood
<1>2. /\ s \in Seq(Node) /\ Len(s) \in Nat /\ (s = <<>> => Len(s) = 0)
      /\ s = <<>> <=> h = None
      /\ s # <<>> => Len(s) \in 1..Len(s) /\ s[1] = h
  BY <1>0, KidsPrev
<1>3. t.next \in Pointers /\ t.first \in Pointers
  BY DEF Good, RingOf, Ring
<1>4. h = IF 1 <= Len(s) THEN s[1] ELSE None
  BY <1>2
<1>5. u.first = [t.first EXCEPT ![p] = c] /\ u.next = [t.next EXCEPT ![c] = h]
  BY DEF PrependLinks
<1> HIDE DEF u
<1>6. /\ \A q \in Node : u.first[q] = IF q = p /\ 1 = 1 THEN c ELSE t.first[q]
      /\ \A x \in Node : u.next[x] = IF x = c THEN (IF 1 <= Len(s) THEN s[1] ELSE None)
                                     ELSE IF 1 > 1 /\ x = s[1 - 1] THEN c ELSE t.next[x]
  BY <1>3, <1>4, <1>5 DEF Pointers
<1>7. 1 \in 1..(Len(s) + 1)
  BY <1>2
<1>8. Inserted(t, u, c, p, 1)
  BY <1>0, <1>1, <1>6, <1>7, InsertKids
<1>9. QED
  BY <1>8 DEF u

LEMMA AfterKids ==
  ASSUME NEW t, Good(t), NEW c \in Node, NEW p \in Node, NEW n \in Node,
         t.parent[c] = None, t.parent[n] = p, c # p
  PROVE  \E k \in 1..Len(Kids(t)[p]) :
            Kids(t)[p][k] = n /\ Inserted(t, AfterLinks(t, c, n), c, p, k + 1)
<1> USE DomAssumption
<1> DEFINE s == Kids(t)[p]
           u == AfterLinks(t, c, n)
<1>0. s = Kids(t)[p]
  OBVIOUS
<1>10. PICK k \in 1..Len(s) : s[k] = n
  BY KidsAll
<1> HIDE DEF s
<1> DEFINE i == k + 1
<1>1. Good(u)
  BY AfterGood
<1>2. /\ s \in Seq(Node) /\ Len(s) \in Nat
      /\ \A j \in 1..(Len(s) - 1) : t.next[s[j]] = s[j + 1]
      /\ s # <<>> => t.next[s[Len(s)]] = None
  BY <1>0, KidsPrev
<1>3. t.next \in Pointers /\ t.first \in Pointers /\ n # c
  BY DEF Good, RingOf, Ring
<1>4. t.next[n] = IF i <= Len(s) THEN s[i] ELSE None
  <2>1. CASE k = Len(s)
    BY <1>2, <1>10, <2>1
  <2>2. CASE k # Len(s)
    <3>1. k \in 1..(Len(s) - 1) /\ i <= Len(s)
      BY <1>2, <1>10, <2>2
    <3>2. QED
      BY <1>2, <1>10, <3>1
  <2>3. QED
    BY <2>1, <2>2
<1>5. u.first = t.first /\ u.next = [t.next EXCEPT ![c] = t.next[n], ![n] = c]
  BY DEF AfterLinks
<1>6. i \in 1..(Len(s) + 1) /\ i > 1 /\ i # 1 /\ i - 1 = k
  BY <1>2, <1>10
<1> HIDE DEF u, i
<1>7. /\ \A q \in Node : u.first[q] = IF q = p /\ i = 1 THEN c ELSE t.first[q]
      /\ \A x \in Node : u.next[x] = IF x = c THEN (IF i <= Len(s) THEN s[i] ELSE None)
                                     ELSE IF i > 1 /\ x = s[i - 1] THEN c ELSE t.next[x]
  BY <1>3, <1>4, <1>5, <1>6, <1>10 DEF Pointers
<1>8. Inserted(t, u, c, p, i)
  BY <1>0, <1>1, <1>6, <1>7, InsertKids
<1>9. QED
  BY <1>8, <1>10 DEF u, i, s

\* c is in no list, and is not p.
Loose(t, c, p) == t.parent[c] = None /\ c # p

LEMMA BeforeKids ==
  ASSUME NEW t, Good(t), NEW c \in Node, NEW p \in Node, NEW n \in Node,
         Loose(t, c, p), t.parent[n] = p
  PROVE  \E k \in 1..Len(Kids(t)[p]) :
            Kids(t)[p][k] = n /\ Inserted(t, BeforeLinks(t, c, n), c, p, k)
<1> USE DomAssumption
<1> DEFINE s == Kids(t)[p]
           b == t.prev[n]
           u == BeforeLinks(t, c, n)
<1>0. s = Kids(t)[p]
  OBVIOUS
<1>10. PICK i \in 1..Len(s) : s[i] = n
  BY KidsAll
<1> HIDE DEF s
<1>1. Good(u)
  BY BeforeGood DEF Loose
<1>2. /\ s \in Seq(Node) /\ Len(s) \in Nat
      /\ \A j \in 1..(Len(s) - 1) : /\ t.next[s[j]] = s[j + 1] /\ t.next[s[j]] # None
                                    /\ t.prev[s[j + 1]] = s[j]
      /\ s # <<>> => s[1] = t.first[p]
  BY <1>0, KidsPrev
<1>3. t.next \in Pointers /\ t.first \in Pointers /\ n # c
  BY DEF Loose, Good, RingOf, Ring
<1>4. i \in 1..(Len(s) + 1) /\ i <= Len(s) /\ s # <<>> /\ i \in Nat
  BY <1>2, <1>10
<1>5. b # c
  BY DEF Loose, Good, RingOf, Ring, RingAt
<1>6. /\ \A q \in Node : u.first[q] = IF q = p /\ i = 1 THEN c ELSE t.first[q]
      /\ \A x \in Node : u.next[x] = IF x = c THEN (IF i <= Len(s) THEN s[i] ELSE None)
                                     ELSE IF i > 1 /\ x = s[i - 1] THEN c ELSE t.next[x]
  <2>1. CASE i = 1
    <3>1. n = t.first[p] /\ t.next[b] = None
      <4>1. n = t.first[p]
        BY <1>2, <1>4, <1>10, <2>1
      <4>2. QED
        BY <4>1 DEF Good, RingOf, Ring, RingAt
    <3>2. u.first = [t.first EXCEPT ![p] = c] /\ u.next = [t.next EXCEPT ![c] = n]
      BY <3>1 DEF BeforeLinks
    <3> HIDE DEF u
    <3>3. QED
      BY <1>3, <1>4, <1>10, <2>1, <3>2 DEF Pointers
  <2>2. CASE i # 1
    <3> DEFINE j == i - 1
    <3>1. j \in 1..(Len(s) - 1) /\ j + 1 = i /\ i > 1
      BY <1>4, <1>10, <2>2
    <3> HIDE DEF j
    <3>2. b = s[j] /\ t.next[b] # None /\ b \in Node
      <4>1. t.prev[s[j + 1]] = s[j] /\ t.next[s[j]] # None /\ s[j] \in Node
        BY <1>2, <3>1
      <4>2. QED
        BY <1>10, <3>1, <4>1
    <3>3. u.first = t.first /\ u.next = [t.next EXCEPT ![b] = c, ![c] = n]
      BY <3>2 DEF BeforeLinks
    <3> HIDE DEF u, b
    <3>4. s[i - 1] = b
      BY <3>2 DEF j
    <3>5. QED
      BY <1>3, <1>4, <1>5, <1>10, <2>2, <3>1, <3>2, <3>3, <3>4 DEF Pointers
  <2>3. QED
    BY <2>1, <2>2
<1> HIDE DEF u, b
<1>8. Inserted(t, u, c, p, i)
  <2>1. t.parent[c] = None
    BY DEF Loose
  <2>2. QED
    BY <1>0, <1>1, <1>4, <1>6, <2>1, InsertKids
<1>9. QED
  BY <1>8, <1>10 DEF u, s

LEMMA TakenOutKids ==
  ASSUME NEW t, Good(t), NEW p \in Node, NEW n \in Node, t.parent[n] = p
  PROVE  \E k \in 1..Len(Kids(t)[p]) :
            Kids(t)[p][k] = n /\ Removed(t, RemoveLinks(t, n), p, k)
<1> USE DomAssumption
<1> DEFINE s == Kids(t)[p]
           b == t.prev[n]
           u == RemoveLinks(t, n)
<1>0. s = Kids(t)[p]
  OBVIOUS
<1>10. PICK i \in 1..Len(s) : s[i] = n
  BY KidsAll
<1> HIDE DEF s
<1>1. Good(u)
  BY RemoveGood
<1>2. /\ s \in Seq(Node) /\ Len(s) \in Nat
      /\ \A j \in 1..(Len(s) - 1) : /\ t.next[s[j]] = s[j + 1] /\ t.next[s[j]] # None
                                    /\ t.prev[s[j + 1]] = s[j]
      /\ s # <<>> => s[1] = t.first[p]
  BY <1>0, KidsPrev
<1>3. t.next \in Pointers /\ t.first \in Pointers
  BY DEF Good, RingOf, Ring
<1>4. i <= Len(s) /\ s # <<>> /\ i \in Nat
  BY <1>2, <1>10
<1>6. /\ \A q \in Node : u.first[q] = IF q = p /\ i = 1 THEN t.next[n] ELSE t.first[q]
      /\ \A x \in Node : u.next[x] = IF x = n THEN None
                                     ELSE IF i > 1 /\ x = s[i - 1] THEN t.next[n] ELSE t.next[x]
  <2>1. CASE i = 1
    <3>1. n = t.first[p] /\ t.next[b] = None
      <4>1. n = t.first[p]
        BY <1>2, <1>4, <1>10, <2>1
      <4>2. QED
        BY <4>1 DEF Good, RingOf, Ring, RingAt
    <3>2. u.first = [t.first EXCEPT ![p] = t.next[n]] /\ u.next = [t.next EXCEPT ![n] = None]
      BY <3>1 DEF RemoveLinks
    <3> HIDE DEF u
    <3>3. QED
      BY <1>3, <1>4, <1>10, <2>1, <3>2 DEF Pointers
  <2>2. CASE i # 1
    <3> DEFINE j == i - 1
    <3>1. j \in 1..(Len(s) - 1) /\ j + 1 = i /\ i > 1
      BY <1>4, <1>10, <2>2
    <3> HIDE DEF j
    <3>2. b = s[j] /\ t.next[b] # None /\ b \in Node
      BY <1>2, <1>10, <3>1
    <3>3. u.first = t.first /\ u.next = [t.next EXCEPT ![b] = t.next[n], ![n] = None]
      BY <3>2 DEF RemoveLinks
    <3> HIDE DEF u, b
    <3>4. s[i - 1] = b
      BY <3>2 DEF j
    <3>5. QED
      BY <1>3, <1>4, <1>10, <2>2, <3>1, <3>2, <3>3, <3>4 DEF Pointers
  <2>3. QED
    BY <2>1, <2>2
<1> HIDE DEF u
<1>8. Removed(t, u, p, i)
  BY <1>0, <1>1, <1>6, <1>10, RemoveKids
<1>9. QED
  BY <1>8, <1>10 DEF u, s

LEMMA KidsShape ==
  ASSUME NEW t
  PROVE  Kids(t) = [n \in Node |-> Kids(t)[n]]
BY DEF Kids

LEMMA FreedKids ==
  ASSUME NEW t, Good(t), NEW D \in SUBSET Node,
         \A n \in Node : t.parent[n] # None => (n \in D <=> t.parent[n] \in D),
         NEW q \in Node
  PROVE  Kids(FreedLinks(t, D))[q] = IF q \in D THEN <<>> ELSE Kids(t)[q]
<1> USE DomAssumption
<1> DEFINE u == FreedLinks(t, D)
<1>1. Good(u)
  BY FreedGood
<1>2. /\ \A n \in Node : u.first[n] = IF n \in D THEN None ELSE t.first[n]
      /\ \A n \in Node : u.next[n] = IF n \in D THEN None ELSE t.next[n]
  BY DEF FreedLinks
<1> HIDE DEF u
<1>3. CASE q \in D
  BY <1>1, <1>2, <1>3, KidsNone DEF u
<1>4. CASE q \notin D
  <2>1. u.first[q] = t.first[q]
    BY <1>2, <1>4
  <2>2. \A x \in Node : t.parent[x] = q => u.next[x] = t.next[x]
    BY <1>2, <1>4
  <2>3. Kids(u)[q] = Kids(t)[q]
    BY <1>1, <2>1, <2>2, KidsKept
  <2>4. QED
    BY <1>4, <2>3 DEF u
<1>5. QED
  BY <1>3, <1>4

LEMMA TakenKids ==
  ASSUME NEW t, Good(t), NEW d \in Node, NEW e \in Node, d # e,
         t.parent[d] = None, t.parent[e] = None, t.first[d] = None
  PROVE  LET u == TakenLinks(t, d, e) IN
         /\ Kids(u)[d] = Kids(t)[e] /\ Kids(u)[e] = <<>>
         /\ \A q \in Node \ {d, e} : Kids(u)[q] = Kids(t)[q]
<1> USE DomAssumption
<1> DEFINE u == TakenLinks(t, d, e)
<1>1. Good(u)
  BY TakenGood
<1>2. /\ u.first = [t.first EXCEPT ![d] = t.first[e], ![e] = None]
      /\ u.next = t.next /\ t.first \in Pointers
  BY DEF TakenLinks, Good, RingOf, Ring
<1> HIDE DEF u
<1>3. u.first[d] = t.first[e] /\ u.first[e] = None /\ \A q \in Node \ {d, e} : u.first[q] = t.first[q]
  BY <1>2 DEF Pointers
<1>4. Kids(u)[e] = <<>>
  BY <1>1, <1>3, KidsNone
<1>5. Kids(u)[d] = Kids(t)[e] /\ \A q \in Node \ {d, e} : Kids(u)[q] = Kids(t)[q]
  BY <1>2, <1>3 DEF Kids
<1>6. QED
  BY <1>4, <1>5 DEF u

\* The children of a node are in its sequence, and only they.
LEMMA KidsSet ==
  ASSUME NEW t, Good(t), NEW p \in Node, NEW x
  PROVE  (\E i \in 1..Len(Kids(t)[p]) : Kids(t)[p][i] = x) <=> x \in Node /\ t.parent[x] = p
<1> DEFINE s == Kids(t)[p]
<1>1. s \in Seq(Node)
  BY KidsPrev
<1>2. \A i \in 1..Len(s) : t.parent[s[i]] = p
  BY KidsParent
<1>3. x \in Node /\ t.parent[x] = p => \E i \in 1..Len(s) : s[i] = x
  BY KidsAll
<1> HIDE DEF s
<1>4. (\E i \in 1..Len(s) : s[i] = x) <=> x \in Node /\ t.parent[x] = p
  BY <1>1, <1>2, <1>3
<1>5. QED
  BY <1>4 DEF s

LEMMA HasChild ==
  ASSUME IInv, NEW p \in Node, NEW x
  PROVE  /\ Forest!Contains(ChildSequences[p], x) <=> x \in Node /\ tree.parent[x] = p
         /\ x \in Forest!ToSet(ChildSequences[p]) <=> x \in Node /\ tree.parent[x] = p
<1> DEFINE s == ChildSequences[p]
<1>1. Good(tree) /\ s = Kids(tree)[p]
  BY KidsAre DEF IInv
<1>2. s \in Seq(Node)
  BY <1>1, KidsPrev
<1>3. (\E i \in 1..Len(s) : s[i] = x) <=> x \in Node /\ tree.parent[x] = p
  BY <1>1, KidsSet
<1> HIDE DEF s
<1>4. Forest!Contains(s, x) <=> \E i \in 1..Len(s) : s[i] = x
  BY DEF Forest!Contains
<1>5. x \in Forest!ToSet(s) <=> \E i \in 1..Len(s) : s[i] = x
  BY <1>2 DEF Forest!ToSet
<1>6. QED
  BY <1>3, <1>4, <1>5 DEF s

\* What is below a node in its sequences is its subtree.
LEMMA BelowIs ==
  ASSUME IInv, NEW n \in Node
  PROVE  Forest!Below(n) = Subtree(tree, n)
<1> USE DomAssumption
<1>1. tree.parent \in Pointers
  BY DEF IInv, Good, RingOf, Ring
<1> DEFINE Closed(S) == n \in S /\ \A x \in Node : tree.parent[x] \in S => x \in S
<1>2. Forest!Below(n) = {m \in Node : \A S \in SUBSET Node : Closed(S) => m \in S}
  <2> DEFINE kids == [m \in Node |-> Forest!ToSet(ChildSequences[m])]
  <2>1. Forest!Below(n) = {m \in Node : \A S \in SUBSET Node :
                             (n \in S /\ \A x \in S : kids[x] \subseteq S) => m \in S}
    BY DEF Forest!Below
  <2>2. \A S \in SUBSET Node : \A x \in S : \A y : y \in kids[x] <=> y \in Node /\ tree.parent[y] = x
    BY HasChild
  <2> HIDE DEF kids
  <2>3. \A S \in SUBSET Node : (\A x \in S : kids[x] \subseteq S)
                               <=> (\A y \in Node : tree.parent[y] \in S => y \in S)
    BY <2>2
  <2>4. QED
    BY <2>1, <2>3
<1>3. ASSUME NEW m \in Node, \A S \in SUBSET Node : Closed(S) => m \in S
      PROVE  m \in Subtree(tree, n)
  <2>1. n \in Subtree(tree, n) /\ Subtree(tree, n) \in SUBSET Node
    BY AboveSelf DEF Subtree
  <2>2. ASSUME NEW x \in Node, tree.parent[x] \in Subtree(tree, n) PROVE x \in Subtree(tree, n)
    <3>1. tree.parent[x] \in Node /\ n \in Above(tree, tree.parent[x]) /\ tree.parent[x] # None
      BY <2>2 DEF Subtree
    <3>2. x # n => (n \in Above(tree, x) <=> n \in Above(tree, tree.parent[x]))
      BY <1>1, <3>1, AboveOfParent
    <3>3. QED
      BY <2>1, <3>1, <3>2 DEF Subtree
  <2>3. Closed(Subtree(tree, n))
    BY <2>1, <2>2
  <2>4. QED
    BY <1>3, <2>1, <2>3
<1>4. ASSUME NEW m \in Subtree(tree, n), NEW S \in SUBSET Node, Closed(S), m \notin S PROVE FALSE
  <2>1. n \in Above(tree, m) /\ m \in Node \ S
    BY <1>4 DEF Subtree
  <2>2. \A x \in Node \ S : tree.parent[x] # None => tree.parent[x] \in Node \ S
    BY <1>1, <1>4 DEF Pointers
  <2>3. n \in Node \ S
    BY <2>1, <2>2 DEF Above
  <2>4. QED
    BY <1>4, <2>3
<1>5. Subtree(tree, n) \in SUBSET Node
  BY DEF Subtree
<1> HIDE DEF Closed
<1>6. QED
  BY <1>2, <1>3, <1>4, <1>5

\* What is below a document is what is alive in its pages.
LEMMA DocumentHolds ==
  ASSUME IInv, NEW d \in Document
  PROVE  /\ Subtree(tree, d) \subseteq Held(d) \cup {d}
         /\ (Held(d) \cap Alive) \cup {d} \subseteq Subtree(tree, d)
<1> USE DomAssumption
<1>1. /\ tree.parent \in Pointers /\ NoCycle(tree.parent) /\ d \in Node
      /\ \A n \in Node : /\ n \in Alive \ Document <=> tree.parent[n] # None
                         /\ tree.parent[n] # None => tree.parent[n] \in Alive /\ owner[n] = owner[tree.parent[n]]
      /\ \A c \in Document : owner[c] = c
  BY DEF IInv, AliveAttached, Good, RingOf, Ring
<1>2. ASSUME NEW m \in Subtree(tree, d) PROVE m \in Held(d) \cup {d}
  <2> DEFINE S == {x \in Node : owner[x] = owner[m]}
  <2>1. m \in Node /\ d \in Above(tree, m)
    BY DEF Subtree
  <2>2. m \in S /\ \A x \in S : tree.parent[x] # None => tree.parent[x] \in S
    BY <1>1, <2>1 DEF Pointers
  <2>3. d \in S
    BY <2>1, <2>2 DEF Above
  <2>4. QED
    BY <1>1, <2>1, <2>3 DEF Held
<1> DEFINE T == {m \in Held(d) \cap Alive : m \notin Subtree(tree, d)}
<1>3. d \in Subtree(tree, d)
  BY <1>1, AboveSelf DEF Subtree
<1>4. ASSUME T # {} PROVE FALSE
  <2>1. PICK m \in T : tree.parent[m] \notin T
    <3>1. T \in SUBSET Node
      BY DEF Held
    <3>2. QED
      BY <1>1, <1>4, <3>1 DEF NoCycle
  <2> DEFINE q == tree.parent[m]
  <2>2. m \in Node /\ m \notin Document /\ m \in Alive /\ owner[m] = d /\ d \notin Above(tree, m)
    BY <2>1 DEF Held, Subtree
  <2>3. q # None /\ q \in Node /\ q \in Alive /\ owner[q] = d
    BY <1>1, <2>2 DEF Alive
  <2>4. q \in Subtree(tree, d)
    BY <1>1, <1>3, <2>1, <2>3 DEF Held
  <2>5. d \in Above(tree, q) /\ d # m
    BY <2>2, <2>4 DEF Subtree
  <2>6. QED
    BY <1>1, <2>2, <2>3, <2>5, AboveOfParent
<1>5. QED
  BY <1>2, <1>3, <1>4

\* Two maps of nodes to sequences with the same values.
LEMMA SameKids ==
  ASSUME NEW k, NEW t, k = [q \in Node |-> k[q]], \A q \in Node : k[q] = Kids(t)[q]
  PROVE  k = Kids(t)
<1>1. Kids(t) = [q \in Node |-> Kids(t)[q]]
  BY KidsShape
<1>2. QED
  BY <1>1, Zenon

LEMMA InsertedMap ==
  ASSUME NEW t, NEW u, NEW c, NEW p \in Node, NEW i, Inserted(t, u, c, p, i)
  PROVE  Kids(u) = [Kids(t) EXCEPT ![p] = InsertAt(Kids(t)[p], i, c)]
<1> DEFINE w == InsertAt(Kids(t)[p], i, c)
           k == [Kids(t) EXCEPT ![p] = w]
<1>1. Kids(u)[p] = w /\ \A q \in Node \ {p} : Kids(u)[q] = Kids(t)[q]
  BY DEF Inserted
<1>2. Kids(t) = [q \in Node |-> Kids(t)[q]]
  BY KidsShape
<1> HIDE DEF w
<1>3. k = [q \in Node |-> IF q = p THEN w ELSE Kids(t)[q]]
  BY <1>2
<1>4. k = [q \in Node |-> k[q]] /\ \A q \in Node : k[q] = Kids(u)[q]
  BY <1>1, <1>3
<1>5. k = Kids(u)
  BY <1>4, SameKids
<1>6. QED
  BY <1>5 DEF w

\* A node taken out of its sequence.
LEMMA WithoutIs ==
  ASSUME IInv, NEW n \in Node, tree.parent[n] # None
  PROVE  Forest!Without(n) = Kids(RemoveLinks(tree, n))
<1> USE DomAssumption
<1> DEFINE p == tree.parent[n]
           s == Kids(tree)[p]
           r == RemoveLinks(tree, n)
<1>1. Good(tree) /\ p \in Node /\ ChildSequences = Kids(tree)
  BY KidsAre DEF IInv, Good, RingOf, Ring, Pointers
<1>2. PICK k \in 1..Len(s) : s[k] = n /\ Removed(tree, r, p, k)
  BY <1>1, TakenOutKids
<1>3. \A i \in 1..Len(s) : s[i] = n => i = k
  BY <1>1, <1>2, KidsDistinct
<1>4. s \in Seq(Node)
  BY <1>1, KidsPrev
<1> HIDE DEF r
<1>5. Forest!Less(s, n) = RemoveAt(s, k)
  <2> HIDE DEF s
  <2>1. DOMAIN s = 1..Len(s)
    BY <1>4
  <2>2. (CHOOSE i \in DOMAIN s : s[i] = n) = k
    BY <1>2, <1>3, <2>1
  <2>3. QED
    BY <2>2 DEF Forest!Less, Forest!RemoveAt, RemoveAt
<1>6. \A q \in Node : Forest!Contains(ChildSequences[q], n) <=> p = q
  BY HasChild
<1>7. Forest!Without(n) = [q \in Node |-> IF p = q THEN Forest!Less(Kids(tree)[q], n) ELSE Kids(tree)[q]]
  <2>1. Forest!Without(n) = [q \in Node |-> IF Forest!Contains(ChildSequences[q], n)
                               THEN Forest!Less(ChildSequences[q], n) ELSE ChildSequences[q]]
    BY DEF Forest!Without
  <2> HIDE DEF p
  <2>2. QED
    BY <1>1, <1>6, <2>1
<1> DEFINE k1 == Forest!Without(n)
<1>8. k1[p] = Kids(r)[p] /\ \A q \in Node \ {p} : k1[q] = Kids(r)[q]
  <2>1. k1[p] = Forest!Less(s, n) /\ \A q \in Node \ {p} : k1[q] = Kids(tree)[q]
    BY <1>1, <1>7
  <2>2. Kids(r)[p] = RemoveAt(s, k) /\ \A q \in Node \ {p} : Kids(r)[q] = Kids(tree)[q]
    BY <1>2 DEF Removed
  <2>3. QED
    BY <1>5, <2>1, <2>2
<1>9. k1 = [q \in Node |-> k1[q]]
  BY <1>7
<1> HIDE DEF k1
<1>10. k1 = Kids(r)
  BY <1>1, <1>8, <1>9, SameKids
<1>11. QED
  BY <1>10 DEF k1, r
-----------------------------------------------------------------------------
\* A new node comes into one sequence.
LEMMA AddImplements ==
  ASSUME IInv, NEW p \in Node, NEW c \in Node \ Alive, NEW i, Inserted(tree, tree', c, p, i)
  PROVE  Forest!Next
<1> USE DomAssumption
<1>1. ChildSequences = Kids(tree) /\ ChildSequences' = Kids(tree') /\ Good(tree)
  BY KidsAre DEF IInv
<1>2. c \notin Document /\ tree.parent[c] = None /\ tree.first[c] = None
  BY DEF IInv, AliveAttached, Alive
<1>3. ChildSequences[c] = <<>> /\ \A q \in Node : ~Forest!Contains(ChildSequences[q], c)
  <2>1. ChildSequences[c] = <<>>
    BY <1>1, <1>2, KidsNone
  <2>2. \A q \in Node : ~Forest!Contains(ChildSequences[q], c)
    BY <1>2, HasChild
  <2>3. QED
    BY <2>1, <2>2
<1>4. c \in Forest!Free
  BY <1>2, <1>3 DEF Forest!Free
<1>5. Kids(tree') = [Kids(tree) EXCEPT ![p] = InsertAt(Kids(tree)[p], i, c)]
  BY InsertedMap
<1>6. i \in 1..(Len(Kids(tree)[p]) + 1)
  BY DEF Inserted
<1>7. Forest!Add(c, p)
  BY <1>1, <1>5, <1>6 DEF Forest!Add, Forest!InsertAt, InsertAt
<1>8. QED
  BY <1>2, <1>4, <1>7 DEF Forest!Next

\* A node that is moved comes out of one sequence and into one.
LEMMA MoveImplements ==
  ASSUME IInv, NEW p \in Node, NEW m \in Node \ Document, tree.parent[m] # None,
         m \notin Above(tree, p), NEW i, Inserted(RemoveLinks(tree, m), tree', m, p, i)
  PROVE  Forest!Next
<1> USE DomAssumption
<1> DEFINE r == RemoveLinks(tree, m)
<1>1. ChildSequences = Kids(tree) /\ ChildSequences' = Kids(tree')
  BY KidsAre
<1>2. Forest!Without(m) = Kids(r)
  BY WithoutIs
<1> HIDE DEF r
<1>3. Kids(tree') = [Kids(r) EXCEPT ![p] = InsertAt(Kids(r)[p], i, m)]
  BY InsertedMap DEF r
<1>4. i \in 1..(Len(Kids(r)[p]) + 1)
  BY DEF Inserted, r
<1>5. p \notin Forest!Below(m)
  BY BelowIs DEF Subtree
<1>6. m \notin Forest!Free
  <2>1. tree.parent[m] \in Node
    BY DEF IInv, Good, RingOf, Ring, Pointers
  <2>2. Forest!Contains(ChildSequences[tree.parent[m]], m)
    BY <2>1, HasChild
  <2>3. QED
    BY <2>1, <2>2 DEF Forest!Free
<1>7. Forest!MoveTo(m, p)
  BY <1>1, <1>2, <1>3, <1>4, <1>5 DEF Forest!MoveTo, Forest!InsertAt, InsertAt
<1>8. QED
  BY <1>6, <1>7 DEF Forest!Next

\* A node that is removed goes with what is below it.
LEMMA DropImplements ==
  ASSUME IInv, NEW p \in Alive, NEW n \in Alive, RemoveChild(p, n)
  PROVE  Forest!Next
<1> USE DomAssumption
<1> DEFINE D == Subtree(tree, n)
           r == RemoveLinks(tree, n)
<1>1. /\ n \in Node /\ n \notin Document /\ tree.parent[n] # None
      /\ tree.parent \in Pointers /\ Good(tree) /\ p \in Node
  BY DEF IInv, RemoveChild, Alive, Good, RingOf, Ring, AliveAttached
<1>2. Good(r) /\ r.parent = [tree.parent EXCEPT ![n] = None]
  BY <1>1, RemoveGood
<1>3. D \in SUBSET Node /\ n \in D
  BY <1>1, AboveSelf DEF Subtree
<1>4. \A x \in Node : x # n /\ tree.parent[x] # None => (x \in D <=> tree.parent[x] \in D)
  <2>1. ASSUME NEW x \in Node, x # n, tree.parent[x] # None
        PROVE  x \in D <=> tree.parent[x] \in D
    <3>1. tree.parent[x] \in Node
      BY <1>1, <2>1 DEF Pointers
    <3>2. n \in Above(tree, x) <=> n \in Above(tree, tree.parent[x])
      BY <1>1, <2>1, AboveOfParent
    <3>3. QED
      BY <3>1, <3>2 DEF Subtree
  <2>2. QED
    BY <2>1
<1>5. Forest!Below(n) = D /\ Forest!Without(n) = Kids(r)
  BY <1>1, BelowIs, WithoutIs
<1>6. tree' = FreedLinks(r, D)
  BY DEF RemoveChild
<1> HIDE DEF D, r
<1>7. \A x \in Node : r.parent[x] # None => (x \in D <=> r.parent[x] \in D)
  BY <1>1, <1>2, <1>4 DEF Pointers
<1>8. \A q \in Node : Kids(tree')[q] = IF q \in D THEN <<>> ELSE Kids(r)[q]
  BY <1>2, <1>3, <1>6, <1>7, FreedKids
<1> DEFINE k == [q \in Node |-> IF q \in D THEN <<>> ELSE Kids(r)[q]]
<1>9. k = Kids(tree')
  <2>1. k = [q \in Node |-> k[q]] /\ \A q \in Node : k[q] = Kids(tree')[q]
    BY <1>8
  <2> HIDE DEF k
  <2>2. QED
    BY <2>1, SameKids
<1>10. ChildSequences' = k
  BY <1>9, KidsAre
<1>11. Forest!Drop(n)
  BY <1>5, <1>10 DEF Forest!Drop
<1>12. QED
  BY <1>1, <1>11 DEF Forest!Next

\* What a reset leaves of the sequences.
LEMMA ResetKids ==
  ASSUME IInv, NEW d \in Document, NEW q \in Node
  PROVE  Kids(ResetLinks(tree, d))[q] =
           IF q \in Forest!Below(d) THEN <<>> ELSE ChildSequences[q]
<1> USE DomAssumption
<1> DEFINE D == Held(d) \cup {d}
           u == FreedLinks(tree, D)
           t == ResetLinks(tree, d)
<1>1. d \in Node /\ tree.parent[d] = None /\ tree.parent \in Pointers /\ Good(tree)
  BY DEF IInv, AliveAttached, Good, RingOf, Ring
<1>2. \A n \in Node : tree.parent[n] # None => (n \in D <=> tree.parent[n] \in D)
  <2>1. ASSUME NEW n \in Node, tree.parent[n] # None
        PROVE  n \in D <=> tree.parent[n] \in D
    <3>1. n \notin Document /\ tree.parent[n] \in Node /\ owner[n] = owner[tree.parent[n]]
      BY <1>1, <2>1 DEF IInv, AliveAttached, Pointers
    <3>2. \A x \in Node : x \in D <=> owner[x] = d
      BY DEF Held, IInv
    <3>3. QED
      BY <3>1, <3>2
  <2>2. QED
    BY <2>1
<1>3. D \in SUBSET Node
  BY <1>1 DEF Held
<1>4. t.first = u.first /\ t.next = u.next
  BY DEF ResetLinks, FreedLinks
<1>5. Kids(t) = Kids(u)
  BY <1>4 DEF Kids
<1>6. Kids(u)[q] = IF q \in D THEN <<>> ELSE Kids(tree)[q]
  <2> HIDE DEF D
  <2>1. QED
    BY <1>1, <1>2, <1>3, FreedKids
<1>7. Forest!Below(d) = Subtree(tree, d) /\ ChildSequences[q] = Kids(tree)[q]
  BY <1>1, BelowIs, KidsAre
<1>8. Subtree(tree, d) \subseteq D /\ (Held(d) \cap Alive) \cup {d} \subseteq Subtree(tree, d)
  BY DocumentHolds
<1>9. q \in D /\ q \notin Subtree(tree, d) => Kids(tree)[q] = <<>>
  <2>1. SUFFICES ASSUME q \in D, q \notin Subtree(tree, d) PROVE tree.first[q] = None
    BY <1>1, KidsNone
  <2>2. q \notin Alive
    BY <1>8, <2>1
  <2>3. QED
    BY <2>2 DEF IInv, AliveAttached
<1> HIDE DEF D, u, t
<1>10. QED
  BY <1>5, <1>6, <1>7, <1>8, <1>9 DEF t

LEMMA ClearImplements ==
  ASSUME IInv, NEW d \in Document, Reset(d)
  PROVE  Forest!Next
<1> DEFINE k == [q \in Node |-> IF q \in Forest!Below(d) THEN <<>> ELSE ChildSequences[q]]
<1>1. tree' = ResetLinks(tree, d)
  BY DEF Reset
<1>2. k = [q \in Node |-> k[q]] /\ \A q \in Node : k[q] = Kids(ResetLinks(tree, d))[q]
  BY ResetKids
<1> HIDE DEF k
<1>3. k = Kids(tree')
  BY <1>1, <1>2, SameKids
<1>4. ChildSequences' = k
  BY <1>3, KidsAre
<1>5. Forest!Clear(d)
  BY <1>4 DEF Forest!Clear, k
<1>6. QED
  BY <1>5 DEF Forest!Next

LEMMA TakeOverImplements ==
  ASSUME IInv, NEW d \in Document, NEW e \in Document, MoveDocument(d, e)
  PROVE  Forest!Next
<1> USE DomAssumption
<1> DEFINE r == ResetLinks(tree, d)
           u == TakenLinks(r, d, e)
           gone == Forest!Below(d)
<1>1. /\ Good(r) /\ r.parent \in Pointers
      /\ \A n \in Node : r.parent[n] = IF n \in Held(d) THEN None ELSE tree.parent[n]
  BY ResetGood
<1>2. /\ d # e /\ d \in Node /\ e \in Node /\ tree' = u
      /\ tree.parent[d] = None /\ tree.parent[e] = None
  BY DEF MoveDocument, Held, IInv, AliveAttached, Good, RingOf, Ring
<1>3. \A q \in Node : Kids(r)[q] = IF q \in gone THEN <<>> ELSE ChildSequences[q]
  BY ResetKids
<1>4. d \in gone /\ e \notin gone
  <2>1. gone = Subtree(tree, d)
    BY <1>2, BelowIs
  <2>2. gone \subseteq Held(d) \cup {d} /\ d \in gone
    BY <2>1, DocumentHolds
  <2>3. QED
    BY <1>2, <2>2 DEF Held
<1> HIDE DEF r, gone
<1>5. r.parent[d] = None /\ r.parent[e] = None /\ r.first[d] = None
  <2>1. Kids(r)[d] = <<>>
    BY <1>2, <1>3, <1>4
  <2>2. r.first[d] = None
    BY <1>1, <1>2, <2>1, KidsNone
  <2>3. QED
    BY <1>1, <1>2, <2>2
<1>6. /\ Kids(u)[d] = Kids(r)[e] /\ Kids(u)[e] = <<>>
      /\ \A q \in Node \ {d, e} : Kids(u)[q] = Kids(r)[q]
  BY <1>1, <1>2, <1>5, TakenKids
<1> DEFINE kept == [q \in Node |-> IF q \in gone THEN <<>> ELSE ChildSequences[q]]
           k == [kept EXCEPT ![d] = ChildSequences[e], ![e] = <<>>]
<1> HIDE DEF u
<1>7. \A q \in Node : k[q] = Kids(u)[q]
  <2>1. \A q \in Node : kept[q] = Kids(r)[q]
    BY <1>3
  <2>2. kept = [q \in Node |-> kept[q]]
    OBVIOUS
  <2>3. Kids(r)[e] = ChildSequences[e]
    BY <1>2, <1>3, <1>4
  <2> HIDE DEF kept
  <2>4. k[d] = ChildSequences[e] /\ k[e] = <<>> /\ \A q \in Node \ {d, e} : k[q] = kept[q]
    BY <1>2, <2>2
  <2> HIDE DEF k
  <2>5. QED
    BY <1>6, <2>1, <2>3, <2>4
<1>8. k = Kids(tree')
  <2>1. k = [q \in Node |-> k[q]]
    OBVIOUS
  <2> HIDE DEF k, kept
  <2>2. QED
    BY <1>2, <1>7, <2>1, SameKids
<1>9. ChildSequences' = k
  BY <1>8, KidsAre
<1>10. Forest!TakeOver(d, e)
  BY <1>9 DEF Forest!TakeOver, gone
<1>11. QED
  BY <1>2, <1>10 DEF Forest!Next

LEMMA InitImplements == Init => Forest!Init
<1> USE DomAssumption
<1> SUFFICES ASSUME Init PROVE Forest!Init
  OBVIOUS
<1> DEFINE k == [q \in Node |-> <<>>]
<1>1. Good(tree)
  BY InitIInv DEF IInv
<1>2. \A q \in Node : tree.first[q] = None
  BY DEF Init
<1>3. \A q \in Node : Kids(tree)[q] = <<>>
  BY <1>1, <1>2, KidsNone
<1>4. k = [q \in Node |-> k[q]] /\ \A q \in Node : k[q] = Kids(tree)[q]
  BY <1>3
<1> HIDE DEF k
<1>5. k = Kids(tree)
  BY <1>4, SameKids
<1>6. QED
  BY <1>5, KidsAre DEF Forest!Init, k

\* The place of a node in a sequence of children.
LEMMA PlaceIs ==
  ASSUME NEW t, Good(t), NEW p \in Node, NEW i \in 1..Len(Kids(t)[p])
  PROVE  Place(Kids(t)[p], Kids(t)[p][i]) = i
<1> DEFINE s == Kids(t)[p]
<1>1. s \in Seq(Node) /\ \A j \in 1..Len(s) : s[j] = s[i] => j = i
  BY KidsPrev, KidsDistinct
<1> HIDE DEF s
<1>2. DOMAIN s = 1..Len(s) /\ i \in 1..Len(s)
  BY <1>1 DEF s
<1>3. Place(s, s[i]) = i
  BY <1>1, <1>2 DEF Place
<1>4. QED
  BY <1>3 DEF s

\* Where a node that was inserted is, and its neighbours.
LEMMA InsertedPlace ==
  ASSUME NEW t, Good(t), NEW u, NEW c \in Node, NEW p \in Node, NEW i, Inserted(t, u, c, p, i)
  PROVE  /\ With(Node, Kids(t)[p], i, c, Kids(u)[p])
         /\ Kids(t)[p] \in Seq(Node) /\ i \in 1..(Len(Kids(t)[p]) + 1)
<1>1. Kids(t)[p] \in Seq(Node)
  BY KidsPrev
<1>2. QED
  BY <1>1, InsertIs DEF Inserted

\* The numbers of InsertedPlace: last, first, after and before.
LEMMA AtEnd ==
  ASSUME NEW t, Good(t), NEW u, NEW c \in Node, NEW p \in Node,
         Inserted(t, u, c, p, Len(Kids(t)[p]) + 1)
  PROVE  Kids(u)[p][Len(Kids(u)[p])] = c
<1>1. QED
  BY InsertedPlace DEF With

LEMMA AtFront ==
  ASSUME NEW t, Good(t), NEW u, NEW c \in Node, NEW p \in Node, Inserted(t, u, c, p, 1)
  PROVE  Kids(u)[p][1] = c
<1>1. QED
  BY InsertedPlace DEF With

LEMMA AfterPlace ==
  ASSUME NEW t, Good(t), NEW u, Good(u), NEW c \in Node, NEW p \in Node, NEW n \in Node,
         NEW k \in 1..Len(Kids(t)[p]), Kids(t)[p][k] = n, Inserted(t, u, c, p, k + 1)
  PROVE  Place(Kids(u)[p], c) = Place(Kids(u)[p], n) + 1
<1> DEFINE s == Kids(t)[p]
           w == Kids(u)[p]
<1>1. With(Node, s, k + 1, c, w) /\ s \in Seq(Node)
  BY InsertedPlace
<1>2. \A i \in 1..Len(w) : Place(w, w[i]) = i
  BY PlaceIs
<1> HIDE DEF s, w
<1>3. k \in 1..Len(s) /\ s[k] = n
  BY DEF s
<1>4. k \in 1..Len(w) /\ k + 1 \in 1..Len(w) /\ k \in 1..((k + 1) - 1)
  BY <1>1, <1>3 DEF With
<1>5. w[k] = n /\ w[k + 1] = c
  BY <1>1, <1>3, <1>4 DEF With
<1>6. Place(w, n) = k /\ Place(w, c) = k + 1
  BY <1>2, <1>4, <1>5
<1>7. QED
  BY <1>6 DEF w

LEMMA BeforePlace ==
  ASSUME NEW t, Good(t), NEW u, Good(u), NEW c \in Node, NEW p \in Node, NEW n \in Node,
         NEW k \in 1..Len(Kids(t)[p]), Kids(t)[p][k] = n, Inserted(t, u, c, p, k)
  PROVE  Place(Kids(u)[p], c) = Place(Kids(u)[p], n) - 1
<1> DEFINE s == Kids(t)[p]
           w == Kids(u)[p]
<1>1. With(Node, s, k, c, w) /\ s \in Seq(Node)
  BY InsertedPlace
<1>2. \A i \in 1..Len(w) : Place(w, w[i]) = i
  BY PlaceIs
<1> HIDE DEF s, w
<1>3. k \in 1..Len(s) /\ s[k] = n
  BY DEF s
<1>4. k \in 1..Len(w) /\ k + 1 \in 1..Len(w) /\ k \in k..Len(s)
  BY <1>1, <1>3 DEF With
<1>5. w[k + 1] = n /\ w[k] = c
  BY <1>1, <1>3, <1>4 DEF With
<1>6. Place(w, n) = k + 1 /\ Place(w, c) = k
  BY <1>2, <1>4, <1>5
<1>7. QED
  BY <1>3, <1>6 DEF w
-----------------------------------------------------------------------------
\* What a function that is given a new node, or one to move, finds.
LEMMA NewFound ==
  ASSUME IInv, NEW p \in Node, NEW c \in Node, NEW ty, NEW t, NewChild(p, c, ty, t)
  PROVE  /\ p \in Alive /\ c \in Node \ Alive /\ c # p /\ tree.parent[c] = None
         /\ Good(tree) /\ tree' = t /\ \A n \in Node : tree.parent[n] = p => n # c
BY DomAssumption DEF IInv, NewChild, Alive, AliveAttached, AllowInsertChild

LEMMA MoveFound ==
  ASSUME IInv, NEW p \in Node, NEW m \in Node, NEW t, Moved(p, m, t)
  PROVE  LET r == RemoveLinks(tree, m) IN
         /\ p \in Alive /\ m \in Alive /\ m \in Node \ Document /\ m # p
         /\ tree.parent[m] # None /\ m \notin Above(tree, p)
         /\ Good(r) /\ r.parent[m] = None /\ tree' = t
         /\ \A n \in Node \ {m} : r.parent[n] = tree.parent[n]
<1> USE DomAssumption
<1>1. p \in Alive /\ m \in Alive /\ m \in Node \ Document /\ AllowMove(p, m) /\ tree' = t
  BY DEF IInv, Moved, AllowMove, AllowInsertChild, Alive
<1>2. m # p /\ m \notin Above(tree, p)
  BY <1>1, AboveSelf DEF AllowMove
<1>3. tree.parent[m] # None /\ tree.parent \in Pointers
  BY <1>1 DEF IInv, AliveAttached, Good, RingOf, Ring
<1>4. Good(RemoveLinks(tree, m)) /\ RemoveLinks(tree, m).parent = [tree.parent EXCEPT ![m] = None]
  BY <1>1, TakenOut
<1>5. QED
  BY <1>1, <1>2, <1>3, <1>4 DEF Pointers

\* What one step does: a step of the sequences, with the nodes in their places.
LEMMA AppendedRight ==
  ASSUME IInv, IInv', NEW p \in Node, NEW c \in Node,
         (\E ty \in Type : AppendChild(p, c, ty)) \/ AppendMove(p, c)
  PROVE  Forest!Next /\ Kids(tree')[p][Len(Kids(tree')[p])] = c
<1>1. CASE \E ty \in Type : AppendChild(p, c, ty)
  <2>1. PICK ty \in Type : NewChild(p, c, ty, AppendLinks(tree, c, p))
    BY <1>1 DEF AppendChild
  <2>2. /\ c \in Node \ Alive /\ c # p /\ tree.parent[c] = None
        /\ Good(tree) /\ tree' = AppendLinks(tree, c, p)
    BY <2>1, NewFound
  <2>3. Inserted(tree, tree', c, p, Len(Kids(tree)[p]) + 1)
    BY <2>2, AppendKids
  <2>4. QED
    BY <2>2, <2>3, AddImplements, AtEnd
<1>2. CASE AppendMove(p, c)
  <2> DEFINE r == RemoveLinks(tree, c)
  <2>1. /\ c \in Node \ Document /\ c # p /\ tree.parent[c] # None /\ c \notin Above(tree, p)
        /\ Good(r) /\ r.parent[c] = None /\ tree' = AppendLinks(r, c, p)
    BY <1>2, MoveFound DEF AppendMove
  <2> HIDE DEF r
  <2>2. Inserted(r, tree', c, p, Len(Kids(r)[p]) + 1)
    BY <2>1, AppendKids
  <2>3. Kids(tree')[p][Len(Kids(tree')[p])] = c
    BY <2>1, <2>2, AtEnd
  <2>4. Forest!Next
    BY <2>1, <2>2, MoveImplements DEF r
  <2>5. QED
    BY <2>3, <2>4
<1>3. QED
  BY <1>1, <1>2

LEMMA PrependedRight ==
  ASSUME IInv, IInv', NEW p \in Node, NEW c \in Node,
         (\E ty \in Type : PrependChild(p, c, ty)) \/ PrependMove(p, c)
  PROVE  Forest!Next /\ Kids(tree')[p][1] = c
<1>1. CASE \E ty \in Type : PrependChild(p, c, ty)
  <2>1. PICK ty \in Type : NewChild(p, c, ty, PrependLinks(tree, c, p))
    BY <1>1 DEF PrependChild
  <2>2. /\ c \in Node \ Alive /\ c # p /\ tree.parent[c] = None
        /\ Good(tree) /\ tree' = PrependLinks(tree, c, p)
    BY <2>1, NewFound
  <2>3. Inserted(tree, tree', c, p, 1)
    BY <2>2, PrependKids
  <2>4. QED
    BY <2>2, <2>3, AddImplements, AtFront
<1>2. CASE PrependMove(p, c)
  <2> DEFINE r == RemoveLinks(tree, c)
  <2>1. /\ c \in Node \ Document /\ c # p /\ tree.parent[c] # None /\ c \notin Above(tree, p)
        /\ Good(r) /\ r.parent[c] = None /\ tree' = PrependLinks(r, c, p)
    BY <1>2, MoveFound DEF PrependMove
  <2> HIDE DEF r
  <2>2. Inserted(r, tree', c, p, 1)
    BY <2>1, PrependKids
  <2>3. Kids(tree')[p][1] = c
    BY <2>1, <2>2, AtFront
  <2>4. Forest!Next
    BY <2>1, <2>2, MoveImplements DEF r
  <2>5. QED
    BY <2>3, <2>4
<1>3. QED
  BY <1>1, <1>2

LEMMA AfterRight ==
  ASSUME IInv, IInv', NEW p \in Node, NEW c \in Node, NEW n \in Node,
         (\E ty \in Type : InsertChildAfter(p, c, ty, n)) \/ InsertMoveAfter(p, c, n)
  PROVE  Forest!Next /\ Place(Kids(tree')[p], c) = Place(Kids(tree')[p], n) + 1
<1>0. Good(tree')
  BY DEF IInv
<1>1. CASE \E ty \in Type : InsertChildAfter(p, c, ty, n)
  <2>1. PICK ty \in Type : InsertChildAfter(p, c, ty, n)
    BY <1>1
  <2>2. tree.parent[n] = p /\ NewChild(p, c, ty, AfterLinks(tree, c, n))
    BY <2>1 DEF InsertChildAfter
  <2>3. /\ c \in Node \ Alive /\ c # p /\ tree.parent[c] = None
        /\ Good(tree) /\ tree' = AfterLinks(tree, c, n)
    BY <2>2, NewFound
  <2>4. PICK k \in 1..Len(Kids(tree)[p]) : Kids(tree)[p][k] = n /\ Inserted(tree, tree', c, p, k + 1)
    BY <2>2, <2>3, AfterKids
  <2>5. Forest!Next
    BY <2>3, <2>4, AddImplements
  <2>6. Place(Kids(tree')[p], c) = Place(Kids(tree')[p], n) + 1
    BY <1>0, <2>3, <2>4, AfterPlace
  <2>7. QED
    BY <2>5, <2>6
<1>2. CASE InsertMoveAfter(p, c, n)
  <2> DEFINE r == RemoveLinks(tree, c)
  <2>1. n # c /\ tree.parent[n] = p /\ Moved(p, c, AfterLinks(r, c, n))
    BY <1>2 DEF InsertMoveAfter
  <2>2. /\ c \in Node \ Document /\ c # p /\ tree.parent[c] # None /\ c \notin Above(tree, p)
        /\ Good(r) /\ r.parent[c] = None /\ tree' = AfterLinks(r, c, n)
        /\ r.parent[n] = p
    BY <2>1, MoveFound
  <2> HIDE DEF r
  <2>3. PICK k \in 1..Len(Kids(r)[p]) : Kids(r)[p][k] = n /\ Inserted(r, tree', c, p, k + 1)
    BY <2>2, AfterKids
  <2>4. Place(Kids(tree')[p], c) = Place(Kids(tree')[p], n) + 1
    BY <1>0, <2>2, <2>3, AfterPlace
  <2>5. Forest!Next
    BY <2>2, <2>3, MoveImplements DEF r
  <2>6. QED
    BY <2>4, <2>5
<1>3. QED
  BY <1>1, <1>2

LEMMA BeforeRight ==
  ASSUME IInv, IInv', NEW p \in Node, NEW c \in Node, NEW n \in Node,
         (\E ty \in Type : InsertChildBefore(p, c, ty, n)) \/ InsertMoveBefore(p, c, n)
  PROVE  Forest!Next /\ Place(Kids(tree')[p], c) = Place(Kids(tree')[p], n) - 1
<1>0. Good(tree')
  BY DEF IInv
<1>1. CASE \E ty \in Type : InsertChildBefore(p, c, ty, n)
  <2>1. PICK ty \in Type : InsertChildBefore(p, c, ty, n)
    BY <1>1
  <2>2. tree.parent[n] = p /\ NewChild(p, c, ty, BeforeLinks(tree, c, n))
    BY <2>1 DEF InsertChildBefore
  <2>3. /\ c \in Node \ Alive /\ Loose(tree, c, p)
        /\ Good(tree) /\ tree' = BeforeLinks(tree, c, n)
    BY <2>2, NewFound DEF Loose
  <2>4. PICK k \in 1..Len(Kids(tree)[p]) : Kids(tree)[p][k] = n /\ Inserted(tree, tree', c, p, k)
    BY <2>2, <2>3, BeforeKids
  <2>5. Forest!Next
    BY <2>3, <2>4, AddImplements
  <2>6. Place(Kids(tree')[p], c) = Place(Kids(tree')[p], n) - 1
    BY <1>0, <2>3, <2>4, BeforePlace
  <2>7. QED
    BY <2>5, <2>6
<1>2. CASE InsertMoveBefore(p, c, n)
  <2> DEFINE r == RemoveLinks(tree, c)
  <2>1. n # c /\ tree.parent[n] = p /\ Moved(p, c, BeforeLinks(r, c, n))
    BY <1>2 DEF InsertMoveBefore
  <2>2. /\ c \in Node \ Document /\ tree.parent[c] # None /\ c \notin Above(tree, p)
        /\ Good(r) /\ Loose(r, c, p) /\ tree' = BeforeLinks(r, c, n)
        /\ r.parent[n] = p
    BY <2>1, MoveFound DEF Loose
  <2> HIDE DEF r
  <2>3. PICK k \in 1..Len(Kids(r)[p]) : Kids(r)[p][k] = n /\ Inserted(r, tree', c, p, k)
    BY <2>2, BeforeKids
  <2>4. Place(Kids(tree')[p], c) = Place(Kids(tree')[p], n) - 1
    BY <1>0, <2>2, <2>3, BeforePlace
  <2>5. Forest!Next
    BY <2>2, <2>3, MoveImplements DEF r
  <2>6. QED
    BY <2>4, <2>5
<1>3. QED
  BY <1>1, <1>2

LEMMA StepPlacesRight ==
  ASSUME IInv, IInv'
  PROVE  PlaceRight
<1>1. ASSUME NEW p \in Node, NEW c \in Node
      PROVE  LET s == ChildrenOf(p)' IN
             /\ (\E ty \in Type : AppendChild(p, c, ty)) \/ AppendMove(p, c) => s[Len(s)] = c
             /\ (\E ty \in Type : PrependChild(p, c, ty)) \/ PrependMove(p, c) => s[1] = c
             /\ \A n \in Node \ {c} :
                  /\ (\E ty \in Type : InsertChildAfter(p, c, ty, n)) \/ InsertMoveAfter(p, c, n)
                       => Place(s, c) = Place(s, n) + 1
                  /\ (\E ty \in Type : InsertChildBefore(p, c, ty, n)) \/ InsertMoveBefore(p, c, n)
                       => Place(s, c) = Place(s, n) - 1
  <2> DEFINE s == ChildrenOf(p)'
  <2>1. s = Kids(tree')[p]
    BY KidsAre
  <2> HIDE DEF s
  <2>2. (\E ty \in Type : AppendChild(p, c, ty)) \/ AppendMove(p, c) => s[Len(s)] = c
    BY <2>1, AppendedRight
  <2>3. (\E ty \in Type : PrependChild(p, c, ty)) \/ PrependMove(p, c) => s[1] = c
    BY <2>1, PrependedRight
  <2>4. ASSUME NEW n \in Node
        PROVE  /\ (\E ty \in Type : InsertChildAfter(p, c, ty, n)) \/ InsertMoveAfter(p, c, n)
                    => Place(s, c) = Place(s, n) + 1
               /\ (\E ty \in Type : InsertChildBefore(p, c, ty, n)) \/ InsertMoveBefore(p, c, n)
                    => Place(s, c) = Place(s, n) - 1
    BY <2>1, AfterRight, BeforeRight
  <2>5. QED
    BY <2>2, <2>3, <2>4 DEF s
<1>2. QED
  BY <1>1 DEF PlaceRight

LEMMA StepImplements ==
  ASSUME IInv, IInv', [Next]_vars
  PROVE  [Forest!Next]_ChildSequences
<1>1. ASSUME NEW p \in Alive, NEW c \in Node, NEW ty \in Type,
             \/ AppendChild(p, c, ty)
             \/ PrependChild(p, c, ty)
             \/ \E n \in Alive : InsertChildAfter(p, c, ty, n) \/ InsertChildBefore(p, c, ty, n)
      PROVE  Forest!Next
  BY <1>1, AppendedRight, PrependedRight, AfterRight, BeforeRight DEF Alive
<1>2. ASSUME NEW p \in Alive, NEW m \in Alive,
             \/ AppendMove(p, m)
             \/ PrependMove(p, m)
             \/ \E n \in Alive : InsertMoveAfter(p, m, n) \/ InsertMoveBefore(p, m, n)
      PROVE  Forest!Next
  BY <1>2, AppendedRight, PrependedRight, AfterRight, BeforeRight DEF Alive
<1>3. CASE \E p, n \in Alive : RemoveChild(p, n)
  BY <1>3, DropImplements
<1>4. CASE \E d \in Document : Reset(d)
  BY <1>4, ClearImplements
<1>5. CASE \E d, e \in Document : MoveDocument(d, e)
  BY <1>5, TakeOverImplements
<1>6. CASE UNCHANGED vars
  <2>1. Kids(tree') = Kids(tree)
    BY <1>6 DEF vars
  <2>2. QED
    BY <2>1, KidsAre
<1>7. QED
  BY <1>1, <1>2, <1>3, <1>4, <1>5, <1>6 DEF Next

(***************************************************************************)
(* The functions that edit the links are edits of sequences of children,   *)
(* for any documents and nodes: each puts its node at the place it is      *)
(* named for, or takes one out, and leaves all other sequences alone.      *)
(***************************************************************************)
THEOREM ImplementsForestAlways == Spec => ImplementsForest
<1>1. IInv /\ IInv' /\ [Next]_vars
        => [tree' # tree => [Forest!Next]_ChildSequences /\ PlaceRight]_vars
  BY StepImplements, StepPlacesRight
<1>2. QED
  BY <1>1, InitImplements, IInvAlways, PTL DEF Spec, ImplementsForest
-----------------------------------------------------------------------------
(***************************************************************************)
(* Loading a document (XmlLoad).                                           *)
(***************************************************************************)
\* No buffer twice in one list; NoBlock stands for no buffer.
Distinct(s) == \A i, j \in DOMAIN s : i # j /\ s[i] = s[j] => s[i] = NoBlock

\* What document d holds is freed once.
HeldBy(d) ==
  /\ Distinct(extras[d])
  /\ held[d] # NoBlock => \A i \in DOMAIN extras[d] : extras[d][i] # held[d]
  /\ trees[d] \subseteq Buffers(d) \cup {User}

\* The buffers held are there, apart from those in flight, which the call
\* under way has in its hands; and there are no others.
HeldInv(flight) ==
  /\ memory \subseteq Blocks
  /\ held \in [Documents -> Blocks \cup {NoBlock}]
  /\ extras \in [Documents -> Seq(Blocks \cup {NoBlock})]
  /\ trees \in [Documents -> SUBSET (Blocks \cup {User})]
  /\ \A d \in Documents : HeldBy(d) /\ Buffers(d) \subseteq memory \ flight
  /\ \A d, e \in Documents : d # e => Buffers(d) \cap Buffers(e) = {}
  /\ flight \subseteq memory
  /\ \/ "convert own" \in Failing
     \/ \A b \in memory \ flight : \E d \in Documents : b \in Buffers(d)

LEMMA HeldMaps ==
  ASSUME NEW F, HeldInv(F)
  PROVE  /\ held \in [Documents -> Blocks \cup {NoBlock}]
         /\ extras \in [Documents -> Seq(Blocks \cup {NoBlock})]
         /\ trees \in [Documents -> SUBSET (Blocks \cup {User})]
BY DEF HeldInv

LEMMA HeldSays ==
  ASSUME NEW F, HeldInv(F)
  PROVE  /\ memory \subseteq Blocks /\ F \subseteq memory
         /\ \A d \in Documents : HeldBy(d)
         /\ \A d \in Documents : Buffers(d) \subseteq memory \ F
         /\ \A d, e \in Documents : d # e => Buffers(d) \cap Buffers(e) = {}
         /\ \/ "convert own" \in Failing
            \/ \A b \in memory \ F : \E d \in Documents : b \in Buffers(d)
BY DEF HeldInv

\* A document that was reset.
Bare(d) == held[d] = NoBlock /\ extras[d] = <<>> /\ trees[d] = {}

LEMMA BuffersAre ==
  ASSUME NEW d
  PROVE  \A b : b \in Buffers(d) <=>
                b # NoBlock /\ (b = held[d] \/ \E i \in DOMAIN extras[d] : b = extras[d][i])
BY DEF Buffers, ToSet

LEMMA FreshIs ==
  ASSUME NEW taken, Room(taken)
  PROVE  Fresh(taken) \in Blocks /\ Fresh(taken) \notin taken
<1>1. \E b : b \in Blocks \ taken
  BY DEF Room
<1>2. QED
  BY <1>1, Zenon DEF Fresh

\* A loading function begins: the document is reset, and memory is allocated.
LEMMA ResetKeeps ==
  ASSUME LoadAssumption, HeldInv({}), NEW d \in Documents, ResetBuffers(d),
         NEW G, G \subseteq Blocks, G \cap (memory \ Buffers(d)) = {},
         memory' = (memory \ Buffers(d)) \cup G
  PROVE  HeldInv(G)' /\ Bare(d)'
<1>1. /\ held' = [held EXCEPT ![d] = NoBlock]
      /\ extras' = [extras EXCEPT ![d] = <<>>]
      /\ trees' = [trees EXCEPT ![d] = {}]
  BY DEF ResetBuffers
<1>2. /\ held'[d] = NoBlock /\ extras'[d] = <<>> /\ trees'[d] = {}
      /\ \A e \in Documents : e # d => held'[e] = held[e] /\ extras'[e] = extras[e] /\ trees'[e] = trees[e]
  BY <1>1, HeldMaps
<1>3. /\ Buffers(d)' = {}
      /\ \A e \in Documents : e # d => Buffers(e)' = Buffers(e)
  <2>1. DOMAIN <<>> = {}
    OBVIOUS
  <2>2. QED
    BY <1>2, <2>1 DEF Buffers, ToSet
<1>4. /\ held' \in [Documents -> Blocks \cup {NoBlock}]
      /\ extras' \in [Documents -> Seq(Blocks \cup {NoBlock})]
      /\ trees' \in [Documents -> SUBSET (Blocks \cup {User})]
  BY <1>1, HeldMaps
<1>5. \A e \in Documents : HeldBy(e)'
  <2>1. HeldBy(d)'
    <3>1. <<>> \in Seq(Blocks \cup {NoBlock}) /\ DOMAIN <<>> = {}
      OBVIOUS
    <3>2. QED
      BY <1>2, <1>3, <3>1 DEF HeldBy, Distinct
  <2>2. ASSUME NEW e \in Documents, e # d PROVE HeldBy(e)'
    <3>1. HeldBy(e)
      BY HeldSays
    <3>2. held'[e] = held[e] /\ extras'[e] = extras[e] /\ trees'[e] = trees[e]
      BY <1>2, <2>2
    <3>3. Buffers(e)' = Buffers(e)
      BY <1>3, <2>2
    <3>4. QED
      BY <3>1, <3>2, <3>3 DEF HeldBy, Distinct
  <2>3. QED
    BY <2>1, <2>2
<1>6. \A e, f \in Documents : e # f => Buffers(e)' \cap Buffers(f)' = {}
  BY <1>3 DEF HeldInv
<1>7. ASSUME NEW e \in Documents
      PROVE  Buffers(e)' \subseteq memory' \ G
  <2>1. CASE e = d
    BY <1>3, <2>1
  <2>2. CASE e # d
    <3>1. /\ Buffers(e) \subseteq memory
          /\ Buffers(e) \cap Buffers(d) = {}
      BY <2>2, HeldSays
    <3>2. Buffers(e)' = Buffers(e)
      BY <1>3, <2>2
    <3>3. QED
      BY <3>1, <3>2
  <2>3. QED
    BY <2>1, <2>2
<1>8. \/ "convert own" \in Failing
      \/ \A x \in memory' \ G : \E e \in Documents : x \in Buffers(e)'
  <2>1. SUFFICES ASSUME "convert own" \notin Failing, NEW x \in memory', x \notin G
                 PROVE  \E e \in Documents : x \in Buffers(e)'
    OBVIOUS
  <2>2. x \in memory /\ x \notin Buffers(d)
    BY <2>1
  <2>3. PICK e \in Documents : x \in Buffers(e)
    BY <2>1, <2>2, HeldSays
  <2>4. QED
    BY <1>3, <2>2, <2>3
<1>9. memory' \subseteq Blocks /\ G \subseteq memory'
  BY DEF HeldInv
<1>10. QED
  BY <1>2, <1>4, <1>5, <1>6, <1>7, <1>8, <1>9 DEF HeldInv, Bare

\* A step that only allocates, or frees what the call has in its hands.
LEMMA MemoryKeeps ==
  ASSUME NEW F, NEW G, HeldInv(F), UNCHANGED <<held, extras, trees>>,
         memory' \subseteq Blocks, memory \ F \subseteq memory', G \subseteq memory',
         G \cap (memory \ F) = {},
         "convert own" \in Failing \/ memory' \subseteq (memory \ F) \cup G
  PROVE  HeldInv(G)'
<1>1. held' = held /\ extras' = extras /\ trees' = trees
  OBVIOUS
<1>2. \A d : Buffers(d)' = Buffers(d) /\ (HeldBy(d)' <=> HeldBy(d))
  BY <1>1 DEF Buffers, HeldBy
<1>3. ASSUME NEW d \in Documents
      PROVE  HeldBy(d)' /\ Buffers(d)' \subseteq memory' \ G
  <2>1. HeldBy(d) /\ Buffers(d) \subseteq memory \ F
    BY HeldSays
  <2>2. QED
    BY <1>2, <2>1
<1>4. \/ "convert own" \in Failing
      \/ \A b \in memory' \ G : \E d \in Documents : b \in Buffers(d)'
  <2>1. \/ "convert own" \in Failing
        \/ \A b \in memory \ F : \E d \in Documents : b \in Buffers(d)
    BY HeldSays
  <2>2. QED
    BY <1>2, <2>1
<1>5. QED
  BY <1>1, <1>2, <1>3, <1>4 DEF HeldInv

LEMMA SetFirst ==
  ASSUME NEW S, NEW s \in Seq(S), s # <<>>, NEW b \in S
  PROVE  1 \in DOMAIN s /\ [s EXCEPT ![1] = b] \in Seq(S)
<1>1. Len(s) \in Nat \ {0}
  BY EmptySeq
<1>2. 1 \in 1..Len(s)
  BY <1>1
<1>3. QED
  BY <1>2, ExceptSeq

\* The buffer the text is in goes to the document.
LEMMA HoldKeeps ==
  ASSUME LoadAssumption, NEW F, HeldInv(F), NEW b \in Blocks,
         \A d \in Documents : b \notin Buffers(d),
         b \in memory', memory' \subseteq Blocks, memory \ F \subseteq memory',
         "convert own" \in Failing \/ memory' \subseteq (memory \ F) \cup {b},
         call.doc \in Documents,
         IF call.append THEN extras[call.doc] # <<>> /\ extras[call.doc][1] = NoBlock
                        ELSE held[call.doc] = NoBlock,
         Hold(b), Parsed(b)
  PROVE  HeldInv({})'
<1> DEFINE d == call.doc
<1>0. PICK c \in Documents : c = d
  OBVIOUS
<1>1. /\ IF call.append THEN extras' = [extras EXCEPT ![c][1] = b] /\ held' = held
                        ELSE held' = [held EXCEPT ![c] = b] /\ extras' = extras
      /\ trees' = [trees EXCEPT ![c] = @ \cup {b}]
  BY <1>0 DEF Hold, Parsed
<1>2. /\ held' \in [Documents -> Blocks \cup {NoBlock}]
      /\ extras' \in [Documents -> Seq(Blocks \cup {NoBlock})]
      /\ trees' \in [Documents -> SUBSET (Blocks \cup {User})]
  <2>1. /\ held \in [Documents -> Blocks \cup {NoBlock}]
        /\ extras \in [Documents -> Seq(Blocks \cup {NoBlock})]
        /\ trees \in [Documents -> SUBSET (Blocks \cup {User})]
    BY HeldMaps
  <2>2. call.append => [extras[c] EXCEPT ![1] = b] \in Seq(Blocks \cup {NoBlock})
    <3>1. SUFFICES ASSUME call.append PROVE [extras[c] EXCEPT ![1] = b] \in Seq(Blocks \cup {NoBlock})
      OBVIOUS
    <3>2. PICK s \in Seq(Blocks \cup {NoBlock}) : s = extras[c]
      BY <2>1
    <3>3. s # <<>>
      BY <1>0, <3>1, <3>2
    <3>4. QED
      BY <3>2, <3>3, SetFirst
  <2>3. trees[c] \cup {b} \in SUBSET (Blocks \cup {User})
    BY <2>1
  <2>4. QED
    BY <1>1, <2>1, <2>2, <2>3
<1>3. /\ \A e \in Documents : e # c => held'[e] = held[e] /\ extras'[e] = extras[e] /\ trees'[e] = trees[e]
      /\ trees'[c] = trees[c] \cup {b}
      /\ IF call.append THEN held'[c] = held[c] /\ extras'[c] = [extras[c] EXCEPT ![1] = b]
                        ELSE held'[c] = b /\ extras'[c] = extras[c]
  BY <1>1, HeldMaps
<1>4. /\ HeldBy(c) /\ b \notin Buffers(c) /\ b # NoBlock
      /\ IF call.append THEN extras[c] # <<>> /\ extras[c][1] = NoBlock ELSE held[c] = NoBlock
  BY <1>0 DEF HeldInv, LoadAssumption
<1>5. HeldBy(c)' /\ Buffers(c)' = Buffers(c) \cup {b}
  <2>1. CASE call.append
    <3>1. PICK s \in Seq(Blocks \cup {NoBlock}) : s = extras[c]
      BY HeldMaps
    <3>2. s # <<>> /\ s[1] = NoBlock
      BY <1>4, <2>1, <3>1
    <3>3. 1 \in DOMAIN s /\ [s EXCEPT ![1] = b] \in Seq(Blocks \cup {NoBlock})
      BY <3>1, <3>2, SetFirst
    <3>4. PICK t \in Seq(Blocks \cup {NoBlock}) : t = [s EXCEPT ![1] = b]
      BY <3>3
    <3>5. /\ DOMAIN t = DOMAIN s /\ t[1] = b
          /\ \A i \in DOMAIN s : i # 1 => t[i] = s[i]
      BY <3>3, <3>4
    <3>6. extras'[c] = t /\ held'[c] = held[c]
      BY <1>3, <2>1, <3>1, <3>4
    <3>7. \A i \in DOMAIN s : s[i] # b
      BY <1>4, <3>1, BuffersAre
    <3>8. Distinct(t)
      <4>1. Distinct(s)
        BY <1>4, <3>1 DEF HeldBy
      <4>2. QED
        BY <3>5, <3>7, <4>1 DEF Distinct
    <3>9. held[c] # b
      BY <1>4, BuffersAre
    <3>10. Buffers(c)' = Buffers(c) \cup {b}
      <4>1. \A x : x \in Buffers(c)' <=> x # NoBlock /\ (x = held[c] \/ \E i \in DOMAIN t : x = t[i])
        BY <3>6 DEF Buffers, ToSet
      <4>2. \A x : x \in Buffers(c) <=> x # NoBlock /\ (x = held[c] \/ \E i \in DOMAIN s : x = s[i])
        BY <3>1 DEF Buffers, ToSet
      <4>3. \A x : (\E i \in DOMAIN t : x = t[i]) <=> x = b \/ (\E i \in DOMAIN s : i # 1 /\ x = s[i])
        BY <3>3, <3>5
      <4>4. \A x : x # NoBlock => ((\E i \in DOMAIN s : x = s[i]) <=> (\E i \in DOMAIN s : i # 1 /\ x = s[i]))
        BY <3>2
      <4>5. QED
        <5>1. \A x : x \in Buffers(c)' <=> x \in Buffers(c) \/ x = b
          <6> DEFINE InS(x) == \E i \in DOMAIN s : x = s[i]
                     InT(x) == \E i \in DOMAIN t : x = t[i]
                     Later(x) == \E i \in DOMAIN s : i # 1 /\ x = s[i]
          <6>1. ASSUME NEW x
                PROVE  /\ x \in Buffers(c)' <=> x # NoBlock /\ (x = held[c] \/ InT(x))
                       /\ x \in Buffers(c) <=> x # NoBlock /\ (x = held[c] \/ InS(x))
                       /\ InT(x) <=> x = b \/ Later(x)
                       /\ x # NoBlock => (InS(x) <=> Later(x))
            BY <4>1, <4>2, <4>3, <4>4, Zenon
          <6> HIDE DEF InS, InT, Later
          <6>2. QED
            BY <1>4, <6>1
        <5>2. QED
          BY <5>1
    <3>11. held'[c] # NoBlock => \A i \in DOMAIN t : t[i] # held'[c]
      <4>1. held[c] # NoBlock => \A i \in DOMAIN s : s[i] # held[c]
        BY <1>4, <3>1 DEF HeldBy
      <4>2. QED
        BY <3>5, <3>6, <3>9, <4>1
    <3>12. trees'[c] \subseteq Buffers(c)' \cup {User}
      BY <1>3, <1>4, <3>10 DEF HeldBy
    <3>13. held'[c] \in Blocks \cup {NoBlock}
      BY <3>6, HeldMaps
    <3>14. QED
      BY <3>4, <3>6, <3>8, <3>10, <3>11, <3>12, <3>13 DEF HeldBy
  <2>2. CASE ~call.append
    <3>1. held'[c] = b /\ extras'[c] = extras[c] /\ held[c] = NoBlock
      BY <1>3, <1>4, <2>2
    <3>2. Buffers(c)' = Buffers(c) \cup {b}
      BY <1>4, <3>1 DEF Buffers
    <3>3. \A i \in DOMAIN extras[c] : extras[c][i] # b
      BY <1>4, BuffersAre
    <3>4. QED
      BY <1>3, <1>4, <3>1, <3>2, <3>3 DEF HeldBy
  <2>3. QED
    BY <2>1, <2>2
<1>6. ASSUME NEW e \in Documents, e # c
      PROVE  HeldBy(e)' /\ Buffers(e)' = Buffers(e)
  <2>1. held'[e] = held[e] /\ extras'[e] = extras[e] /\ trees'[e] = trees[e]
    BY <1>3, <1>6
  <2>2. Buffers(e)' = Buffers(e)
    BY <2>1 DEF Buffers
  <2>3. HeldBy(e)
    BY HeldSays
  <2>4. QED
    BY <2>1, <2>2, <2>3 DEF HeldBy, Distinct
<1>7. ASSUME NEW e \in Documents, NEW f \in Documents, e # f
      PROVE  Buffers(e)' \cap Buffers(f)' = {}
  <2>1. /\ Buffers(e) \cap Buffers(f) = {}
        /\ b \notin Buffers(e) /\ b \notin Buffers(f)
    BY <1>7, HeldSays
  <2>2. \A g \in {e, f} : \/ g # c /\ Buffers(g)' = Buffers(g)
                          \/ g = c /\ Buffers(g)' = Buffers(g) \cup {b}
    BY <1>5, <1>6
  <2>3. QED
    BY <1>7, <2>1, <2>2
<1>8. ASSUME NEW e \in Documents
      PROVE  HeldBy(e)' /\ Buffers(e)' \subseteq memory' \ {}
  <2>1. Buffers(e) \subseteq memory \ F
    BY HeldSays
  <2>2. QED
    BY <1>5, <1>6, <2>1
<1>9. \/ "convert own" \in Failing
      \/ \A x \in memory' : \E e \in Documents : x \in Buffers(e)'
  <2>1. SUFFICES ASSUME "convert own" \notin Failing, NEW x \in memory'
                 PROVE  \E e \in Documents : x \in Buffers(e)'
    OBVIOUS
  <2>2. CASE x = b
    BY <1>5, <2>2
  <2>3. CASE x # b
    <3>1. x \in memory /\ x \notin F
      BY <2>1, <2>3
    <3>2. PICK e \in Documents : x \in Buffers(e)
      BY <2>1, <3>1, HeldSays
    <3>3. QED
      BY <1>5, <1>6, <3>2
  <2>4. QED
    BY <2>2, <2>3
<1>10. QED
  BY <1>2, <1>7, <1>8, <1>9 DEF HeldInv

ChunkRead == [block : Blocks, data : Seq(Byte)]

ChunksCall ==
  [stage : {"chunks"}, doc : Documents, source : Seq(Byte), encoding : Encoding,
   rest : Seq(Byte), chunks : Seq(ChunkRead), eof : BOOLEAN]

LoadCall ==
  [stage : {"load"}, doc : Documents, contents : Blocks \cup {User}, encoding : Encoding,
   mutable : BOOLEAN, own : BOOLEAN, append : BOOLEAN, source : Seq(Byte), data : Seq(Byte), room : Nat]

\* What the call under way has read, and what it has in its hands.
Gathered == FlattenSeq([k \in DOMAIN call.chunks |-> call.chunks[k].data])

Flight ==
  {b \in Blocks : \/ call.stage = "chunks" /\ \E k \in DOMAIN call.chunks : b = call.chunks[k].block
                  \/ call.stage = "load" /\ call.own /\ b = call.contents}

ChunksInv ==
  /\ call \in ChunksCall
  /\ Bare(call.doc)
  /\ Gathered \o call.rest = call.source
  /\ call.eof => call.rest = <<>>

ReadyInv ==
  /\ call \in LoadCall
  /\ IF call.append THEN ~call.own /\ extras[call.doc] # <<>> /\ extras[call.doc][1] = NoBlock
                    ELSE Bare(call.doc)
  /\ IF call.own THEN call.contents \in Blocks ELSE call.contents = User
  /\ LoadedWhole

LoadInv ==
  /\ call = Idle \/ ChunksInv \/ ReadyInv
  /\ \E F : F = Flight /\ HeldInv(F)

LEMMA CallShapes ==
  /\ call = Idle => call.stage = "idle" /\ Flight = {}
  /\ ChunksInv => call.stage = "chunks"
  /\ ReadyInv => call.stage = "load"
BY DEF Idle, Flight, ChunksInv, ChunksCall, ReadyInv, LoadCall

\* What the loading functions hand to load_buffer_impl().
LEMMA LoadingIs ==
  ASSUME NEW d \in Documents, NEW b \in Blocks \cup {User}, NEW e \in Encoding,
         NEW mutable \in BOOLEAN, NEW own \in BOOLEAN
  PROVE  Loading(d, b, e, mutable, own) \in LoadCall
<1>1. <<>> \in Seq(Byte)
  OBVIOUS
<1>2. QED
  BY <1>1 DEF Loading, LoadCall

LEMMA LoadInvInit ==
  ASSUME LoadAssumption, LoadInit
  PROVE  LoadInv
<1>1. /\ memory = {} /\ held = [d \in Documents |-> NoBlock] /\ extras = [d \in Documents |-> <<>>]
      /\ trees = [d \in Documents |-> {}] /\ call = Idle
  BY DEF LoadInit
<1>2. <<>> \in Seq(Blocks \cup {NoBlock}) /\ DOMAIN <<>> = {}
  OBVIOUS
<1>3. \A d \in Documents : Buffers(d) = {} /\ HeldBy(d)
  BY <1>1, <1>2 DEF Buffers, ToSet, HeldBy, Distinct
<1>4. HeldInv({})
  BY <1>1, <1>2, <1>3 DEF HeldInv
<1>5. QED
  BY <1>1, <1>4, CallShapes DEF LoadInv

\* A call that begins with nothing or one block in its hands.
LEMMA Begins ==
  ASSUME LoadAssumption, LoadInv, call = Idle, NEW d \in Documents, ResetBuffers(d),
         NEW G, G \subseteq Blocks, G \cap (memory \ Buffers(d)) = {},
         memory' = (memory \ Buffers(d)) \cup G, Flight' = G,
         Bare(d)' => call' = Idle \/ ChunksInv' \/ ReadyInv'
  PROVE  LoadInv'
<1>1. HeldInv({})
  BY CallShapes DEF LoadInv
<1>2. HeldInv(G)' /\ Bare(d)'
  BY <1>1, ResetKeeps
<1>3. QED
  BY <1>2 DEF LoadInv

\* What a call to load_buffer_impl() must bring.
Ready(c) ==
  /\ c \in LoadCall
  /\ IF c.own THEN c.contents \in Blocks ELSE c.contents = User
  /\ c.room > 0 => Len(c.data) <= c.room /\ SubSeq(c.data, 1, Len(c.source)) = c.source

Hands(c) == IF c.own THEN {c.contents} ELSE {}

LEMMA ReadyThen ==
  ASSUME NEW c, Ready(c), ~c.append, call' = c, Bare(c.doc)'
  PROVE  ReadyInv' /\ Flight' = Hands(c)
<1>1. c \in LoadCall /\ c.stage = "load" /\ c.own \in BOOLEAN
  BY DEF Ready, LoadCall
<1>2. call'.stage = "load" /\ call'.own = c.own /\ call'.contents = c.contents
  BY <1>1
<1>3. Flight' = Hands(c)
  BY <1>1, <1>2 DEF Flight, Hands, Ready
<1>4. LoadedWhole'
  BY DEF Ready, LoadedWhole
<1>5. QED
  BY <1>1, <1>3, <1>4 DEF Ready, ReadyInv

\* A loading function that comes to load_buffer_impl() at once.
LEMMA BeginsLoad ==
  ASSUME LoadAssumption, LoadInv, call = Idle, NEW d \in Documents, ResetBuffers(d),
         NEW c, Ready(c), ~c.append, c.doc = d, call' = c,
         Hands(c) \cap (memory \ Buffers(d)) = {},
         memory' = (memory \ Buffers(d)) \cup Hands(c)
  PROVE  LoadInv'
<1>1. Bare(d)' => ReadyInv'
  <2>1. SUFFICES ASSUME Bare(d)' PROVE ReadyInv'
    OBVIOUS
  <2>2. Bare(c.doc)'
    BY <2>1 DEF Bare
  <2>3. QED
    BY <2>2, ReadyThen
<1>2. Flight' = Hands(c) /\ Hands(c) \subseteq Blocks
  <2>1. c.stage = "load" /\ c.own \in BOOLEAN
    BY DEF Ready, LoadCall
  <2>2. QED
    BY <2>1 DEF Flight, Hands, Ready
<1>3. QED
  BY <1>1, <1>2, Begins

\* One that fails.
LEMMA BeginsNone ==
  ASSUME LoadAssumption, LoadInv, call = Idle, NEW d \in Documents, ResetBuffers(d),
         call' = Idle, memory' = memory \ Buffers(d)
  PROVE  LoadInv'
<1>1. Flight' = {}
  BY DEF Flight, Idle
<1>2. memory' = (memory \ Buffers(d)) \cup {} /\ {} \cap (memory \ Buffers(d)) = {} /\ {} \subseteq Blocks
  OBVIOUS
<1>3. QED
  BY <1>1, <1>2, Begins

\* What comes with a block of its own.
LEMMA LoadingAllReady ==
  ASSUME NEW d \in Documents, NEW b \in Blocks, NEW e \in Encoding, NEW s \in Seq(Byte),
         NEW c, c = LoadingAll(d, b, e, s, s)
  PROVE  Ready(c) /\ ~c.append /\ c.doc = d /\ Hands(c) = {b}
<1> DEFINE t == Terminated(s, e)
<1>1. t \in Seq(Byte) /\ Len(t) <= Len(s) + 1 /\ SubSeq(t, 1, Len(s)) = s
  <2>1. 0 \in Byte
    BY DEF Byte
  <2>2. Append(s, 0) \in Seq(Byte) /\ Len(Append(s, 0)) = Len(s) + 1
    BY <2>1
  <2>3. SubSeq(Append(s, 0), 1, Len(s)) = s /\ SubSeq(s, 1, Len(s)) = s
    OBVIOUS
  <2>4. t = Append(s, 0) \/ t = s
    BY DEF Terminated, Nul
  <2>5. QED
    BY <2>2, <2>3, <2>4
<1> HIDE DEF t
<1>2. PICK l \in LoadCall : l = Loading(d, b, e, TRUE, TRUE)
  <2>1. b \in Blocks \cup {User} /\ TRUE \in BOOLEAN
    OBVIOUS
  <2>2. Loading(d, b, e, TRUE, TRUE) \in LoadCall
    BY <2>1, LoadingIs
  <2>3. QED
    BY <2>2
<1>3. l.stage = "load" /\ l.doc = d /\ l.contents = b /\ l.own = TRUE /\ l.append = FALSE
  BY <1>2 DEF Loading
<1>4. c = [l EXCEPT !.source = s, !.data = t, !.room = Len(s) + 1]
  BY <1>2 DEF LoadingAll, t
<1>5. c.source = s /\ c.data = t /\ c.room = Len(s) + 1
  BY <1>2, <1>4 DEF LoadCall
<1>6. c \in LoadCall
  <2>1. Len(s) + 1 \in Nat
    OBVIOUS
  <2>2. PICK n \in Nat : n = Len(s) + 1
    BY <2>1
  <2>3. c = [l EXCEPT !.source = s, !.data = t, !.room = n]
    BY <1>4, <2>2
  <2>4. QED
    BY <1>1, <2>3 DEF LoadCall
<1>7. c.stage = "load" /\ c.doc = d /\ c.contents = b /\ c.own = TRUE /\ c.append = FALSE
  BY <1>2, <1>3, <1>4 DEF LoadCall
<1>8. QED
  BY <1>1, <1>5, <1>6, <1>7 DEF Ready, Hands

\* A loading function whose block is allocated after the reset.
LEMMA BeginsAll ==
  ASSUME LoadAssumption, LoadInv, call = Idle, NEW d \in Documents, ResetBuffers(d),
         NEW e \in Encoding, NEW s \in Seq(Byte), NEW kept, kept = memory \ Buffers(d),
         Room(kept), memory' = kept \cup {Fresh(kept)},
         call' = LoadingAll(d, Fresh(kept), e, s, s)
  PROVE  LoadInv'
<1>1. PICK b \in Blocks : b = Fresh(kept) /\ b \notin kept
  BY FreshIs
<1>2. PICK c : c = LoadingAll(d, b, e, s, s)
  OBVIOUS
<1>3. Ready(c) /\ ~c.append /\ c.doc = d /\ Hands(c) = {b}
  BY <1>2, LoadingAllReady
<1>4. call' = c /\ memory' = (memory \ Buffers(d)) \cup Hands(c) /\ Hands(c) \cap (memory \ Buffers(d)) = {}
  BY <1>1, <1>2, <1>3
<1>5. QED
  BY <1>3, <1>4, BeginsLoad

LEMMA LoadFileKeeps ==
  ASSUME LoadAssumption, LoadInv, NEW d \in Documents, NEW s \in Seq(Byte),
         NEW e \in Encoding, LoadFile(d, s, e)
  PROVE  LoadInv'
<1>1. call = Idle /\ ResetBuffers(d)
  BY DEF LoadFile
<1>2. PICK kept : kept = memory \ Buffers(d)
  OBVIOUS
<1>3. \/ memory' = kept /\ call' = call
      \/ /\ Room(kept) /\ memory' = kept \cup {Fresh(kept)}
         /\ call' = LoadingAll(d, Fresh(kept), e, s, s)
  BY <1>2 DEF LoadFile
<1>4. CASE memory' = kept /\ call' = call
  BY <1>1, <1>2, <1>4, BeginsNone
<1>5. QED
  BY <1>1, <1>2, <1>3, <1>4, BeginsAll

LEMMA LoadStreamSeekKeeps ==
  ASSUME LoadAssumption, LoadInv, NEW d \in Documents, NEW s \in Seq(Byte),
         NEW e \in Encoding, LoadStreamSeek(d, s, e)
  PROVE  LoadInv'
<1>1. call = Idle /\ ResetBuffers(d)
  BY DEF LoadStreamSeek
<1>2. PICK kept : kept = memory \ Buffers(d)
  OBVIOUS
<1>3. \/ memory' = kept /\ call' = call
      \/ /\ Room(kept) /\ memory' = kept \cup {Fresh(kept)}
         /\ \E n \in 0..Len(s) :
              call' = LoadingAll(d, Fresh(kept), e, SubSeq(s, 1, n), SubSeq(s, 1, n))
  BY <1>2 DEF LoadStreamSeek
<1>4. CASE memory' = kept /\ call' = call
  BY <1>1, <1>2, <1>4, BeginsNone
<1>5. ASSUME Room(kept), memory' = kept \cup {Fresh(kept)}, NEW n \in 0..Len(s),
             call' = LoadingAll(d, Fresh(kept), e, SubSeq(s, 1, n), SubSeq(s, 1, n))
      PROVE  LoadInv'
  <2>1. PICK r \in Seq(Byte) : r = SubSeq(s, 1, n)
    <3>1. SubSeq(s, 1, n) \in Seq(Byte)
      <4>1. \A i \in 1..n : s[i] \in Byte
        OBVIOUS
      <4>2. QED
        BY <4>1
    <3>2. QED
      BY <3>1
  <2>2. call' = LoadingAll(d, Fresh(kept), e, r, r)
    BY <1>5, <2>1
  <2>3. QED
    BY <1>1, <1>2, <1>5, <2>2, BeginsAll
<1>6. QED
  BY <1>3, <1>4, <1>5

LEMMA LoadStreamKeeps ==
  ASSUME LoadAssumption, LoadInv, NEW d \in Documents, NEW s \in Seq(Byte),
         NEW e \in Encoding, LoadStream(d, s, e)
  PROVE  LoadInv'
<1>1. /\ call = Idle /\ ResetBuffers(d) /\ memory' = memory \ Buffers(d)
      /\ call' = [stage |-> "chunks", doc |-> d, source |-> s, encoding |-> e, rest |-> s,
                  chunks |-> <<>>, eof |-> FALSE]
  BY DEF LoadStream
<1>2. DOMAIN <<>> = {} /\ <<>> \in Seq(ChunkRead) /\ <<>> \o s = s
  OBVIOUS
<1>3. call' \in ChunksCall /\ call'.chunks = <<>> /\ call'.rest = s /\ call'.source = s /\ ~call'.eof /\ call'.doc = d
      /\ call'.stage = "chunks"
  BY <1>1, <1>2 DEF ChunksCall
<1>4. Flight' = {}
  BY <1>2, <1>3 DEF Flight
<1>5. Gathered' = <<>>
  <2>1. [k \in DOMAIN <<>> |-> <<>>[k].data] = <<>>
    OBVIOUS
  <2>2. Gathered' = FlattenSeq([k \in DOMAIN call'.chunks |-> call'.chunks[k].data])
    BY DEF Gathered
  <2>3. Gathered' = FlattenSeq(<<>>)
    BY <1>3, <2>1, <2>2, Zenon
  <2>4. FlattenSeq(<<>>) = <<>>
    BY EmptySeq, FlattenAppend
  <2>5. QED
    BY <2>3, <2>4
<1>6. Bare(d)' => ChunksInv'
  <2>1. SUFFICES ASSUME Bare(d)' PROVE ChunksInv'
    OBVIOUS
  <2>2. Bare(call.doc)'
    BY <1>3, <2>1 DEF Bare
  <2>3. QED
    BY <1>2, <1>3, <1>5, <2>2 DEF ChunksInv
<1>7. memory' = (memory \ Buffers(d)) \cup {} /\ {} \cap (memory \ Buffers(d)) = {} /\ {} \subseteq Blocks
  BY <1>1
<1>8. QED
  BY <1>1, <1>4, <1>6, <1>7, Begins

LEMMA LoadBufferKeeps ==
  ASSUME LoadAssumption, LoadInv, NEW d \in Documents, NEW e \in Encoding,
         NEW inplace \in BOOLEAN, LoadBuffer(d, e, inplace)
  PROVE  LoadInv'
<1>1. /\ call = Idle /\ ResetBuffers(d) /\ memory' = memory \ Buffers(d)
      /\ call' = Loading(d, User, e, inplace, FALSE)
  BY DEF LoadBuffer
<1>2. PICK c : c = Loading(d, User, e, inplace, FALSE)
  OBVIOUS
<1>3. User \in Blocks \cup {User} /\ FALSE \in BOOLEAN
  OBVIOUS
<1>4. c \in LoadCall /\ c.doc = d /\ c.contents = User /\ c.own = FALSE /\ c.append = FALSE /\ c.room = 0
  <2>1. c.doc = d /\ c.contents = User /\ c.own = FALSE /\ c.append = FALSE /\ c.room = 0
    BY <1>2 DEF Loading
  <2>2. Loading(d, User, e, inplace, FALSE) \in LoadCall
    BY <1>3, LoadingIs
  <2>3. QED
    BY <1>2, <2>1, <2>2
<1>5. Ready(c) /\ ~c.append /\ Hands(c) = {}
  BY <1>4 DEF Ready, Hands
<1>6. call' = c /\ memory' = (memory \ Buffers(d)) \cup Hands(c) /\ Hands(c) \cap (memory \ Buffers(d)) = {}
  BY <1>1, <1>2, <1>5
<1>7. QED
  BY <1>1, <1>4, <1>5, <1>6, BeginsLoad

LEMMA LoadBufferOwnKeeps ==
  ASSUME LoadAssumption, LoadInv, NEW d \in Documents, NEW e \in Encoding,
         LoadBufferOwn(d, e)
  PROVE  LoadInv'
<1>1. call = Idle /\ ResetBuffers(d)
  BY DEF LoadBufferOwn
<1>2. PICK kept : kept = memory \ Buffers(d)
  OBVIOUS
<1>3. /\ Room(kept) /\ memory' = kept \cup {Fresh(kept)}
      /\ call' = Loading(d, Fresh(kept), e, TRUE, TRUE)
  BY <1>2 DEF LoadBufferOwn
<1>4. PICK b \in Blocks : b = Fresh(kept) /\ b \notin kept
  BY <1>3, FreshIs
<1>5. PICK c : c = Loading(d, b, e, TRUE, TRUE)
  OBVIOUS
<1>6. b \in Blocks \cup {User} /\ TRUE \in BOOLEAN
  OBVIOUS
<1>7. c \in LoadCall /\ c.doc = d /\ c.contents = b /\ c.own = TRUE /\ c.append = FALSE /\ c.room = 0
  <2>1. c.doc = d /\ c.contents = b /\ c.own = TRUE /\ c.append = FALSE /\ c.room = 0
    BY <1>5 DEF Loading
  <2>2. Loading(d, b, e, TRUE, TRUE) \in LoadCall
    BY <1>6, LoadingIs
  <2>3. QED
    BY <1>5, <2>1, <2>2
<1>8. Ready(c) /\ ~c.append /\ Hands(c) = {b}
  BY <1>7 DEF Ready, Hands
<1>9. call' = c /\ memory' = (memory \ Buffers(d)) \cup Hands(c) /\ Hands(c) \cap (memory \ Buffers(d)) = {}
  BY <1>2, <1>3, <1>4, <1>5, <1>8
<1>10. QED
  BY <1>1, <1>7, <1>8, <1>9, BeginsLoad

\* The blocks of the chunks are what the call has in its hands.
LEMMA ChunksFlight ==
  ASSUME ChunksInv
  PROVE  Flight = ChunkBlocks /\ ChunkBlocks \subseteq Blocks
<1>1. call.stage = "chunks" /\ call.chunks \in Seq(ChunkRead)
  BY DEF ChunksInv, ChunksCall
<1>2. PICK s \in Seq(ChunkRead) : s = call.chunks
  BY <1>1
<1>3. \A k \in DOMAIN s : s[k].block \in Blocks
  <2>1. \A k \in DOMAIN s : s[k] \in ChunkRead
    OBVIOUS
  <2>2. QED
    BY <2>1 DEF ChunkRead
<1>4. QED
  BY <1>1, <1>2, <1>3 DEF Flight, ChunkBlocks

\* An error on the way frees the chunks.
LEMMA AbandonKeeps ==
  ASSUME LoadInv, ChunksInv, Abandon, UNCHANGED <<held, extras, trees>>
  PROVE  LoadInv'
<1>1. PICK F : F = Flight /\ HeldInv(F)
  BY DEF LoadInv
<1>2. memory' = memory \ F /\ call' = Idle
  BY <1>1, ChunksFlight DEF Abandon
<1>3. memory \subseteq Blocks
  BY <1>1, HeldSays
<1>4. HeldInv({})'
  <2> DEFINE G == {}
  <2>1. /\ memory' \subseteq Blocks /\ memory \ F \subseteq memory' /\ G \subseteq memory'
        /\ G \cap (memory \ F) = {} /\ memory' \subseteq (memory \ F) \cup G
    BY <1>2, <1>3
  <2> HIDE DEF G
  <2>2. HeldInv(G)'
    BY <1>1, <2>1, MemoryKeeps
  <2>3. QED
    BY <2>2 DEF G
<1>5. Flight' = {}
  BY <1>2 DEF Flight, Idle
<1>6. QED
  BY <1>2, <1>4, <1>5 DEF LoadInv

\* What a chunk takes off the rest.
LEMMA TakeOff ==
  ASSUME NEW r \in Seq(Byte), NEW n \in 0..Len(r)
  PROVE  /\ SubSeq(r, 1, n) \in Seq(Byte) /\ SubSeq(r, n + 1, Len(r)) \in Seq(Byte)
         /\ SubSeq(r, 1, n) \o SubSeq(r, n + 1, Len(r)) = r
         /\ n = Len(r) => SubSeq(r, n + 1, Len(r)) = <<>>
<1>1. \A i \in 1..Len(r) : r[i] \in Byte
  BY ElementOfSeq
<1>2. 1 \in 1..(Len(r) + 1) /\ n \in (1 - 1)..Len(r) /\ Len(r) \in n..Len(r)
  OBVIOUS
<1>3. SubSeq(r, 1, n) \o SubSeq(r, n + 1, Len(r)) = SubSeq(r, 1, Len(r))
  BY <1>2, ConcatAdjacentSubSeq
<1>4. SubSeq(r, 1, Len(r)) = r
  BY SubSeqFull
<1>5. SubSeq(r, 1, n) \in Seq(Byte)
  <2>1. \A i \in 1..n : r[i] \in Byte
    BY <1>1
  <2>2. QED
    BY <2>1
<1>6. SubSeq(r, n + 1, Len(r)) \in Seq(Byte)
  <2>1. \A i \in (n + 1)..Len(r) : r[i] \in Byte
    BY <1>1
  <2>2. n + 1 \in Int /\ Len(r) \in Int
    OBVIOUS
  <2>3. QED
    BY <2>1, <2>2, SubSeqProperties
<1>7. n = Len(r) => SubSeq(r, n + 1, Len(r)) = <<>>
  <2>1. n = Len(r) => n + 1 \in Int /\ Len(r) \in Int /\ Len(r) < n + 1
    OBVIOUS
  <2>2. QED
    BY <2>1, SubSeqEmpty
<1>8. QED
  BY <1>3, <1>4, <1>5, <1>6, <1>7

\* What the chunks hold, one more of them.
LEMMA GatherMore ==
  ASSUME NEW s \in Seq(ChunkRead), NEW c \in ChunkRead
  PROVE  /\ FlattenSeq([k \in DOMAIN s |-> s[k].data]) \in Seq(Byte)
         /\ FlattenSeq([k \in DOMAIN Append(s, c) |-> Append(s, c)[k].data])
              = FlattenSeq([k \in DOMAIN s |-> s[k].data]) \o c.data
<1> DEFINE a == Append(s, c)
           n == Len(s)
           f == [k \in DOMAIN a |-> a[k].data]
           g == [k \in DOMAIN s |-> s[k].data]
<1>1. /\ n \in Nat /\ a \in Seq(ChunkRead) /\ DOMAIN a = 1..(n + 1) /\ DOMAIN s = 1..n
      /\ a[n + 1] = c /\ \A k \in 1..n : a[k] = s[k]
  OBVIOUS
<1>2. \A x \in ChunkRead : x.data \in Seq(Byte)
  BY DEF ChunkRead
<1> HIDE DEF a
<1>3. \A k \in 1..(n + 1) : a[k] \in ChunkRead
  BY <1>1
<1>4. f \in [1..(n + 1) -> Seq(Byte)] /\ f[n + 1] = c.data
  <2>1. \A k \in 1..(n + 1) : a[k].data \in Seq(Byte)
    BY <1>2, <1>3
  <2>2. n + 1 \in 1..(n + 1)
    BY <1>1
  <2>3. QED
    BY <1>1, <2>1, <2>2
<1>5. g = [k \in 1..n |-> f[k]]
  <2>1. \A k \in 1..n : f[k] = s[k].data
    BY <1>1
  <2> HIDE DEF f
  <2>2. QED
    BY <1>1, <2>1
<1> HIDE DEF f, g, n
<1>6. FlattenSeq(g) \in Seq(Byte) /\ FlattenSeq(f) = FlattenSeq(g) \o f[n + 1]
  BY <1>1, <1>4, <1>5, FlattenStep
<1>7. QED
  BY <1>4, <1>6 DEF a, f, g

LEMMA JoinAssociative ==
  ASSUME NEW x \in Seq(Byte), NEW p \in Seq(Byte), NEW q \in Seq(Byte)
  PROVE  (x \o p) \o q = x \o (p \o q)
OBVIOUS

LEMMA Decided ==
  ASSUME NEW m \in Nat, NEW n \in Nat
  PROVE  \E e \in BOOLEAN : (e <=> m < n) /\ e = (m < n)
<1>1. CASE m < n
  <2>1. (m < n) = TRUE
    BY <1>1
  <2>2. QED
    BY <1>1, <2>1
<1>2. CASE ~(m < n)
  <2>1. (m < n) = FALSE
    BY <1>2
  <2>2. QED
    BY <1>2, <2>1
<1>3. QED
  BY <1>1, <1>2

LEMMA ReadChunkKeeps ==
  ASSUME LoadAssumption, LoadInv, ReadChunk
  PROVE  LoadInv'
<1>1. call.stage = "chunks" /\ ~call.eof /\ held' = held /\ extras' = extras /\ trees' = trees
  BY DEF ReadChunk
<1>2. ChunksInv
  BY <1>1, CallShapes DEF LoadInv
<1>3. PICK F : F = Flight /\ HeldInv(F)
  BY DEF LoadInv
<1>4. PICK b : b = Fresh(memory)
  OBVIOUS
<1>5. PICK r \in Seq(Byte) : r = call.rest
  BY <1>2 DEF ChunksInv, ChunksCall
<1>6. PICK n : n = IF Len(r) < ChunkSize THEN Len(r) ELSE ChunkSize
  OBVIOUS
<1>7. n \in 0..Len(r) /\ (n < ChunkSize => n = Len(r))
  BY <1>6 DEF LoadAssumption
<1>8. PICK p \in Seq(Byte), q \in Seq(Byte) : p = SubSeq(r, 1, n) /\ q = SubSeq(r, n + 1, Len(r))
  BY <1>7, TakeOff
<1>9. p \o q = r /\ (n < ChunkSize => q = <<>>)
  BY <1>7, <1>8, TakeOff
<1>10. \/ Abandon
       \/ /\ Room(memory) /\ memory' = memory \cup {b}
          /\ call' = [call EXCEPT !.chunks = Append(@, [block |-> b, data |-> p]), !.rest = q, !.eof = n < ChunkSize]
  BY <1>4, <1>5, <1>6, <1>8 DEF ReadChunk
<1>11. CASE Abandon
  BY <1>1, <1>2, <1>11, AbandonKeeps
<1>12. ASSUME Room(memory), memory' = memory \cup {b},
              call' = [call EXCEPT !.chunks = Append(@, [block |-> b, data |-> p]), !.rest = q, !.eof = n < ChunkSize]
       PROVE  LoadInv'
  <2>1. b \in Blocks /\ b \notin memory
    BY <1>4, <1>12, FreshIs
  <2>2. PICK c \in ChunkRead : c = [block |-> b, data |-> p]
    BY <1>8, <2>1 DEF ChunkRead
  <2>3. call \in ChunksCall
    BY <1>2 DEF ChunksInv
  <2>4. PICK s \in Seq(ChunkRead) : s = call.chunks
    BY <2>3 DEF ChunksCall
  <2>5. PICK a \in Seq(ChunkRead) : a = Append(s, c)
    BY PushType
  <2>6. call' = [call EXCEPT !.chunks = a, !.rest = q, !.eof = n < ChunkSize]
    BY <1>12, <2>2, <2>4, <2>5
  <2>7. PICK eof \in BOOLEAN : (eof <=> n < ChunkSize) /\ eof = (n < ChunkSize)
    <3>1. n \in Nat /\ ChunkSize \in Nat
      BY <1>7 DEF LoadAssumption
    <3>2. QED
      BY <3>1, Decided
  <2>8. /\ call' \in ChunksCall /\ call'.chunks = a /\ call'.rest = q /\ (call'.eof <=> n < ChunkSize)
        /\ call'.doc = call.doc /\ call'.source = call.source /\ call'.stage = "chunks"
    <3>1. call' = [call EXCEPT !.chunks = a, !.rest = q, !.eof = eof]
      BY <2>6, <2>7, Zenon
    <3>2. call' \in ChunksCall /\ call'.eof = eof
      BY <1>8, <2>3, <3>1 DEF ChunksCall
    <3>3. QED
      BY <2>3, <2>7, <3>1, <3>2 DEF ChunksCall
  <2>9. PICK G : G = F \cup {b}
    OBVIOUS
  <2>10. Flight' = G
    <3>1. F = {x \in Blocks : \E k \in DOMAIN s : x = s[k].block}
      BY <1>1, <1>3, <2>4 DEF Flight
    <3>2. Flight' = {x \in Blocks : \E k \in DOMAIN a : x = a[k].block}
      BY <2>8 DEF Flight
    <3>3. /\ DOMAIN a = 1..(Len(s) + 1) /\ DOMAIN s = 1..Len(s) /\ Len(s) \in Nat
          /\ a[Len(s) + 1] = c /\ \A k \in 1..Len(s) : a[k] = s[k]
      BY <2>5
    <3>4. \A x : (\E k \in DOMAIN a : x = a[k].block) <=> (x = b \/ \E k \in DOMAIN s : x = s[k].block)
      <4>1. c.block = b
        BY <2>2
      <4>2. \A k \in DOMAIN a : k = Len(s) + 1 \/ k \in DOMAIN s
        BY <3>3
      <4>3. Len(s) + 1 \in DOMAIN a /\ \A k \in DOMAIN s : k \in DOMAIN a /\ a[k] = s[k]
        BY <3>3
      <4>4. QED
        BY <3>3, <4>1, <4>2, <4>3, Zenon
    <3>5. QED
      BY <2>1, <2>9, <3>1, <3>2, <3>4
  <2>11. HeldInv(G)'
    <3>1. memory \subseteq Blocks /\ F \subseteq memory
      BY <1>3, HeldSays
    <3>2. /\ memory' \subseteq Blocks /\ memory \ F \subseteq memory' /\ G \subseteq memory'
          /\ G \cap (memory \ F) = {} /\ memory' \subseteq (memory \ F) \cup G
      BY <1>12, <2>1, <2>9, <3>1
    <3>3. QED
      BY <1>1, <1>3, <3>2, MemoryKeeps
  <2>12. Bare(call.doc)'
    BY <1>1, <1>2, <2>8 DEF ChunksInv, Bare
  <2>13. (Gathered \o call.rest = call.source)'
    <3>1. PICK x \in Seq(Byte) : x = FlattenSeq([k \in DOMAIN s |-> s[k].data])
      BY <2>2, GatherMore
    <3>2. FlattenSeq([k \in DOMAIN a |-> a[k].data]) = x \o p
      <4>1. FlattenSeq([k \in DOMAIN Append(s, c) |-> Append(s, c)[k].data]) = x \o c.data
        BY <3>1, GatherMore
      <4>2. c.data = p
        BY <2>2
      <4>3. QED
        BY <2>5, <4>1, <4>2
    <3>3. Gathered' = x \o p
      <4>1. Gathered' = FlattenSeq([k \in DOMAIN call'.chunks |-> call'.chunks[k].data])
        BY DEF Gathered
      <4>2. QED
        BY <2>8, <3>2, <4>1
    <3>4. x \o r = call.source
      <4>1. Gathered = x
        BY <2>4, <3>1 DEF Gathered
      <4>2. QED
        BY <1>2, <1>5, <4>1 DEF ChunksInv
    <3>5. (x \o p) \o q = x \o r
      <4>1. (x \o p) \o q = x \o (p \o q)
        BY <1>8, <3>1, JoinAssociative
      <4>2. QED
        BY <1>9, <4>1
    <3>6. QED
      BY <2>8, <3>3, <3>4, <3>5
  <2>14. (call.eof => call.rest = <<>>)'
    BY <1>9, <2>8
  <2>15. ChunksInv'
    BY <2>8, <2>12, <2>13, <2>14 DEF ChunksInv
  <2>16. QED
    BY <2>10, <2>11, <2>15 DEF LoadInv
<1>13. QED
  BY <1>10, <1>11, <1>12

LEMMA GatherKeeps ==
  ASSUME LoadAssumption, LoadInv, Gather
  PROVE  LoadInv'
<1>1. call.stage = "chunks" /\ call.eof /\ held' = held /\ extras' = extras /\ trees' = trees
  BY DEF Gather
<1>2. ChunksInv
  BY <1>1, CallShapes DEF LoadInv
<1>3. PICK F : F = Flight /\ HeldInv(F)
  BY DEF LoadInv
<1>4. PICK b : b = Fresh(memory)
  OBVIOUS
<1>5. PICK d \in Documents, e \in Encoding, s \in Seq(Byte) :
        d = call.doc /\ e = call.encoding /\ s = call.source
  BY <1>2 DEF ChunksInv, ChunksCall
<1>6. PICK x : x = Gathered
  OBVIOUS
<1>7. x = s
  <2>1. x \o <<>> = s
    BY <1>1, <1>2, <1>5, <1>6 DEF ChunksInv
  <2>2. x \in Seq(Byte)
    <3>1. PICK t \in Seq(ChunkRead) : t = call.chunks
      BY <1>2 DEF ChunksInv, ChunksCall
    <3>2. \A k \in DOMAIN t : t[k] \in ChunkRead
      OBVIOUS
    <3>3. \A k \in DOMAIN t : t[k].data \in Seq(Byte)
      BY <3>2 DEF ChunkRead
    <3>4. [k \in DOMAIN t |-> t[k].data] \in [1..Len(t) -> Seq(Byte)] /\ Len(t) \in Nat
      BY <3>3
    <3>5. FlattenSeq([k \in DOMAIN t |-> t[k].data]) \in Seq(Byte)
      BY <3>4, FlattenType
    <3>6. QED
      BY <1>6, <3>1, <3>5 DEF Gathered
  <2>3. QED
    BY <2>1, <2>2
<1>8. \/ Abandon
      \/ /\ Room(memory) /\ memory' = (memory \ ChunkBlocks) \cup {b}
         /\ call' = LoadingAll(d, b, e, s, s)
  <2>1. FlattenSeq([k \in DOMAIN call.chunks |-> call.chunks[k].data]) = s
    BY <1>6, <1>7 DEF Gathered
  <2>2. QED
    BY <1>4, <1>5, <2>1 DEF Gather
<1>9. CASE Abandon
  BY <1>1, <1>2, <1>9, AbandonKeeps
<1>10. ASSUME Room(memory), memory' = (memory \ ChunkBlocks) \cup {b},
              call' = LoadingAll(d, b, e, s, s)
       PROVE  LoadInv'
  <2>1. b \in Blocks /\ b \notin memory
    BY <1>4, <1>10, FreshIs
  <2>2. PICK c : c = LoadingAll(d, b, e, s, s)
    OBVIOUS
  <2>3. Ready(c) /\ ~c.append /\ c.doc = d /\ Hands(c) = {b}
    BY <2>1, <2>2, LoadingAllReady
  <2>4. call' = c
    BY <1>10, <2>2
  <2>5. Bare(c.doc)'
    BY <1>1, <1>2, <1>5, <2>3 DEF ChunksInv, Bare
  <2>6. ReadyInv' /\ Flight' = Hands(c)
    BY <2>3, <2>4, <2>5, ReadyThen
  <2>7. PICK G : G = {b}
    OBVIOUS
  <2>8. HeldInv(G)'
    <3>1. memory \subseteq Blocks /\ F \subseteq memory /\ F = ChunkBlocks
      BY <1>2, <1>3, ChunksFlight, HeldSays
    <3>2. /\ memory' \subseteq Blocks /\ memory \ F \subseteq memory' /\ G \subseteq memory'
          /\ G \cap (memory \ F) = {} /\ memory' \subseteq (memory \ F) \cup G
      BY <1>10, <2>1, <2>7, <3>1
    <3>3. QED
      BY <1>1, <1>3, <3>2, MemoryKeeps
  <2>9. QED
    BY <2>3, <2>6, <2>7, <2>8 DEF LoadInv
<1>11. QED
  BY <1>8, <1>9, <1>10

LEMMA LoadStutters ==
  ASSUME LoadInv, UNCHANGED loadVars
  PROVE  LoadInv'
<1>1. memory' = memory /\ held' = held /\ extras' = extras /\ trees' = trees /\ call' = call
  BY DEF loadVars
<1>2. PICK F : F = Flight /\ HeldInv(F)
  BY DEF LoadInv
<1>3. HeldInv(F)'
  BY <1>1, <1>2 DEF HeldInv, HeldBy, Buffers
<1>4. Flight' = F
  BY <1>1, <1>2 DEF Flight
<1>5. /\ (call = Idle)' <=> call = Idle
      /\ ChunksInv' <=> ChunksInv
      /\ ReadyInv' <=> ReadyInv
  BY <1>1 DEF ChunksInv, ReadyInv, Gathered, Bare, LoadedWhole
<1>6. QED
  BY <1>3, <1>4, <1>5 DEF LoadInv

\* One more in front.
LEMMA InFront ==
  ASSUME NEW S, NEW s \in Seq(S), NEW e \in S, NEW t, t = <<e>> \o s
  PROVE  /\ t \in Seq(S) /\ t # <<>> /\ t[1] = e /\ 1 \in DOMAIN t
         /\ \A i \in DOMAIN t : i # 1 => i - 1 \in DOMAIN s /\ t[i] = s[i - 1]
         /\ \A i \in DOMAIN s : i + 1 \in DOMAIN t /\ t[i + 1] = s[i]
<1>1. <<e>> \in Seq(S) /\ Len(<<e>>) = 1 /\ <<e>>[1] = e
  OBVIOUS
<1>2. PICK u \in Seq(S) : u = <<e>>
  BY <1>1
<1>3. /\ u \o s \in Seq(S) /\ Len(u \o s) = Len(u) + Len(s)
      /\ \A i \in 1..(Len(u) + Len(s)) : (u \o s)[i] = IF i <= Len(u) THEN u[i] ELSE s[i - Len(u)]
  BY ConcatProperties
<1>4. Len(u) = 1 /\ u[1] = e /\ t = u \o s /\ Len(s) \in Nat
  BY <1>1, <1>2
<1>5. /\ t \in Seq(S) /\ Len(t) = Len(s) + 1
      /\ \A i \in 1..(Len(s) + 1) : t[i] = IF i <= 1 THEN e ELSE s[i - 1]
  BY <1>3, <1>4
<1>6. DOMAIN t = 1..(Len(s) + 1) /\ DOMAIN s = 1..Len(s)
  BY <1>5
<1>7. t # <<>>
  BY <1>4, <1>5, EmptySeq
<1>8. QED
  BY <1>4, <1>5, <1>6, <1>7

LEMMA AppendBufferKeeps ==
  ASSUME LoadAssumption, LoadInv, NEW d \in Documents, NEW e \in Encoding,
         AppendBuffer(d, e)
  PROVE  LoadInv'
<1>1. /\ call = Idle /\ memory' = memory /\ held' = held /\ trees' = trees
      /\ \/ extras' = extras /\ call' = call
         \/ /\ extras' = [extras EXCEPT ![d] = <<NoBlock>> \o @]
            /\ call' = [Loading(d, User, e, FALSE, FALSE) EXCEPT !.append = TRUE]
  BY DEF AppendBuffer
<1>2. CASE extras' = extras /\ call' = call
  BY <1>1, <1>2, LoadStutters DEF loadVars
<1>3. CASE /\ extras' = [extras EXCEPT ![d] = <<NoBlock>> \o @]
           /\ call' = [Loading(d, User, e, FALSE, FALSE) EXCEPT !.append = TRUE]
  <2>1. HeldInv({})
    BY <1>1, CallShapes DEF LoadInv
  <2>2. PICK s \in Seq(Blocks \cup {NoBlock}) : s = extras[d]
    BY <2>1, HeldMaps
  <2>3. PICK t : t = <<NoBlock>> \o s
    OBVIOUS
  <2>4. /\ t \in Seq(Blocks \cup {NoBlock}) /\ t # <<>> /\ t[1] = NoBlock /\ 1 \in DOMAIN t
        /\ \A i \in DOMAIN t : i # 1 => i - 1 \in DOMAIN s /\ t[i] = s[i - 1]
        /\ \A i \in DOMAIN s : i + 1 \in DOMAIN t /\ t[i + 1] = s[i]
    <3>1. NoBlock \in Blocks \cup {NoBlock}
      OBVIOUS
    <3>2. QED
      BY <2>3, <3>1, InFront
  <2>5. /\ extras' = [extras EXCEPT ![d] = t] /\ extras'[d] = t
        /\ \A f \in Documents : f # d => extras'[f] = extras[f]
    <3>1. extras' = [extras EXCEPT ![d] = t]
      BY <1>3, <2>2, <2>3
    <3>2. QED
      BY <2>1, <3>1, HeldMaps
  <2>6. \A f \in Documents : Buffers(f)' = Buffers(f)
    <3>1. ASSUME NEW f \in Documents, f # d PROVE Buffers(f)' = Buffers(f)
      BY <1>1, <2>5, <3>1 DEF Buffers
    <3>2. Buffers(d)' = Buffers(d)
      <4> DEFINE InS(x) == \E i \in DOMAIN s : x = s[i]
                 InT(x) == \E i \in DOMAIN t : x = t[i]
      <4>1. \A x : x # NoBlock => (InT(x) <=> InS(x))
        <5>1. ASSUME NEW x, x # NoBlock, InT(x) PROVE InS(x)
          BY <2>4, <5>1
        <5>2. ASSUME NEW x, InS(x) PROVE InT(x)
          BY <2>4, <5>2
        <5>3. QED
          BY <5>1, <5>2
      <4>2. \A x : x \in Buffers(d)' <=> x # NoBlock /\ (x = held[d] \/ InT(x))
        BY <1>1, <2>5 DEF Buffers, ToSet
      <4>3. \A x : x \in Buffers(d) <=> x # NoBlock /\ (x = held[d] \/ InS(x))
        BY <2>2 DEF Buffers, ToSet
      <4> HIDE DEF InS, InT
      <4>4. \A x : x \in Buffers(d)' <=> x \in Buffers(d)
        BY <4>1, <4>2, <4>3
      <4>5. QED
        BY <4>4
    <3>3. QED
      BY <3>1, <3>2
  <2>7. ASSUME NEW f \in Documents PROVE HeldBy(f)'
    <3>1. HeldBy(f)
      BY <2>1, HeldSays
    <3>2. Buffers(f)' = Buffers(f) /\ held'[f] = held[f] /\ trees'[f] = trees[f]
      BY <1>1, <2>6
    <3>3. CASE f # d
      <4>1. extras'[f] = extras[f]
        BY <2>5, <3>3
      <4>2. QED
        BY <3>1, <3>2, <4>1 DEF HeldBy
    <3>4. CASE f = d
      <4>1. Distinct(s) /\ (held[d] # NoBlock => \A i \in DOMAIN s : s[i] # held[d])
        BY <2>2, <3>1, <3>4 DEF HeldBy
      <4>2. Distinct(t)
        <5>1. SUFFICES ASSUME NEW i \in DOMAIN t, NEW j \in DOMAIN t, i # j, t[i] = t[j]
                       PROVE  t[i] = NoBlock
          BY DEF Distinct
        <5>2. CASE i = 1 \/ j = 1
          BY <2>4, <5>1, <5>2
        <5>3. CASE i # 1 /\ j # 1
          <6>1. DOMAIN t \subseteq Nat
            BY <2>4
          <6>2. i - 1 \in DOMAIN s /\ j - 1 \in DOMAIN s /\ t[i] = s[i - 1] /\ t[j] = s[j - 1] /\ i - 1 # j - 1
            BY <2>4, <5>1, <5>3, <6>1
          <6>3. QED
            BY <4>1, <5>1, <6>2 DEF Distinct
        <5>4. QED
          BY <5>2, <5>3
      <4>3. held[d] # NoBlock => \A i \in DOMAIN t : t[i] # held[d]
        BY <2>4, <4>1
      <4>4. QED
        BY <2>5, <3>1, <3>2, <3>4, <4>2, <4>3 DEF HeldBy
    <3>5. QED
      BY <3>3, <3>4
  <2>8. HeldInv({})'
    <3>1. extras' \in [Documents -> Seq(Blocks \cup {NoBlock})]
      BY <2>1, <2>4, <2>5, HeldMaps
    <3>2. /\ \A f \in Documents : Buffers(f) \subseteq memory \ {}
          /\ \A f, g \in Documents : f # g => Buffers(f) \cap Buffers(g) = {}
          /\ memory \subseteq Blocks /\ {} \subseteq memory
          /\ \/ "convert own" \in Failing
             \/ \A b \in memory \ {} : \E f \in Documents : b \in Buffers(f)
      BY <2>1, HeldSays
    <3>3. /\ held' \in [Documents -> Blocks \cup {NoBlock}]
          /\ trees' \in [Documents -> SUBSET (Blocks \cup {User})]
      BY <1>1, <2>1, HeldMaps
    <3>4. memory' = memory
      BY <1>1
    <3>5. ASSUME NEW f \in Documents PROVE HeldBy(f)' /\ Buffers(f)' \subseteq memory' \ {}
      <4>1. Buffers(f)' = Buffers(f) /\ HeldBy(f)' /\ Buffers(f) \subseteq memory \ {}
        BY <2>6, <2>7, <3>2
      <4>2. QED
        BY <3>4, <4>1
    <3>6. ASSUME NEW f \in Documents, NEW g \in Documents, f # g
          PROVE  Buffers(f)' \cap Buffers(g)' = {}
      <4>1. Buffers(f)' = Buffers(f) /\ Buffers(g)' = Buffers(g)
        BY <2>6
      <4>2. Buffers(f) \cap Buffers(g) = {}
        BY <3>2, <3>6
      <4>3. QED
        BY <4>1, <4>2
    <3>7. \/ "convert own" \in Failing
          \/ \A b \in memory' \ {} : \E f \in Documents : b \in Buffers(f)'
      <4>1. SUFFICES ASSUME "convert own" \notin Failing, NEW b \in memory
                     PROVE  \E f \in Documents : b \in Buffers(f)'
        BY <3>4
      <4>2. PICK f \in Documents : b \in Buffers(f)
        BY <3>2, <4>1
      <4>3. QED
        BY <2>6, <4>2
    <3>8. QED
      BY <3>1, <3>2, <3>3, <3>4, <3>5, <3>6, <3>7 DEF HeldInv
  <2>9. PICK l \in LoadCall : l = Loading(d, User, e, FALSE, FALSE)
    <3>1. User \in Blocks \cup {User} /\ FALSE \in BOOLEAN
      OBVIOUS
    <3>2. Loading(d, User, e, FALSE, FALSE) \in LoadCall
      BY <3>1, LoadingIs
    <3>3. QED
      BY <3>2
  <2>10. l.doc = d /\ l.contents = User /\ l.own = FALSE /\ l.room = 0 /\ l.stage = "load"
    BY <2>9 DEF Loading
  <2>11. /\ call' \in LoadCall /\ call'.append = TRUE /\ call'.doc = d /\ call'.contents = User
         /\ call'.own = FALSE /\ call'.room = 0 /\ call'.stage = "load"
    BY <1>3, <2>9, <2>10 DEF LoadCall
  <2>12. ReadyInv'
    <3>1. LoadedWhole'
      BY <2>11 DEF LoadedWhole
    <3>2. QED
      BY <2>4, <2>5, <2>11, <3>1 DEF ReadyInv
  <2>13. Flight' = {}
    BY <2>11 DEF Flight
  <2>14. QED
    BY <2>8, <2>12, <2>13 DEF LoadInv
<1>4. QED
  BY <1>1, <1>2, <1>3

\* What load_buffer_impl() finds.
LEMMA ReadySays ==
  ASSUME LoadInv, call.stage = "load"
  PROVE  /\ ReadyInv /\ call.doc \in Documents /\ call.own \in BOOLEAN /\ call.append \in BOOLEAN
         /\ IF call.append THEN extras[call.doc] # <<>> /\ extras[call.doc][1] = NoBlock
                           ELSE held[call.doc] = NoBlock
         /\ \E F : /\ HeldInv(F)
                   /\ IF call.own THEN F = {call.contents} /\ call.contents \in Blocks
                                  ELSE F = {} /\ call.contents = User
<1>1. ReadyInv
  BY CallShapes DEF LoadInv
<1>2. call \in LoadCall
  BY <1>1 DEF ReadyInv
<1>3. call.doc \in Documents /\ call.own \in BOOLEAN /\ call.append \in BOOLEAN
  BY <1>2 DEF LoadCall
<1>4. PICK F : F = Flight /\ HeldInv(F)
  BY DEF LoadInv
<1>5. IF call.own THEN F = {call.contents} /\ call.contents \in Blocks
                  ELSE F = {} /\ call.contents = User
  BY <1>1, <1>3, <1>4 DEF Flight, ReadyInv
<1>6. IF call.append THEN extras[call.doc] # <<>> /\ extras[call.doc][1] = NoBlock
                     ELSE held[call.doc] = NoBlock
  BY <1>1, <1>3 DEF ReadyInv, Bare
<1>7. QED
  BY <1>1, <1>3, <1>4, <1>5, <1>6

LEMMA IdleThen ==
  ASSUME call' = Idle, HeldInv({})'
  PROVE  LoadInv'
<1>1. Flight' = {}
  BY DEF Flight, Idle
<1>2. QED
  BY <1>1 DEF LoadInv

LEMMA LoadInPlaceKeeps ==
  ASSUME LoadAssumption, LoadInv, LoadInPlace
  PROVE  LoadInv'
<1>1. /\ call.stage = "load" /\ call' = Idle /\ memory' = memory /\ Parsed(call.contents)
      /\ IF call.own THEN Hold(call.contents) ELSE held' = held /\ extras' = extras
  BY DEF LoadInPlace
<1>2. PICK F : /\ HeldInv(F)
               /\ IF call.own THEN F = {call.contents} /\ call.contents \in Blocks
                              ELSE F = {} /\ call.contents = User
  BY <1>1, ReadySays
<1>3. PICK c : c = call.doc
  OBVIOUS
<1>4. c \in Documents
  BY <1>1, <1>3, ReadySays
<1>5. CASE call.own
  <2>1. PICK b \in Blocks : b = call.contents
    BY <1>2, <1>5
  <2>2. memory \subseteq Blocks /\ F = {b} /\ F \subseteq memory /\ \A d \in Documents : Buffers(d) \subseteq memory \ F
    BY <1>2, <1>5, <2>1, HeldSays
  <2>3. /\ \A d \in Documents : b \notin Buffers(d)
        /\ b \in memory' /\ memory' \subseteq Blocks /\ memory \ F \subseteq memory'
        /\ memory' \subseteq (memory \ F) \cup {b}
    BY <1>1, <2>2
  <2>4. Hold(b) /\ Parsed(b)
    BY <1>1, <1>5, <2>1
  <2>5. call.doc \in Documents /\ IF call.append THEN extras[call.doc] # <<>> /\ extras[call.doc][1] = NoBlock
                                                 ELSE held[call.doc] = NoBlock
    BY <1>1, ReadySays
  <2>6. HeldInv({})'
    BY <1>2, <2>3, <2>4, <2>5, HoldKeeps
  <2>7. QED
    BY <1>1, <2>6, IdleThen
<1>6. CASE ~call.own
  <2>1. F = {} /\ trees' = [trees EXCEPT ![c] = @ \cup {User}] /\ held' = held /\ extras' = extras
    BY <1>1, <1>2, <1>3, <1>6 DEF Parsed
  <2>2. HeldInv({})
    BY <1>2, <2>1
  <2>3. /\ trees' \in [Documents -> SUBSET (Blocks \cup {User})]
        /\ \A d \in Documents : trees'[d] \subseteq trees[d] \cup {User}
    BY <1>4, <2>1, <2>2, HeldMaps
  <2>4. \A d : Buffers(d)' = Buffers(d)
    BY <2>1 DEF Buffers
  <2>5. ASSUME NEW d \in Documents PROVE HeldBy(d)'
    <3>1. HeldBy(d)
      BY <2>2, HeldSays
    <3>2. trees'[d] \subseteq Buffers(d)' \cup {User}
      BY <2>3, <2>4, <3>1 DEF HeldBy
    <3>3. QED
      BY <2>1, <3>1, <3>2 DEF HeldBy
  <2>6. HeldInv({})'
    <3>1. /\ \A f \in Documents : Buffers(f) \subseteq memory \ {}
          /\ \A f, g \in Documents : f # g => Buffers(f) \cap Buffers(g) = {}
          /\ memory \subseteq Blocks /\ {} \subseteq memory
          /\ \/ "convert own" \in Failing
             \/ \A b \in memory \ {} : \E f \in Documents : b \in Buffers(f)
      BY <2>2, HeldSays
    <3>2. /\ held' \in [Documents -> Blocks \cup {NoBlock}]
          /\ extras' \in [Documents -> Seq(Blocks \cup {NoBlock})]
      BY <2>1, <2>2, HeldMaps
    <3>3. QED
      BY <1>1, <2>3, <2>4, <2>5, <3>1, <3>2 DEF HeldInv
  <2>7. QED
    BY <1>1, <2>6, IdleThen
<1>7. QED
  BY <1>5, <1>6

LEMMA LoadConvertedKeeps ==
  ASSUME LoadAssumption, LoadInv, LoadConverted
  PROVE  LoadInv'
<1>1. call.stage = "load" /\ call' = Idle
  BY DEF LoadConverted
<1>2. PICK F : /\ HeldInv(F)
               /\ IF call.own THEN F = {call.contents} /\ call.contents \in Blocks
                              ELSE F = {} /\ call.contents = User
  BY <1>1, ReadySays
<1>3. memory \subseteq Blocks /\ F \subseteq memory /\ \A d \in Documents : Buffers(d) \subseteq memory \ F
  BY <1>2, HeldSays
<1>4. PICK b : b = Fresh(memory)
  OBVIOUS
<1>5. \/ /\ (IF call.own THEN "convert own" ELSE "convert") \in Failing
         /\ memory' = memory /\ held' = held /\ extras' = extras /\ trees' = trees
      \/ /\ Room(memory)
         /\ memory' = (memory \ IF call.own THEN {call.contents} ELSE {}) \cup {b}
         /\ Hold(b) /\ Parsed(b)
  BY <1>4 DEF LoadConverted
<1>6. CASE /\ (IF call.own THEN "convert own" ELSE "convert") \in Failing
           /\ memory' = memory /\ held' = held /\ extras' = extras /\ trees' = trees
  <2> DEFINE G == {}
  <2>1. "convert own" \in Failing \/ F = {}
    BY <1>2, <1>6
  <2>2. /\ memory' \subseteq Blocks /\ memory \ F \subseteq memory' /\ G \subseteq memory'
        /\ G \cap (memory \ F) = {}
        /\ "convert own" \in Failing \/ memory' \subseteq (memory \ F) \cup G
    BY <1>3, <1>6, <2>1
  <2> HIDE DEF G
  <2>3. HeldInv(G)'
    BY <1>2, <1>6, <2>2, MemoryKeeps
  <2>4. QED
    BY <1>1, <2>3, IdleThen DEF G
<1>7. ASSUME Room(memory), memory' = (memory \ IF call.own THEN {call.contents} ELSE {}) \cup {b},
             Hold(b), Parsed(b)
      PROVE  LoadInv'
  <2>1. b \in Blocks /\ b \notin memory
    BY <1>4, <1>7, FreshIs
  <2>2. memory' = (memory \ F) \cup {b}
    BY <1>2, <1>7
  <2>3. /\ \A d \in Documents : b \notin Buffers(d)
        /\ b \in memory' /\ memory' \subseteq Blocks /\ memory \ F \subseteq memory'
        /\ memory' \subseteq (memory \ F) \cup {b}
    BY <1>3, <2>1, <2>2
  <2>4. call.doc \in Documents /\ IF call.append THEN extras[call.doc] # <<>> /\ extras[call.doc][1] = NoBlock
                                                 ELSE held[call.doc] = NoBlock
    BY <1>1, ReadySays
  <2>5. HeldInv({})'
    BY <1>2, <1>7, <2>1, <2>3, <2>4, HoldKeeps
  <2>6. QED
    BY <1>1, <2>5, IdleThen
<1>8. QED
  BY <1>5, <1>6, <1>7

LEMMA ClearKeeps ==
  ASSUME LoadAssumption, LoadInv, NEW d \in Documents, Clear(d)
  PROVE  LoadInv'
BY BeginsNone DEF Clear

LEMMA MoveDocumentKeeps ==
  ASSUME LoadAssumption, LoadInv, NEW d \in Documents, NEW e \in Documents, MoveBuffers(d, e)
  PROVE  LoadInv'
<1>1. /\ call = Idle /\ d # e /\ call' = call /\ memory' = memory \ Buffers(d)
      /\ held' = [held EXCEPT ![d] = held[e], ![e] = NoBlock]
      /\ extras' = [extras EXCEPT ![d] = extras[e], ![e] = <<>>]
      /\ trees' = [trees EXCEPT ![d] = trees[e], ![e] = {}]
  BY DEF MoveBuffers
<1>2. HeldInv({})
  BY <1>1, CallShapes DEF LoadInv
<1>3. /\ held'[d] = held[e] /\ extras'[d] = extras[e] /\ trees'[d] = trees[e]
      /\ held'[e] = NoBlock /\ extras'[e] = <<>> /\ trees'[e] = {}
      /\ \A f \in Documents : f # d /\ f # e => held'[f] = held[f] /\ extras'[f] = extras[f] /\ trees'[f] = trees[f]
  BY <1>1, <1>2, HeldMaps
<1>4. /\ held' \in [Documents -> Blocks \cup {NoBlock}]
      /\ extras' \in [Documents -> Seq(Blocks \cup {NoBlock})]
      /\ trees' \in [Documents -> SUBSET (Blocks \cup {User})]
  <2>1. /\ held \in [Documents -> Blocks \cup {NoBlock}]
        /\ extras \in [Documents -> Seq(Blocks \cup {NoBlock})]
        /\ trees \in [Documents -> SUBSET (Blocks \cup {User})]
        /\ <<>> \in Seq(Blocks \cup {NoBlock})
    BY <1>2, HeldMaps, EmptySeq
  <2>2. QED
    BY <1>1, <2>1
<1>5. DOMAIN <<>> = {}
  OBVIOUS
<1>6. /\ Buffers(d)' = Buffers(e)
      /\ Buffers(e)' = {}
      /\ \A f \in Documents : f # d /\ f # e => Buffers(f)' = Buffers(f)
  BY <1>3, <1>5 DEF Buffers, ToSet
<1>7. /\ \A f \in Documents : HeldBy(f)
      /\ \A f \in Documents : Buffers(f) \subseteq memory
      /\ \A f, g \in Documents : f # g => Buffers(f) \cap Buffers(g) = {}
      /\ memory \subseteq Blocks
      /\ \/ "convert own" \in Failing
         \/ \A b \in memory : \E f \in Documents : b \in Buffers(f)
  BY <1>2, HeldSays
<1>8. ASSUME NEW f \in Documents PROVE HeldBy(f)'
  <2>1. CASE f = d
    <3>1. HeldBy(e)
      BY <1>7
    <3>2. held'[f] = held[e] /\ extras'[f] = extras[e] /\ trees'[f] = trees[e] /\ Buffers(f)' = Buffers(e)
      BY <1>3, <1>6, <2>1
    <3>3. QED
      BY <3>1, <3>2 DEF HeldBy
  <2>2. CASE f = e
    <3>1. held'[f] = NoBlock /\ extras'[f] = <<>> /\ trees'[f] = {}
      BY <1>3, <2>2
    <3>2. QED
      BY <1>5, <3>1 DEF HeldBy, Distinct
  <2>3. CASE f # d /\ f # e
    <3>1. HeldBy(f)
      BY <1>7
    <3>2. held'[f] = held[f] /\ extras'[f] = extras[f] /\ trees'[f] = trees[f] /\ Buffers(f)' = Buffers(f)
      BY <1>3, <1>6, <2>3
    <3>3. QED
      BY <3>1, <3>2 DEF HeldBy
  <2>4. QED
    BY <2>1, <2>2, <2>3
<1>9. ASSUME NEW f \in Documents PROVE Buffers(f)' \subseteq memory' \ {}
  <2>1. /\ Buffers(e) \cap Buffers(d) = {}
        /\ f # d => Buffers(f) \cap Buffers(d) = {}
        /\ Buffers(e) \subseteq memory /\ Buffers(f) \subseteq memory
    BY <1>1, <1>7
  <2>2. \/ Buffers(f)' = Buffers(e)
        \/ Buffers(f)' = {}
        \/ f # d /\ Buffers(f)' = Buffers(f)
    BY <1>6
  <2>3. QED
    BY <1>1, <2>1, <2>2
<1>10. ASSUME NEW f \in Documents, NEW g \in Documents, f # g
       PROVE  Buffers(f)' \cap Buffers(g)' = {}
  <2>1. /\ f = d => Buffers(f)' = Buffers(e)
        /\ f = e => Buffers(f)' = {}
        /\ f # d /\ f # e => Buffers(f)' = Buffers(f)
        /\ g = d => Buffers(g)' = Buffers(e)
        /\ g = e => Buffers(g)' = {}
        /\ g # d /\ g # e => Buffers(g)' = Buffers(g)
    BY <1>6
  <2>2. /\ f # e => Buffers(f) \cap Buffers(e) = {}
        /\ g # e => Buffers(e) \cap Buffers(g) = {}
        /\ Buffers(f) \cap Buffers(g) = {}
    BY <1>7, <1>10
  <2>3. QED
    BY <1>10, <2>1, <2>2
<1>11. \/ "convert own" \in Failing
       \/ \A b \in memory' \ {} : \E f \in Documents : b \in Buffers(f)'
  <2>1. SUFFICES ASSUME "convert own" \notin Failing, NEW b \in memory'
                 PROVE  \E f \in Documents : b \in Buffers(f)'
    OBVIOUS
  <2>2. b \in memory /\ b \notin Buffers(d)
    BY <1>1
  <2>3. PICK f \in Documents : b \in Buffers(f)
    BY <1>7, <2>1, <2>2
  <2>4. f # d
    BY <2>2, <2>3
  <2>5. QED
    BY <1>6, <2>3, <2>4
<1>12. HeldInv({})'
  BY <1>1, <1>4, <1>7, <1>8, <1>9, <1>10, <1>11 DEF HeldInv
<1>13. QED
  BY <1>1, <1>12, IdleThen

LEMMA LoadInvNext ==
  ASSUME LoadAssumption, LoadInv, LoadNext
  PROVE  LoadInv'
<1>1. CASE \E d \in Documents, s \in Sources, e \in Encoding :
             LoadFile(d, s, e) \/ LoadStreamSeek(d, s, e) \/ LoadStream(d, s, e)
  <2>1. PICK d \in Documents, s \in Sources, e \in Encoding :
          LoadFile(d, s, e) \/ LoadStreamSeek(d, s, e) \/ LoadStream(d, s, e)
    BY <1>1
  <2>2. s \in Seq(Byte)
    BY DEF LoadAssumption, Byte, Byte
  <2>3. QED
    BY <2>1, <2>2, LoadFileKeeps, LoadStreamSeekKeeps, LoadStreamKeeps
<1>2. CASE \E d \in Documents, e \in Encoding :
             \/ LoadBuffer(d, e, TRUE) \/ LoadBuffer(d, e, FALSE)
             \/ LoadBufferOwn(d, e) \/ AppendBuffer(d, e)
  <2>1. PICK d \in Documents, e \in Encoding :
             \/ LoadBuffer(d, e, TRUE) \/ LoadBuffer(d, e, FALSE)
             \/ LoadBufferOwn(d, e) \/ AppendBuffer(d, e)
    BY <1>2
  <2>2. CASE LoadBuffer(d, e, TRUE)
    BY <2>2, LoadBufferKeeps
  <2>3. CASE LoadBuffer(d, e, FALSE)
    BY <2>3, LoadBufferKeeps
  <2>4. QED
    BY <2>1, <2>2, <2>3, LoadBufferOwnKeeps, AppendBufferKeeps
<1>3. CASE ReadChunk \/ Gather \/ LoadInPlace \/ LoadConverted
  BY <1>3, ReadChunkKeeps, GatherKeeps, LoadInPlaceKeeps, LoadConvertedKeeps
<1>4. CASE \E d, e \in Documents : Clear(d) \/ MoveBuffers(d, e)
  BY <1>4, ClearKeeps, MoveDocumentKeeps
<1>5. QED
  BY <1>1, <1>2, <1>3, <1>4 DEF LoadNext

\* Each hand is of one document, and what it holds is one of its buffers.
LEMMA HeldOnceHolds ==
  ASSUME NEW F, HeldInv(F)
  PROVE  HeldOnce
<1> DEFINE HandsOfAll == {h \in Documents \X (0..MaxExtras) : h[2] <= Len(extras[h[1]])}
           At(h) == IF h[2] = 0 THEN held[h[1]] ELSE extras[h[1]][h[2]]
<1>1. ASSUME NEW h \in HandsOfAll
      PROVE  h[1] \in Documents /\ h[2] \in Nat /\ (h[2] # 0 => h[2] \in DOMAIN extras[h[1]])
  <2>1. h[1] \in Documents /\ h[2] \in 0..MaxExtras /\ h[2] <= Len(extras[h[1]])
    OBVIOUS
  <2>2. PICK s \in Seq(Blocks \cup {NoBlock}) : s = extras[h[1]]
    BY <2>1, HeldMaps
  <2>3. DOMAIN s = 1..Len(s) /\ Len(s) \in Nat
    OBVIOUS
  <2>4. QED
    BY <2>1, <2>2, <2>3
<1>2. ASSUME NEW h \in HandsOfAll, At(h) # NoBlock
      PROVE  At(h) \in Buffers(h[1])
  BY <1>1, <1>2, BuffersAre
<1>3. ASSUME NEW h \in HandsOfAll, NEW i \in HandsOfAll, At(h) # NoBlock, At(h) = At(i)
      PROVE  h = i
  <2>1. h[1] = i[1]
    <3>1. At(h) \in Buffers(h[1]) /\ At(h) \in Buffers(i[1])
      BY <1>2, <1>3
    <3>2. \A d, e \in Documents : d # e => Buffers(d) \cap Buffers(e) = {}
      BY HeldSays
    <3>3. h[1] \in Documents /\ i[1] \in Documents
      BY <1>1
    <3> HIDE DEF At, HandsOfAll
    <3>4. QED
      BY <3>1, <3>2, <3>3
  <2>2. h[2] = i[2]
    <3>1. PICK d \in Documents : d = h[1]
      BY <1>1
    <3>2. /\ Distinct(extras[d])
          /\ held[d] # NoBlock => \A k \in DOMAIN extras[d] : extras[d][k] # held[d]
      BY HeldSays DEF HeldBy
    <3>3. /\ h[2] # 0 => h[2] \in DOMAIN extras[d]
          /\ i[2] # 0 => i[2] \in DOMAIN extras[d]
      BY <1>1, <2>1, <3>1
    <3>4. /\ IF h[2] = 0 THEN At(h) = held[d] ELSE At(h) = extras[d][h[2]]
          /\ IF i[2] = 0 THEN At(i) = held[d] ELSE At(i) = extras[d][i[2]]
      BY <2>1, <3>1
    <3> HIDE DEF At, HandsOfAll
    <3>5. QED
      BY <1>3, <3>2, <3>3, <3>4 DEF Distinct
  <2>3. h = <<h[1], h[2]>> /\ i = <<i[1], i[2]>>
    OBVIOUS
  <2>4. QED
    BY <2>1, <2>2, <2>3
<1>4. \A d \in Documents : Buffers(d) \subseteq memory
  BY HeldSays
<1>5. HeldOnce <=>
        /\ \A h \in {g \in HandsOfAll : At(g) # NoBlock} : At(h) \in memory
        /\ \A h, i \in {g \in HandsOfAll : At(g) # NoBlock} : At(h) = At(i) => h = i
  BY Zenon DEF HeldOnce
<1> HIDE DEF At, HandsOfAll
<1>6. \A h \in {g \in HandsOfAll : At(g) # NoBlock} : At(h) \in memory
  BY <1>1, <1>2, <1>4
<1>7. \A h, i \in {g \in HandsOfAll : At(g) # NoBlock} : At(h) = At(i) => h = i
  BY <1>3
<1>8. QED
  BY <1>5, <1>6, <1>7

LEMMA LoadSound ==
  ASSUME LoadInv
  PROVE  BuffersHeldOnce
<1>1. PICK F : F = Flight /\ HeldInv(F)
  BY DEF LoadInv
<1>2. LoadTypeOK
  <2>1. call.stage \in {"idle", "chunks", "load"}
    BY CallShapes DEF LoadInv
  <2>2. \A d \in Documents : extras[d] \in Seq(Blocks \cup {NoBlock}) /\ trees[d] \subseteq Blocks \cup {User}
    BY <1>1, HeldMaps
  <2>3. memory \subseteq Blocks /\ held \in [Documents -> Blocks \cup {NoBlock}]
    BY <1>1, HeldMaps, HeldSays
  <2>4. QED
    BY <2>1, <2>2, <2>3 DEF LoadTypeOK
<1>3. HeldOnce
  BY <1>1, HeldOnceHolds
<1>4. TreesInMemory
  <2>1. \A d \in Documents : HeldBy(d)
    BY <1>1, HeldSays
  <2>2. QED
    BY <2>1 DEF TreesInMemory, HeldBy
<1>5. LoadedWhole
  <2>1. call.stage # "load" \/ ReadyInv
    BY CallShapes DEF LoadInv
  <2>2. QED
    BY <2>1 DEF LoadedWhole, ReadyInv
<1>6. "convert own" \in Failing \/ NothingLost
  <2>1. SUFFICES ASSUME "convert own" \notin Failing, call = Idle, NEW b \in memory
                 PROVE  b \in UNION {Buffers(d) : d \in Documents}
    BY DEF NothingLost
  <2>2. F = {}
    BY <1>1, <2>1, CallShapes
  <2>3. PICK d \in Documents : b \in Buffers(d)
    BY <1>1, <2>1, <2>2, HeldSays
  <2>4. QED
    BY <2>3
<1>7. QED
  BY <1>2, <1>3, <1>4, <1>5, <1>6 DEF BuffersHeldOnce

\* A document that is loaded, appended to, moved or reset frees each of its
\* buffers once and loses none, whichever call fails (load_buffer_impl and
\* what comes to it): for every number of documents and blocks, every size of
\* the chunks and all contents of the files and streams.
THEOREM BuffersHeldOnceAlways ==
  ASSUME LoadAssumption
  PROVE  LoadSpec => []BuffersHeldOnce
<1>1. LoadInit => LoadInv
  BY LoadInvInit
<1>2. LoadInv /\ [LoadNext]_loadVars => LoadInv'
  BY LoadInvNext, LoadStutters
<1>3. LoadInv => BuffersHeldOnce
  BY LoadSound
<1>4. QED
  BY <1>1, <1>2, <1>3, PTL DEF LoadSpec
-----------------------------------------------------------------------------
(***************************************************************************)
(* What is saved goes through a buffer and reaches the writer in chunks    *)
(* (XmlBufferedWriter).                                                    *)
(***************************************************************************)
Text == Seq(Bytes)

\* A byte inside a character begins none.
LEMMA WidthIs ==
  ASSUME NEW b \in Bytes
  PROVE  Width(b) \in 1..4 /\ (Trail(b) => Width(b) = 1)
BY DEF Bytes, Width, Trail

LEMMA Joined ==
  ASSUME NEW a \in Text, NEW b \in Text, NEW c, c = a \o b
  PROVE  /\ c \in Text /\ Len(c) = Len(a) + Len(b) /\ Len(a) \in Nat /\ Len(b) \in Nat
         /\ \A i \in 1..Len(a) : c[i] = a[i]
         /\ \A i \in 1..Len(b) : c[Len(a) + i] = b[i]
<1>1. /\ a \o b \in Seq(Bytes) /\ Len(a \o b) = Len(a) + Len(b)
      /\ \A i \in 1..(Len(a) + Len(b)) : (a \o b)[i] = IF i <= Len(a) THEN a[i] ELSE b[i - Len(a)]
  BY ConcatProperties DEF Text
<1>2. Len(a) \in Nat /\ Len(b) \in Nat
  BY DEF Text
<1>3. \A i \in 1..Len(a) : c[i] = a[i]
  BY <1>1, <1>2
<1>4. ASSUME NEW i \in 1..Len(b) PROVE c[Len(a) + i] = b[i]
  <2>1. PICK j \in Nat : j = Len(a) + i
    BY <1>2
  <2>2. j \in 1..(Len(a) + Len(b)) /\ ~(j <= Len(a)) /\ j - Len(a) = i
    BY <1>2, <2>1
  <2>3. c[j] = b[j - Len(a)]
    BY <1>1, <2>2
  <2>4. QED
    BY <2>1, <2>2, <2>3
<1>5. QED
  BY <1>1, <1>2, <1>3, <1>4 DEF Text

LEMMA InText ==
  ASSUME NEW w \in Text
  PROVE  Len(w) \in Nat /\ \A i \in 1..Len(w) : w[i] \in Bytes
BY DEF Text

\* Where no character goes on.
LEMMA NotInside ==
  ASSUME NEW w \in Text, NEW p \in Nat, p <= Len(w),
         \/ p < Len(w) /\ ~Trail(w[p + 1])
         \/ p >= 4 /\ \A k \in (p - 3)..p : Trail(w[k])
  PROVE  ~Inside(w, p)
<1>1. SUFFICES ASSUME NEW i \in 1..p, NEW x, x = Width(w[i]), i + x - 1 \in (p + 1)..Len(w),
                      \A k \in (i + 1)..(i + x - 1) : Trail(w[k])
               PROVE  FALSE
  BY DEF Inside
<1>2. Len(w) \in Nat /\ w[i] \in Bytes
  BY InText
<1>3. x \in 1..4 /\ (Trail(w[i]) => x = 1)
  BY <1>1, <1>2, WidthIs
<1>4. CASE p < Len(w) /\ ~Trail(w[p + 1])
  <2>1. p + 1 \in (i + 1)..(i + x - 1)
    BY <1>1, <1>3
  <2>2. QED
    BY <1>1, <1>4, <2>1
<1>5. CASE p >= 4 /\ \A k \in (p - 3)..p : Trail(w[k])
  <2>1. i \in (p - 3)..p
    BY <1>1, <1>3
  <2>2. QED
    BY <1>1, <1>3, <1>5, <2>1
<1>6. QED
  BY <1>4, <1>5

\* Text that is put behind whole characters does not go on with them.
LEMMA InsideGrows ==
  ASSUME NEW w \in Text, NEW data \in Text, NEW v, v = w \o data,
         NEW p \in Nat, p <= Len(w), ~Inside(w, p), ~CutOff(w)
  PROVE  ~Inside(v, p)
<1>2. /\ v \in Text /\ Len(v) = Len(w) + Len(data) /\ Len(w) \in Nat
      /\ \A i \in 1..Len(w) : v[i] = w[i]
  <2>1. v \in Text
    BY Joined
  <2>2. Len(v) = Len(w) + Len(data) /\ Len(w) \in Nat
    BY Joined
  <2>3. \A i \in 1..Len(w) : v[i] = w[i]
    BY Joined
  <2>4. QED
    BY <2>1, <2>2, <2>3
<1>3. SUFFICES ASSUME NEW i \in 1..p, NEW x, x = Width(v[i]), i + x - 1 \in (p + 1)..Len(v),
                      \A k \in (i + 1)..(i + x - 1) : Trail(v[k])
               PROVE  FALSE
  BY DEF Inside
<1>4. v[i] = w[i] /\ i \in 1..Len(w) /\ x \in 1..4
  <2>1. i \in 1..Len(w)
    BY <1>2
  <2>2. QED
    BY <1>2, <1>3, <2>1, InText, WidthIs
<1>5. CASE i + x - 1 <= Len(w)
  <2>1. \A k \in (i + 1)..(i + x - 1) : Trail(w[k])
    <3>1. \A k \in (i + 1)..(i + x - 1) : k \in 1..Len(w)
      BY <1>2, <1>4, <1>5
    <3>2. QED
      BY <1>2, <1>3, <3>1
  <2>2. i + x - 1 \in (p + 1)..Len(w)
    BY <1>2, <1>3, <1>5
  <2>3. QED
    BY <1>3, <1>4, <2>1, <2>2 DEF Inside
<1>6. CASE i + x - 1 > Len(w)
  <2>1. \A k \in (i + 1)..Len(w) : Trail(w[k])
    <3>1. \A k \in (i + 1)..Len(w) : k \in 1..Len(w) /\ k \in (i + 1)..(i + x - 1)
      BY <1>2, <1>4, <1>6
    <3>2. QED
      BY <1>2, <1>3, <3>1
  <2>2. QED
    BY <1>3, <1>4, <1>6, <2>1 DEF CutOff
<1>7. QED
  BY <1>2, <1>4, <1>5, <1>6

LEMMA CutOffJoins ==
  ASSUME NEW w \in Text, NEW data \in Text, NEW v, v = w \o data,
         ~CutOff(w), ~CutOff(data)
  PROVE  ~CutOff(v)
<1>2. /\ v \in Text /\ Len(v) = Len(w) + Len(data) /\ Len(w) \in Nat /\ Len(data) \in Nat
      /\ \A i \in 1..Len(w) : v[i] = w[i]
      /\ \A i \in 1..Len(data) : v[Len(w) + i] = data[i]
  <2>1. v \in Text
    BY Joined
  <2>2. Len(v) = Len(w) + Len(data) /\ Len(w) \in Nat /\ Len(data) \in Nat
    BY Joined
  <2>3. \A i \in 1..Len(w) : v[i] = w[i]
    BY Joined
  <2>4. \A i \in 1..Len(data) : v[Len(w) + i] = data[i]
    BY Joined
  <2>5. QED
    BY <2>1, <2>2, <2>3, <2>4
<1>3. SUFFICES ASSUME NEW i \in 1..Len(v), NEW x, x = Width(v[i]), i + x - 1 > Len(v),
                      \A k \in (i + 1)..Len(v) : Trail(v[k])
               PROVE  FALSE
  BY DEF CutOff
<1>4. x \in 1..4
  BY <1>2, <1>3, InText, WidthIs
<1>5. CASE i <= Len(w)
  <2>1. i \in 1..Len(w) /\ v[i] = w[i] /\ i + x - 1 > Len(w)
    BY <1>2, <1>3, <1>4, <1>5
  <2>2. \A k \in (i + 1)..Len(w) : Trail(w[k])
    <3>1. \A k \in (i + 1)..Len(w) : k \in 1..Len(w) /\ k \in (i + 1)..Len(v)
      BY <1>2, <1>5
    <3>2. QED
      BY <1>2, <1>3, <3>1
  <2>3. QED
    BY <1>3, <2>1, <2>2 DEF CutOff
<1>6. CASE i > Len(w)
  <2>1. PICK j \in Nat : j = i - Len(w)
    <3>1. i \in Nat /\ i - Len(w) \in Nat
      BY <1>2, <1>6
    <3>2. QED
      BY <3>1
  <2>2. j \in 1..Len(data) /\ i = Len(w) + j /\ j + x - 1 > Len(data)
    BY <1>2, <1>3, <1>4, <1>6, <2>1
  <2>3. v[i] = data[j]
    BY <1>2, <2>2
  <2>4. ASSUME NEW k \in (j + 1)..Len(data) PROVE Trail(data[k])
    <3>1. PICK m \in Nat : m = Len(w) + k
      BY <1>2, <2>2
    <3>2. k \in 1..Len(data) /\ m \in (i + 1)..Len(v)
      BY <1>2, <2>2, <3>1
    <3>3. v[m] = data[k]
      BY <1>2, <3>1, <3>2
    <3>4. QED
      BY <1>3, <3>2, <3>3
  <2>5. QED
    BY <1>3, <2>2, <2>3, <2>4 DEF CutOff
<1>7. QED
  BY <1>2, <1>5, <1>6

LEMMA EdgeNotInside ==
  ASSUME NEW a \in Text, NEW b \in Text, NEW w, w = a \o b, ~CutOff(a)
  PROVE  ~Inside(w, Len(a))
<1>1. /\ Len(w) = Len(a) + Len(b) /\ Len(a) \in Nat /\ Len(b) \in Nat
      /\ \A i \in 1..Len(a) : w[i] = a[i]
  BY Joined
<1>2. SUFFICES ASSUME NEW i \in 1..Len(a), NEW x, x = Width(w[i]), i + x - 1 \in (Len(a) + 1)..Len(w),
                      \A k \in (i + 1)..(i + x - 1) : Trail(w[k])
               PROVE  FALSE
  BY DEF Inside
<1>3. w[i] = a[i] /\ x \in 1..4
  <2>1. w[i] = a[i]
    BY <1>1
  <2>2. QED
    BY <1>2, <2>1, InText, WidthIs
<1>4. \A k \in (i + 1)..Len(a) : Trail(a[k])
  <2>1. \A k \in (i + 1)..Len(a) : k \in 1..Len(a) /\ k \in (i + 1)..(i + x - 1)
    BY <1>1, <1>2, <1>3
  <2>2. QED
    BY <1>1, <1>2, <2>1
<1>5. i + x - 1 > Len(a)
  BY <1>1, <1>2, <1>3
<1>6. QED
  BY <1>2, <1>3, <1>4, <1>5 DEF CutOff

\* get_valid_length()
LEMMA ValidLengthIs ==
  ASSUME NEW data \in Text, NEW n, n = Len(data), n >= 5, NEW v, v = ValidLength(data)
  PROVE  /\ v \in 1..n
         /\ \/ v < n /\ ~Trail(data[v + 1])
            \/ v = n /\ \A k \in (n - 3)..n : Trail(data[k])
<1> DEFINE begins == {i \in 1..4 : ~Trail(data[n - i + 1])}
<1>1. n \in Nat
  BY InText
<1>2. v = IF begins = {} THEN n ELSE n - CHOOSE i \in begins : \A j \in begins : i <= j
  BY <1>1 DEF ValidLength
<1>3. CASE begins = {}
  <2>1. ASSUME NEW k \in (n - 3)..n PROVE Trail(data[k])
    <3>1. PICK i \in 1..4 : i = n - k + 1
      BY <1>1
    <3>2. n - i + 1 = k
      BY <1>1, <3>1
    <3>3. QED
      BY <1>3, <3>2
  <2>2. QED
    BY <1>1, <1>2, <1>3, <2>1
<1>4. CASE begins # {}
  <2>1. \E i \in begins : \A j \in begins : i <= j
    <3>1. begins \subseteq Nat
      OBVIOUS
    <3> HIDE DEF begins
    <3>2. QED
      BY <1>4, <3>1, SetMin
  <2>2. PICK i \in begins : i = CHOOSE k \in begins : \A j \in begins : k <= j
    <3> HIDE DEF begins
    <3>1. QED
      BY <2>1
  <2>3. v = n - i
    BY <1>2, <1>4, <2>2
  <2>4. i \in 1..4 /\ ~Trail(data[n - i + 1])
    BY <2>2
  <2>5. n - i + 1 = v + 1 /\ v \in 1..n /\ v < n
    BY <1>1, <2>3, <2>4
  <2>6. QED
    BY <2>4, <2>5
<1>5. QED
  BY <1>3, <1>4

Lists == Seq(Text \ {<<>>})

\* The chunks s and the rest are w.
Sound(s, rest, w) == s \in Lists /\ rest \in Text /\ w \in Text /\ FlattenSeq(s) \o rest = w

\* Each chunk of w can be converted by itself.
Cut(s, w) ==
  \A k \in DOMAIN s : /\ Len(s[k]) \in 1..Capacity
                      /\ Len(FlattenSeq(SubSeq(s, 1, k))) \in 0..Len(w)
                      /\ ~Inside(w, Len(FlattenSeq(SubSeq(s, 1, k))))

LEMMA NoChunks ==
  ASSUME NEW w \in Text
  PROVE  Sound(<<>>, w, w) /\ Cut(<<>>, w)
<1>1. <<>> \in Lists /\ FlattenSeq(<<>>) = <<>> /\ <<>> \o w = w /\ DOMAIN <<>> = {}
  <2>1. FlattenSeq(<<>>) = <<>>
    BY FlattenAppend, EmptySeq
  <2>2. QED
    BY <2>1, ConcatEmptySeq, EmptySeq DEF Lists, Text
<1>2. QED
  BY <1>1 DEF Sound, Cut

\* A chunk more, off what is left.
LEMMA Sending ==
  ASSUME NEW s, NEW x \in Text, x # <<>>, NEW y \in Text, NEW w, Sound(s, x \o y, w)
  PROVE  /\ Sound(Append(s, x), y, w) /\ FlattenSeq(s) \in Text /\ Append(s, x) = s \o <<x>>
         /\ FlattenSeq(Append(s, x)) = FlattenSeq(s) \o x
<1>1. s \in Lists /\ w \in Text /\ FlattenSeq(s) \o (x \o y) = w
  BY DEF Sound
<1>2. s \in Seq(Text) /\ x \in Text \ {<<>>}
  BY <1>1 DEF Lists
<1>3. FlattenSeq(s) \in Text /\ FlattenSeq(Append(s, x)) = FlattenSeq(s) \o x
  BY <1>2, FlattenAppend DEF Text
<1>4. (FlattenSeq(s) \o x) \o y = w
  <2> DEFINE f == FlattenSeq(s)
  <2> HIDE DEF f
  <2>1. f \in Seq(Bytes) /\ x \in Seq(Bytes) /\ y \in Seq(Bytes)
    BY <1>3 DEF f, Text
  <2>2. (f \o x) \o y = f \o (x \o y)
    BY <2>1, JoinTypes
  <2>3. QED
    BY <1>1, <2>2 DEF f
<1>5. Append(s, x) \in Lists
  BY <1>1, <1>2, PushType DEF Lists
<1>6. Append(s, x) = s \o <<x>>
  BY <1>2, AppendIsConcat
<1>7. QED
  BY <1>1, <1>3, <1>4, <1>5, <1>6 DEF Sound

LEMMA SendingCut ==
  ASSUME NEW s, NEW x \in Text, x # <<>>, NEW y \in Text, NEW w, Sound(s, x \o y, w),
         Cut(s, w), Len(x) <= Capacity, Capacity \in Nat,
         NEW p, p = Len(FlattenSeq(s)) + Len(x), ~Inside(w, p)
  PROVE  Cut(Append(s, x), w)
<1> DEFINE a == Append(s, x)
<1>1. s \in Seq(Text \ {<<>>}) /\ x \in Text \ {<<>>}
  BY DEF Sound, Lists
<1>2. /\ a \in Seq(Text \ {<<>>}) /\ Len(a) = Len(s) + 1 /\ Len(s) \in Nat /\ a[Len(s) + 1] = x
      /\ \A i \in 1..Len(s) : a[i] = s[i]
  BY <1>1
<1>3. FlattenSeq(a) = FlattenSeq(s) \o x /\ FlattenSeq(s) \in Text
  BY Sending
<1>4. Len(FlattenSeq(a)) = p /\ p \in 0..Len(w) /\ Len(x) \in 1..Capacity
  <2>1. p = Len(FlattenSeq(s) \o x) /\ p \in Nat
    <3> DEFINE f == FlattenSeq(s)
    <3> HIDE DEF f
    <3>1. f \in Seq(Bytes) /\ x \in Seq(Bytes)
      BY <1>3 DEF f, Text
    <3>2. Len(f \o x) = Len(f) + Len(x) /\ Len(f) \in Nat /\ Len(x) \in Nat
      BY <3>1, JoinTypes
    <3>3. QED
      BY <3>2 DEF f
  <2>2. p <= Len(w)
    <3> DEFINE f == FlattenSeq(s) \o x
    <3>1. f \o y = w /\ f \in Text
      <4>1. Sound(Append(s, x), y, w) /\ FlattenSeq(Append(s, x)) = f
        BY Sending
      <4>2. FlattenSeq(s) \in Seq(Bytes) /\ x \in Seq(Bytes)
        BY <1>3 DEF Text
      <4>3. f \in Seq(Bytes)
        BY <4>2, JoinTypes
      <4>4. QED
        BY <4>1, <4>3 DEF Sound, Text
    <3>2. Len(f \o y) = Len(f) + Len(y) /\ Len(f) \in Nat /\ Len(y) \in Nat
      <4> HIDE DEF f
      <4>1. QED
        BY <3>1, JoinTypes DEF Text
    <3>3. QED
      BY <2>1, <3>1, <3>2
  <2>3. Len(x) \in 1..Capacity
    <3>1. Len(x) \in Nat /\ Len(x) # 0
      BY DEF Text
    <3>2. QED
      BY <3>1
  <2>4. QED
    BY <1>3, <2>1, <2>2, <2>3
<1>5. /\ \A k \in 1..Len(s) : SubSeq(a, 1, k) = SubSeq(s, 1, k)
      /\ SubSeq(a, 1, Len(s) + 1) = a
  BY <1>1, <1>2, PrefixOfAppend
<1>6. DOMAIN a = 1..(Len(s) + 1) /\ DOMAIN s = 1..Len(s)
  BY <1>1, <1>2
<1> HIDE DEF a
<1>7. SUFFICES ASSUME NEW k \in DOMAIN a
               PROVE  /\ Len(a[k]) \in 1..Capacity
                      /\ Len(FlattenSeq(SubSeq(a, 1, k))) \in 0..Len(w)
                      /\ ~Inside(w, Len(FlattenSeq(SubSeq(a, 1, k))))
  BY DEF Cut, a
<1>8. CASE k = Len(s) + 1
  BY <1>2, <1>4, <1>5, <1>8
<1>9. CASE k # Len(s) + 1
  <2>1. k \in DOMAIN s /\ k \in 1..Len(s)
    BY <1>2, <1>6, <1>7, <1>9
  <2>2. a[k] = s[k] /\ SubSeq(a, 1, k) = SubSeq(s, 1, k)
    BY <1>2, <1>5, <2>1
  <2>3. QED
    BY <2>1, <2>2 DEF Cut
<1>10. QED
  BY <1>8, <1>9

LEMMA JoinBytes ==
  ASSUME NEW a \in Seq(Bytes), NEW b \in Seq(Bytes), NEW c \in Seq(Bytes)
  PROVE  (a \o b) \o c = a \o (b \o c)
BY ConcatAssociative

\* More is written.
LEMMA Growing ==
  ASSUME NEW s, NEW rest, NEW w, Sound(s, rest, w), NEW data \in Text, NEW v, v = w \o data
  PROVE  /\ Sound(s, rest \o data, v)
         /\ Cut(s, w) /\ ~CutOff(w) => Cut(s, v)
<1>1. s \in Lists /\ rest \in Text /\ w \in Text /\ FlattenSeq(s) \o rest = w
  BY DEF Sound
<1>2. v \in Text /\ Len(w) \in Nat /\ Len(v) >= Len(w) /\ Len(v) \in Nat
  <2>1. v \in Text
    BY <1>1, Joined
  <2>2. Len(v) = Len(w) + Len(data) /\ Len(w) \in Nat /\ Len(data) \in Nat
    BY <1>1, Joined
  <2>3. QED
    BY <2>1, <2>2
<1>3. Sound(s, rest \o data, v)
  <2> DEFINE f == FlattenSeq(s)
  <2>1. f \in Seq(Bytes)
    <3>1. s \in Seq(Text) /\ <<>> \in Text
      BY <1>1 DEF Lists, Text
    <3>2. QED
      BY <3>1, FlattenAppend DEF Text
  <2> HIDE DEF f
  <2>2. rest \in Seq(Bytes) /\ data \in Seq(Bytes)
    BY <1>1 DEF Text
  <2>3. rest \o data \in Seq(Bytes) /\ (f \o rest) \o data = f \o (rest \o data)
    <3>1. rest \o data \in Seq(Bytes)
      BY <2>2, JoinTypes
    <3>2. (f \o rest) \o data = f \o (rest \o data)
      BY <2>1, <2>2, JoinBytes
    <3>3. QED
      BY <3>1, <3>2
  <2>4. QED
    BY <1>1, <1>2, <2>3 DEF f, Sound, Text
<1>4. ASSUME Cut(s, w), ~CutOff(w), NEW k \in DOMAIN s
      PROVE  /\ Len(s[k]) \in 1..Capacity
             /\ Len(FlattenSeq(SubSeq(s, 1, k))) \in 0..Len(v)
             /\ ~Inside(v, Len(FlattenSeq(SubSeq(s, 1, k))))
  <2> DEFINE e == Len(FlattenSeq(SubSeq(s, 1, k)))
  <2>1. Len(s[k]) \in 1..Capacity /\ e \in 0..Len(w) /\ ~Inside(w, e)
    BY <1>4 DEF Cut
  <2> HIDE DEF e
  <2>2. e \in Nat /\ e <= Len(w)
    BY <1>2, <2>1
  <2>3. ~Inside(v, e)
    BY <1>1, <1>4, <2>1, <2>2, InsideGrows
  <2>4. QED
    BY <1>2, <2>1, <2>3 DEF e
<1>5. QED
  BY <1>3, <1>4 DEF Cut

\* How much of data from o on can be converted, and what is then taken.
Valid(data, o) == ValidLength(SubSeq(data, o + 1, o + Capacity))

LEMMA ChunksAre ==
  ASSUME NEW data, NEW M \in Nat, M = Len(data), Capacity \in Nat,
         \A o \in Nat : M - o > Capacity => Valid(data, o) \in 1..Capacity
  PROVE  \E f : /\ Chunks(data) = f[0]
                /\ \A o \in Nat : f[o] = IF M - o <= Capacity THEN <<>>
                                         ELSE <<Part(data, o, Valid(data, o))>> \o f[o + Valid(data, o)]
<1> DEFINE stop == {o \in Nat : M - o <= Capacity}
           take == [o \in Nat |-> <<Part(data, o, Valid(data, o))>>]
           next == [o \in Nat |-> o + Valid(data, o)]
           Solves(f) == f = [o \in Nat |->
             IF Len(data) - o <= Capacity THEN <<>>
             ELSE LET n == ValidLength(SubSeq(data, o + 1, o + Capacity))
                  IN  <<SubSeq(data, o + 1, o + n)>> \o f[o + n]]
           Steps(f) == \A o \in Nat : f[o] = IF M - o <= Capacity THEN <<>>
                                             ELSE <<Part(data, o, Valid(data, o))>> \o f[o + Valid(data, o)]
<1>1. \E f : Descends(f, Nat, stop, take, next)
  <2>1. \A o \in Nat : o \notin stop => o < M /\ next[o] \in Nat /\ next[o] > o
    <3>1. SUFFICES ASSUME NEW o \in Nat, o \notin stop PROVE o < M /\ next[o] \in Nat /\ next[o] > o
      OBVIOUS
    <3>2. M - o > Capacity /\ next[o] = o + Valid(data, o)
      BY <3>1
    <3>3. Valid(data, o) \in 1..Capacity
      BY <3>2
    <3>4. QED
      BY <3>2, <3>3
  <2> HIDE DEF stop, take, next
  <2>2. QED
    BY <2>1, DescentExists
<1>2. PICK f : Descends(f, Nat, stop, take, next)
  BY <1>1
<1>3. Solves(f)
  <2>1. \A o \in Nat : (o \in stop) <=> M - o <= Capacity
    OBVIOUS
  <2>2. \A o \in Nat : take[o] \o f[next[o]] = LET n == ValidLength(SubSeq(data, o + 1, o + Capacity))
                                             IN  <<SubSeq(data, o + 1, o + n)>> \o f[o + n]
    BY Zenon DEF Valid, Part
  <2> HIDE DEF stop, take, next
  <2>3. f = [o \in Nat |-> IF o \in stop THEN <<>> ELSE take[o] \o f[next[o]]]
    BY <1>2, Zenon DEF Descends
  <2>4. QED
    BY <2>1, <2>2, <2>3, Zenon
<1>4. \E g : Solves(g)
  BY <1>3, Zenon
<1> DEFINE c == CHOOSE g : Solves(g)
<1>5. Solves(c)
  <2> HIDE DEF Solves
  <2>1. QED
    BY <1>4, Zenon
<1>6. Chunks(data) = c[0]
  BY Zenon DEF Chunks
<1>7. Steps(c)
  <2> HIDE DEF c
  <2>1. \A o \in Nat : c[o] = IF Len(data) - o <= Capacity THEN <<>>
             ELSE LET n == ValidLength(SubSeq(data, o + 1, o + Capacity))
                  IN  <<SubSeq(data, o + 1, o + n)>> \o c[o + n]
    BY <1>5, Zenon
  <2>2. QED
    BY <2>1, Zenon DEF Valid, Part
<1> HIDE DEF c
<1>8. QED
  BY <1>6, <1>7, Zenon

\* What can be converted of Capacity bytes and more.
LEMMA ValidIs ==
  ASSUME OutputAssumption, NEW data \in Text, NEW o \in Nat, Len(data) - o > Capacity,
         NEW v, v = Valid(data, o)
  PROVE  /\ v \in 1..Capacity /\ Capacity >= 8 /\ Capacity \in Nat
         /\ \/ v < Capacity /\ ~Trail(data[o + v + 1])
            \/ v = Capacity /\ \A k \in (Capacity - 3)..Capacity : Trail(data[o + k])
<1>1. Capacity \in Nat /\ Capacity >= 8
  BY DEF OutputAssumption
<1>2. Len(data) \in Nat /\ data \in Seq(Bytes)
  BY DEF Text
<1> DEFINE fits == Part(data, o, Capacity)
<1>3. /\ fits \in Seq(Bytes) /\ Len(fits) = Capacity
      /\ \A j \in 1..Capacity : fits[j] = data[o + j]
  <2>1. o + Capacity <= Len(data)
    BY <1>1, <1>2
  <2>2. QED
    BY <1>1, <1>2, <2>1, PartIs
<1>4. v = ValidLength(fits)
  BY DEF Valid, Part
<1> HIDE DEF fits
<1>5. /\ v \in 1..Capacity
      /\ \/ v < Capacity /\ ~Trail(fits[v + 1])
         \/ v = Capacity /\ \A k \in (Capacity - 3)..Capacity : Trail(fits[k])
  <2>1. PICK n : n = Capacity /\ n = Len(fits) /\ n >= 5
    BY <1>1, <1>3
  <2>2. fits \in Text
    BY <1>3 DEF Text
  <2>3. /\ v \in 1..n
        /\ \/ v < n /\ ~Trail(fits[v + 1])
           \/ v = n /\ \A k \in (n - 3)..n : Trail(fits[k])
    BY <1>4, <2>1, <2>2, ValidLengthIs
  <2>4. QED
    BY <2>1, <2>3
<1>6. CASE v < Capacity /\ ~Trail(fits[v + 1])
  <2>0. PICK j : j = v + 1
    OBVIOUS
  <2>1. j \in 1..Capacity /\ o + j = o + v + 1
    BY <1>1, <1>5, <1>6, <2>0
  <2>2. fits[j] = data[o + v + 1]
    <3>1. \A k \in 1..Capacity : \A i : i = o + k => fits[k] = data[i]
      BY <1>3
    <3>2. PICK i : i = o + v + 1
      OBVIOUS
    <3>3. i = o + j
      BY <2>1, <3>2
    <3>4. fits[j] = data[i]
      BY <2>1, <3>1, <3>3, Zenon
    <3>5. QED
      BY <3>2, <3>4
  <2>3. QED
    BY <1>1, <1>5, <1>6, <2>0, <2>1, <2>2
<1>7. CASE v = Capacity /\ \A k \in (Capacity - 3)..Capacity : Trail(fits[k])
  <2>1. \A k \in (Capacity - 3)..Capacity : k \in 1..Capacity
    BY <1>1
  <2>2. \A k \in (Capacity - 3)..Capacity : Trail(data[o + k])
    BY <1>3, <1>7, <2>1
  <2>3. QED
    BY <1>1, <1>5, <1>7, <2>2
<1>8. QED
  BY <1>5, <1>6, <1>7

\* It ends where no character goes on, wherever data comes to stand.
LEMMA ValidEdge ==
  ASSUME OutputAssumption, NEW f \in Text, NEW r \in Text, NEW w, w = f \o r, NEW v \in 1..Capacity,
         v <= Len(r),
         \/ v < Len(r) /\ ~Trail(r[v + 1])
         \/ v >= 4 /\ \A k \in (v - 3)..v : Trail(r[k])
  PROVE  ~Inside(w, Len(f) + v)
<1>1. v \in Nat /\ v >= 1
  BY DEF OutputAssumption
<1>2. w \in Text
  BY Joined
<1>3. Len(w) = Len(f) + Len(r) /\ Len(f) \in Nat /\ Len(r) \in Nat
  BY Joined
<1>4. \A i \in 1..Len(r) : w[Len(f) + i] = r[i]
  BY Joined
<1>5. PICK p \in Nat : p = Len(f) + v
  BY <1>1, <1>3
<1>6. p <= Len(w)
  BY <1>1, <1>3, <1>5
<1>7. CASE v < Len(r) /\ ~Trail(r[v + 1])
  <2>1. p < Len(w) /\ v + 1 \in 1..Len(r) /\ p + 1 = Len(f) + (v + 1)
    BY <1>1, <1>3, <1>5, <1>7
  <2>2. w[p + 1] = r[v + 1]
    BY <1>4, <2>1
  <2>3. ~Inside(w, p)
    BY <1>2, <1>6, <1>7, <2>1, <2>2, NotInside
  <2>4. QED
    BY <1>5, <2>3
<1>8. CASE v >= 4 /\ \A k \in (v - 3)..v : Trail(r[k])
  <2>1. ASSUME NEW k \in (p - 3)..p PROVE Trail(w[k])
    <3>1. PICK j \in Nat : j = k - Len(f)
      <4>1. k - Len(f) \in Nat
        BY <1>1, <1>3, <1>5, <1>8
      <4>2. QED
        BY <4>1
    <3>2. j \in (v - 3)..v /\ j \in 1..Len(r) /\ k = Len(f) + j
      BY <1>1, <1>3, <1>5, <1>8, <3>1
    <3>3. w[k] = r[j]
      BY <1>4, <3>2
    <3>4. QED
      BY <1>8, <3>2, <3>3
  <2>2. p >= 4
    BY <1>1, <1>3, <1>5, <1>8
  <2>3. ~Inside(w, p)
    BY <1>2, <1>6, <2>1, <2>2, NotInside
  <2>4. QED
    BY <1>5, <2>3
<1>9. QED
  BY <1>7, <1>8

\* The chunks t take data from o to q.
Handed(s, data, o, t, q) ==
  \A w : Sound(s, Rest(data, o), w) =>
           Sound(s \o t, Rest(data, q), w) /\ (Cut(s, w) => Cut(s \o t, w))

\* The chunks t may follow any others when data is left from o on.
Carries(t, data, o) ==
  /\ t \in Lists
  /\ \E q \in o..Len(data) : Len(data) - q <= Capacity /\ \A s : Handed(s, data, o, t, q)

LEMMA CarriesNone ==
  ASSUME Capacity \in Nat, NEW data \in Text, NEW o \in 0..Len(data), Len(data) - o <= Capacity
  PROVE  Carries(<<>>, data, o)
<1>1. o \in o..Len(data) /\ <<>> \in Lists
  BY EmptySeq DEF Text, Lists
<1>2. ASSUME NEW s, NEW w, Sound(s, Rest(data, o), w)
      PROVE  s \o <<>> = s
  BY <1>2, ConcatEmptySeq DEF Sound, Lists
<1>3. \A s : Handed(s, data, o, <<>>, o)
  BY <1>2 DEF Handed
<1>4. QED
  BY <1>1, <1>3 DEF Carries

LEMMA CarriesMore ==
  ASSUME OutputAssumption, NEW data \in Text, NEW o \in 0..Len(data), Len(data) - o > Capacity,
         NEW v, v = Valid(data, o), NEW t, Carries(t, data, o + v)
  PROVE  Carries(<<Part(data, o, v)>> \o t, data, o)
<1> DEFINE x == Part(data, o, v)
           r == Rest(data, o)
           y == Rest(data, o + v)
<1>1. /\ v \in 1..Capacity /\ Capacity >= 8 /\ Capacity \in Nat
      /\ \/ v < Capacity /\ ~Trail(data[o + v + 1])
         \/ v = Capacity /\ \A k \in (Capacity - 3)..Capacity : Trail(data[o + k])
  <2>1. o \in Nat
    BY DEF Text
  <2>2. QED
    BY <2>1, ValidIs
<1>2. data \in Seq(Bytes) /\ Len(data) \in Nat /\ o \in Nat /\ v \in Nat /\ o + v < Len(data)
  BY <1>1 DEF Text
<1>3. /\ x \in Text /\ Len(x) = v /\ x # <<>> /\ Len(x) <= Capacity
  <2>1. x \in Seq(Bytes) /\ Len(x) = v
    BY <1>2, PartIs
  <2> HIDE DEF x
  <2>2. QED
    BY <1>1, <2>1 DEF Text
<1>4. /\ r \in Text /\ Len(r) = Len(data) - o
      /\ \A j \in 1..(Len(data) - o) : r[j] = data[o + j]
  BY <1>2, RestIs DEF Text
<1>5. y \in Text
  <2>1. o + v \in 0..Len(data)
    BY <1>2
  <2>2. QED
    BY <1>2, <2>1, RestIs DEF Text
<1>6. x \o y = r
  <2>1. o + v <= Len(data)
    BY <1>2
  <2>2. QED
    BY <1>2, <2>1, PartThenRest
<1>7. t \in Lists
  BY DEF Carries
<1>8. PICK q \in (o + v)..Len(data) : Len(data) - q <= Capacity /\ \A s : Handed(s, data, o + v, t, q)
  BY DEF Carries
<1> HIDE DEF x, y, r
<1>9. ASSUME NEW s, NEW w, Sound(s, r, w)
      PROVE  /\ Sound(s \o (<<x>> \o t), Rest(data, q), w)
             /\ Cut(s, w) => Cut(s \o (<<x>> \o t), w)
  <2> DEFINE a == Append(s, x)
             f == FlattenSeq(s)
  <2>1. Sound(s, x \o y, w)
    BY <1>6, <1>9
  <2>2. Sound(a, y, w) /\ f \in Text /\ a = s \o <<x>>
    BY <1>3, <1>5, <2>1, Sending
  <2>3. s \o (<<x>> \o t) = a \o t
    <3>1. s \in Seq(Text \ {<<>>}) /\ x \in Text \ {<<>>} /\ t \in Seq(Text \ {<<>>})
      BY <1>3, <1>7, <1>9 DEF Sound, Lists
    <3>2. QED
      BY <3>1, AppendRest
  <2>5. Cut(s, w) => Cut(a, w)
    <3>1. PICK p : p = Len(f) + Len(x)
      OBVIOUS
    <3>2. ~Inside(w, p)
      <4>1. w = f \o r
        BY <1>9 DEF Sound
      <4>2. v <= Len(r)
        BY <1>1, <1>2, <1>4
      <4>3. \/ v < Len(r) /\ ~Trail(r[v + 1])
            \/ v >= 4 /\ \A k \in (v - 3)..v : Trail(r[k])
        <5>1. CASE v < Capacity /\ ~Trail(data[o + v + 1])
          <6>0. PICK j : j = v + 1
            OBVIOUS
          <6>1. j \in 1..(Len(data) - o) /\ o + j = o + v + 1
            BY <1>1, <1>2, <6>0
          <6>2. r[j] = data[o + v + 1]
            <7>1. \A k \in 1..(Len(data) - o) : \A i : i = o + k => r[k] = data[i]
              BY <1>4
            <7>2. PICK i : i = o + v + 1
              OBVIOUS
            <7>3. i = o + j
              BY <6>1, <7>2
            <7>4. r[j] = data[i]
              BY <6>1, <7>1, <7>3, Zenon
            <7>5. QED
              BY <7>2, <7>4
          <6>3. v < Len(r)
            BY <1>2, <1>4
          <6>4. QED
            BY <5>1, <6>0, <6>1, <6>2, <6>3
        <5>2. CASE v = Capacity /\ \A k \in (Capacity - 3)..Capacity : Trail(data[o + k])
          <6>1. \A k \in (v - 3)..v : k \in 1..(Len(data) - o)
            BY <1>1, <1>2, <5>2
          <6>2. \A k \in (v - 3)..v : Trail(r[k])
            BY <1>4, <5>2, <6>1
          <6>3. QED
            BY <1>1, <5>2, <6>2
        <5>3. QED
          BY <1>1, <5>1, <5>2
      <4>4. ~Inside(w, Len(f) + v)
        <5> HIDE DEF f
        <5>1. QED
          BY <1>1, <1>4, <2>2, <4>1, <4>2, <4>3, ValidEdge
      <4>5. QED
        BY <1>3, <3>1, <4>4
    <3>3. QED
      BY <1>1, <1>3, <1>5, <2>1, <3>1, <3>2, SendingCut
  <2> HIDE DEF a, f
  <2>6. Sound(a \o t, Rest(data, q), w) /\ (Cut(a, w) => Cut(a \o t, w))
    BY <1>8, <2>2 DEF Handed, y
  <2>7. QED
    BY <2>3, <2>5, <2>6
<1>10. \A s : Handed(s, data, o, <<x>> \o t, q)
  BY <1>9 DEF Handed, r
<1>11. q \in o..Len(data)
  BY <1>2
<1>12. <<x>> \o t \in Lists
  <2>1. x \in Text \ {<<>>} /\ <<>> \in Seq(Text \ {<<>>})
    BY <1>3
  <2>2. QED
    BY <1>7, <2>1, AppendRest DEF Lists
<1>13. QED
  BY <1>8, <1>10, <1>11, <1>12 DEF Carries, x

\* write_direct(): the chunks of data may follow any others, and what is left fits the buffer.
LEMMA ChunksIs ==
  ASSUME OutputAssumption, NEW data \in Text, NEW c, c = Chunks(data), NEW q, q = Len(FlattenSeq(c))
  PROVE  /\ c \in Lists /\ q \in 0..Len(data) /\ Len(data) - q <= Capacity
         /\ \A s : Handed(s, data, 0, c, q)
<1> DEFINE M == Len(data)
<1>1. M \in Nat /\ Capacity \in Nat
  BY DEF Text, OutputAssumption
<1>2. \A o \in Nat : M - o > Capacity => Valid(data, o) \in 1..Capacity
  BY ValidIs
<1>3. PICK f : /\ Chunks(data) = f[0]
               /\ \A o \in Nat : f[o] = IF M - o <= Capacity THEN <<>>
                                        ELSE <<Part(data, o, Valid(data, o))>> \o f[o + Valid(data, o)]
  BY <1>1, <1>2, ChunksAre
<1> DEFINE N == {m \in Nat : \A o \in 0..M : M - o <= m => Carries(f[o], data, o)}
<1> HIDE DEF M
<1>4. ASSUME NEW o \in 0..M, M - o <= Capacity PROVE Carries(f[o], data, o)
  <2>1. o \in Nat /\ f[o] = <<>>
    <3>1. o \in Nat
      BY <1>1
    <3>2. f[o] = IF M - o <= Capacity THEN <<>>
                 ELSE <<Part(data, o, Valid(data, o))>> \o f[o + Valid(data, o)]
      BY <1>3, <3>1
    <3>3. QED
      BY <1>4, <3>1, <3>2, Zenon
  <2>2. Carries(<<>>, data, o)
    BY <1>1, <1>4, CarriesNone DEF M
  <2>3. QED
    BY <2>1, <2>2
<1>5. 0 \in N
  <2>1. ASSUME NEW o \in 0..M, M - o <= 0 PROVE Carries(f[o], data, o)
    BY <1>1, <1>4, <2>1
  <2>2. QED
    BY <2>1
<1>6. ASSUME NEW m \in Nat, m \in N PROVE m + 1 \in N
  <2>1. ASSUME NEW o \in 0..M, M - o <= m + 1, M - o > Capacity PROVE Carries(f[o], data, o)
    <3>1. PICK v : v = Valid(data, o)
      OBVIOUS
    <3>2. o \in Nat /\ v \in 1..Capacity
      BY <1>1, <1>2, <2>1, <3>1
    <3>3. PICK p : p = o + v
      OBVIOUS
    <3>4. p \in 0..M /\ M - p <= m
      <4>1. v < M - o
        BY <1>1, <2>1, <3>2
      <4>2. QED
        BY <1>1, <2>1, <3>2, <3>3, <4>1
    <3>5. Carries(f[p], data, p)
      BY <1>6, <3>4
    <3>6. f[o] = <<Part(data, o, v)>> \o f[p]
      <4>1. f[o] = IF M - o <= Capacity THEN <<>>
                   ELSE <<Part(data, o, Valid(data, o))>> \o f[o + Valid(data, o)]
        BY <1>3, <3>2
      <4>2. ~(M - o <= Capacity)
        BY <1>1, <2>1, <3>2
      <4>3. QED
        BY <3>1, <3>3, <4>1, <4>2, Zenon
    <3>7. Carries(<<Part(data, o, v)>> \o f[p], data, o)
      BY <2>1, <3>1, <3>3, <3>5, CarriesMore DEF M
    <3>8. QED
      BY <3>6, <3>7
  <2>2. QED
    BY <1>1, <1>4, <2>1
<1>7. Nat \subseteq N
  <2>1. \A m \in Nat : m \in N => m + 1 \in N
    BY <1>6
  <2> HIDE DEF N
  <2>2. QED
    BY <1>5, <2>1, NatSetInduction
<1>8. Carries(c, data, 0)
  <2>1. M \in N
    <3> HIDE DEF N
    <3>1. QED
      BY <1>1, <1>7
  <2>2. 0 \in 0..M /\ M - 0 <= M
    BY <1>1
  <2>3. Carries(f[0], data, 0)
    BY <2>1, <2>2
  <2>4. QED
    BY <1>3, <2>3
<1>9. PICK p \in 0..M : M - p <= Capacity /\ \A s : Handed(s, data, 0, c, p)
  BY <1>8 DEF Carries, M
<1>10. c \in Lists
  BY <1>8 DEF Carries
<1>11. q = p
  <2>1. Rest(data, 0) = data /\ Rest(data, p) \in Text /\ Len(Rest(data, p)) = M - p
    <3>1. data \in Seq(Bytes) /\ 0 \in 0..Len(data) /\ p \in 0..Len(data)
      BY <1>1 DEF M, Text
    <3>2. QED
      BY <3>1, RestIs DEF M, Text
  <2>2. Sound(<<>>, Rest(data, 0), data)
    BY <2>1, NoChunks
  <2>3. Sound(<<>> \o c, Rest(data, p), data)
    BY <1>9, <2>2 DEF Handed
  <2>4. <<>> \o c = c
    BY <1>10, ConcatEmptySeq DEF Lists
  <2>5. FlattenSeq(c) \o Rest(data, p) = data /\ FlattenSeq(c) \in Text
    <3>1. FlattenSeq(c) \o Rest(data, p) = data
      BY <2>3, <2>4 DEF Sound
    <3>2. c \in Seq(Text)
      BY <1>10 DEF Lists
    <3>3. FlattenSeq(c) \in Text
      BY <3>2, FlattenAppend, EmptySeq DEF Text
    <3>4. QED
      BY <3>1, <3>3
  <2> DEFINE g == FlattenSeq(c)
             y == Rest(data, p)
  <2>6. g \in Seq(Bytes) /\ y \in Seq(Bytes) /\ Len(y) = M - p /\ g \o y = data
    BY <2>1, <2>5 DEF Text
  <2> HIDE DEF g, y
  <2>7. Len(g \o y) = Len(g) + Len(y) /\ Len(g) \in Nat
    BY <2>6, JoinTypes
  <2>8. Len(g) = p
    BY <1>1, <2>6, <2>7 DEF M
  <2>9. QED
    BY <2>8 DEF g
<1>12. QED
  BY <1>9, <1>10, <1>11 DEF M

\* flush(): what is kept follows the chunks before it.
LEMMA ChunkIs ==
  ASSUME NEW s, NEW kept \in Text, NEW data \in Text, NEW w, Sound(s, kept \o data, w)
  PROVE  /\ Sound(s \o Chunk(kept), data, w)
         /\ Cut(s, w) /\ Len(kept) <= Capacity /\ Capacity \in Nat
            /\ ~Inside(w, Len(FlattenSeq(s)) + Len(kept)) => Cut(s \o Chunk(kept), w)
<1>1. CASE kept = <<>>
  <2>1. kept \o data = data
    BY <1>1, ConcatEmptySeq DEF Text
  <2>2. s \o Chunk(kept) = s
    BY <1>1, ConcatEmptySeq DEF Chunk, Sound, Lists
  <2>3. QED
    BY <2>1, <2>2
<1>2. CASE kept # <<>>
  <2>1. Sound(Append(s, kept), data, w) /\ Append(s, kept) = s \o <<kept>>
    BY <1>2, Sending
  <2>2. Chunk(kept) = <<kept>>
    BY <1>2 DEF Chunk
  <2>3. Cut(s, w) /\ Len(kept) <= Capacity /\ Capacity \in Nat
        /\ ~Inside(w, Len(FlattenSeq(s)) + Len(kept)) => Cut(Append(s, kept), w)
    BY <1>2, SendingCut
  <2>4. QED
    BY <2>1, <2>2, <2>3
<1>3. QED
  BY <1>1, <1>2

\* What a call makes of the chunks and the buffer.
Kept(free, s, b, w) ==
  Sound(s, b, w) /\ Len(b) <= Capacity /\ (~free => Cut(s, w))

LEMMA DirectIs ==
  ASSUME OutputAssumption, NEW free \in BOOLEAN, NEW s, NEW kept \in Text, NEW data \in Text, NEW w,
         Sound(s, kept \o data, w), Len(kept) <= Capacity, ~free => Cut(s, w),
         ~Inside(w, Len(FlattenSeq(s)) + Len(kept)),
         NEW s2, NEW b2,
         IF free /\ Len(data) > Capacity
           THEN s2 = s \o Chunk(kept) \o <<data>> /\ b2 = <<>>
           ELSE /\ s2 = s \o Chunk(kept) \o Chunks(data)
                /\ b2 = SubSeq(data, Len(FlattenSeq(Chunks(data))) + 1, Len(data))
  PROVE  Kept(free, s2, b2, w)
<1>1. Capacity \in Nat /\ Len(data) \in Nat
  BY DEF OutputAssumption, Text
<1> DEFINE a == s \o Chunk(kept)
<1>2. Sound(a, data, w) /\ (~free => Cut(a, w))
  BY <1>1, ChunkIs
<1> HIDE DEF a
<1>3. CASE free /\ Len(data) > Capacity
  <2>1. s2 = a \o <<data>> /\ b2 = <<>>
    BY <1>3 DEF a
  <2>2. data # <<>> /\ <<>> \in Text /\ data \o <<>> = data
    <3>1. data \o <<>> = data /\ <<>> \in Text
      BY EmptySeq, ConcatEmptySeq DEF Text
    <3>2. data # <<>>
      BY <1>1, <1>3, EmptySeq
    <3>3. QED
      BY <3>1, <3>2
  <2>3. Sound(Append(a, data), <<>>, w) /\ Append(a, data) = a \o <<data>>
    <3>1. Sound(a, data \o <<>>, w)
      BY <1>2, <2>2, Zenon
    <3>2. data # <<>> /\ <<>> \in Text
      BY <2>2
    <3>3. QED
      BY <3>1, <3>2, Sending
  <2>4. Len(<<>>) <= Capacity
    BY <1>1, EmptySeq
  <2>5. QED
    BY <1>3, <2>1, <2>3, <2>4 DEF Kept
<1>4. CASE ~(free /\ Len(data) > Capacity)
  <2>1. PICK c : c = Chunks(data)
    OBVIOUS
  <2>2. PICK q : q = Len(FlattenSeq(c))
    OBVIOUS
  <2>3. /\ c \in Lists /\ q \in 0..Len(data) /\ Len(data) - q <= Capacity
        /\ \A x : Handed(x, data, 0, c, q)
    BY <2>1, <2>2, ChunksIs
  <2>4. s2 = a \o c /\ b2 = Rest(data, q)
    BY <1>4, <2>1, <2>2 DEF a, Rest
  <2>5. Rest(data, 0) = data /\ Len(b2) = Len(data) - q
    <3>1. data \in Seq(Bytes) /\ 0 \in 0..Len(data)
      BY <1>1 DEF Text
    <3>2. QED
      BY <2>3, <2>4, <3>1, RestIs
  <2>6. Sound(s2, b2, w) /\ (Cut(a, w) => Cut(s2, w))
    BY <1>2, <2>3, <2>4, <2>5 DEF Handed
  <2>7. QED
    BY <1>2, <2>3, <2>5, <2>6 DEF Kept
<1>5. QED
  BY <1>3, <1>4

\* The invariant: the chunks so far are whole characters, and so is all that was given.
OutInv ==
  /\ native \in BOOLEAN /\ calls \in 0..MaxCalls
  /\ Kept(native, sent, buffer, written)
  /\ ~CutOff(written)

\* What every call may rely on, when v is what has been written with data.
Begun(data, v) ==
  /\ data \in Text /\ v \in Text /\ ~CutOff(v)
  /\ Sound(sent, buffer \o data, v) /\ buffer \in Text /\ Len(buffer) <= Capacity
  /\ ~native => Cut(sent, v)
  /\ ~Inside(v, Len(FlattenSeq(sent)) + Len(buffer))
  /\ written \in Text /\ v = written \o data /\ Len(FlattenSeq(sent)) + Len(buffer) = Len(written)
  /\ native \in BOOLEAN /\ Capacity \in Nat /\ Capacity >= 8

LEMMA EndOfSent ==
  ASSUME NEW s, NEW b, NEW w, Sound(s, b, w)
  PROVE  Len(FlattenSeq(s)) + Len(b) = Len(w) /\ FlattenSeq(s) \in Text
<1>1. s \in Lists /\ b \in Seq(Bytes) /\ FlattenSeq(s) \o b = w
  BY DEF Sound, Text
<1>2. s \in Seq(Text)
  BY <1>1 DEF Lists
<1> DEFINE f == FlattenSeq(s)
<1>3. f \in Seq(Bytes)
  BY <1>2, FlattenAppend DEF Text
<1> HIDE DEF f
<1>4. Len(f \o b) = Len(f) + Len(b)
  BY <1>1, <1>3, JoinTypes
<1>5. QED
  BY <1>1, <1>3, <1>4 DEF f, Text

LEMMA CallBegins ==
  ASSUME OutputAssumption, OutInv, NEW data \in Strings \cup Runs, Called(data)
  PROVE  Begun(data, written')
<1>1. data \in Text /\ ~CutOff(data) /\ Capacity \in Nat /\ Capacity >= 8
  BY DEF OutputAssumption, Text
<1>2. PICK w : w = written
  OBVIOUS
<1>3. PICK v : v = written'
  OBVIOUS
<1>4. v = w \o data
  BY <1>2, <1>3 DEF Called
<1>5. Sound(sent, buffer, w) /\ Len(buffer) <= Capacity /\ (~native => Cut(sent, w)) /\ ~CutOff(w)
  BY <1>2 DEF OutInv, Kept
<1>6. w \in Text /\ buffer \in Text
  BY <1>5 DEF Sound
<1>7. Sound(sent, buffer \o data, v) /\ (~native => Cut(sent, v))
  BY <1>1, <1>4, <1>5, Growing
<1>8. ~CutOff(v)
  BY <1>1, <1>4, <1>5, <1>6, CutOffJoins
<1>9. ~Inside(v, Len(w))
  BY <1>1, <1>4, <1>5, <1>6, EdgeNotInside
<1>10. Len(FlattenSeq(sent)) + Len(buffer) = Len(w) /\ FlattenSeq(sent) \in Text
  BY <1>5, EndOfSent
<1>11. native \in BOOLEAN /\ v \in Text
  BY <1>7 DEF OutInv, Sound
<1>12. Begun(data, v)
  BY <1>1, <1>2, <1>4, <1>5, <1>6, <1>7, <1>8, <1>9, <1>10, <1>11 DEF Begun
<1>13. QED
  BY <1>3, <1>12

LEMMA CallEnds ==
  ASSUME OutInv, NEW data, Called(data), Begun(data, written'),
         Kept(native, sent', buffer', written'), MaxCalls \in Nat
  PROVE  OutInv'
<1>1. calls' \in 0..MaxCalls /\ native' = native
  BY DEF OutInv, Called
<1>2. ~CutOff(written')
  BY DEF Begun
<1>3. Kept(native', sent', buffer', written')
  BY <1>1
<1>4. (~CutOff(written))'
  BY <1>2
<1>5. native' \in BOOLEAN
  BY <1>1 DEF OutInv
<1>6. QED
  BY <1>1, <1>3, <1>4, <1>5 DEF OutInv

\* What fits is put behind what is in the buffer.
LEMMA AddedIs ==
  ASSUME NEW data, NEW v, Begun(data, v), Len(buffer) + Len(data) <= Capacity
  PROVE  Kept(native, sent, buffer \o data, v)
<1>1. Len(buffer \o data) = Len(buffer) + Len(data)
  BY JoinTypes DEF Begun, Text
<1>2. QED
  BY <1>1 DEF Begun, Kept

LEMMA WriteBufferKeeps ==
  ASSUME OutputAssumption, OutInv, NEW data \in Strings, WriteBuffer(data)
  PROVE  OutInv'
<1>1. Called(data) /\ MaxCalls \in Nat
  BY DEF WriteBuffer, OutputAssumption
<1>2. Begun(data, written')
  BY <1>1, CallBegins
<1>3. PICK v : v = written' /\ Begun(data, v)
  BY <1>2
<1>4. Kept(native, sent', buffer', v)
  <2>1. CASE Len(buffer) + Len(data) <= Capacity
    <3>1. buffer' = buffer \o data /\ sent' = sent
      BY <2>1 DEF WriteBuffer
    <3>2. Kept(native, sent, buffer \o data, v)
      BY <1>3, <2>1, AddedIs
    <3>3. QED
      BY <3>1, <3>2
  <2>2. CASE ~(Len(buffer) + Len(data) <= Capacity)
    <3>1. Direct(buffer, data)
      BY <2>2 DEF WriteBuffer
    <3>2. PICK s2, b2 : s2 = sent' /\ b2 = buffer'
      OBVIOUS
    <3>3. IF native /\ Len(data) > Capacity
           THEN s2 = sent \o Chunk(buffer) \o <<data>> /\ b2 = <<>>
           ELSE /\ s2 = sent \o Chunk(buffer) \o Chunks(data)
                /\ b2 = SubSeq(data, Len(FlattenSeq(Chunks(data))) + 1, Len(data))
      BY <3>1, <3>2, Zenon DEF Direct
    <3>4. Kept(native, s2, b2, v)
      BY <1>3, <3>3, DirectIs DEF Begun
    <3>5. QED
      BY <3>2, <3>4
  <2>3. QED
    BY <2>1, <2>2
<1>5. QED
  BY <1>1, <1>2, <1>3, <1>4, CallEnds

\* The part of a string that is put into the buffer ends where no character goes on.
\* write_string(): what is put into the buffer, and what is left.
Fitting(data, room, n, kept, left) ==
  /\ room = Capacity - Len(buffer) /\ n = ValidLength(SubSeq(data, 1, room))
  /\ kept = buffer \o SubSeq(data, 1, n) /\ left = SubSeq(data, n + 1, Len(data))

LEMMA FitsIs ==
  ASSUME OutputAssumption, NEW data, NEW v, Begun(data, v),
         NEW room, NEW n, NEW kept, NEW left, Fitting(data, room, n, kept, left), Len(data) >= room
  PROVE  /\ kept \in Text /\ left \in Text /\ kept \o left = buffer \o data
         /\ Len(kept) <= Capacity
         /\ ~Inside(v, Len(FlattenSeq(sent)) + Len(kept))
<1>1. /\ data \in Seq(Bytes) /\ buffer \in Seq(Bytes) /\ Len(data) \in Nat
      /\ Len(buffer) \in Nat /\ Len(buffer) <= Capacity /\ Capacity \in Nat /\ room \in Nat
      /\ room = Capacity - Len(buffer)
  BY DEF Begun, Text, Fitting
<1> DEFINE fits == Part(data, 0, room)
<1>2. /\ fits \in Seq(Bytes) /\ Len(fits) = room
      /\ \A j \in 1..room : fits[j] = data[j]
  BY <1>1, FirstPartIs
<1>3. n = ValidLength(fits)
  BY <1>1 DEF Part, Fitting
<1> HIDE DEF fits
<1>4. \/ n = 0
      \/ n \in 1..room /\ n < room /\ ~Trail(data[n + 1])
      \/ n \in 1..room /\ n >= 4 /\ \A k \in (n - 3)..n : Trail(data[k])
  <2>1. CASE room < 5
    <3>1. n = 0
      BY <1>2, <1>3, <2>1 DEF ValidLength
    <3>2. QED
      BY <3>1
  <2>2. CASE room >= 5
    <3>1. PICK m : m = Len(fits) /\ m >= 5 /\ m = room
      BY <1>2, <2>2
    <3>2. fits \in Text
      BY <1>2 DEF Text
    <3>3. /\ n \in 1..m
          /\ \/ n < m /\ ~Trail(fits[n + 1])
             \/ n = m /\ \A k \in (m - 3)..m : Trail(fits[k])
      BY <1>3, <3>1, <3>2, ValidLengthIs
    <3>4. CASE n < m /\ ~Trail(fits[n + 1])
      <4>1. n + 1 \in 1..room
        BY <1>1, <3>1, <3>3, <3>4
      <4>2. fits[n + 1] = data[n + 1]
        BY <1>2, <4>1
      <4>3. QED
        BY <3>1, <3>3, <3>4, <4>2
    <3>5. CASE n = m /\ \A k \in (m - 3)..m : Trail(fits[k])
      <4>1. \A k \in (n - 3)..n : k \in 1..room
        BY <1>1, <3>1, <3>5
      <4>2. \A k \in (n - 3)..n : Trail(data[k])
        BY <1>2, <3>5, <4>1
      <4>3. n >= 4
        BY <1>1, <3>1, <3>5
      <4>4. QED
        BY <3>1, <3>3, <4>2, <4>3
    <3>6. QED
      BY <3>3, <3>4, <3>5
  <2>3. QED
    BY <1>1, <2>1, <2>2
<1>5. n \in Nat /\ n <= room /\ n <= Len(data)
  BY <1>1, <1>4
<1> DEFINE x == Part(data, 0, n)
<1>6. x \in Seq(Bytes) /\ Len(x) = n
  BY <1>1, <1>5, FirstPartIs
<1>7. left \in Seq(Bytes)
  <2>1. n \in 0..Len(data)
    BY <1>1, <1>5
  <2>2. QED
    BY <1>1, <2>1, RestIs DEF Rest, Fitting
<1>8. x \o left = data
  <2>1. PICK o \in Nat : o = 0
    OBVIOUS
  <2>2. o + n <= Len(data) /\ o + n = n /\ o \in 0..Len(data)
    BY <1>1, <1>5, <2>1
  <2>3. Part(data, o, n) \o Rest(data, o + n) = Rest(data, o)
    BY <1>1, <1>5, <2>2, PartThenRest
  <2>4. Rest(data, o) = data
    BY <1>1, <2>1, <2>2, RestIs
  <2>5. Rest(data, o + n) = left
    BY <2>2 DEF Rest, Fitting
  <2>6. QED
    BY <2>1, <2>3, <2>4, <2>5
<1>9. kept = buffer \o x
  <2>1. 0 + n = n /\ 0 + 1 = 1
    BY <1>5
  <2>2. Part(data, 0, n) = SubSeq(data, 1, n)
    BY <2>1, Zenon DEF Part
  <2>3. QED
    BY <2>2, Zenon DEF Fitting
<1> HIDE DEF x
<1>10. kept \in Seq(Bytes) /\ Len(kept) = Len(buffer) + n
  BY <1>1, <1>6, <1>9, JoinTypes
<1>11. kept \o left = buffer \o data
  <2>1. (buffer \o x) \o left = buffer \o (x \o left)
    BY <1>1, <1>6, <1>7, JoinTypes
  <2>2. QED
    BY <1>8, <1>9, <2>1
<1>12. Len(kept) <= Capacity
  BY <1>1, <1>5, <1>10
<1>13. ~Inside(v, Len(FlattenSeq(sent)) + Len(kept))
  <2>1. PICK w : w = written
    OBVIOUS
  <2>2. w \in Text /\ data \in Text /\ v = w \o data
    BY <2>1 DEF Begun
  <2>3. ~Inside(v, Len(FlattenSeq(sent)) + Len(buffer))
    BY DEF Begun
  <2>4. Len(FlattenSeq(sent)) + Len(buffer) = Len(w)
    BY <2>1 DEF Begun
  <2>5. Len(FlattenSeq(sent)) \in Nat
    BY EndOfSent DEF Begun, Text
  <2>6. Len(FlattenSeq(sent)) + Len(kept) = Len(w) + n
    <3>1. PICK e \in Nat : e = Len(FlattenSeq(sent))
      BY <2>5
    <3>2. PICK l, k : l = Len(w) /\ k = Len(kept)
      OBVIOUS
    <3>3. k = Len(buffer) + n /\ e + Len(buffer) = l /\ Len(buffer) \in Nat
      BY <1>1, <1>10, <2>4, <3>1, <3>2
    <3>4. e + k = l + n
      BY <1>5, <3>3
    <3>5. QED
      BY <3>1, <3>4, <3>2
  <2>7. CASE n = 0
    BY <1>1, <1>10, <2>3, <2>7
  <2>8. CASE n # 0
    <3>1. n \in 1..Capacity /\ n <= Len(data)
      BY <1>1, <1>5, <2>8
    <3>2. \/ n < Len(data) /\ ~Trail(data[n + 1])
          \/ n >= 4 /\ \A k \in (n - 3)..n : Trail(data[k])
      BY <1>1, <1>4, <2>8
    <3>3. ~Inside(v, Len(w) + n)
      BY <2>2, <3>1, <3>2, ValidEdge
    <3>4. QED
      BY <2>6, <3>3
  <2>9. QED
    BY <2>7, <2>8
<1>14. QED
  BY <1>7, <1>10, <1>11, <1>12, <1>13 DEF Text

LEMMA WriteStringKeeps ==
  ASSUME OutputAssumption, OutInv, NEW data \in Strings, WriteString(data)
  PROVE  OutInv'
<1>1. Called(data) /\ MaxCalls \in Nat
  BY DEF WriteString, OutputAssumption
<1>2. Begun(data, written')
  BY <1>1, CallBegins
<1>3. PICK v : v = written' /\ Begun(data, v)
  BY <1>2
<1>4. PICK room : room = Capacity - Len(buffer)
  OBVIOUS
<1>5. PICK n : n = ValidLength(SubSeq(data, 1, room))
  OBVIOUS
<1>6. PICK kept, left : Fitting(data, room, n, kept, left)
  BY <1>4, <1>5 DEF Fitting
<1>7. IF Len(data) < room THEN buffer' = buffer \o data /\ sent' = sent ELSE Direct(kept, left)
  BY <1>6, Zenon DEF WriteString, Fitting
<1>8. Len(buffer) \in Nat /\ Len(data) \in Nat /\ Capacity \in Nat
  BY <1>3 DEF Begun, Text
<1>9. Kept(native, sent', buffer', v)
  <2>1. CASE Len(data) < room
    <3>1. Len(buffer) + Len(data) <= Capacity
      BY <1>4, <1>8, <2>1
    <3>2. Kept(native, sent, buffer \o data, v)
      BY <1>3, <3>1, AddedIs
    <3>3. QED
      BY <1>7, <2>1, <3>2
  <2>2. CASE ~(Len(data) < room)
    <3>1. Len(data) >= room
      BY <1>4, <1>8, <2>2
    <3>2. /\ kept \in Text /\ left \in Text /\ kept \o left = buffer \o data
          /\ Len(kept) <= Capacity
          /\ ~Inside(v, Len(FlattenSeq(sent)) + Len(kept))
      BY <1>3, <1>6, <3>1, FitsIs
    <3>3. Direct(kept, left)
      BY <1>7, <2>2
    <3>4. PICK s2, b2 : s2 = sent' /\ b2 = buffer'
      OBVIOUS
    <3>5. IF native /\ Len(left) > Capacity
           THEN s2 = sent \o Chunk(kept) \o <<left>> /\ b2 = <<>>
           ELSE /\ s2 = sent \o Chunk(kept) \o Chunks(left)
                /\ b2 = SubSeq(left, Len(FlattenSeq(Chunks(left))) + 1, Len(left))
      BY <3>3, <3>4, Zenon DEF Direct
    <3>6. native \in BOOLEAN /\ Sound(sent, kept \o left, v) /\ (~native => Cut(sent, v))
      BY <1>3, <3>2 DEF Begun
    <3>7. Kept(native, s2, b2, v)
      BY <3>2, <3>5, <3>6, DirectIs
    <3>8. QED
      BY <3>4, <3>7
  <2>3. QED
    BY <2>1, <2>2
<1>10. QED
  BY <1>1, <1>2, <1>3, <1>9, CallEnds

LEMMA WriteRunKeeps ==
  ASSUME OutputAssumption, OutInv, NEW data \in Runs, WriteRun(data)
  PROVE  OutInv'
<1>1. Called(data) /\ MaxCalls \in Nat /\ Len(data) <= 6
  BY DEF WriteRun, OutputAssumption
<1>2. Begun(data, written')
  BY <1>1, CallBegins
<1>3. PICK v : v = written' /\ Begun(data, v)
  BY <1>2
<1>4. /\ Len(buffer) \in Nat /\ Len(data) \in Nat /\ Capacity \in Nat /\ Capacity >= 8
      /\ buffer \in Text /\ data \in Text /\ Len(buffer) <= Capacity
  BY <1>3 DEF Begun, Text
<1>5. Kept(native, sent', buffer', v)
  <2>1. CASE Len(buffer) > Capacity - Len(data)
    <3>1. sent' = sent \o Chunk(buffer) /\ buffer' = data
      BY <2>1 DEF WriteRun
    <3>2. /\ Sound(sent \o Chunk(buffer), data, v)
          /\ ~native => Cut(sent \o Chunk(buffer), v)
      BY <1>3, <1>4, ChunkIs DEF Begun
    <3>3. Len(data) <= Capacity
      BY <1>1, <1>4
    <3>4. QED
      BY <3>1, <3>2, <3>3 DEF Kept
  <2>2. CASE ~(Len(buffer) > Capacity - Len(data))
    <3>1. buffer' = buffer \o data /\ sent' = sent
      BY <2>2 DEF WriteRun
    <3>2. Len(buffer) + Len(data) <= Capacity
      BY <1>4, <2>2
    <3>3. Kept(native, sent, buffer \o data, v)
      BY <1>3, <3>2, AddedIs
    <3>4. QED
      BY <3>1, <3>3
  <2>3. QED
    BY <2>1, <2>2
<1>6. QED
  BY <1>1, <1>2, <1>3, <1>5, CallEnds

LEMMA FlushKeeps ==
  ASSUME OutputAssumption, OutInv, Flush
  PROVE  OutInv'
<1>1. sent' = sent \o Chunk(buffer) /\ buffer' = <<>> /\ native' = native /\ written' = written /\ calls' = calls
  BY DEF Flush
<1>2. /\ Sound(sent, buffer, written) /\ Len(buffer) <= Capacity /\ (~native => Cut(sent, written))
      /\ ~CutOff(written)
  BY DEF OutInv, Kept
<1>3. buffer \in Text /\ written \in Text /\ Capacity \in Nat /\ <<>> \in Text
  BY <1>2, EmptySeq DEF Sound, Text, OutputAssumption
<1>4. buffer \o <<>> = buffer /\ written \o <<>> = written
  BY <1>3, ConcatEmptySeq DEF Text
<1>5. Sound(sent, buffer \o <<>>, written)
  BY <1>2, <1>4, Zenon
<1>6. ~Inside(written, Len(written))
  <2>1. PICK w : w = written \o <<>>
    OBVIOUS
  <2>2. ~Inside(w, Len(written))
    BY <1>2, <1>3, <2>1, EdgeNotInside
  <2>3. QED
    BY <1>4, <2>1, <2>2
<1>7. Len(FlattenSeq(sent)) + Len(buffer) = Len(written)
  BY <1>2, EndOfSent
<1>8. /\ Sound(sent \o Chunk(buffer), <<>>, written)
      /\ ~native => Cut(sent \o Chunk(buffer), written)
  <2>1. ~Inside(written, Len(FlattenSeq(sent)) + Len(buffer))
    BY <1>6, <1>7
  <2>2. PICK e : e = <<>>
    OBVIOUS
  <2>3. /\ Sound(sent \o Chunk(buffer), e, written)
        /\ ~native => Cut(sent \o Chunk(buffer), written)
    BY <1>2, <1>3, <1>5, <2>1, <2>2, ChunkIs
  <2>4. QED
    BY <2>2, <2>3
<1>9. Kept(native, sent \o Chunk(buffer), <<>>, written)
  <2>1. Len(<<>>) <= Capacity
    BY <1>3, EmptySeq
  <2>2. QED
    BY <1>8, <2>1 DEF Kept
<1>10. native' \in BOOLEAN /\ calls' \in 0..MaxCalls /\ Kept(native', sent', buffer', written')
       /\ ~CutOff(written')
  BY <1>1, <1>2, <1>9 DEF OutInv
<1>11. QED
  BY <1>10 DEF OutInv

\* The invariant holds of every state, and is what the property needs.
LEMMA OutInvAlways ==
  ASSUME OutputAssumption
  PROVE  OutputSpec => []OutInv
<1>1. OutputInit => OutInv
  <2>1. SUFFICES ASSUME OutputInit PROVE OutInv
    OBVIOUS
  <2>2. native \in BOOLEAN /\ buffer = <<>> /\ sent = <<>> /\ written = <<>> /\ calls = 0
    BY <2>1 DEF OutputInit
  <2>3. <<>> \in Text /\ Len(<<>>) = 0 /\ Capacity \in Nat /\ MaxCalls \in Nat
    BY EmptySeq DEF Text, OutputAssumption
  <2>4. Sound(<<>>, <<>>, <<>>) /\ Cut(<<>>, <<>>)
    BY <2>3, NoChunks
  <2>5. ~CutOff(<<>>)
    BY <2>3 DEF CutOff
  <2>6. QED
    BY <2>2, <2>3, <2>4, <2>5 DEF OutInv, Kept
<1>2. OutInv /\ [OutputNext]_outputVars => OutInv'
  <2>1. SUFFICES ASSUME OutInv, [OutputNext]_outputVars PROVE OutInv'
    OBVIOUS
  <2>2. ASSUME NEW data \in Strings, WriteBuffer(data) PROVE OutInv'
    BY <2>1, <2>2, WriteBufferKeeps
  <2>3. ASSUME NEW data \in Strings, WriteString(data) PROVE OutInv'
    BY <2>1, <2>3, WriteStringKeeps
  <2>4. ASSUME NEW data \in Runs, WriteRun(data) PROVE OutInv'
    BY <2>1, <2>4, WriteRunKeeps
  <2>5. ASSUME Flush PROVE OutInv'
    BY <2>1, <2>5, FlushKeeps
  <2>6. ASSUME UNCHANGED outputVars PROVE OutInv'
    BY <2>1, <2>6 DEF outputVars, OutInv
  <2>7. QED
    BY <2>1, <2>2, <2>3, <2>4, <2>5, <2>6 DEF OutputNext
<1>3. QED
  BY <1>1, <1>2, PTL DEF OutputSpec

LEMMA OutInvSays ==
  ASSUME OutputAssumption, OutInv
  PROVE  OutputInOrder
<1>1. /\ Sound(sent, buffer, written) /\ Len(buffer) <= Capacity /\ (~native => Cut(sent, written))
      /\ native \in BOOLEAN /\ calls \in 0..MaxCalls
  BY DEF OutInv, Kept
<1>2. sent \in Lists /\ buffer \in Text /\ written \in Text /\ FlattenSeq(sent) \o buffer = written
  BY <1>1 DEF Sound
<1>3. OutputTypeOK
  BY <1>1, <1>2 DEF OutputTypeOK, Lists, Text
<1>4. EverythingInOrder
  BY <1>2 DEF EverythingInOrder
<1>5. ChunksFit
  BY <1>1 DEF Cut, ChunksFit
<1>6. WholeCharacters
  BY <1>1 DEF Cut, WholeCharacters
<1>7. QED
  BY <1>3, <1>4, <1>5, <1>6 DEF OutputInOrder

(***************************************************************************)
(* Whatever is written, by whichever calls and however long, is in the     *)
(* chunks and the buffer, whole and in order; and each chunk that has to   *)
(* be converted fits the scratch buffer and ends where a character does.   *)
(***************************************************************************)
THEOREM OutputInOrderAlways ==
  ASSUME OutputAssumption
  PROVE  OutputSpec => []OutputInOrder
<1>1. OutInv => OutputInOrder
  BY OutInvSays
<1>2. QED
  BY <1>1, OutInvAlways, PTL
=============================================================================
