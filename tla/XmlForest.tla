------------------------------ MODULE XmlForest ------------------------------
(***************************************************************************)
(* What pugixml's functions that edit a document promise: every node has   *)
(* a sequence of children, a new or a moved node comes into one sequence   *)
(* at one place, a removed one goes with all that is below it, and the     *)
(* children of a document that is moved from are the other document's.     *)
(***************************************************************************)
EXTENDS Integers, SequencesExt

CONSTANTS
  Node,       \* nodes, alive or to be allocated
  Document    \* those that are documents

VARIABLES children  \* children[n]: the children of n, in order

Free == {n \in Node \ Document : children[n] = <<>> /\ \A p \in Node : ~Contains(children[p], n)}

\* A node with all that is below it: the smallest set with the node that
\* holds the children of each of its members.
Below(n) ==
  LET kids == [m \in Node |-> ToSet(children[m])]
  IN  {m \in Node : \A S \in SUBSET Node :
         (n \in S /\ \A x \in S : kids[x] \subseteq S) => m \in S}

\* A sequence without one of its members.
Less(s, n) == RemoveAt(s, CHOOSE i \in DOMAIN s : s[i] = n)

\* The sequences of children without a node.
Without(n) ==
  [p \in Node |-> IF Contains(children[p], n) THEN Less(children[p], n) ELSE children[p]]

Init == children = [n \in Node |-> <<>>]

Add(n, p) ==
  \E i \in 1..(Len(children[p]) + 1) : children' = [children EXCEPT ![p] = InsertAt(@, i, n)]

MoveTo(n, p) ==
  /\ LET kept == Without(n)
     IN  \E i \in 1..(Len(kept[p]) + 1) : children' = [kept EXCEPT ![p] = InsertAt(@, i, n)]
  /\ p \notin Below(n)

Drop(n) ==
  LET gone == Below(n)
      kept == Without(n)
  IN  children' = [p \in Node |-> IF p \in gone THEN <<>> ELSE kept[p]]

Clear(d) ==
  LET gone == Below(d)
  IN  children' = [p \in Node |-> IF p \in gone THEN <<>> ELSE children[p]]

TakeOver(d, e) ==
  LET gone == Below(d)
      kept == [p \in Node |-> IF p \in gone THEN <<>> ELSE children[p]]
  IN  children' = [kept EXCEPT ![d] = children[e], ![e] = <<>>]

Next ==
  \/ \E n \in Node \ Document, p \in Node :
       \/ n \in Free /\ Add(n, p)
       \/ n \notin Free /\ MoveTo(n, p)
  \/ \E n \in Node \ Document : Drop(n)
  \/ \E d \in Document : Clear(d) \/ \E e \in Document \ {d} : TakeOver(d, e)

Spec == Init /\ [][Next]_children
=============================================================================
