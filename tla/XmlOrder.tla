------------------------------ MODULE XmlOrder ------------------------------
(***************************************************************************)
(* Document order in pugixml's XPath: node sets are sorted by a comparator *)
(* that walks the tree, or takes a shortcut, the place of names and values *)
(* in the buffer they were parsed from.  Whatever changes the tree has to  *)
(* disable the shortcut where the buffer no longer tells the order.        *)
(***************************************************************************)
EXTENDS Integers, Sequences, FiniteSets, SequencesExt

CONSTANTS
  Node, Attribute,  \* alive or to be made; all of them numbers
  Root,             \* the node of the document
  Trees,            \* documents as they are parsed, with all their attributes
  Appended,         \* places in buffers that append_buffer() parses
  MaxSteps,         \* bound on the calls
  MoveShared        \* whether documents with the shared mask are moved

VARIABLES
  text,         \* the nodes that have no name and no children
  kids,         \* the children of each node, in order
  attrs,        \* its attributes, in order
  name, value,  \* the strings of each node and attribute: a place in a buffer, HeapString or Null
  shared,       \* the nodes and attributes with the shared mask
  docShared,    \* the shared mask of the document
  steps

vars == <<text, kids, attrs, name, value, shared, docShared, steps>>
strings == <<name, value, shared>>

Null == 0   \* the string of a null pointer
HeapString == -1  \* any string that is allocated
Item == Node \cup Attribute
Remove1(s, e) == SelectSeq(s, LAMBDA x : x # e)
Put(s, i, e) == SubSeq(s, 1, i - 1) \o <<e>> \o SubSeq(s, i, Len(s))

Has(s, e) == \E k \in DOMAIN s : s[k] = e
HasParent(n) == \E p \in Node : Has(kids[p], n)
Parent(n) == CHOOSE p \in Node : Has(kids[p], n)
Owner(a) == CHOOSE n \in Node : Has(attrs[n], a)

\* A node, its parent, and so on.
Chain(n) ==
  LET up[m \in Node] == IF HasParent(m) THEN <<m>> \o up[Parent(m)] ELSE <<m>> IN  up[n]
Alive ==
  LET below[n \in Node] == {n} \cup UNION {below[kids[n][k]] : k \in DOMAIN kids[n]} IN below[Root]
AliveAttribute == {a \in Attribute : \E n \in Alive : a \in ToSet(attrs[n])}
-----------------------------------------------------------------------------
(* document_order_comparator *)

\* The string s of i is taken for its place: it is not allocated, nor shared.
\* Of a node it is not null either; an attribute is not asked, and if it has
\* no name its place is the null pointer.
InBuffer(s, i) ==
  /\ s[i] # HeapString
  /\ i \notin shared
  /\ i \in Node => s[i] # Null

\* document_buffer_order(); 0 if there is none
BufferOrder(i) ==
  IF docShared THEN 0
  ELSE IF InBuffer(name, i) THEN name[i]
  ELSE IF InBuffer(value, i) THEN value[i]
  ELSE 0

BeforeSibling(l, r) == LET s == kids[Parent(l)] IN \E i, j \in DOMAIN s : s[i] = l /\ s[j] = r /\ i < j

SameParent(l, r) == IF HasParent(l) THEN HasParent(r) /\ Parent(l) = Parent(r) ELSE ~HasParent(r)

\* node_is_before(): up from both until their parents are the same; if one
\* chain ends before, the other node is brought to its level first.
NodeIsBefore(l, r) ==
  LET lp == Chain(l)
      rp == Chain(r)
      Meet(s, t) == CHOOSE k \in DOMAIN s : SameParent(s[k], t[k]) /\ \A j \in 1 .. k - 1 : ~SameParent(s[j], t[j])
      Higher(s, n) == SubSeq(s, Len(s) - n + 1, Len(s))
      least == IF Len(lp) < Len(rp) THEN Len(lp) ELSE Len(rp)
      ls == Higher(lp, least)
      rs == Higher(rp, least)
  IN  IF Len(lp) # Len(rp) /\ ls[1] = rs[1] THEN Len(lp) < Len(rp)
      ELSE LET k == Meet(ls, rs) IN BeforeSibling(ls[k], rs[k])

Walked(l, r) ==
  LET NodeOf(i) == IF i \in Attribute THEN Owner(i) ELSE i
      both == l \in Attribute /\ r \in Attribute
      s == attrs[NodeOf(l)]
  IN  CASE both /\ Owner(l) = Owner(r) -> \E i, j \in DOMAIN s : s[i] = l /\ s[j] = r /\ i <= j
        [] l \in Attribute /\ r = NodeOf(l) -> FALSE
        [] r \in Attribute /\ l = NodeOf(r) -> TRUE
        [] OTHER -> IF NodeOf(l) = NodeOf(r) THEN FALSE ELSE NodeIsBefore(NodeOf(l), NodeOf(r))

IsBefore(l, r) ==
  IF BufferOrder(l) # 0 /\ BufferOrder(r) # 0 THEN BufferOrder(l) < BufferOrder(r) ELSE Walked(l, r)
-----------------------------------------------------------------------------
(* What changes the tree. *)

Step == steps < MaxSteps /\ steps' = steps + 1

Init ==
  /\ \E t \in Trees : text = t.text /\ kids = t.kids /\ attrs = t.attrs /\ name = t.name /\ value = t.value
  /\ shared = {} /\ docShared = FALSE /\ steps = 0

Unused(S) == {i \in S : i \notin Alive \cup AliveAttribute}

\* append_child(), prepend_child() and insert_child_*() with a name
InsertChild(p, i) ==
  /\ Step
  /\ \E n \in Unused(Node) :
       /\ n = CHOOSE m \in Unused(Node) : TRUE
       /\ kids' = [kids EXCEPT ![p] = Put(@, i, n), ![n] = <<>>]
       /\ attrs' = [attrs EXCEPT ![n] = <<>>]
       /\ name' = [name EXCEPT ![n] = HeapString] /\ value' = [value EXCEPT ![n] = Null]
       /\ shared' = shared \ {n} /\ text' = text \ {n}
  /\ UNCHANGED docShared

InsertAttribute(p, i) ==
  /\ Step
  /\ \E a \in Unused(Attribute) :
       /\ a = CHOOSE b \in Unused(Attribute) : TRUE
       /\ attrs' = [attrs EXCEPT ![p] = Put(@, i, a)]
       /\ name' = [name EXCEPT ![a] = HeapString] /\ value' = [value EXCEPT ![a] = Null]
       /\ shared' = shared \ {a}
  /\ UNCHANGED <<text, kids, docShared>>

\* Mutant of InsertCopy: the copy is not marked as shared.
InsertCopyMarked(proto, p, i) ==
  /\ Step /\ kids[proto] = <<>> /\ attrs[proto] = <<>>
  /\ \E n \in Unused(Node) :
       /\ n = CHOOSE m \in Unused(Node) : TRUE
       /\ kids' = [kids EXCEPT ![p] = Put(@, i, n), ![n] = <<>>]
       /\ attrs' = [attrs EXCEPT ![n] = <<>>]
       /\ name' = [name EXCEPT ![n] = name[proto]] /\ value' = [value EXCEPT ![n] = value[proto]]
       /\ text' = IF proto \in text THEN text \cup {n} ELSE text \ {n}
       /\ shared' = shared \ {n}
  /\ UNCHANGED docShared

\* append_copy() and the like of a node without children and attributes:
\* node_copy_string() shares the strings that are in the buffer.
InsertCopy(proto, p, i) ==
  /\ Step /\ kids[proto] = <<>> /\ attrs[proto] = <<>>
  /\ \E n \in Unused(Node) :
       /\ n = CHOOSE m \in Unused(Node) : TRUE
       /\ kids' = [kids EXCEPT ![p] = Put(@, i, n), ![n] = <<>>]
       /\ attrs' = [attrs EXCEPT ![n] = <<>>]
       /\ name' = [name EXCEPT ![n] = name[proto]] /\ value' = [value EXCEPT ![n] = value[proto]]
       /\ text' = IF proto \in text THEN text \cup {n} ELSE text \ {n}
       /\ shared' = IF {name[proto], value[proto]} \subseteq {Null, HeapString} THEN shared \ {n} ELSE shared \cup {n, proto}
  /\ UNCHANGED docShared

\* append_move() and the like
Move(n, p, i) ==
  /\ Step /\ n # Root /\ n \notin ToSet(Chain(p))
  /\ i \in 1 .. Len(Remove1(kids[p], n)) + 1
  /\ kids' = [q \in Node |-> IF q = p THEN Put(Remove1(kids[q], n), i, n) ELSE Remove1(kids[q], n)]
  /\ docShared' = TRUE
  /\ UNCHANGED <<text, attrs, strings>>

RemoveChild(n) ==
  LET gone == {m \in Node : n \in ToSet(Chain(m))}
  IN  /\ Step /\ n # Root
      /\ kids' = [q \in Node |-> IF q \in gone THEN <<>> ELSE Remove1(kids[q], n)]
      /\ attrs' = [q \in Node |-> IF q \in gone THEN <<>> ELSE attrs[q]]
  /\ UNCHANGED <<text, strings, docShared>>

\* strcpy_insitu(): a string that fits stays where it is, unless it is shared.
Assign(s, i) == \E string \in {Null, HeapString} \cup {s[i]} : (string = s[i] => i \notin shared) /\ s' = [s EXCEPT ![i] = string]

SetName(i) == Step /\ Assign(name, i) /\ UNCHANGED <<text, kids, attrs, value, shared, docShared>>
SetValue(i) == Step /\ Assign(value, i) /\ UNCHANGED <<text, kids, attrs, name, shared, docShared>>

\* append_buffer(), of an element, parsed from another buffer
AppendBuffer(p) ==
  /\ Step /\ Unused(Node) # {}
  /\ LET n == CHOOSE m \in Unused(Node) : TRUE
     IN  /\ kids' = [kids EXCEPT ![p] = Append(@, n), ![n] = <<>>]
         /\ attrs' = [attrs EXCEPT ![n] = <<>>]
         /\ \E place \in Appended : name' = [name EXCEPT ![n] = place]
         /\ value' = [value EXCEPT ![n] = Null]
         /\ shared' = shared \ {n} /\ text' = text \ {n}
  /\ docShared' = TRUE

\* The document is moved into another one: _move(), whose tree it becomes.
MoveDocument ==
  /\ Step /\ (docShared => MoveShared)
  /\ docShared' = FALSE
  /\ UNCHANGED <<text, kids, attrs, strings>>

Container == Alive \ text

Next ==
  \/ \E p \in Container :
       \/ AppendBuffer(p)
       \/ \E i \in 1 .. Len(kids[p]) + 1 :
            \/ InsertChild(p, i)
            \/ \E n \in Alive : Move(n, p, i)
            \/ \E n \in Alive \ {Root} : InsertCopy(n, p, i)
  \/ \E p \in Container \ {Root} : \E i \in 1 .. Len(attrs[p]) + 1 : InsertAttribute(p, i)
  \/ \E n \in Alive : RemoveChild(n)
  \/ \E i \in AliveAttribute \cup {n \in Alive : n \in text \/ value[n] # Null} : SetValue(i)
  \/ \E i \in AliveAttribute \cup (Container \ {Root}) : SetName(i)
  \/ MoveDocument

Spec == Init /\ [][Next]_vars
-----------------------------------------------------------------------------
TypeOK ==
  /\ kids \in [Node -> Seq(Node)] /\ attrs \in [Node -> Seq(Attribute)]
  /\ text \subseteq Node /\ name \in [Item -> Int] /\ value \in [Item -> Int]
  /\ shared \subseteq Item /\ docShared \in BOOLEAN
  /\ \A n \in Alive \ {Root} : Cardinality({<<p, i>> \in Node \X (1..Cardinality(Node)) : i <= Len(kids[p]) /\ kids[p][i] = n}) = 1

\* The order of the document: a node, its attributes, and its children with
\* all that is below each.
DocumentOrder ==
  LET below[n \in Node] == <<n>> \o attrs[n] \o FlattenSeq([k \in DOMAIN kids[n] |-> below[kids[n][k]]]) IN below[Root]

\* The comparator orders any two of the nodes and attributes as the document
\* does, by shortcut or not, after whatever was done to the tree: otherwise a
\* sort with it makes of a node set what nobody can tell.
ComparesDocumentOrder ==
  LET order == DocumentOrder
  IN  \A i, j \in DOMAIN order : i # j => (IsBefore(order[i], order[j]) <=> i < j)
=============================================================================
