------------------------------- MODULE XmlCopy -------------------------------
(***************************************************************************)
(* Copies of trees in pugixml, which may be made below the tree that is    *)
(* being copied, and the strings of nodes: a copy in the same document     *)
(* shares a string that is in the document's buffer, and a string is       *)
(* written in place when nobody shares it and it fits.                     *)
(*                                                                         *)
(* A node has one string, for its name, its value and those of its         *)
(* attributes.  Lists of children are sequences.                           *)
(***************************************************************************)
EXTENDS Integers, Sequences, FiniteSets, SequencesExt

CONSTANTS
  Node,       \* nodes, alive or to be allocated
  Document,   \* those that are documents
  Buffer,     \* strings in the buffer of a document
  Heap,       \* strings allocated by a document
  Text,       \* contents of strings
  LengthOf(_), \* LengthOf(t): the length of a content
  Loaded,     \* what documents are loaded: their children and strings
  Reuse,      \* reuse_threshold
  MayFail,    \* an allocation of a node may fail
  MaxEdits,   \* bound: how many calls change something
  None        \* the null pointer

\* Each node is in one place, and none is below itself.
OnePlace(kids) ==
  \A m, n \in Node : \A i \in 1..Len(kids[m]), j \in 1..Len(kids[n]) : kids[m][i] = kids[n][j] => m = n /\ i = j
Acyclic(kids) ==
  \A S \in SUBSET Node : S # {} => \E n \in S : \A i \in 1..Len(kids[n]) : kids[n][i] \notin S

\* What the parser leaves: trees of nodes that are alive, and for each its own
\* place in the buffer.
FromParser(l) ==
  /\ l.kids \in [Node -> Seq(Node)] /\ OnePlace(l.kids) /\ Acyclic(l.kids)
  /\ l.owner \in [Node -> Document \cup {None}]
  /\ l.string \in [Node -> Buffer \cup {None}]
  /\ l.text \in [Buffer \cup Heap -> Text]
  /\ \A n \in Node : l.owner[n] = None => l.kids[n] = <<>> /\ l.string[n] = None
  /\ \A n \in Node : \A i \in 1..Len(l.kids[n]) : l.owner[l.kids[n][i]] # None
  /\ \A m, n \in Node : l.string[m] = l.string[n] /\ l.string[m] # None => m = n

ASSUME CopyAssumption ==
  /\ Document \subseteq Node /\ Buffer \cap Heap = {} /\ None \notin Node \cup Buffer \cup Heap \cup Text
  /\ IsFiniteSet(Node) /\ IsFiniteSet(Heap) /\ Cardinality(Node) <= Cardinality(Heap)
  /\ \A l \in Loaded : FromParser(l)
  /\ MayFail \in BOOLEAN /\ MaxEdits \in Nat

VARIABLES
  children,   \* children[n]: those of n, in order
  docOf,      \* docOf[n]: the document of n, None when n is not allocated
  string,     \* string[n]: where the string of n is
  allocated,  \* the nodes whose string is allocated
  sharing,    \* the nodes whose contents are shared
  content,    \* content[b]: what the string at b holds
  job,        \* the copy being made: see Job
  edits       \* how many calls there were

copyVars == <<children, docOf, string, allocated, sharing, content, job, edits>>
strings == [string |-> string, allocated |-> allocated, sharing |-> sharing, content |-> content]

Alive == {n \in Node : docOf[n] # None}
Parent(n) == IF \E p \in Node : Contains(children[p], n) THEN CHOOSE p \in Node : Contains(children[p], n) ELSE None

NextSibling(n) ==
  LET list == children[Parent(n)]
      i == CHOOSE i \in DOMAIN list : list[i] = n
  IN  IF i = Len(list) THEN None ELSE list[i + 1]

\* A node and all that is below it.
Subtree(n) ==
  LET closed == {S \in SUBSET Node : n \in S /\ \A p \in S : ToSet(children[p]) \subseteq S}
  IN  {m \in Node : \A S \in closed : m \in S}

TextOf(n) == IF string[n] = None THEN None ELSE content[string[n]]

FreshNode == CHOOSE n \in Node : n \notin Alive
UnusedHeap(m) == Heap \ {m.string[n] : n \in m.allocated}
-----------------------------------------------------------------------------
\* strcpy_insitu_allow()
ReuseAllowed(m, n, size) ==
  LET have == LengthOf(m.content[m.string[n]]) IN
  /\ n \notin m.sharing
  /\ IF n \notin m.allocated THEN have >= size
     ELSE have >= size /\ (have < Reuse \/ have - size < have \div 2)

\* strcpy_insitu() of content t, None for an empty one, to node n.
CopyInPlace(m, n, t) ==
  IF t = None THEN [m EXCEPT !.string[n] = None, !.allocated = @ \ {n}]
  ELSE IF m.string[n] # None /\ ReuseAllowed(m, n, LengthOf(t))
    THEN [m EXCEPT !.content[m.string[n]] = t]
  ELSE LET b == CHOOSE b \in UnusedHeap(m) : TRUE IN
       [m EXCEPT !.string[n] = b, !.allocated = @ \cup {n}, !.content[b] = t]

\* node_copy_string() from sn to dn; same: both have the same allocator.
CopyString(m, dn, sn, same) ==
  IF m.string[sn] = None THEN m
  ELSE IF same /\ sn \notin m.allocated
    THEN [m EXCEPT !.string[dn] = m.string[sn], !.sharing = @ \cup {dn, sn}]
  ELSE CopyInPlace(m, dn, m.content[m.string[sn]])

SetStrings(m) ==
  string' = m.string /\ allocated' = m.allocated /\ sharing' = m.sharing /\ content' = m.content
-----------------------------------------------------------------------------
CopyInit ==
  /\ \E l \in Loaded : children = l.kids /\ docOf = l.owner /\ string = l.string /\ content = l.text
  /\ allocated = {} /\ sharing = {}
  /\ job = None /\ edits = 0

Edited == job = None /\ edits < MaxEdits /\ edits' = edits + 1

\* set_name() and set_value()
SetString(n, t) ==
  /\ Edited /\ n \in Alive \ Document
  /\ UnusedHeap(strings) # {}
  /\ SetStrings(CopyInPlace(strings, n, t))
  /\ UNCHANGED <<children, docOf, job>>

\* The variables dn, sn, dit and sit of node_copy_tree(), whether its inner
\* loop is to go on to the next node, and, to tell what it is about: how all
\* was before, what each copy was made of, whether a node could not be copied.
Job(dn, sn, first) ==
  [dn |-> dn, sn |-> sn, dit |-> dn, sit |-> first, next |-> FALSE,
   before |-> [kids |-> children, text |-> [n \in Node |-> TextOf(n)]],
   of |-> [n \in {dn} |-> sn], failed |-> FALSE]

\* append_copy(), prepend_copy(), insert_copy_after() and insert_copy_before():
\* a new node below p, and the loop of node_copy_tree() before its first turn.
BeginCopy(p, sn, i) ==
  LET dn == FreshNode IN
  /\ Edited /\ sn \in Alive \ Document /\ Alive # Node
  /\ children' = [children EXCEPT ![p] = InsertAt(@, i, dn)]
  /\ docOf' = [docOf EXCEPT ![dn] = docOf[p]]
  /\ SetStrings(CopyString(strings, dn, sn, docOf[p] = docOf[sn]))
  /\ job' = Job(dn, sn, IF children'[sn] = <<>> THEN None ELSE Head(children'[sn]))

\* Mutant of Onward: what could not be copied is tried again.
OnwardRetry(failed) == job' = [job EXCEPT !.next = ~failed, !.failed = @ \/ failed]

\* To the inner loop.
Onward(failed) == job' = [job EXCEPT !.next = TRUE, !.failed = @ \/ failed]

\* Mutant of Skipped: the copy is copied as well.
SkippedNever(sit) == FALSE

\* The subtree that is the copy itself.
Skipped(sit) == sit = job.dn

InLoop(next) == job # None /\ job.sit # None /\ job.next = next
SameDoc == docOf[job.dn] = docOf[job.sn]

SkipCopy ==
  /\ InLoop(FALSE) /\ Skipped(job.sit)
  /\ Onward(FALSE)
  /\ UNCHANGED <<children, docOf, string, allocated, sharing, content, edits>>

\* append_new_node() has no memory.
FailNode ==
  /\ InLoop(FALSE) /\ ~Skipped(job.sit)
  /\ MayFail \/ Alive = Node
  /\ Onward(TRUE)
  /\ UNCHANGED <<children, docOf, string, allocated, sharing, content, edits>>

\* A child copied below dit, then its children, or what follows it.
CopyNode ==
  LET c == FreshNode
      of == [n \in DOMAIN job.of \cup {c} |-> IF n = c THEN job.sit ELSE job.of[n]]
      below == children[job.sit]
  IN
  /\ InLoop(FALSE) /\ ~Skipped(job.sit) /\ Alive # Node
  /\ children' = [children EXCEPT ![job.dit] = Append(@, c)]
  /\ docOf' = [docOf EXCEPT ![c] = docOf[job.dn]]
  /\ SetStrings(CopyString(strings, c, job.sit, SameDoc))
  /\ job' = IF below # <<>> THEN [job EXCEPT !.of = of, !.dit = c, !.sit = Head(below)]
            ELSE [job EXCEPT !.of = of, !.next = TRUE]
  /\ UNCHANGED edits

\* A turn of the inner loop: to the next sibling, or up to the parent.
GoAcross ==
  /\ InLoop(TRUE) /\ NextSibling(job.sit) # None
  /\ job' = [job EXCEPT !.sit = NextSibling(job.sit), !.next = FALSE]
  /\ UNCHANGED <<children, docOf, string, allocated, sharing, content, edits>>

GoUp ==
  LET up == Parent(job.sit) IN
  /\ InLoop(TRUE) /\ NextSibling(job.sit) = None
  /\ job' = [job EXCEPT !.sit = IF up = job.sn THEN None ELSE up, !.dit = Parent(job.dit)]
  /\ UNCHANGED <<children, docOf, string, allocated, sharing, content, edits>>

EndCopy ==
  /\ job # None /\ job.sit = None
  /\ job' = None
  /\ UNCHANGED <<children, docOf, string, allocated, sharing, content, edits>>

\* destroy_node() gives back the strings that are allocated.
Destroyed(D) == allocated \ D

RemoveChild(n) ==
  LET D == Subtree(n)
      Without(list) == IF Contains(list, n) THEN RemoveAt(list, CHOOSE i \in DOMAIN list : list[i] = n) ELSE list
  IN
  /\ Edited /\ n \in Alive \ Document
  /\ children' = [p \in Node |-> IF p \in D THEN <<>> ELSE Without(children[p])]
  /\ docOf' = [m \in Node |-> IF m \in D THEN None ELSE docOf[m]]
  /\ string' = [m \in Node |-> IF m \in D THEN None ELSE string[m]]
  /\ allocated' = Destroyed(D)
  /\ sharing' = sharing \ D
  /\ UNCHANGED <<content, job>>

CopyStep == SkipCopy \/ FailNode \/ CopyNode \/ GoAcross \/ GoUp \/ EndCopy

CopyNext ==
  \/ \E n \in Node, t \in Text \cup {None} : SetString(n, t)
  \/ \E p \in Alive, sn \in Node : \E i \in 1..(Len(children[p]) + 1) : BeginCopy(p, sn, i)
  \/ CopyStep
  \/ \E n \in Node : RemoveChild(n)

CopySpec == CopyInit /\ [][CopyNext]_copyVars
-----------------------------------------------------------------------------
CopyTypeOK ==
  /\ children \in [Node -> Seq(Node)]
  /\ docOf \in [Node -> Document \cup {None}]
  /\ string \in [Node -> Buffer \cup Heap \cup {None}]
  /\ allocated \subseteq Alive /\ sharing \subseteq Alive
  /\ content \in [Buffer \cup Heap -> Text]
  /\ edits \in 0..MaxEdits

(***************************************************************************)
(* A string that is allocated belongs to one node alone, and strings in    *)
(* the buffer that two nodes have are marked as shared in both: neither is *)
(* given back nor written under another node.                              *)
(***************************************************************************)
StringsOwned ==
  /\ \A n \in Alive : string[n] \in Heap <=> n \in allocated
  /\ \A m, n \in Alive : m # n /\ string[m] = string[n] /\ string[m] # None =>
       {m, n} \subseteq sharing /\ string[m] \in Buffer

(***************************************************************************)
(* A call that writes a string changes what one node at most reads: no     *)
(* set_name() shows through in a copy, nor in what was copied.             *)
(***************************************************************************)
OthersKeepText ==
  \A m, n \in Alive \cap Alive' :
    TextOf(m)' # TextOf(m) /\ TextOf(n)' # TextOf(n) => m = n

\* The children of x, a copy, are copies of the first k that the node it was
\* made of had: in order, and of all of them unless a node could not be copied.
CopiedTo(x, k) ==
  LET had == job.before.kids[job.of[x]]
      made == children[x]
  IN
  /\ \A i \in 1..Len(made) : \E j \in 1..k : job.of[made[i]] = had[j]
  /\ \A i, h \in 1..Len(made) : \A j, l \in 1..k :
       i < h /\ job.of[made[i]] = had[j] /\ job.of[made[h]] = had[l] => j < l
  /\ job.failed \/ \A j \in 1..k : \E i \in 1..Len(made) : job.of[made[i]] = had[j]

(***************************************************************************)
(* The copy that a loop leaves is the tree as it was when the loop began,  *)
(* also when the copy is below that tree; without memory for some nodes it *)
(* lacks them and what is below them, and has the others in order.         *)
(***************************************************************************)
CopyFaithful ==
  job # None /\ job.sit = None =>
    /\ job.of[job.dn] = job.sn
    /\ \A x \in Subtree(job.dn) :
         /\ x \in DOMAIN job.of
         /\ TextOf(x) = job.before.text[job.of[x]]
         /\ CopiedTo(x, Len(job.before.kids[job.of[x]]))

CopiesFaithful == [](CopyTypeOK /\ StringsOwned /\ CopyFaithful) /\ [][OthersKeepText]_copyVars

(***************************************************************************)
(* The loop ends, wherever the copy is, also below what is copied, and     *)
(* whatever could not be copied.                                           *)
(***************************************************************************)
CopyEnds == job # None ~> job = None
=============================================================================
