------------------------------- MODULE XmlDom -------------------------------
(***************************************************************************)
(* The nodes of pugixml's documents, link by link.  The children of a node *)
(* are a list: first_child, then next_sibling up to a null; backwards the  *)
(* list is a cycle, prev_sibling_c of its first node being the last one.   *)
(*                                                                         *)
(* A call that is refused or has no memory gives a null node and changes   *)
(* nothing; it is left out.                                                *)
(***************************************************************************)
EXTENDS Integers, Sequences

CONSTANTS
  Node,       \* nodes, alive or to be allocated
  Document,   \* those inside an xml_document
  Type,       \* types of the nodes made
  None        \* the null pointer

ASSUME DomAssumption == Document \subseteq Node /\ None \notin Node

VARIABLES
  tree,   \* the links: parent, next_sibling, prev_sibling_c, first_child
  type,   \* type[n]: "null" when n is not allocated
  owner   \* owner[n]: the document whose pages hold n

vars == <<tree, type, owner>>

Alive == {n \in Node : type[n] # "null"}

\* n and its next siblings.
Siblings[n \in Node \cup {None}] == IF n = None THEN <<>> ELSE <<n>> \o Siblings[tree.next[n]]

ChildrenOf(n) == Siblings[tree.first[n]]
-----------------------------------------------------------------------------
\* append_node(): child comes last below node.
AppendLinks(t, child, node) ==
  LET head == t.first[node]
      tail == t.prev[head]
  IN  IF head # None
      THEN [parent |-> [t.parent EXCEPT ![child] = node],
            next   |-> [t.next EXCEPT ![tail] = child],
            prev   |-> [t.prev EXCEPT ![child] = tail, ![head] = child],
            first  |-> t.first]
      ELSE [parent |-> [t.parent EXCEPT ![child] = node],
            next   |-> t.next,
            prev   |-> [t.prev EXCEPT ![child] = child],
            first  |-> [t.first EXCEPT ![node] = child]]

\* prepend_node(): child comes first below node.
PrependLinks(t, child, node) ==
  LET head == t.first[node] IN
  [parent |-> [t.parent EXCEPT ![child] = node],
   next   |-> [t.next EXCEPT ![child] = head],
   prev   |-> IF head # None
              THEN [t.prev EXCEPT ![child] = t.prev[head], ![head] = child]
              ELSE [t.prev EXCEPT ![child] = child],
   first  |-> [t.first EXCEPT ![node] = child]]

\* insert_node_after()
AfterLinks(t, child, node) ==
  LET parent == t.parent[node]
      told == IF t.next[node] # None THEN t.next[node] ELSE t.first[parent]
  IN  [parent |-> [t.parent EXCEPT ![child] = parent],
       next   |-> [t.next EXCEPT ![child] = t.next[node], ![node] = child],
       prev   |-> [t.prev EXCEPT ![told] = child, ![child] = node],
       first  |-> t.first]

\* Mutant of BeforeLinks: the node takes the place of the first.
BeforeLinksFirst(t, child, node) == PrependLinks(t, child, t.parent[node])

\* insert_node_before()
BeforeLinks(t, child, node) ==
  LET parent == t.parent[node]
      before == t.prev[node]
      isFirst == t.next[before] = None
  IN  [parent |-> [t.parent EXCEPT ![child] = parent],
       next   |-> IF isFirst THEN [t.next EXCEPT ![child] = node]
                  ELSE [t.next EXCEPT ![before] = child, ![child] = node],
       prev   |-> [t.prev EXCEPT ![child] = before, ![node] = child],
       first  |-> IF isFirst THEN [t.first EXCEPT ![parent] = child] ELSE t.first]

\* Mutant of RemoveLinks: the last child goes and the first is not told.
RemoveLinksTail(t, node) ==
  LET before == t.prev[node]
      after == t.next[node]
      isFirst == t.next[before] = None
  IN  [parent |-> [t.parent EXCEPT ![node] = None],
       next   |-> IF isFirst THEN [t.next EXCEPT ![node] = None]
                  ELSE [t.next EXCEPT ![before] = after, ![node] = None],
       prev   |-> IF after # None THEN [t.prev EXCEPT ![after] = before, ![node] = None]
                  ELSE [t.prev EXCEPT ![node] = None],
       first  |-> IF isFirst THEN [t.first EXCEPT ![t.parent[node]] = after] ELSE t.first]

\* remove_node()
RemoveLinks(t, node) ==
  LET parent == t.parent[node]
      before == t.prev[node]
      after == t.next[node]
      told == IF after # None THEN after ELSE t.first[parent]
      isFirst == t.next[before] = None
  IN  [parent |-> [t.parent EXCEPT ![node] = None],
       next   |-> IF isFirst THEN [t.next EXCEPT ![node] = None]
                  ELSE [t.next EXCEPT ![before] = after, ![node] = None],
       prev   |-> [t.prev EXCEPT ![told] = before, ![node] = None],
       first  |-> IF isFirst THEN [t.first EXCEPT ![parent] = after] ELSE t.first]

\* A node and what it is below: the nodes that the loop over parent() visits,
\* the smallest set with n that holds the parent of each of its members.
Above(t, n) ==
  {m \in Node : \A S \in SUBSET Node :
     (n \in S /\ \A x \in S : t.parent[x] # None => t.parent[x] \in S) => m \in S}

\* A node and what is below it, what destroy_node() visits.
Subtree(t, n) == {m \in Node : n \in Above(t, m)}

\* The nodes of D given back to the allocator.
FreedLinks(t, D) ==
  [parent |-> [n \in Node |-> IF n \in D THEN None ELSE t.parent[n]],
   next   |-> [n \in Node |-> IF n \in D THEN None ELSE t.next[n]],
   prev   |-> [n \in Node |-> IF n \in D THEN None ELSE t.prev[n]],
   first  |-> [n \in Node |-> IF n \in D THEN None ELSE t.first[n]]]

AllowInsertChild(parent, child) ==
  /\ parent \in {"document", "element"}
  /\ child \notin {"document", "null"}
  /\ child \in {"declaration", "doctype"} => parent = "document"

\* Mutant of AllowMove: the types are not looked at.
AllowMoveAny(p, n) == owner[p] = owner[n] /\ n \notin Above(tree, p)

AllowMove(p, n) ==
  /\ AllowInsertChild(type[p], type[n])
  /\ owner[p] = owner[n]
  /\ n \notin Above(tree, p)
-----------------------------------------------------------------------------
\* _create(): the root of a document is before itself.
Init ==
  /\ tree = [parent |-> [n \in Node |-> None],
             next   |-> [n \in Node |-> None],
             prev   |-> [n \in Node |-> IF n \in Document THEN n ELSE None],
             first  |-> [n \in Node |-> None]]
  /\ type = [n \in Node |-> IF n \in Document THEN "document" ELSE "null"]
  /\ owner = [n \in Node |-> IF n \in Document THEN n ELSE None]

\* allocate_node() from the allocator of p, linked below p as in t.
NewChild(p, c, ty, t) ==
  /\ c \in Node \ Alive
  /\ AllowInsertChild(type[p], ty)
  /\ tree' = t
  /\ type' = [type EXCEPT ![c] = ty]
  /\ owner' = [owner EXCEPT ![c] = owner[p]]

AppendChild(p, c, ty) == NewChild(p, c, ty, AppendLinks(tree, c, p))
PrependChild(p, c, ty) == NewChild(p, c, ty, PrependLinks(tree, c, p))

InsertChildAfter(p, c, ty, n) ==
  n \in Alive /\ tree.parent[n] = p /\ NewChild(p, c, ty, AfterLinks(tree, c, n))

InsertChildBefore(p, c, ty, n) ==
  n \in Alive /\ tree.parent[n] = p /\ NewChild(p, c, ty, BeforeLinks(tree, c, n))

\* The node m below p, with the links of t.
Moved(p, m, t) ==
  /\ m \in Alive
  /\ AllowMove(p, m)
  /\ tree' = t
  /\ UNCHANGED <<type, owner>>

AppendMove(p, m) == Moved(p, m, AppendLinks(RemoveLinks(tree, m), m, p))
PrependMove(p, m) == Moved(p, m, PrependLinks(RemoveLinks(tree, m), m, p))

InsertMoveAfter(p, m, n) ==
  /\ n \in Alive /\ tree.parent[n] = p /\ m # n
  /\ Moved(p, m, AfterLinks(RemoveLinks(tree, m), m, n))

InsertMoveBefore(p, m, n) ==
  /\ n \in Alive /\ tree.parent[n] = p /\ m # n
  /\ Moved(p, m, BeforeLinks(RemoveLinks(tree, m), m, n))

\* remove_child(): unlinked, then destroyed with all that is below it.
RemoveChild(p, n) ==
  LET D == Subtree(tree, n) IN
  /\ n \in Alive /\ tree.parent[n] = p
  /\ tree' = FreedLinks(RemoveLinks(tree, n), D)
  /\ type' = [m \in Node |-> IF m \in D THEN "null" ELSE type[m]]
  /\ owner' = [m \in Node |-> IF m \in D THEN None ELSE owner[m]]

\* What is in the pages of d, but for the document itself.
Held(d) == {n \in Node \ Document : owner[n] = d}

\* _destroy() and _create(): the pages of d go.
ResetLinks(t, d) ==
  LET u == FreedLinks(t, Held(d) \cup {d})
  IN  [u EXCEPT !.prev = [u.prev EXCEPT ![d] = d]]

Reset(d) ==
  /\ tree' = ResetLinks(tree, d)
  /\ type' = [m \in Node |-> IF m \in Held(d) THEN "null" ELSE type[m]]
  /\ owner' = [m \in Node |-> IF m \in Held(d) THEN None ELSE owner[m]]

\* _move(): the children of e are d's; e is made anew, before nothing.
TakenLinks(t, d, e) ==
  [parent |-> [n \in Node |-> IF t.parent[n] = e THEN d ELSE t.parent[n]],
   next   |-> t.next,
   prev   |-> [t.prev EXCEPT ![e] = None],
   first  |-> [t.first EXCEPT ![d] = t.first[e], ![e] = None]]

\* d = std::move(e)
MoveDocument(d, e) ==
  /\ d # e
  /\ tree' = TakenLinks(ResetLinks(tree, d), d, e)
  /\ type' = [m \in Node |-> IF m \in Held(d) THEN "null" ELSE type[m]]
  /\ owner' = [m \in Node |-> CASE m \in Held(d) -> None
                                [] m \in Held(e) -> d
                                [] OTHER -> owner[m]]

Next ==
  \/ \E p \in Alive, c \in Node, ty \in Type :
       \/ AppendChild(p, c, ty)
       \/ PrependChild(p, c, ty)
       \/ \E n \in Alive : InsertChildAfter(p, c, ty, n) \/ InsertChildBefore(p, c, ty, n)
  \/ \E p \in Alive, m \in Alive :
       \/ AppendMove(p, m)
       \/ PrependMove(p, m)
       \/ \E n \in Alive : InsertMoveAfter(p, m, n) \/ InsertMoveBefore(p, m, n)
  \/ \E p, n \in Alive : RemoveChild(p, n)
  \/ \E d \in Document : Reset(d)
  \/ \E d, e \in Document : MoveDocument(d, e)

Spec == Init /\ [][Next]_vars
-----------------------------------------------------------------------------
TypeOK ==
  /\ tree \in [parent : [Node -> Node \cup {None}], next : [Node -> Node \cup {None}],
               prev : [Node -> Node \cup {None}], first : [Node -> Node \cup {None}]]
  /\ type \in [Node -> Type \cup {"null", "document"}]
  /\ owner \in [Node -> Document \cup {None}]

(***************************************************************************)
(* The links of a child agree with each other and with those of its        *)
(* parent: the node before it goes on to it, or else it is the first and   *)
(* the node before it the last; the node after it comes back to it.        *)
(***************************************************************************)
ChildLinked(t, n) ==
  LET p == t.parent[n]
      before == t.prev[n]
  IN  /\ t.first[p] # None
      /\ before # None
      /\ t.parent[before] = p
      /\ t.next[before] = n \/ (t.next[before] = None /\ t.first[p] = n)
      /\ t.next[n] # None => t.parent[t.next[n]] = p /\ t.prev[t.next[n]] = n
      /\ t.next[n] = None => t.prev[t.first[p]] = n

Linked(t) ==
  \A n \in Node :
    /\ t.parent[n] # None => ChildLinked(t, n)
    /\ t.parent[n] = None => t.next[n] = None
    /\ t.first[n] # None => t.parent[t.first[n]] = n /\ t.next[t.prev[t.first[n]]] = None

(***************************************************************************)
(* After any calls the lists of children are lists both ways: no edit      *)
(* leaves a link to where a node was, at either end or in the middle.      *)
(***************************************************************************)
ListsLinked == Linked(tree)

(***************************************************************************)
(* Nobody is above itself, so that the loops over parent() end: in any set *)
(* of nodes there is one whose parent is not in the set.                   *)
(***************************************************************************)
NoCycle(f) == \A S \in SUBSET Node : S # {} => \E n \in S : f[n] \notin S

ParentsEnd == NoCycle(tree.parent)

\* The same of next_sibling: the loops over the children of a node end.
SiblingsEnd == NoCycle(tree.next)

(***************************************************************************)
(* What is alive, and only that, is below a node that is alive, in pages   *)
(* of the same document: what is given back or moved between documents     *)
(* leaves nothing behind.                                                  *)
(***************************************************************************)
AliveAttached ==
  \A n \in Node :
    /\ n \in Alive \ Document <=> tree.parent[n] # None
    /\ tree.parent[n] # None => tree.parent[n] \in Alive /\ owner[n] = owner[tree.parent[n]]
    /\ n \notin Alive => tree.first[n] = None

\* Only what may be below a node is: allow_insert_child() is asked each time.
ChildrenAllowed ==
  \A n \in Node : tree.parent[n] # None => AllowInsertChild(type[tree.parent[n]], type[n])

(***************************************************************************)
(* What every loop of the library relies on: it goes over lists that are   *)
(* whole in both directions, and no way up or along comes back.            *)
(***************************************************************************)
ListsAndTrees == TypeOK /\ ListsLinked /\ ParentsEnd /\ SiblingsEnd

\* Nothing is attached that is not alive, of another document or not allowed.
WhollyAttached == AliveAttached /\ ChildrenAllowed
-----------------------------------------------------------------------------
(* The edits of sequences of children that those of the links implement. *)

ChildSequences == [n \in Node |-> ChildrenOf(n)]

Forest == INSTANCE XmlForest WITH children <- ChildSequences

Place(s, n) == CHOOSE i \in DOMAIN s : s[i] = n

\* A node comes where the name of the function says: last, first, right
\* after or right before the node given, wherever it was before.
PlaceRight ==
  \A p, c \in Node :
    LET s == ChildrenOf(p)' IN
    /\ (\E ty \in Type : AppendChild(p, c, ty)) \/ AppendMove(p, c) => s[Len(s)] = c
    /\ (\E ty \in Type : PrependChild(p, c, ty)) \/ PrependMove(p, c) => s[1] = c
    /\ \A n \in Node \ {c} :
         /\ (\E ty \in Type : InsertChildAfter(p, c, ty, n)) \/ InsertMoveAfter(p, c, n)
              => Place(s, c) = Place(s, n) + 1
         /\ (\E ty \in Type : InsertChildBefore(p, c, ty, n)) \/ InsertMoveBefore(p, c, n)
              => Place(s, c) = Place(s, n) - 1

(***************************************************************************)
(* The edits of the links are those of sequences of children: every        *)
(* function puts its node into, or takes it out of, the sequences at the   *)
(* place it is named for and leaves the rest as it was.  (Every step of    *)
(* Next that is not a stutter changes the links.)                          *)
(***************************************************************************)
ImplementsForest ==
  /\ Forest!Init
  /\ [][tree' # tree => [Forest!Next]_ChildSequences /\ PlaceRight]_vars
=============================================================================
