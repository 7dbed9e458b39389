---------------------------- MODULE XmlNavigation ----------------------------
(***************************************************************************)
(* Finding nodes in a document: by name among children and siblings, and   *)
(* by path.  The nodes of XmlDom get names, except those of text; they are *)
(* inserted and removed at every place, also by the steps of a walk.       *)
(*                                                                         *)
(* A path is a sequence of names, ".", ".." and "/", what path() and       *)
(* first_element_by_path() make of a string with that delimiter.  No name  *)
(* contains a delimiter.                                                   *)
(***************************************************************************)
EXTENDS XmlDom, Integers, SequencesExt

CONSTANTS
  Name,   \* names of elements
  Path    \* paths that are looked for

VARIABLE name   \* name[n]: None when it has none

navVars == <<tree, type, owner, name>>
-----------------------------------------------------------------------------
\* last_child()
LastChild(n) == IF tree.first[n] = None THEN None ELSE tree.prev[tree.first[n]]

\* previous_sibling()
PreviousSibling(n) == IF tree.next[tree.prev[n]] # None THEN tree.prev[n] ELSE None

\* The first of a sequence of nodes with a name.
FirstNamed(s, x) ==
  LET named == SelectSeq(s, LAMBDA n : name[n] = x) IN IF named = <<>> THEN None ELSE named[1]

\* child(name) and next_sibling(name)
Child(n, x) == FirstNamed(ChildrenOf(n), x)
NextSiblingNamed(n, x) == FirstNamed(Siblings[tree.next[n]], x)

\* previous_sibling(name)
PreviousSiblingNamed(n, x) ==
  LET back[m \in Node \cup {None}] ==
        IF m = None \/ name[m] = x THEN m ELSE back[PreviousSibling(m)]
  IN  back[PreviousSibling(n)]

\* path(), filled in from the end, from the node up.
PathOf[n \in Node] ==
  LET named == IF name[n] = None THEN <<>> ELSE <<name[n]>> IN
  IF tree.parent[n] = None THEN named ELSE PathOf[tree.parent[n]] \o <<"/">> \o named

\* The path behind its leading delimiters.
RECURSIVE Undelimited(_)
Undelimited(path) == IF path # <<>> /\ path[1] = "/" THEN Undelimited(Tail(path)) ELSE path

\* Mutant of FirstElementByPath: the first child with the name is the only one tried.
RECURSIVE FirstElementByPathOnce(_, _)
FirstElementByPathOnce(n, path) ==
  IF n = None \/ path = <<>> THEN n
  ELSE LET found == IF path[1] = "/" THEN owner[n] ELSE n
           segments == Undelimited(path)
           rest == Undelimited(Tail(segments))
       IN  CASE segments = <<>> -> found
             [] segments # <<>> /\ segments[1] = "." -> FirstElementByPathOnce(found, rest)
             [] segments # <<>> /\ segments[1] = ".." -> FirstElementByPathOnce(tree.parent[found], rest)
             [] OTHER -> FirstElementByPathOnce(Child(found, segments[1]), rest)

\* first_element_by_path(): the children with the name are tried in turn.
RECURSIVE FirstElementByPath(_, _)
FirstElementByPath(n, path) ==
  IF n = None \/ path = <<>> THEN n
  ELSE LET found == IF path[1] = "/" THEN owner[n] ELSE n
           segments == Undelimited(path)
           rest == Undelimited(Tail(segments))
           tried == [i \in DOMAIN ChildrenOf(found) |->
                       LET child == ChildrenOf(found)[i] IN
                       IF name[child] = segments[1] THEN FirstElementByPath(child, rest) ELSE None]
           hits == SelectSeq(tried, LAMBDA m : m # None)
       IN  CASE segments = <<>> -> found
             [] segments # <<>> /\ segments[1] = "." -> FirstElementByPath(found, rest)
             [] segments # <<>> /\ segments[1] = ".." -> FirstElementByPath(tree.parent[found], rest)
             [] OTHER -> IF hits = <<>> THEN None ELSE hits[1]
-----------------------------------------------------------------------------
\* The node to be allocated; which of them it is makes no difference.
Fresh == IF Node = Alive THEN {} ELSE {CHOOSE n \in Node : n \notin Alive}

NavInit == Init /\ name = [n \in Node |-> None]

\* A new element with a name, or a text, at a place below p.
Insert(p, c, ty, x) ==
  /\ ty = "element" <=> x # None
  /\ \/ AppendChild(p, c, ty) \/ PrependChild(p, c, ty)
     \/ \E n \in Alive : InsertChildAfter(p, c, ty, n) \/ InsertChildBefore(p, c, ty, n)
  /\ name' = [name EXCEPT ![c] = x]

Remove1(p, n) ==
  /\ RemoveChild(p, n)
  /\ name' = [m \in Node |-> IF type'[m] = "null" THEN None ELSE name[m]]

NavNext ==
  \/ \E p \in Alive, c \in Fresh, ty \in Type, x \in Name \cup {None} : Insert(p, c, ty, x)
  \/ \E n \in Alive \ Document : Remove1(tree.parent[n], n)

NavSpec == NavInit /\ [][NavNext]_navVars
-----------------------------------------------------------------------------
\* n with what is below it, parents before children and these in their order.
Preorder[n \in Node] ==
  FoldLeft(LAMBDA s, child : s \o Preorder[child], <<n>>, ChildrenOf(n))

NavTypeOK == TypeOK /\ name \in [Node -> Name \cup {None}] /\ \A n \in Node : name[n] # None <=> type[n] = "element"

(***************************************************************************)
(* The path of an element, looked for from any node, leads to the first    *)
(* element in the document with that path; that of a text, to the first    *)
(* with the path of its parent.                                            *)
(***************************************************************************)
PathLeadsBack ==
  \A n \in Alive \ Document, from \in Alive :
    LET target == IF name[n] = None THEN tree.parent[n] ELSE n
        same == SelectSeq(Preorder[owner[n]], LAMBDA m : (m \in Document \/ name[m] # None) /\ PathOf[m] = PathOf[target])
    IN  owner[from] = owner[n] => FirstElementByPath(from, PathOf[n]) = same[1]

\* Where a path may lead from n, one segment after the other.
Reached(n, path) ==
  FoldLeft(LAMBDA S, segment :
             CASE segment = "." -> S
               [] segment = ".." -> {tree.parent[m] : m \in S} \ {None}
               [] OTHER -> {m \in Alive : tree.parent[m] \in S /\ name[m] = segment},
           IF path # <<>> /\ path[1] = "/" THEN {owner[n]} ELSE {n},
           SelectSeq(path, LAMBDA t : t # "/"))

\* A search by path finds nothing only where the path leads nowhere, though
\* the first child with a name need not be the one that has the rest.
FindsWhatPathSays ==
  \A n \in Alive, path \in Path :
    LET found == FirstElementByPath(n, path) IN
    IF found = None THEN Reached(n, path) = {} ELSE found \in Reached(n, path)
-----------------------------------------------------------------------------
(***************************************************************************)
(* Walks over a document whose steps edit it: traverse() with a walker     *)
(* that inserts and removes nodes, and loops with the iterators of the     *)
(* children, all of them or those with a name, to the end or back from it. *)
(*                                                                         *)
(* A step may not remove the node it is given or one above it: the walk    *)
(* goes on from there.                                                     *)
(***************************************************************************)
CONSTANTS
  Kind,       \* the walks: "traverse", "forward", "back", "named", "named back"
  Wanted,     \* the name that the walks by name look for
  MaxEdits    \* edits in the steps of one walk

VARIABLES
  walk,      \* its kind, or "none" or "over"
  top,       \* the node that is walked over
  at,        \* the node that the step is given
  depth,     \* the walker's _depth, which stays after a walk
  visited,   \* the nodes given to the steps, those removed since taken out
  since,     \* those of the walk that have been there since it began
  edits

walkVars == <<navVars, walk, top, at, depth, visited, since, edits>>

Walking == walk \in Kind
-----------------------------------------------------------------------------
\* What the walks are over, in the order of the steps.
Course(kind, n) ==
  LET children == ChildrenOf(n)
      named == SelectSeq(children, LAMBDA m : name[m] = Wanted)
  IN  CASE kind = "traverse" -> Tail(Preorder[n])
        [] kind = "forward" -> children
        [] kind = "back" -> Reverse(children)
        [] kind = "named" -> named
        [] kind = "named back" -> Reverse(named)

\* xml_named_node_iterator::operator--() at the end
LastNamed(n) ==
  LET last == LastChild(n) IN
  IF last = None \/ name[last] = Wanted THEN last ELSE PreviousSiblingNamed(last, Wanted)

\* Where a walk starts; for those back, by a -- at the end.
Start(kind, n) ==
  CASE kind \in {"traverse", "forward"} -> tree.first[n]
    [] kind = "back" -> LastChild(n)
    [] kind = "named" -> Child(n, Wanted)
    [] kind = "named back" -> LastNamed(n)

\* Mutant of Climb: the walk climbs past the node it is over.
ClimbOut(n) ==
  LET from[m \in Node] ==
        IF tree.next[m] = None /\ tree.parent[m] # None
        THEN [at |-> from[tree.parent[m]].at, up |-> 1 + from[tree.parent[m]].up]
        ELSE [at |-> m, up |-> 0]
  IN  from[n]

\* The inner loop of traverse(): up to a node with a next one, and by how much.
Climb(n) ==
  LET from[m \in Node] ==
        IF tree.next[m] = None /\ m # top /\ tree.parent[m] # None
        THEN [at |-> from[tree.parent[m]].at, up |-> 1 + from[tree.parent[m]].up]
        ELSE [at |-> m, up |-> 0]
  IN  from[n]

Visit(n) == at' = n /\ visited' = Append(visited, n) /\ UNCHANGED <<walk, top, since>>
Over == walk' = "over" /\ at' = None /\ UNCHANGED <<top, visited, since>>
-----------------------------------------------------------------------------
WalkInit ==
  /\ NavInit
  /\ walk = "none" /\ top = None /\ at = None /\ depth = 0
  /\ visited = <<>> /\ since = {} /\ edits = 0

\* The document that is walked over is made before.
Build == walk = "none" /\ NavNext /\ UNCHANGED <<walk, top, at, depth, visited, since, edits>>

\* traverse() up to its first step, or the first element of a loop.
Begin(kind, n) ==
  LET first == Start(kind, n) IN
  /\ top' = n /\ at' = first
  /\ walk' = IF first = None THEN "over" ELSE kind
  /\ visited' = IF first = None THEN <<>> ELSE <<first>>
  /\ since' = Range(Course(kind, n))
  /\ depth' = IF kind # "traverse" THEN depth ELSE IF first # None THEN 0 ELSE -1
  /\ UNCHANGED <<navVars, edits>>

BeginAny == walk = "none" /\ \E kind \in Kind, n \in Alive : Begin(kind, n)

\* A step inserts a node, wherever it likes.
EditInsert ==
  /\ Walking /\ edits < MaxEdits /\ edits' = edits + 1
  /\ \E p \in Alive, c \in Fresh, ty \in Type, x \in Name \cup {None} : Insert(p, c, ty, x)
  /\ UNCHANGED <<walk, top, at, depth, visited, since>>

\* A step removes a node that the walk does not stand on or below.
EditRemove ==
  /\ Walking /\ edits < MaxEdits /\ edits' = edits + 1
  /\ \E n \in (Alive \ Document) \ Above(tree, at) :
       /\ Remove1(tree.parent[n], n)
       /\ visited' = SelectSeq(visited, LAMBDA m : m \notin Subtree(tree, n))
       /\ since' = since \ Subtree(tree, n)
  /\ UNCHANGED <<walk, top, at, depth>>

\* traverse() from one step to the next one, or to its end.
Advance ==
  /\ walk = "traverse"
  /\ LET up == Climb(at)
         next == IF up.at # top THEN tree.next[up.at] ELSE top
     IN  CASE tree.first[at] # None -> depth' = depth + 1 /\ Visit(tree.first[at])
           [] tree.first[at] = None /\ tree.next[at] # None -> UNCHANGED depth /\ Visit(tree.next[at])
           [] OTHER -> /\ depth' = depth - up.up
                       /\ IF next # None /\ next # top THEN Visit(next) ELSE Over
  /\ UNCHANGED <<navVars, edits>>

VisitIf(n) == IF n # None THEN Visit(n) ELSE Over

\* ++ up to end(), or -- down to begin().
Iterate ==
  /\ \/ walk = "forward" /\ VisitIf(tree.next[at])
     \/ walk = "named" /\ VisitIf(NextSiblingNamed(at, Wanted))
     \/ walk = "back" /\ IF at = tree.first[top] THEN Over ELSE VisitIf(PreviousSibling(at))
     \/ walk = "named back" /\ IF at = Child(top, Wanted) THEN Over ELSE VisitIf(PreviousSiblingNamed(at, Wanted))
  /\ UNCHANGED <<navVars, depth, edits>>

\* for_each() says to stop, a loop is left, or the walk is over.
Stop ==
  /\ walk # "none" /\ walk' = "none"
  /\ top' = None /\ at' = None
  /\ visited' = <<>> /\ since' = {} /\ edits' = 0
  /\ UNCHANGED <<navVars, depth>>

WalkNext == Build \/ BeginAny \/ EditInsert \/ EditRemove \/ Advance \/ Iterate \/ Stop

WalkSpec == WalkInit /\ [][WalkNext]_walkVars
-----------------------------------------------------------------------------
WalkTypeOK ==
  /\ NavTypeOK
  /\ walk \in Kind \cup {"none", "over"}
  /\ Walking <=> at \in Alive
  /\ visited \in Seq(Alive) /\ since \subseteq Alive

\* How far n is below the node that is walked over, its children being at 0.
DepthOf[n \in Node] == IF tree.parent[n] = top \/ tree.parent[n] = None THEN 0 ELSE 1 + DepthOf[tree.parent[n]]

(***************************************************************************)
(* The depth that a walker is told is that of the node it is given, and at *)
(* the end it is back at -1, as traverse() asserts, whatever the steps     *)
(* inserted and removed, and however the walk before was left.             *)
(***************************************************************************)
DepthRight ==
  /\ walk' = "traverse" => depth' = DepthOf[at]'
  /\ walk = "traverse" /\ walk' = "over" => depth' = -1

DepthIsDepth == [][DepthRight]_walkVars

(***************************************************************************)
(* A walk goes over nodes of the document that it is to go over, in their  *)
(* order and none of them twice, while the steps change what there is.     *)
(***************************************************************************)
VisitsInOrder ==
  Walking => visited = SelectSeq(Course(walk, top), LAMBDA n : Contains(visited, n))

(***************************************************************************)
(* A walk that is over has been to every node that was there at its start  *)
(* and is there still.                                                     *)
(***************************************************************************)
VisitsAll == walk = "over" => since \subseteq Range(visited)
=============================================================================
