------------------------------ MODULE MCXmlTree ------------------------------
(***************************************************************************)
(* Small instances of what pugixml does with trees: the edits of the links *)
(* (XmlDom) and the forest they implement, the walks and searches over     *)
(* them (XmlNavigation), the lists of attributes (XmlAttributes), the      *)
(* place in the buffer that stands for the order of nodes (XmlOrder), and  *)
(* location paths (XPathSteps).  They share no state: a behaviour takes    *)
(* one of Parts and leaves the variables of the others alone, so that a    *)
(* run explores each of its parts by itself.                               *)
(***************************************************************************)
EXTENDS XmlDom, XmlAttributes, Integers, Sequences, TLC, FiniteSets

CONSTANTS
  Parts,      \* the parts of a run
  WalkedNode, WalkedDocument   \* the nodes of the walks and the searches

VARIABLES
  part,
  links, kinds, owners, name,                                  \* XmlNavigation: as in XmlDom, and names
  walk, top, at, depth, visited, since, edits,
  kids, text, attrs, names, value, shared, docShared, steps,   \* XmlOrder
  doc, path, added                                             \* XPathSteps

domVars == vars
treeVars == <<links, kinds, owners, name>>
walkVars == <<walk, top, at, depth, visited, since, edits>>
orderVars == <<kids, text, attrs, names, value, shared, docShared, steps>>
pathVars == <<doc, path, added>>

Idle == "idle"

TreeIdle == links = Idle /\ kinds = Idle /\ owners = Idle /\ name = Idle
WalkIdle ==
  /\ walk = Idle /\ top = Idle /\ at = Idle /\ depth = Idle
  /\ visited = Idle /\ since = Idle /\ edits = Idle
OrderIdle ==
  /\ kids = Idle /\ text = Idle /\ attrs = Idle /\ names = Idle /\ value = Idle
  /\ shared = Idle /\ docShared = Idle /\ steps = Idle
PathIdle == doc = Idle /\ path = Idle /\ added = Idle

\* Nodes that are to be allocated are alike.
Alike == Permutations(Node \ Document) \cup Permutations(WalkedNode \ WalkedDocument)
-----------------------------------------------------------------------------
(* XmlNavigation: one document with up to four nodes; for the searches two *)
(* names, and paths of up to five tokens in which no two segments touch.   *)

Segment == {"x", "y", ".", ".."}
Paths ==
  {p \in UNION {[1..k -> Segment \cup {"/"}] : k \in 0..5} :
     \A i \in 1..(Len(p) - 1) : p[i] = "/" \/ p[i + 1] = "/"}

WalkType == {"element", "pcdata"}
TwoNames == {"x", "y"}
OneName == {"x"}
Kinds == {"traverse", "forward", "back", "named", "named back"}

Search ==
  INSTANCE XmlNavigation WITH
    tree <- links, type <- kinds, owner <- owners,
    Node <- WalkedNode, Document <- WalkedDocument, Type <- WalkType,
    Name <- TwoNames, Path <- Paths, Kind <- {}, Wanted <- "x", MaxEdits <- 0

Walk ==
  INSTANCE XmlNavigation WITH
    tree <- links, type <- kinds, owner <- owners,
    Node <- WalkedNode, Document <- WalkedDocument, Type <- WalkType,
    Name <- OneName, Path <- {}, Kind <- Kinds, Wanted <- "x", MaxEdits <- 1
-----------------------------------------------------------------------------
(* XmlOrder: <a b=''>text<c d=''/></a>, with a node and an attribute to    *)
(* spare and buffers before and behind that of the document.               *)

OrderNodes == 0..4
OrderAttributes == 5..7

ParsedTree ==
  LET null == [i \in OrderNodes \cup OrderAttributes |-> 0]
      none == [n \in OrderNodes |-> <<>>]
  IN  [text |-> {2},
       kids |-> 0 :> <<1>> @@ 1 :> <<2, 3>> @@ none,
       attrs |-> 1 :> <<5>> @@ 3 :> <<6>> @@ none,
       name |-> 1 :> 11 @@ 5 :> 12 @@ 3 :> 15 @@ 6 :> 16 @@ null,
       value |-> 5 :> 13 @@ 2 :> 14 @@ 6 :> 17 @@ null]
ParsedTrees == {ParsedTree}
Places == {5, 30}

Ordering ==
  INSTANCE XmlOrder WITH
    name <- names, Node <- OrderNodes, Attribute <- OrderAttributes, Root <- 0, Trees <- ParsedTrees,
    Appended <- Places, MaxSteps <- 3, MoveShared <- FALSE
-----------------------------------------------------------------------------
(* XPathSteps: two documents in which every axis has something before,     *)
(* after, above and below, and steps of every axis.                        *)

\* <x><x a=""><y/><x/></x>text<y a=""><x/></y></x>
Wide == [kind   |-> <<"document", "element", "element", "attribute", "element", "element", "text", "element", "attribute", "element">>,
         name   |-> <<"", "x", "x", "a", "y", "x", "", "y", "a", "x">>,
         parent |-> <<0, 1, 2, 3, 3, 3, 2, 2, 8, 8>>]

\* <x a=""><x><x><x/></x>text</x></x>
Deep == [kind   |-> <<"document", "element", "attribute", "element", "element", "element", "text">>,
         name   |-> <<"", "x", "a", "x", "x", "x", "">>,
         parent |-> <<0, 1, 2, 2, 4, 5, 4>>]

ForwardAxes == {"attribute", "child", "descendant", "descendant-or-self", "following",
                "following-sibling", "parent", "self"}
ReverseAxes == {"ancestor", "ancestor-or-self", "preceding", "preceding-sibling"}
Axes == ForwardAxes \cup ReverseAxes

StepOf(axis, test, preds) == [op |-> "step", axis |-> axis, test |-> test, preds |-> preds]

PathLinks ==
  {StepOf(axis, "x", preds) : axis \in Axes, preds \in {<<>>, <<"1">>, <<"x">>}}
  \cup {StepOf(axis, "node()", <<>>) : axis \in Axes}
  \cup {StepOf(axis, "node()", preds) : axis \in {"child", "preceding"},
                                       preds \in {<<"last()">>, <<"2">>, <<"count(x)">>, <<"x", "1">>, <<"position()<2", "x">>}}
  \cup {StepOf("attribute", "*", <<>>), StepOf("attribute", "a", <<>>),
        StepOf("descendant", "text()", <<>>), StepOf("self", "*", <<>>)}
  \cup {[op |-> "filter", pred |-> p] : p \in {"1", "last()", "x", "position()=1", "count(x)"}}
  \cup {[op |-> "root"]}

PathUnions == {<<StepOf("ancestor", "x", <<>>)>>,
               <<StepOf("child", "node()", <<>>), StepOf("attribute", "a", <<>>)>>}

QueryDocuments == {Wide, Deep}
PathStarts == {<<>>, <<StepOf("descendant-or-self", "node()", <<>>)>>}

Query ==
  INSTANCE XPathSteps WITH
    links <- added, Documents <- QueryDocuments, Links <- PathLinks, Unions <- PathUnions,
    Starts <- PathStarts, MaxLinks <- 2
-----------------------------------------------------------------------------
ASSUME PartsAssumption == Walk!DomAssumption

InitParts ==
  /\ Init /\ AttributesInit
  /\ part \in Parts
  /\ \/ /\ part = "dom"
        /\ TreeIdle /\ WalkIdle /\ OrderIdle /\ PathIdle
     \/ /\ part = "search"
        /\ Search!NavInit
        /\ WalkIdle /\ OrderIdle /\ PathIdle
     \/ /\ part = "walk"
        /\ Walk!WalkInit
        /\ OrderIdle /\ PathIdle
     \/ /\ part = "attributes"
        /\ TreeIdle /\ WalkIdle /\ OrderIdle /\ PathIdle
     \/ /\ part = "order"
        /\ Ordering!Init
        /\ TreeIdle /\ WalkIdle /\ PathIdle
     \/ /\ part = "query"
        /\ Query!Init
        /\ TreeIdle /\ WalkIdle /\ OrderIdle

DomStep ==
  /\ part = "dom"
  /\ Next
  /\ UNCHANGED <<part, treeVars, walkVars, attributeVars, orderVars, pathVars>>

SearchStep ==
  /\ part = "search"
  /\ Search!NavNext
  /\ UNCHANGED <<part, domVars, walkVars, attributeVars, orderVars, pathVars>>

WalkStep ==
  /\ part = "walk"
  /\ Walk!WalkNext
  /\ UNCHANGED <<part, domVars, attributeVars, orderVars, pathVars>>

AttributesStep ==
  /\ part = "attributes"
  /\ AttributesNext
  /\ UNCHANGED <<part, domVars, treeVars, walkVars, orderVars, pathVars>>

OrderStep ==
  /\ part = "order"
  /\ Ordering!Next
  /\ UNCHANGED <<part, domVars, treeVars, walkVars, attributeVars, pathVars>>

QueryStep ==
  /\ part = "query"
  /\ Query!Next
  /\ UNCHANGED <<part, domVars, treeVars, walkVars, attributeVars, orderVars>>

NextParts == DomStep \/ SearchStep \/ WalkStep \/ AttributesStep \/ OrderStep \/ QueryStep

allVars == <<part, domVars, treeVars, walkVars, attributeVars, orderVars, pathVars>>

SpecParts == InitParts /\ [][NextParts]_allVars
-----------------------------------------------------------------------------
(***************************************************************************)
(* A search by path finds a node the path leads to, if there is one, and   *)
(* the path of a node leads back to it or to the first one with that path. *)
(***************************************************************************)
SearchesFind ==
  part = "search" =>
    Search!NavTypeOK /\ Search!FindsWhatPathSays /\ Search!PathLeadsBack

(***************************************************************************)
(* A walk whose steps edit the tree goes over what it is to go over, in    *)
(* order, nothing twice and nothing left out, and tells the depth of each. *)
(***************************************************************************)
WalksVisitAll ==
  /\ [](part = "walk" => Walk!WalkTypeOK /\ Walk!VisitsInOrder /\ Walk!VisitsAll)
  /\ [][part = "walk" => Walk!DepthRight]_allVars

(***************************************************************************)
(* A path selects what XPath says, in the order it claims, and an          *)
(* evaluation that ends early finds what the whole set begins with.        *)
(***************************************************************************)
PathsSelect ==
  part = "query" =>
    Query!SelectsTheNodes /\ Query!OrderedAsClaimed /\ Query!EarlyEndAgrees

(***************************************************************************)
(* The comparator that XPath sorts with tells the order of the document    *)
(* after any edits that keep its shortcut valid.                           *)
(***************************************************************************)
OrderOfTheDocument == part = "order" => Ordering!TypeOK /\ Ordering!ComparesDocumentOrder
=============================================================================
