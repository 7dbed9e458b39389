----------------------------- MODULE XPathSteps -----------------------------
(***************************************************************************)
(* Location paths of XPath: how pugixml walks the axes, applies predicates,*)
(* rewrites a path before it is used, and leaves out what a caller does    *)
(* not ask for.                                                            *)
(*                                                                         *)
(* A path is the chain of its syntax tree from the leftmost node on: steps *)
(* with their predicates, a root step, filters "(path)[...]" and unions    *)
(* with another path.  The nodes of a document are numbered in document    *)
(* order, the attributes of an element right behind it.                    *)
(***************************************************************************)
EXTENDS Integers, Sequences, FiniteSets, SequencesExt

CONSTANTS
  Documents,   \* [kind, name, parent], sequences over the nodes
  Links,       \* what a chain is made of
  Unions,      \* chains that a union may be with
  Starts,      \* chains that a path may start with
  MaxLinks     \* links added to them

VARIABLES
  doc,    \* the document
  path,   \* the chain
  links   \* how many were added

vars == <<doc, path, links>>

Nodes == DOMAIN doc.kind
Parent(n) == doc.parent[n]
IsAttribute(n) == doc.kind[n] = "attribute"

Least(S) == IF S = {} THEN 0 ELSE Min(S)
Greatest(S) == IF S = {} THEN 0 ELSE Max(S)

Kids(n) == {m \in Nodes : Parent(m) = n /\ ~IsAttribute(m)}
FirstChild(n) == Least(Kids(n))
LastChild(n) == Greatest(Kids(n))
NextSibling(n) == Least({m \in Nodes : m > n /\ Parent(m) = Parent(n) /\ ~IsAttribute(m)})
PreviousSibling(n) == Greatest({m \in Nodes : m < n /\ Parent(m) = Parent(n) /\ ~IsAttribute(m)})
InOrder(S) == SelectSeq([i \in Nodes |-> i], LAMBDA m : m \in S)
Attributes(n) == InOrder({m \in Nodes : Parent(m) = n /\ IsAttribute(m)})

\* node_is_ancestor(): n or above n.
RECURSIVE IsAncestor(_, _)
IsAncestor(a, n) == n # 0 /\ (a = n \/ IsAncestor(a, Parent(n)))

Forward == {"attribute", "child", "descendant", "descendant-or-self", "following", "following-sibling", "parent", "self"}
Reversed == {"ancestor", "ancestor-or-self", "preceding", "preceding-sibling"}

Step(axis, test, preds) == [op |-> "step", axis |-> axis, test |-> test, preds |-> preds]
-----------------------------------------------------------------------------
\* step_push(): the test of a step, whose names are those of attributes on one axis.
Test(n, axis, test) ==
  LET principal == IF axis = "attribute" THEN "attribute" ELSE "element" IN
  CASE test = "node()" -> TRUE
    [] test = "*" -> doc.kind[n] = principal
    [] test = "text()" -> doc.kind[n] = "text"
    [] OTHER -> doc.kind[n] = principal /\ doc.name[n] = test

\* The inner loop of the walks: up from c, as far as stop, to a node with a next sibling.
RECURSIVE Exit(_, _)
Exit(c, stop) ==
  IF NextSibling(c) # 0 THEN c
  ELSE IF Parent(c) \in {stop, 0} THEN 0 ELSE Exit(Parent(c), stop)

\* The nodes from c on, out of what is below stop.
RECURSIVE Onward(_, _)
Onward(c, stop) ==
  <<c>> \o IF FirstChild(c) # 0 THEN Onward(FirstChild(c), stop)
           ELSE LET e == Exit(c, stop) IN IF e = 0 THEN <<>> ELSE Onward(NextSibling(e), stop)

\* n's next siblings, and its previous ones, and what is above n.
RECURSIVE NextSiblings(_), PreviousSiblings(_), Up(_)
NextSiblings(n) == LET m == NextSibling(n) IN IF m = 0 THEN <<>> ELSE <<m>> \o NextSiblings(m)
PreviousSiblings(n) == LET m == PreviousSibling(n) IN IF m = 0 THEN <<>> ELSE <<m>> \o PreviousSiblings(m)
Up(n) == IF Parent(n) = 0 THEN <<>> ELSE <<Parent(n)>> \o Up(Parent(n))

\* The nodes from c back, what is below a node before it, without those above n.
RECURSIVE Backward(_, _), Leave(_, _)
Backward(c, n) == IF FirstChild(c) # 0 THEN Backward(LastChild(c), n) ELSE <<c>> \o Leave(c, n)
Leave(c, n) ==
  IF PreviousSibling(c) # 0 THEN Backward(PreviousSibling(c), n)
  ELSE IF Parent(c) = 0 THEN <<>>
  ELSE (IF IsAncestor(Parent(c), n) THEN <<>> ELSE <<Parent(c)>>) \o Leave(Parent(c), n)

\* The walk of the axis "preceding": first up to a node with one before it.
RECURSIVE Preceding(_, _)
Preceding(c, n) ==
  IF PreviousSibling(c) # 0 THEN Backward(PreviousSibling(c), n)
  ELSE IF Parent(c) = 0 THEN <<>> ELSE Preceding(Parent(c), n)

\* step_fill() from a node, before the test.
WalkNode(n, axis) ==
  CASE axis = "attribute" -> Attributes(n)
    [] axis = "child" -> IF FirstChild(n) = 0 THEN <<>> ELSE <<FirstChild(n)>> \o NextSiblings(FirstChild(n))
    [] axis = "descendant" -> IF FirstChild(n) = 0 THEN <<>> ELSE Onward(FirstChild(n), n)
    [] axis = "descendant-or-self" -> <<n>> \o (IF FirstChild(n) = 0 THEN <<>> ELSE Onward(FirstChild(n), n))
    [] axis = "following-sibling" -> NextSiblings(n)
    [] axis = "preceding-sibling" -> PreviousSiblings(n)
    [] axis = "following" -> LET e == Exit(n, 0) IN IF e = 0 THEN <<>> ELSE Onward(NextSibling(e), 0)
    [] axis = "preceding" -> Preceding(n, n)
    [] axis = "ancestor" -> Up(n)
    [] axis = "ancestor-or-self" -> <<n>> \o Up(n)
    [] axis = "self" -> <<n>>
    [] axis = "parent" -> IF Parent(n) = 0 THEN <<>> ELSE <<Parent(n)>>

\* step_fill() from an attribute: it is given itself only for node().
WalkAttribute(a, axis, test) ==
  LET self == IF test = "node()" THEN <<a>> ELSE <<>>
      p == Parent(a)
  IN  CASE axis = "ancestor" -> Up(a)
        [] axis = "ancestor-or-self" -> self \o Up(a)
        [] axis \in {"self", "descendant-or-self"} -> self
        [] axis = "following" -> Tail(Onward(p, 0))
        [] axis = "preceding" -> Preceding(p, p)
        [] axis = "parent" -> <<p>>
        [] OTHER -> <<>>

\* step_fill(): with once, the first node that passes the test ends it.
StepFill(n, axis, test, once) ==
  LET walked == IF IsAttribute(n) THEN WalkAttribute(n, axis, test) ELSE WalkNode(n, axis)
      passed == SelectSeq(walked, LAMBDA m : Test(m, axis, test))
  IN  IF once /\ passed # <<>> THEN <<passed[1]>> ELSE passed
-----------------------------------------------------------------------------
\* Is there a child with the name?  It stands for the expressions of predicates.
HasX(n) == \E m \in Kids(n) : doc.kind[m] = "element" /\ doc.name[m] = "x"
CountX(n) == Cardinality({m \in Kids(n) : doc.kind[m] = "element" /\ doc.name[m] = "x"})

\* optimize_self(): the kind of a predicate, [position() = k] being [k].
Class(pred) ==
  CASE pred \in {"1", "position()=1"} -> "constant one"
    [] pred \in {"2", "last()"} -> "constant"
    [] pred = "x" -> "posinv"
    [] pred \in {"count(x)", "position()<2"} -> "default"

\* The value of a predicate of numbers, and the truth of one of no number.
NumberOf(pred, n, size) == CASE pred \in {"1", "position()=1"} -> 1 [] pred = "2" -> 2 [] pred = "last()" -> size [] pred = "count(x)" -> CountX(n)
Holds(pred, n, i) == CASE pred = "x" -> HasX(n) [] pred = "position()<2" -> i < 2

\* apply_predicate() of a number that is the same for all, and of one that is not, and of a boolean.
ApplyPredicate(s, pred, once) ==
  IF Class(pred) \in {"constant one", "constant"}
  THEN LET k == NumberOf(pred, 0, Len(s)) IN IF k \in DOMAIN s THEN <<s[k]>> ELSE <<>>
  ELSE LET keep == {i \in DOMAIN s : IF pred = "count(x)" THEN NumberOf(pred, s[i], Len(s)) = i ELSE Holds(pred, s[i], i)}
           kept == SelectSeq([i \in DOMAIN s |-> i], LAMBDA i : i \in keep)
       IN  [i \in 1..(IF once /\ kept # <<>> THEN 1 ELSE Len(kept)) |-> s[kept[i]]]

\* eval_once(): may the evaluation end at the first node?
EvalOnce(type, eval) == IF type = "sorted" THEN eval # "all" ELSE eval = "any"

\* apply_predicates()
ApplyPredicates(s, preds, type, eval) ==
  FoldLeft(LAMBDA t, i : ApplyPredicate(t, preds[i], i = Len(preds) /\ EvalOnce(type, eval)),
           s, [i \in 1..Len(preds) |-> i])

\* The addresses of the nodes, of which nothing is known; the last are the lowest.
ByAddress(S) == Reverse(InOrder(S))

\* remove_duplicates()
RemoveDuplicates(ns) == IF ns.type = "unsorted" THEN [ns EXCEPT !.nodes = ByAddress(Range(ns.nodes))] ELSE ns

\* xpath_get_order()
Order(s) ==
  IF Len(s) < 2 \/ \A i \in 1..(Len(s) - 1) : s[i] < s[i + 1] THEN "sorted"
  ELSE IF \A i \in 1..(Len(s) - 1) : s[i] > s[i + 1] THEN "sorted reverse" ELSE "unsorted"

\* xpath_sort() in document order
SortDo(ns) ==
  LET order == IF ns.type = "unsorted" THEN Order(ns.nodes) ELSE ns.type IN
  [type |-> "sorted",
   nodes |-> CASE order = "sorted" -> ns.nodes
               [] order = "sorted reverse" -> Reverse(ns.nodes)
               [] order = "unsorted" -> InOrder(Range(ns.nodes))]

\* xpath_first()
First(ns) ==
  IF ns.nodes = <<>> THEN 0
  ELSE CASE ns.type = "sorted" -> ns.nodes[1]
         [] ns.type = "sorted reverse" -> ns.nodes[Len(ns.nodes)]
         [] ns.type = "unsorted" -> Min(Range(ns.nodes))

\* step_do(), from the nodes of the context or of the step before.
StepDo(context, e, eval) ==
  LET axisType == IF e.axis \in Reversed THEN "sorted reverse" ELSE "sorted"
      once == \/ e.axis = "attribute" /\ e.test \notin {"node()", "*", "text()"}
              \/ e.preds = <<>> /\ EvalOnce(axisType, eval)
              \/ Len(e.preds) = 1 /\ Class(e.preds[1]) = "constant one"
      filled == FoldLeft(LAMBDA ns, n :
                    LET type == IF e.axis # "self" /\ ns.nodes # <<>> THEN "unsorted" ELSE ns.type IN
                    [type |-> type,
                     nodes |-> ns.nodes \o ApplyPredicates(StepFill(n, e.axis, e.test, once), e.preds, type, eval)],
                  [type |-> IF e.axis = "self" THEN context.type ELSE axisType, nodes |-> <<>>],
                  context.nodes)
  IN  IF e.axis \notin {"child", "attribute", "self"} THEN RemoveDuplicates(filled) ELSE filled

\* The root of the document that n is of.
Root(n) == 1

\* eval_node_set() of a chain.
RECURSIVE EvalNodeSet(_, _, _)
EvalNodeSet(chain, n, eval) ==
  IF chain = <<>> THEN [type |-> "sorted", nodes |-> <<n>>]
  ELSE LET e == chain[Len(chain)]
           left == SubSeq(chain, 1, Len(chain) - 1)
       IN  CASE e.op = "root" -> [type |-> "sorted", nodes |-> <<Root(n)>>]
             [] e.op = "step" -> StepDo(EvalNodeSet(left, n, "all"), e, eval)
             [] e.op = "filter" ->
                  LET set == EvalNodeSet(left, n, IF Class(e.pred) = "constant one" THEN "first" ELSE "all")
                      sorted == IF Class(e.pred) = "posinv" THEN set ELSE SortDo(set)
                  IN  [sorted EXCEPT !.nodes = ApplyPredicate(@, e.pred, EvalOnce(sorted.type, eval))]
             [] e.op = "union" ->
                  RemoveDuplicates([type |-> "unsorted",
                                    nodes |-> EvalNodeSet(e.other, n, eval).nodes \o EvalNodeSet(left, n, eval).nodes])

AllNodes == Step("descendant-or-self", "node()", <<>>)

\* Mutant of Mergeable: predicates that count positions are no obstacle.
MergeableAny(before, e) == before = AllNodes /\ e.op = "step" /\ e.axis \in {"child", "self", "descendant", "descendant-or-self"}

\* Whether "//" before e may be made one step with it: is_posinv_step().
Mergeable(before, e) ==
  /\ before = AllNodes
  /\ e.op = "step" /\ e.axis \in {"child", "self", "descendant", "descendant-or-self"}
  /\ \A i \in DOMAIN e.preds : Class(e.preds[i]) = "posinv"

\* optimize(), from the left
Optimized(chain) ==
  FoldLeft(LAMBDA done, e :
             IF done # <<>> /\ Mergeable(done[Len(done)], e)
             THEN Append(SubSeq(done, 1, Len(done) - 1),
                         [e EXCEPT !.axis = IF @ \in {"child", "descendant"} THEN "descendant" ELSE "descendant-or-self"])
             ELSE Append(done, e),
           <<>>, chain)

\* evaluate_node_set(), evaluate_node(), evaluate_boolean()
SelectNodes(n) == EvalNodeSet(Optimized(path), n, "all")
SelectNode(n) == First(EvalNodeSet(Optimized(path), n, "first"))
Matches(n) == EvalNodeSet(Optimized(path), n, "any").nodes # <<>>
-----------------------------------------------------------------------------
Init == doc \in Documents /\ path \in Starts /\ links = 0

\* One more link of the path, as the parser makes them: the root comes first.
AddLink ==
  /\ links < MaxLinks /\ links' = links + 1
  /\ \E e \in Links :
       /\ e.op = "root" => path = <<>>
       /\ e.op = "filter" => path # <<>>
       /\ path' = Append(path, e)
  /\ UNCHANGED doc

AddUnion ==
  /\ path # <<>> /\ links < MaxLinks /\ links' = links + 1
  /\ \E u \in Unions : path' = Append(path, [op |-> "union", other |-> u])
  /\ UNCHANGED doc

Next == AddLink \/ AddUnion

Spec == Init /\ [][Next]_vars
-----------------------------------------------------------------------------
Below(n) == {m \in Nodes : m # n /\ IsAncestor(n, m)}

\* The axes as XPath defines them, by what is before, after, above and below.
Axis(n, axis) ==
  LET tree == {m \in Nodes : ~IsAttribute(m)}
      above == {m \in Nodes : m # n /\ IsAncestor(m, n)}
      beside == {m \in tree : Parent(m) = Parent(n)}
  IN  CASE axis = "attribute" -> {m \in Nodes : Parent(m) = n /\ IsAttribute(m)}
        [] axis = "child" -> {m \in tree : Parent(m) = n}
        [] axis = "descendant" -> Below(n) \cap tree
        [] axis = "descendant-or-self" -> (Below(n) \cap tree) \cup {n}
        [] axis = "following-sibling" -> IF IsAttribute(n) THEN {} ELSE {m \in beside : m > n}
        [] axis = "preceding-sibling" -> IF IsAttribute(n) THEN {} ELSE {m \in beside : m < n}
        [] axis = "following" -> {m \in tree : m > n} \ Below(n)
        [] axis = "preceding" -> {m \in tree : m < n} \ above
        [] axis = "ancestor" -> above
        [] axis = "ancestor-or-self" -> above \cup {n}
        [] axis = "self" -> {n}
        [] axis = "parent" -> {Parent(n)} \ {0}

\* What a predicate leaves of a set, whose nodes count from one end or the other.
Filtered(S, pred, reversed) ==
  {n \in S :
     LET i == Cardinality({m \in S : IF reversed THEN m >= n ELSE m <= n}) IN
     CASE pred \in {"1", "2", "last()", "count(x)", "position()=1"} -> NumberOf(pred, n, Cardinality(S)) = i
       [] OTHER -> Holds(pred, n, i)}

\* What XPath says that a chain selects, step by step and with nothing left out.
RECURSIVE Selected(_, _)
Selected(chain, n) ==
  IF chain = <<>> THEN {n}
  ELSE LET e == chain[Len(chain)]
           left == Selected(SubSeq(chain, 1, Len(chain) - 1), n)
       IN  CASE e.op = "root" -> {1}
             [] e.op = "step" ->
                  UNION {FoldLeft(LAMBDA S, p : Filtered(S, p, e.axis \in Reversed),
                                  {m \in Axis(c, e.axis) : Test(m, e.axis, e.test)}, e.preds) : c \in left}
             [] e.op = "filter" -> Filtered(left, e.pred, FALSE)
             [] e.op = "union" -> left \cup Selected(e.other, n)

(***************************************************************************)
(* A path, as rewritten, selects from every node the nodes that XPath says *)
(* of the path as written.                                                 *)
(***************************************************************************)
SelectsTheNodes ==
  path # <<>> => \A n \in Nodes : Range(SelectNodes(n).nodes) = Selected(path, n)

(***************************************************************************)
(* A node comes once in a set, and a set that claims an order has it: the  *)
(* duplicates of others are never looked for.                              *)
(***************************************************************************)
OrderedAsClaimed ==
  path # <<>> =>
    \A n \in Nodes :
      LET ns == SelectNodes(n) IN
      /\ IsInjective(ns.nodes)
      /\ ns.type # "unsorted" => Order(IF ns.type = "sorted" THEN ns.nodes ELSE Reverse(ns.nodes)) = "sorted"

(***************************************************************************)
(* Asked for one node, or whether there is any, the evaluation that leaves *)
(* off early comes to what the whole set would have: its first node in the *)
(* order of the document.                                                  *)
(***************************************************************************)
EarlyEndAgrees ==
  path # <<>> =>
    \A n \in Nodes :
      /\ SelectNode(n) = Least(Selected(path, n))
      /\ Matches(n) <=> Selected(path, n) # {}
=============================================================================
