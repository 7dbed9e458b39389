------------------------------ MODULE XmlWriter ------------------------------
(***************************************************************************)
(* How pugixml writes a tree as text: node_output(), a node at a time, the *)
(* layout it puts between nodes, and what it does to text that its markup  *)
(* could not hold.  Then its own parser reads what was written: it makes   *)
(* the same tree of it, but for what text cannot keep.                     *)
(*                                                                         *)
(* A tree is a sequence of nodes [type, parent, name, value, attrs] in     *)
(* document order; its first node is what is written.  An empty string is  *)
(* a null pointer.                                                         *)
(***************************************************************************)
EXTENDS Integers, Sequences, FiniteSets, SequencesExt

CONSTANTS
  Written,  \* trees that are written
  Format,   \* sets of flags: "indent", "raw", "no_empty_element_tags", ..
  Indent,   \* the indentation string
  Letter,   \* symbols that can start a name
  Nul,      \* the character 0
  ReadOptions(_)  \* ReadOptions(raw): how it is read, by whether it is written raw

VARIABLES
  tree, format,  \* what is written, and how
  node,          \* the node that node_output() is at
  depth,         \* its depth
  breaks,        \* indent_flags: what goes before the next tag
  phase,         \* "begin" a node, go on to the "next", "done"
  out            \* what is written so far

vars == <<tree, format, node, depth, breaks, phase, out>>

ChildrenOf(n) == {m \in DOMAIN tree : tree[m].parent = n}
LeastOf(S) == CHOOSE m \in S : \A k \in S : m <= k
Siblings(n) == {m \in ChildrenOf(tree[n].parent) : m > n}

Anonymous == <<":", "a">>
NameOf(n) == IF tree[n].name = <<>> THEN Anonymous ELSE tree[n].name
-----------------------------------------------------------------------------
SpecialPcdata == {"&", "<", ">"}
SpecialAttr == SpecialPcdata \cup {"\"", "\n", "\r"}

Reference(char) ==
  CASE char = "&" -> <<"&", "a", "m", "p", ";">>
    [] char = "<" -> <<"&", "l", "t", ";">>
    [] char = ">" -> <<"&", "g", "t", ";">>
    [] char = "\"" -> <<"&", "q", "u", "o", "t", ";">>
    [] char = "\n" -> <<"&", "#", "1", "0", ";">>
    [] char = "\r" -> <<"&", "#", "1", "3", ";">>

\* text_output()
Escaped(s, special) ==
  LET f[i \in 0..Len(s)] ==
        IF i = 0 THEN <<>>
        ELSE f[i - 1] \o IF s[i] \in special /\ "no_escapes" \notin format THEN Reference(s[i]) ELSE <<s[i]>>
  IN  f[Len(s)]

\* text_output_cdata(): a section ends in every ']]>'.
CData(s) ==
  LET open == <<"<", "!", "[", "C", "D", "A", "T", "A", "[">>
      inner(i) == i <= Len(s) - 2 /\ s[i] = "]" /\ s[i + 1] = "]" /\ s[i + 2] = ">"
      close == <<"]", "]", ">">>
      f[i \in 0..Len(s)] ==
        IF i = 0 THEN open
        ELSE Append(f[i - 1], s[i]) \o IF i > 1 /\ inner(i - 1) THEN close \o open ELSE <<>>
  IN  f[Len(s)] \o close

\* node_output_comment(): a hyphen before another or at the end gets a space.
Comment(s) ==
  LET f[i \in 0..Len(s)] ==
        IF i = 0 THEN <<"<", "!", "-", "-">>
        ELSE Append(f[i - 1], s[i]) \o IF s[i] = "-" /\ (i = Len(s) \/ s[i + 1] = "-") THEN <<" ">> ELSE <<>>
  IN  f[Len(s)] \o <<"-", "-", ">">>

\* node_output_pi_value()
PiValue(s) ==
  LET f[i \in 0..Len(s)] ==
        IF i = 0 THEN <<>>
        ELSE Append(f[i - 1], s[i]) \o IF s[i] = "?" /\ i < Len(s) /\ s[i + 1] = ">" THEN <<" ">> ELSE <<>>
  IN  f[Len(s)]

\* text_output_indent()
Indentation(d) == LET f[i \in 0..d] == IF i = 0 THEN <<>> ELSE f[i - 1] \o Indent IN f[d]

HasIndent == {"indent", "indent_attributes"} \cap format # {} /\ "raw" \notin format

\* node_output_attributes()
AttributesText(n, raw, d) ==
  LET a == tree[n].attrs
      gap == IF "indent_attributes" \in format /\ ~raw THEN <<"\n">> \o (IF HasIndent THEN Indentation(d + 1) ELSE <<>>) ELSE <<" ">>
      f[i \in 0..Len(a)] ==
        IF i = 0 THEN <<>>
        ELSE f[i - 1] \o gap \o (IF a[i][1] = <<>> THEN Anonymous ELSE a[i][1]) \o <<"=", "\"">>
             \o Escaped(a[i][2], SpecialAttr) \o <<"\"">>
  IN  f[Len(a)]

EndText(n) == <<"<", "/">> \o NameOf(n) \o <<">">>

\* node_output_start()
StartText(n) ==
  <<"<">> \o NameOf(n) \o AttributesText(n, "raw" \in format, depth) \o
  IF tree[n].value # <<>>
  THEN <<">">> \o Escaped(tree[n].value, SpecialPcdata) \o IF ChildrenOf(n) = {} THEN EndText(n) ELSE <<>>
  ELSE IF ChildrenOf(n) # {} THEN <<">">>
  ELSE IF "no_empty_element_tags" \in format THEN <<">">> \o EndText(n)
  ELSE IF "raw" \in format THEN <<"/", ">">> ELSE <<" ", "/", ">">>

\* node_output_simple()
SimpleText(n) ==
  LET value == tree[n].value
      spaced(s) == IF value = <<>> THEN <<>> ELSE <<" ">> \o s
  IN  CASE tree[n].type = "pcdata" -> Escaped(value, SpecialPcdata)
        [] tree[n].type = "cdata" -> CData(value)
        [] tree[n].type = "comment" -> Comment(value)
        [] tree[n].type = "pi" -> <<"<", "?">> \o NameOf(n) \o spaced(PiValue(value)) \o <<"?", ">">>
        [] tree[n].type = "declaration" -> <<"<", "?">> \o NameOf(n) \o AttributesText(n, TRUE, 0) \o <<"?", ">">>
        [] tree[n].type = "doctype" -> <<"<", "!", "D", "O", "C", "T", "Y", "P", "E">> \o spaced(value) \o <<">">>

IsText(n) == tree[n].type \in {"pcdata", "cdata"}

\* Mutant of Layout: the line breaks also after text.
LayoutAlways(d) ==
  (IF "raw" \notin format THEN <<"\n">> ELSE <<>>) \o (IF HasIndent THEN Indentation(d) ELSE <<>>)

\* The new line and the indentation before a tag at depth d.
Layout(d) ==
  (IF "newline" \in breaks /\ "raw" \notin format THEN <<"\n">> ELSE <<>>)
  \o IF "indent" \in breaks /\ HasIndent THEN Indentation(d) ELSE <<>>
-----------------------------------------------------------------------------
Init ==
  /\ tree \in Written /\ format \in Format
  /\ node = 1 /\ depth = 0 /\ breaks = {"indent"} /\ phase = "begin" /\ out = <<>>

Down == node' = LeastOf(ChildrenOf(node)) /\ phase' = "begin"
Stay == UNCHANGED <<node, depth>> /\ phase' = "next"

BeginText ==
  /\ phase = "begin" /\ IsText(node)
  /\ out' = out \o SimpleText(node)
  /\ breaks' = {} /\ Stay
  /\ UNCHANGED <<tree, format>>

BeginElement ==
  /\ phase = "begin" /\ tree[node].type = "element"
  /\ out' = out \o Layout(depth) \o StartText(node)
  /\ IF ChildrenOf(node) = {} THEN breaks' = {"newline", "indent"} /\ Stay
     ELSE /\ breaks' = IF tree[node].value # <<>> THEN {} ELSE {"newline", "indent"}
          /\ depth' = depth + 1 /\ Down
  /\ UNCHANGED <<tree, format>>

BeginDocument ==
  /\ phase = "begin" /\ tree[node].type = "root"
  /\ out' = out \o Layout(depth)
  /\ breaks' = {"indent"}
  /\ IF ChildrenOf(node) = {} THEN Stay ELSE Down /\ UNCHANGED depth
  /\ UNCHANGED <<tree, format>>

BeginOther ==
  /\ phase = "begin" /\ tree[node].type \in {"comment", "pi", "declaration", "doctype"}
  /\ out' = out \o Layout(depth) \o SimpleText(node)
  /\ breaks' = {"newline", "indent"} /\ Stay
  /\ UNCHANGED <<tree, format>>

NextSiblingNode ==
  /\ phase = "next" /\ node # 1 /\ Siblings(node) # {}
  /\ node' = LeastOf(Siblings(node)) /\ phase' = "begin"
  /\ UNCHANGED <<tree, format, depth, breaks, out>>

\* The depth after the end of an element.
Risen == depth - 1

EndElement ==
  /\ phase = "next" /\ node # 1 /\ Siblings(node) = {}
  /\ node' = tree[node].parent
  /\ IF tree[node'].type = "element"
     THEN /\ depth' = Risen
          /\ out' = out \o Layout(Risen) \o EndText(node')
          /\ breaks' = {"newline", "indent"}
     ELSE UNCHANGED <<depth, out, breaks>>
  /\ UNCHANGED <<tree, format, phase>>

EndOutput ==
  /\ phase = "next" /\ node = 1
  /\ out' = out \o IF "newline" \in breaks /\ "raw" \notin format THEN <<"\n">> ELSE <<>>
  /\ phase' = "done"
  /\ UNCHANGED <<tree, format, node, depth, breaks>>

Next == BeginText \/ BeginElement \/ BeginDocument \/ BeginOther \/ NextSiblingNode \/ EndElement \/ EndOutput

Spec == Init /\ [][Next]_vars
-----------------------------------------------------------------------------
TypeOK ==
  /\ node \in DOMAIN tree /\ breaks \subseteq {"newline", "indent"}
  /\ phase \in {"begin", "next", "done"}
  /\ depth \in 0..Len(tree)

Level[n \in 1..20] ==
  IF n = 1 THEN 0 ELSE Level[tree[n].parent] + IF tree[tree[n].parent].type = "element" THEN 1 ELSE 0

(***************************************************************************)
(* The depth that is counted up and down is the node's in the tree, and is *)
(* back where it began at the end.                                         *)
(***************************************************************************)
DepthIsLevel == depth = Level[node]
-----------------------------------------------------------------------------
(* What the parser makes of it. *)

Read == INSTANCE XmlParser WITH
  Bytes <- LAMBDA u : IF u = 10 THEN <<"\n">> ELSE <<"\r">>, Codes <- 256, Shape <- {}, Source <- LAMBDA f : {},
  p <- <<>>, source <- out

\* The same text: hyphens and '?>' kept apart, sections and texts as they are read.
SpacedAt(s, At(_)) ==
  LET f[i \in 0..Len(s)] == IF i = 0 THEN <<>> ELSE Append(f[i - 1], s[i]) \o IF At(i) THEN <<" ">> ELSE <<>>
  IN  f[Len(s)]
CommentKept(s) == SpacedAt(s, LAMBDA i : s[i] = "-" /\ (i = Len(s) \/ s[i + 1] = "-"))
PiKept(s) == SpacedAt(s, LAMBDA i : s[i] = "?" /\ i < Len(s) /\ s[i + 1] = ">")

Leaf(type, value) == [type |-> type, name |-> <<>>, value |-> value, attrs |-> <<>>, kids |-> <<>>]

\* A CDATA section is cut in each ']]>'.
Sections(s) ==
  LET cuts == {i \in 2..(Len(s) - 1) : s[i - 1] = "]" /\ s[i] = "]" /\ s[i + 1] = ">"} \cup {Len(s)}
      order == SetToSortSeq(cuts, <)
  IN  [k \in DOMAIN order |-> Leaf("cdata", SubSeq(s, (IF k = 1 THEN 0 ELSE order[k - 1]) + 1, order[k]))]

\* Texts side by side are one text, and an empty text is none.
Merged(kids) ==
  LET f[i \in 0..Len(kids)] ==
        IF i = 0 THEN <<>>
        ELSE IF kids[i].type # "pcdata" THEN Append(f[i - 1], kids[i])
        ELSE IF kids[i].value = <<>> THEN f[i - 1]
        ELSE IF f[i - 1] # <<>> /\ f[i - 1][Len(f[i - 1])].type = "pcdata"
          THEN [f[i - 1] EXCEPT ![Len(f[i - 1])].value = @ \o kids[i].value]
        ELSE Append(f[i - 1], kids[i])
  IN  f[Len(kids)]

RECURSIVE Kept(_)
Kept(n) ==
  LET kids == SelectSeq([i \in DOMAIN tree |-> i], LAMBDA m : tree[m].parent = n)
      kept == FlattenSeq([i \in DOMAIN kids |-> LET m == kids[i] IN
                CASE tree[m].type = "pcdata" -> <<Leaf("pcdata", tree[m].value)>>
                  [] tree[m].type = "cdata" -> Sections(tree[m].value)
                  [] tree[m].type = "comment" -> <<Leaf("comment", CommentKept(tree[m].value))>>
                  [] tree[m].type = "pi" -> <<[Leaf("pi", PiKept(tree[m].value)) EXCEPT !.name = NameOf(m)]>>
                  [] OTHER -> <<Kept(m)>>])
      text == IF tree[n].type = "element" THEN <<Leaf("pcdata", tree[n].value)>> ELSE <<>>
  IN  [type |-> tree[n].type, name |-> IF tree[n].type \in {"root", "doctype"} THEN <<>> ELSE NameOf(n),
       value |-> IF tree[n].type = "element" THEN <<>> ELSE tree[n].value,
       attrs |-> tree[n].attrs, kids |-> Merged(text \o kept)]

(***************************************************************************)
(* Whatever the layout, the parser accepts what was written and makes the  *)
(* same nodes of it, with the same names and values.                       *)
(***************************************************************************)
RoundTrip ==
  phase = "done" =>
    LET q == Read!Finish(Read!Begin(Append(out, Nul), ReadOptions("raw" \in format), FALSE)) IN
    q.status = "ok" /\ Read!Tree(q, 1) = Kept(1)
=============================================================================
