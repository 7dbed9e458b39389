------------------------------ MODULE XmlParser ------------------------------
(***************************************************************************)
(* pugixml's parser, a construct at a time: it works in the buffer of the  *)
(* document, over whose last character it writes a zero, ends each name    *)
(* and value there with a zero, and keeps where they begin.                *)
(*                                                                         *)
(* A node is [type, parent, name, value, attrs], its strings positions, 0  *)
(* when there is none; the root is node 1.  Allocations do not fail here.  *)
(***************************************************************************)
EXTENDS XmlStrconv

CONSTANTS
  Shape,      \* shapes of texts
  Source(_),  \* Source(f): texts of shape f, [opts |-> .., inner |-> .., text |-> ..]
  Letter      \* symbols that can start a name

VARIABLES
  p,       \* the parser
  source   \* what it parses

vars == <<p, source>>

Symbol == Letter \cup DOMAIN Digit \cup {"-"}
Quote == {"'", "\""}

Ch(q, i) == q.buf[q.s + i]
Is(q, marks) == \A i \in DOMAIN marks : Ch(q, i - 1) = marks[i]
Go(q, n) == [q EXCEPT !.s = @ + n]

\* PUGI__THROW_ERROR, at the character before when a zero was given in the text.
Fail(q, status, s) ==
  [q EXCEPT !.status = status, !.mode = "end",
            !.offset = IF s = Len(q.buf) /\ s > 1 /\ q.endch = Nul THEN s - 2 ELSE s - 1]

Cursor(q) == q.nodes[q.cursor]
HasParent(q) == q.cursor # 1 \/ q.inner
HasChild(q, n) == \E m \in DOMAIN q.nodes : q.nodes[m].parent = n
StringAt(q, i) == CString(From(q.buf, i - 1))

Pushed(q, type) ==
  [q EXCEPT !.nodes = Append(@, [type |-> type, parent |-> q.cursor, name |-> 0, value |-> 0, attrs |-> <<>>]),
            !.cursor = Len(q.nodes) + 1]
Popped(q) == [q EXCEPT !.cursor = Cursor(q).parent]
Named(q) == [q EXCEPT !.nodes[q.cursor].name = q.s]
Valued(q) == [q EXCEPT !.nodes[q.cursor].value = q.s]

\* The first of some positions from s + i on, or the end of the buffer.
Scan(q, i, ends) ==
  CHOOSE j \in (q.s + i)..Len(q.buf) :
    /\ q.buf[j] = Nul \/ j \in ends
    /\ \A k \in (q.s + i)..(j - 1) : q.buf[k] # Nul /\ k \notin ends
To(q, j) == [q EXCEPT !.s = j]
OutOf(q, chars) == To(q, CHOOSE j \in q.s..Len(q.buf) : /\ q.buf[j] \notin chars
                                                      /\ \A k \in q.s..(j - 1) : q.buf[k] \in chars)
SkipSpace(q) == OutOf(q, Space)

\* Mutant of EndSegment: the character that ended the name is left.
EndSegmentOpen(q) == [q EXCEPT !.ch = Ch(q, 0), !.s = @ + 1]

\* PUGI__ENDSEG
EndSegment(q) == [q EXCEPT !.ch = Ch(q, 0), !.buf[q.s] = Nul, !.s = @ + 1]

\* A conversion of the text at s; its result is where to go on.
Converted(q, kind, quote) == Convert(Start(kind, q.opts, q.buf, q.s, q.endch, quote))
After(q, d) == [q EXCEPT !.buf = d.buf, !.s = d.result]
-----------------------------------------------------------------------------
\* parse_tree(): '<' and a name.
StartTag(q) ==
  LET r == EndSegment(OutOf(Named(Pushed(q, "element")), Symbol)) IN
  IF r.ch = ">" THEN [r EXCEPT !.mode = "content"]
  ELSE IF r.ch \in Space THEN [r EXCEPT !.mode = "attributes"]
  ELSE IF r.ch = "/"
    THEN IF EndsWith(r, 0, ">")
         THEN [Popped(r) EXCEPT !.s = IF Ch(r, 0) = ">" THEN @ + 1 ELSE @, !.mode = "content"]
         ELSE Fail(r, "bad_start_element", r.s)
  ELSE IF r.ch = Nul /\ r.endch = ">" THEN [Go(r, -1) EXCEPT !.mode = "content"]
  ELSE Fail(r, "bad_start_element", IF r.ch = Nul THEN r.s - 1 ELSE r.s)

\* parse_tree(): an attribute.
AttributeAt(q) ==
  LET named == EndSegment(OutOf([q EXCEPT !.nodes[q.cursor].attrs = Append(@, [name |-> q.s, value |-> 0])], Symbol))
      r == IF named.ch \in Space THEN [Go(SkipSpace(named), 1) EXCEPT !.ch = Ch(SkipSpace(named), 0)] ELSE named
  IN  IF r.ch # "=" THEN Fail(r, "bad_attribute", r.s)
      ELSE LET v == SkipSpace(r) IN
        IF Ch(v, 0) \notin Quote THEN Fail(v, "bad_attribute", v.s)
        ELSE LET w == [Go(v, 1) EXCEPT !.nodes[q.cursor].attrs[Len(q.nodes[q.cursor].attrs) + 1].value = v.s + 1]
                 d == Converted(w, "value", Ch(v, 0))
             IN  IF d.result = -1 THEN Fail(w, "bad_attribute", w.s)
                 ELSE IF Ch(After(w, d), 0) \in Letter THEN Fail(After(w, d), "bad_attribute", d.result)
                 ELSE After(w, d)

\* parse_tree() at LOC_ATTRIBUTES: an attribute, or the end of the tag.
Attributes(start) ==
  LET q == SkipSpace(start) IN
  IF Ch(q, 0) \in Letter THEN AttributeAt(q)
  ELSE IF Ch(q, 0) = "/"
    THEN IF EndsWith(q, 1, ">")
         THEN [Popped(q) EXCEPT !.s = IF Ch(q, 1) = ">" THEN @ + 2 ELSE @ + 1, !.mode = "content"]
         ELSE Fail(q, "bad_start_element", q.s + 1)
  ELSE IF Ch(q, 0) = ">" THEN [Go(q, 1) EXCEPT !.mode = "content"]
  ELSE IF EndsWith(q, 0, ">") THEN [q EXCEPT !.mode = "content"]
  ELSE Fail(q, "bad_start_element", q.s)

\* parse_tree(): '</' and a name, which must be the cursor's.
EndTag(q) ==
  LET mark == q.s + 1
      r == OutOf(Go(q, 1), Symbol)
      given == SubSeq(q.buf, mark, r.s - 1)
      name == StringAt(q, Cursor(q).name)
      t == SkipSpace(Popped(r))
  IN  IF Cursor(q).name = 0 \/ ~IsPrefix(given, name) THEN Fail(q, "end_element_mismatch", mark)
      ELSE IF given # name
        THEN IF Ch(r, 0) = Nul /\ name = Append(given, q.endch) THEN Fail(r, "bad_end_element", r.s)
             ELSE Fail(r, "end_element_mismatch", mark)
      ELSE IF Ch(t, 0) = ">" THEN [Go(t, 1) EXCEPT !.mode = "content"]
      ELSE IF EndsWith(t, 0, ">") THEN [t EXCEPT !.mode = "content"]
      ELSE Fail(t, "bad_end_element", t.s)

\* parse_question(), after which LOC_ATTRIBUTES follows in a declaration.
Question(start) ==
  LET q == Go(start, 1)
      r == OutOf(q, Symbol)
      declaration == SubSeq(q.buf, q.s, r.s - 1) = <<"x", "m", "l">>
      end(t) == Scan(t, 0, {j \in DOMAIN t.buf : t.buf[j] = "?" /\ EndsWith(t, j + 1 - t.s, ">")})
      over(t) == IF Ch(t, 0) = ">" THEN Go(t, 1) ELSE t
      n == EndSegment([Pushed(r, IF declaration THEN "declaration" ELSE "pi") EXCEPT !.nodes[Len(r.nodes) + 1].name = q.s])
      v == SkipSpace(n)
      wanted == IF declaration THEN q.opts.declaration ELSE q.opts.pi
      done(t) == [t EXCEPT !.mode = IF Cursor(t).type = "declaration" THEN "attributes" ELSE "content"]
  IN  IF Ch(q, 0) \notin Letter THEN Fail(q, "bad_pi", q.s)
      ELSE IF Ch(r, 0) = Nul THEN Fail(r, "bad_pi", r.s)
      ELSE IF ~wanted
        THEN IF r.buf[end(r)] = Nul THEN Fail(r, "bad_pi", end(r))
             ELSE done(To(r, IF r.buf[end(r) + 1] = ">" THEN end(r) + 2 ELSE end(r) + 1))
      ELSE IF declaration /\ HasParent(r) THEN Fail(r, "bad_pi", r.s)
      ELSE IF n.ch = "?"
        THEN IF EndsWith(n, 0, ">") THEN done(Popped(over(n))) ELSE Fail(n, "bad_pi", n.s)
      ELSE IF n.ch \notin Space THEN Fail(n, "bad_pi", n.s)
      ELSE IF v.buf[end(v)] = Nul THEN Fail(v, "bad_pi", end(v))
      ELSE IF declaration THEN done([v EXCEPT !.buf[end(v)] = "/"])
      ELSE done(over(EndSegment(To(Popped(Valued(v)), end(v)))))

\* The end of a section whose markers are two of mark and '>'.
SectionEnd(q, mark) ==
  Scan(q, 0, {j \in DOMAIN q.buf : /\ q.buf[j] = mark /\ q.buf[j + 1] = mark
                                   /\ EndsWith(q, j + 2 - q.s, ">")})

\* parse_exclamation(): a comment or a CDATA section from s on.
Section(q, kind, mark, status, wanted) ==
  LET n == IF wanted THEN Valued(Pushed(q, kind)) ELSE q
      d == Converted(q, kind, Nul)
      e == SectionEnd(q, mark)
      back(t) == [t EXCEPT !.cursor = q.cursor, !.mode = "content"]
  IN  IF wanted /\ q.opts.eol
      THEN IF d.result = -1 THEN Fail(n, status, q.s)
           ELSE LET a == After(n, d) IN
                back(IF kind = "comment" THEN a ELSE Go(a, IF Ch(a, 1) = ">" THEN 2 ELSE 1))
      ELSE IF n.buf[e] = Nul THEN Fail(n, status, e)
      ELSE back([n EXCEPT !.buf[e] = IF wanted THEN Nul ELSE @,
                          !.s = IF n.buf[e + 2] = ">" THEN e + 3 ELSE e + 2])

\* parse_doctype_primitive(): the position after it, or what fails, negative.
Primitive(q, s) ==
  LET t == To(q, s)
      quoted == Scan(t, 1, {j \in DOMAIN t.buf : t.buf[j] = t.buf[s]})
      pi == Scan(t, 2, {j \in DOMAIN t.buf : t.buf[j] = "?" /\ t.buf[j + 1] = ">"})
      comment == Scan(t, 4, {j \in DOMAIN t.buf : t.buf[j] = "-" /\ t.buf[j + 1] = "-" /\ t.buf[j + 2] = ">"})
      past(e, n) == IF t.buf[e] = Nul THEN -e ELSE e + n
  IN  IF Ch(t, 0) \in Quote THEN past(quoted, 1)
      ELSE IF Ch(t, 0) = "<" /\ Ch(t, 1) = "?" THEN past(pi, 2)
      ELSE IF Is(t, <<"<", "!", "-", "-">>) THEN past(comment, 3)
      ELSE -s

\* parse_doctype_ignore(), from after its '<!['.
RECURSIVE Ignore(_, _, _)
Ignore(q, s, depth) ==
  LET t == To(q, s) IN
  IF Ch(t, 0) = Nul THEN -s
  ELSE IF Is(t, <<"<", "!", "[">>) THEN Ignore(q, s + 3, depth + 1)
  ELSE IF Is(t, <<"]", "]", ">">>) THEN IF depth = 0 THEN s + 3 ELSE Ignore(q, s + 3, depth - 1)
  ELSE Ignore(q, s + 1, depth)

\* parse_doctype_group(), from after its '<!'.
RECURSIVE Group(_, _, _)
Group(q, s, depth) ==
  LET t == To(q, s)
      on(r) == IF r < 0 THEN r ELSE Group(q, r, depth)
  IN  IF Ch(t, 0) = Nul THEN IF depth # 0 \/ q.endch # ">" THEN -s ELSE s
      ELSE IF Ch(t, 0) = "<" /\ Ch(t, 1) = "!" /\ Ch(t, 2) # "-"
        THEN IF Ch(t, 2) = "[" THEN on(Ignore(q, s + 3, 0)) ELSE Group(q, s + 2, depth + 1)
      ELSE IF Ch(t, 0) = "<" \/ Ch(t, 0) \in Quote THEN on(Primitive(q, s))
      ELSE IF Ch(t, 0) = ">" THEN IF depth = 0 THEN s ELSE Group(q, s + 1, depth - 1)
      ELSE Group(q, s + 1, depth)

\* parse_exclamation(): the document type; s is at its 'D'.
Doctype(q) ==
  LET e == Group(q, q.s, 0)
      closed == [q EXCEPT !.buf[IF e > 0 THEN e ELSE 1] = Nul, !.s = IF q.buf[e] = Nul THEN e ELSE e + 1]
      n == SkipSpace(To(closed, q.s + 7))
  IN  IF HasParent(q) THEN Fail(q, "bad_doctype", q.s - 2)
      ELSE IF e < 0 THEN Fail(q, "bad_doctype", -e)
      ELSE IF q.opts.doctype THEN [To(Valued(Pushed(n, "doctype")), closed.s) EXCEPT !.cursor = q.cursor, !.mode = "content"]
      ELSE [closed EXCEPT !.mode = "content"]

\* parse_exclamation()
Exclamation(start) ==
  LET q == Go(start, 1)
      cdata == <<"[", "C", "D", "A", "T", "A", "[">>
      wrong == CHOOSE i \in DOMAIN cdata : Ch(q, i - 1) # cdata[i] /\ Is(q, SubSeq(cdata, 1, i - 1))
  IN  IF Ch(q, 0) = "-"
      THEN IF Ch(q, 1) = "-" THEN Section(Go(q, 2), "comment", "-", "bad_comment", q.opts.comments)
           ELSE Fail(q, "bad_comment", q.s + 1)
      ELSE IF Is(q, cdata) THEN Section(Go(q, 7), "cdata", "]", "bad_cdata", q.opts.cdata)
      ELSE IF Ch(q, 0) = "[" THEN Fail(q, "bad_cdata", q.s + wrong - 1)
      ELSE IF Is(q, <<"D", "O", "C", "T", "Y", "P">>) /\ EndsWith(q, 6, "E") THEN Doctype(q)
      ELSE IF Ch(q, 0) = Nul /\ q.endch = "-" THEN Fail(q, "bad_comment", q.s)
      ELSE IF Ch(q, 0) = Nul /\ q.endch = "[" THEN Fail(q, "bad_cdata", q.s)
      ELSE Fail(q, "unrecognized_tag", q.s)

\* parse_tree() at LOC_TAG, after '<'.
Tag(q) ==
  IF Ch(q, 0) \in Letter THEN StartTag(q)
  ELSE IF Ch(q, 0) = "/" THEN EndTag(q)
  ELSE IF Ch(q, 0) = "?" THEN Question(q)
  ELSE IF Ch(q, 0) = "!" THEN Exclamation(q)
  ELSE IF Ch(q, 0) = Nul /\ q.endch = "?" THEN Fail(q, "bad_pi", q.s)
  ELSE Fail(q, "unrecognized_tag", q.s)

\* The text at s is only white space, and the options drop it.
Dropped(q, blank) ==
  /\ Ch(blank, 0) \in {"<", Nul}
  /\ \/ ~(q.opts.ws \/ q.opts.wsSingle)
     \/ q.opts.trim
     \/ q.opts.wsSingle /\ (Ch(blank, 0) # "<" \/ Ch(blank, 1) # "/" \/ HasChild(q, q.cursor))

\* parse_tree(): text up to the next '<', which is stepped over.
Characters(q) ==
  LET blank == SkipSpace(q)
      b == IF q.opts.trim THEN blank ELSE q
      d == Converted(b, "pcdata", Nul)
      v == IF q.opts.embed /\ HasParent(q) /\ ~HasChild(q, q.cursor) /\ Cursor(q).value = 0 THEN Valued(b)
           ELSE [Valued(Pushed(b, "pcdata")) EXCEPT !.cursor = q.cursor]
      e == Scan(b, 0, {j \in DOMAIN b.buf : b.buf[j] = "<"})
  IN  IF Dropped(q, blank) THEN blank
      ELSE IF HasParent(q) \/ q.opts.fragment
        THEN [After(v, d) EXCEPT !.mode = IF d.buf[d.result] = Nul THEN "close" ELSE "tag"]
      ELSE IF b.buf[e] = Nul THEN [To(b, e) EXCEPT !.mode = "close"]
      ELSE [To(b, e + 1) EXCEPT !.mode = "tag"]

\* The end of parse_tree(), and what parse() makes of it.
Close(q) ==
  LET Refuse(r, status) == [r EXCEPT !.status = status, !.mode = "end", !.offset = Len(r.buf) - 1]
      elements == {n \in DOMAIN q.nodes : q.nodes[n].parent = 1 /\ q.nodes[n].type = "element"}
  IN  IF q.cursor # 1 THEN Fail(q, "end_element_mismatch", q.s)
      ELSE IF q.endch = "<" THEN Refuse(q, "unrecognized_tag")
      ELSE IF ~q.opts.fragment /\ elements = {} THEN Refuse(q, "no_document_element")
      ELSE [q EXCEPT !.mode = "end"]

Content(q) ==
  IF Ch(q, 0) = Nul THEN Close(q)
  ELSE IF Ch(q, 0) = "<" THEN [Go(q, 1) EXCEPT !.mode = "tag"]
  ELSE Characters(q)

Step(q) ==
  CASE q.mode = "content" -> Content(q)
    [] q.mode = "tag" -> Tag(q)
    [] q.mode = "attributes" -> Attributes(q)
    [] q.mode = "close" -> Close(q)

\* parse(): the last character becomes a zero.
Begin(t, opts, inner) ==
  [buf |-> Append(Front(t), Nul), endch |-> Last(t), s |-> 1, ch |-> Nul, cursor |-> 1, mode |-> "content",
   nodes |-> <<[type |-> "root", parent |-> 0, name |-> 0, value |-> 0, attrs |-> <<>>]>>,
   status |-> "ok", offset |-> 0, opts |-> opts, inner |-> inner]

RECURSIVE Finish(_)
Finish(q) == IF q.mode = "end" THEN q ELSE Finish(Step(q))
-----------------------------------------------------------------------------
Init == \E f \in Shape : \E t \in Source(f) : source = t.text /\ p = Begin(t.text, t.opts, t.inner)

ParseContent == p.mode = "content" /\ p' = Content(p) /\ UNCHANGED source
ParseTag == p.mode = "tag" /\ p' = Tag(p) /\ UNCHANGED source
ParseAttributes == p.mode = "attributes" /\ p' = Attributes(p) /\ UNCHANGED source
ParseEnd == p.mode = "close" /\ p' = Close(p) /\ UNCHANGED source

Next == ParseContent \/ ParseTag \/ ParseAttributes \/ ParseEnd

Spec == Init /\ [][Next]_vars
-----------------------------------------------------------------------------
TypeOK ==
  /\ p.s \in 1..(Len(p.buf) + 1) /\ p.mode \in {"content", "tag", "attributes", "close", "end"}
  /\ p.cursor \in DOMAIN p.nodes
  /\ \A n \in DOMAIN p.nodes : p.nodes[n].parent \in 0..(n - 1)
  /\ p.offset \in 0..Len(source)

\* The tree that the parser has made, as a value: strings instead of positions.
RECURSIVE Tree(_, _)
Tree(q, n) ==
  LET string(i) == IF i = 0 THEN <<>> ELSE StringAt(q, i)
      node == q.nodes[n]
      kids == SelectSeq([i \in DOMAIN q.nodes |-> i], LAMBDA m : q.nodes[m].parent = n)
  IN  [type |-> node.type, name |-> string(node.name), value |-> string(node.value),
       attrs |-> [i \in DOMAIN node.attrs |-> <<string(node.attrs[i].name), string(node.attrs[i].value)>>],
       kids |-> [i \in DOMAIN kids |-> Tree(q, kids[i])]]

(***************************************************************************)
(* Parsing in place, with the last character only in endch, accepts what   *)
(* parsing the same text with a zero after it accepts, with the same tree. *)
(***************************************************************************)
InPlaceAsTerminated ==
  p.mode = "end" =>
    LET q == Finish(Begin(Append(source, Nul), p.opts, p.inner)) IN
    /\ (p.status = "ok") <=> (q.status = "ok")
    /\ p.status = "ok" => Tree(p, 1) = Tree(q, 1)

(***************************************************************************)
(* Names and values stay as they were read: no zero and no conversion that *)
(* the parser makes later in the buffer touches one.                       *)
(***************************************************************************)
StringsStay ==
  \A n \in DOMAIN p.nodes :
    /\ p.nodes[n].name # 0 => StringAt(p', p.nodes[n].name) = StringAt(p, p.nodes[n].name)
    /\ p.nodes[n].value # 0 => StringAt(p', p.nodes[n].value) = StringAt(p, p.nodes[n].value)
    /\ \A i \in DOMAIN p.nodes[n].attrs : LET a == p.nodes[n].attrs[i] IN
         /\ StringAt(p', a.name) = StringAt(p, a.name)
         /\ a.value # 0 => StringAt(p', a.value) = StringAt(p, a.value)
=============================================================================
