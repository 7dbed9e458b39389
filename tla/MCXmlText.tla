------------------------------ MODULE MCXmlText ------------------------------
(***************************************************************************)
(* Small instances of what pugixml does with text.  With symbols for       *)
(* characters: the conversions in the buffer (XmlText), the parser         *)
(* (XmlParser), the writer and what the parser makes of it (XmlWriter),    *)
(* numbers and the texts of nodes (XmlValues).  With places and bytes: the *)
(* pages of the heap (XmlMemory), the buffers of a document (XmlLoad), the *)
(* encodings (XmlEncoding), the buffer of the output (XmlBufferedWriter),  *)
(* strings that a copy shares (XmlCopy).  They share no state: a behaviour *)
(* takes one of Parts and leaves the variables of the others alone.        *)
(***************************************************************************)
EXTENDS XmlMemory, XmlLoad, XmlBufferedWriter, XmlCopy, TLC

CONSTANT Parts   \* the parts of a run

VARIABLES
  part,
  source, node, kids,                                    \* of more than one part
  c, turns,                                              \* XmlText
  p,                                                     \* XmlParser
  tree, format, depth, breaks, phase, out,               \* XmlWriter
  own, attr, told, noted, made,                          \* XmlValues
  text, base, target, asked, encoding, image, file, length, pc   \* XmlEncoding

writerVars == <<tree, format, depth, breaks, phase, out>>
valueVars == <<own, attr, told, noted, made>>
encodingVars == <<text, base, target, asked, encoding, image, file, length, pc>>

allVars == <<part, source, node, kids, c, turns, p, writerVars, valueVars,
             memoryVars, loadVars, encodingVars, outputVars, copyVars>>

Unused == "unused"
Never == {}

Zero == "nul"
UintValues == 4096
Letters == {"a", "b", "l", "m", "x"}
-----------------------------------------------------------------------------
(* XmlText: texts of up to three pieces, cut so that the markers, the      *)
(* entities and the ends of lines meet, and their prefixes.                *)

\* Code 0 is the zero, 10 a line feed, 17 a character of two bytes.
Utf8(u) == CASE u = 0 -> <<Zero>> [] u = 10 -> <<"\n">> [] u = 17 -> <<"u", "v">> [] OTHER -> <<"w">>

TextPieces(kind) ==
  {<<"\r">>, <<"\n">>, <<"a">>, <<" ">>} \cup
    CASE kind = "comment" -> {<<"-">>, <<"-", "-">>, <<">">>}
      [] kind = "cdata" -> {<<"]">>, <<"]", "]">>, <<">">>}
      [] OTHER -> {<<"&">>, <<"&", "#">>, <<"&", "#", "x", "1", "1", ";">>, <<"&", "#", "1", "0", ";">>, <<"&", "#", "0", ";">>,
                   <<"&", "l", "t", ";">>, <<"&", "a", "p", "o">>, <<"&", "a", "m", "p", ";">>, <<";">>}

TextsOf(kind) == LET P == TextPieces(kind) \cup {<<>>} IN {q \o r \o s : q, r, s \in P}

Endings(kind) ==
  CASE kind = "comment" -> {<<"-", "-", ">">>, <<"-", "-", ">", "x">>, <<"-", "x">>}
    [] kind = "cdata" -> {<<"]", "]", ">">>, <<"]", "]", ">", "x">>, <<"]", "x">>}
    [] kind = "pcdata" -> {<<"<", "x">>, <<"x">>}
    [] kind = "value" -> {<<"'", "x">>, <<"x">>}

NoOptions == [trim |-> FALSE, eol |-> FALSE, escapes |-> FALSE, wnorm |-> FALSE, wconv |-> FALSE]
OptionsOf(kind) ==
  CASE kind \in {"comment", "cdata"} -> {[NoOptions EXCEPT !.eol = TRUE]}
    [] kind = "pcdata" -> {[NoOptions EXCEPT !.trim = t, !.eol = e, !.escapes = x] : t, e, x \in BOOLEAN}
    [] kind = "value" -> {[NoOptions EXCEPT !.eol = TRUE, !.escapes = TRUE, !.wnorm = n, !.wconv = w] : n, w \in BOOLEAN}
                         \cup {[NoOptions EXCEPT !.escapes = x] : x \in BOOLEAN}

\* PCDATA may follow white space that the parser has stepped over to trim it.
BeforeText(kind) == IF kind = "pcdata" THEN <<" ">> ELSE <<"'">>

TextsToConvert(k) ==
  {x \in {[opts |-> o, text |-> BeforeText(k) \o t \o e] : o \in OptionsOf(k), t \in TextsOf(k), e \in Endings(k)} :
     x.opts.trim => x.text[2] \notin {" ", "\n", "\r"}}

Conversion ==
  INSTANCE XmlText WITH Bytes <- Utf8, Codes <- UintValues, Nul <- Zero, Text <- TextsToConvert
-----------------------------------------------------------------------------
(* XmlParser: texts of up to three pieces of markup, alone, before an      *)
(* element, inside one, or in a document type; whole or cut off.  What is  *)
(* appended to a node is always a copy with a zero after it.               *)

DefaultOptions ==
  [comments |-> FALSE, cdata |-> TRUE, pi |-> FALSE, declaration |-> FALSE, doctype |-> FALSE,
   fragment |-> FALSE, embed |-> FALSE, ws |-> FALSE, wsSingle |-> FALSE,
   trim |-> FALSE, eol |-> TRUE, escapes |-> TRUE, wnorm |-> FALSE, wconv |-> TRUE]
FullOptions == [DefaultOptions EXCEPT !.comments = TRUE, !.pi = TRUE, !.declaration = TRUE, !.doctype = TRUE, !.wsSingle = TRUE]
OtherOptions == [FullOptions EXCEPT !.cdata = FALSE, !.embed = TRUE, !.wsSingle = FALSE, !.trim = TRUE, !.eol = FALSE, !.wnorm = TRUE]

OpenTag == <<"<", "a", ">">>
ClosedTag == <<"<", "/", "a", ">">>
EmptyTag == <<"<", "a", "/", ">">>
TypeTag == <<"<", "!", "D", "O", "C", "T", "Y", "P", "E">>

Markup ==
  {<<>>, <<"<", "a">>, <<"<", "a", "x">>, <<" ", "b", "=">>, <<"'", "x", "'">>, <<"\"">>, <<"/", ">">>, <<">">>, ClosedTag,
   <<"<", "/", "a">>, <<"x">>, <<" ">>, <<"<">>, <<"?", ">">>, <<"<", "?", "x">>, <<"<", "?", "x", "m", "l">>,
   <<"<", "!", "-", "-">>, <<"-", "-", ">">>, <<"<", "!", "[", "C", "D", "A", "T", "A", "[">>, <<"]", "]", ">">>,
   TypeTag, <<"<", "!", "[">>, <<"<", "!">>}
InTypes == {<<"<", "!">>, <<"<", "!", "[">>, <<"]", "]", ">">>, <<">">>, <<"'">>, <<"<", "!", "-", "-">>, <<"-", "-", ">">>,
            <<"<", "?">>, <<"?", ">">>, <<" ">>}

ThreeOf == {q \o r \o s : q, r, s \in Markup}
WholeAndCut(T) == {SubSeq(t, 1, Len(t) - n) : t \in {u \in T : Len(u) > 1}, n \in 0..1}
ParsedWith(T, O, i) == {[opts |-> o, inner |-> i, text |-> t] : o \in O, t \in WholeAndCut(T)}

Shapes == {"alone", "before", "within", "types", "appended"}
SourcesOf(shape) ==
  LET O == {DefaultOptions, FullOptions, OtherOptions} IN
  CASE shape = "alone" -> ParsedWith(ThreeOf, O, FALSE)
    [] shape = "before" -> ParsedWith({t \o EmptyTag : t \in ThreeOf}, O, FALSE)
    [] shape = "within" -> ParsedWith({OpenTag \o t \o ClosedTag : t \in ThreeOf}, O, FALSE)
    [] shape = "types" -> ParsedWith({TypeTag \o q \o r \o s \o <<">">> \o EmptyTag : q, r, s \in InTypes}, O, FALSE)
    [] shape = "appended" -> {[opts |-> DefaultOptions, inner |-> TRUE, text |-> Append(t, Zero)] : t \in ThreeOf}

Parser ==
  INSTANCE XmlParser WITH
    Bytes <- Utf8, Codes <- UintValues, Nul <- Zero, Letter <- Letters, Shape <- Shapes, Source <- SourcesOf
-----------------------------------------------------------------------------
(* XmlWriter: documents of up to three nodes of every type, with the texts *)
(* that their markup could not hold as they are.                           *)

\* parse_full with fragments, and all white space when no layout is written.
ReadAll(raw) == [FullOptions EXCEPT !.fragment = TRUE, !.ws = raw, !.wsSingle = FALSE]

NodeWith(type, n, a, v) == [type |-> type, name |-> n, value |-> v, attrs |-> a]
Unnamed(type, values) == {NodeWith(type, <<>>, <<>>, v) : v \in values}
NodesBelow ==
  {NodeWith("element", <<"a">>, a, v) : a \in {<<>>, <<<<<<"b">>, <<"\"", "\n", "&">>>>, <<<<"l">>, <<"x">>>>>>}, v \in {<<>>, <<"<", "x">>}}
  \cup Unnamed("pcdata", {<<>>, <<"x", ">">>, <<"&", "]", "]">>})
  \cup Unnamed("cdata", {<<"]", "]", ">">>, <<"]", "]", "]", ">", "]", "]", ">", "x">>, <<>>})
  \cup Unnamed("comment", {<<"-">>, <<"x", "-", "-", "-", "x">>, <<"-", "-", ">">>})
  \cup {NodeWith("pi", <<"a">>, <<>>, v) : v \in {<<>>, <<"?">>, <<"x", "?", ">", "?">>}}
NodesOnTop ==
  NodesBelow \cup {NodeWith("declaration", <<"x", "m", "l">>, <<<<<<"b">>, <<"x", "<">>>>>>, <<>>)}
  \cup Unnamed("doctype", {<<"x">>, <<>>})

Put(n, parent) == [type |-> n.type, parent |-> parent, name |-> n.name, value |-> n.value, attrs |-> n.attrs]
DocumentNode == Put(NodeWith("root", <<>>, <<>>, <<>>), 0)

TreesWritten ==
  {<<DocumentNode, Put(n, 1)>> : n \in NodesOnTop}
  \cup {t \in {<<DocumentNode, Put(l, 1), Put(m, q), Put(n, r)>> :
                 l \in NodesOnTop, m \in NodesBelow, n \in NodesBelow, q \in 1..2, r \in 1..3} :
          /\ t[3].parent = 2 => t[2].type = "element"
          /\ t[4].parent # 1 => t[t[4].parent].type = "element"
          /\ t[4].parent = 2 => t[3].parent # 1}
Formats == {{"indent"}, {"raw"}, {"indent", "indent_attributes", "no_empty_element_tags"}, {}}
TwoSpaces == <<" ", " ">>

Writer ==
  INSTANCE XmlWriter WITH
    Written <- TreesWritten, Format <- Formats, Indent <- TwoSpaces, Letter <- Letters, Nul <- Zero,
    ReadOptions <- ReadAll
-----------------------------------------------------------------------------
(* XmlValues, for integers of two bytes: texts that say numbers about      *)
(* every place where the code decides, signed or not, padded, and followed *)
(* by more; and the few values that tell the texts of a node apart.        *)

\* A digit is its value; what else matters.
ABlank == 16
APlus == 17
AMinus == 18
AnX == 19
AT == 20
ALetter == 21

\* About 0, 2^15, 2^16, 60000, 70000, 10^5, 2^17, 10 * 2^16 and 2^20.
Near == 0..20 \cup 32760..32775 \cup 59995..60005 \cup 65530..65545 \cup 69995..70005
          \cup 99995..100005 \cup 131068..131075 \cup 655355..655365 \cup 1048570..1048580

DigitsOf(n, radix) ==
  LET digits[m \in Nat] == IF m < radix THEN <<m>> ELSE Append(digits[m \div radix], m % radix) IN digits[n]

Spelled ==
  {<<>>, <<ALetter>>, <<AMinus>>, <<0, AnX>>, <<AT, ALetter>>} \cup
  {lead \o digits \o tail :
     lead \in {<<>>, <<ABlank, AMinus>>, <<APlus>>, <<AMinus>>},
     digits \in {zeros \o DigitsOf(n, 10) : zeros \in {<<>>, <<0, 0>>}, n \in Near} \cup
                {<<0, AnX>> \o zeros \o DigitsOf(n, 16) : zeros \in {<<>>, <<0>>}, n \in Near},
     tail \in {<<>>, <<ALetter>>}}

\* Every 37th number, and those at the ends.
ManyInts == {n \in -32768..32767 : n % 37 = 0 \/ n < -32700 \/ n \in -20..20 \/ n > 32700}
ManyUints == {n \in 0..65535 : n % 37 = 0 \/ n \in 32700..32800 \/ n > 65500}
OneType == {"comment"}

Numbers ==
  INSTANCE XmlValues WITH
    Size <- 2, Types <- OneType, Strings <- Spelled, Ints <- ManyInts, Uints <- ManyUints,
    Embedded <- Never, ClearEmbedded <- FALSE, MaxKids <- 0, MaxCalls <- 1, calls <- made

AllTypes == {"pcdata", "cdata", "element", "document", "comment"}
FewStrings == {<<>>, <<ALetter>>, <<1, ABlank>>}
FewEmbedded == {<<ALetter>>}
FewInts == {-32768, 7}
FewUints == {65535}

Values ==
  INSTANCE XmlValues WITH
    Size <- 2, Types <- AllTypes, Strings <- FewStrings, Ints <- FewInts, Uints <- FewUints,
    Embedded <- FewEmbedded, ClearEmbedded <- FALSE, MaxKids <- 3, MaxCalls <- 4, calls <- made
-----------------------------------------------------------------------------
(* XmlMemory: two documents and three pages of four units. *)

TwoDocuments == {"d", "e"}
ThreePages == {"p1", "p2", "p3"}
StringSizes == {1, 2, 6}
-----------------------------------------------------------------------------
(* XmlLoad: sources that end before, at and behind the end of a chunk. *)

FourBlocks == {"b1", "b2", "b3", "b4"}
Contents == {<<>>, <<1, 2>>, <<1, 2, 3>>}
Failures == {"open", "read", "chunk", "gather", "extra", "convert"}
-----------------------------------------------------------------------------
(* XmlEncoding: texts of up to three pieces, characters of every width, a  *)
(* run that the decoder takes in blocks, and bytes that are none, behind   *)
(* what a document starts with.                                            *)

Ascii == {<<97>>, <<97, 98, 99, 100, 101>>}
Wide == {<<195, 169>>, <<196, 128>>, <<226, 130, 172>>, <<240, 159, 152, 128>>, <<244, 143, 191, 191>>}
Broken == {<<128>>, <<195>>, <<226, 130>>, <<240, 159, 152>>, <<255>>, <<240, 128, 128, 128>>}
BytePieces == {<<>>} \cup Ascii \cup Wide \cup Broken
ByteTails == {<<>>, <<97, 98, 99, 100, 101>>, <<195, 169>>}

ByteOrderMark == <<239, 187, 191>>
XmlStart == <<60, 63, 120, 109, 108>>
Latin1 == <<105, 115, 111, 45, 56, 56, 53, 57, 45, 49>>
Latin1Upper == <<73, 83, 79, 45, 56, 56, 53, 57, 45, 49>>
LatinShort == <<108, 97, 116, 105, 110, 49>>
Declaration(space, quote, named) ==
  XmlStart \o space \o <<101, 110, 99, 111, 100, 105, 110, 103>> \o space \o <<61>> \o space \o <<quote>> \o named \o <<quote, 63, 62>>
Version == XmlStart \o <<32, 118, 61, 34, 49, 34, 63, 62>>

\* What save() writes before the document: a declaration that names Latin-1
\* for it; nothing, a declaration, or a byte order mark for the others.
Openings(e) ==
  IF e = "latin1" THEN {Declaration(<<32>>, 34, Latin1Upper), Declaration(<<10, 32>>, 39, LatinShort)}
  ELSE {<<60>>, Version, ByteOrderMark}

TextsSaved(e) == {o \o <<196, 128>> \o q \o r : o \in Openings(e), q \in BytePieces, r \in ByteTails}
AllEncodings == {"auto", "utf8", "utf16_le", "utf16_be", "utf32_le", "utf32_be", "latin1", "wchar", "utf16", "utf32"}

Transcoding ==
  INSTANCE XmlEncoding WITH
    Little <- TRUE, WcharSize <- 4, Saved <- TextsSaved, Encodings <- AllEncodings, buffer <- image
-----------------------------------------------------------------------------
(* XmlBufferedWriter, with a buffer of eight bytes: strings that end       *)
(* before, at and behind its end, in the middle of characters of every     *)
(* width, up to more than two buffers, and one that is no text.            *)

E2 == <<195, 169>>
E3 == <<226, 130, 172>>
E4 == <<240, 159, 152, 128>>
StringsPut ==
  {<<>>, <<97>>, E2, E3, E4, <<97, 98>> \o E3, E4 \o E3, <<97>> \o E3 \o E4, E4 \o E4, <<97>> \o E4 \o E4, E3 \o E3 \o E3,
   E2 \o E3 \o E4 \o E3 \o E2 \o E4, <<128, 128, 128, 128, 128, 128, 128, 128, 128, 97>>}
RunsPut == {<<60>>, <<60, 47>>, <<45, 45, 62>>, <<97, 97, 97, 97, 97>>, <<38, 108, 116, 59>>, <<38, 113, 117, 111, 116, 59>>}
-----------------------------------------------------------------------------
(* XmlCopy: two documents, loaded with trees of up to three nodes. *)

CopyNodes == 1..8
CopyDocuments == {1, 2}
InBuffer == {3, 4, 5}
OnHeap == 6..13
\* A content stands for its length.
Lengths == {1, 2}
Itself(t) == t

\* Node n of the document 1, loaded with the string b[n] of its buffer.
LoadedWith(f) ==
  [kids |-> [n \in CopyNodes |-> IF n \in DOMAIN f THEN f[n] ELSE <<>>],
   owner |-> [n \in CopyNodes |-> IF n = 2 THEN 2 ELSE IF n \in {1, 3, 4, 5} THEN 1 ELSE None],
   string |-> [n \in CopyNodes |-> IF n \in InBuffer THEN n ELSE None],
   text |-> [b \in InBuffer \cup OnHeap |-> IF b = 4 THEN 2 ELSE 1]]
TwoTrees ==
  {LoadedWith([n \in {1, 3, 4} |-> <<IF n = 1 THEN 3 ELSE n + 1>>]),
   LoadedWith([n \in {1, 3} |-> IF n = 1 THEN <<3>> ELSE <<4, 5>>])}
-----------------------------------------------------------------------------
ASSUME PartsAssumption ==
  /\ Conversion!TextAssumption /\ Parser!TextAssumption
  /\ Numbers!SizeAssumption /\ Values!SizeAssumption
  /\ LoadAssumption /\ OutputAssumption

InitParts ==
  /\ part \in Parts
  /\ IF part = "text" THEN Conversion!Init ELSE c = Unused /\ turns = Unused
  /\ IF part = "parser" THEN Parser!Init ELSE p = Unused
  /\ IF part = "writer" THEN Writer!Init
     ELSE tree = Unused /\ format = Unused /\ depth = Unused /\ breaks = Unused /\ phase = Unused /\ out = Unused
  /\ CASE part = "numbers" -> Numbers!Init
       [] part = "values" -> Values!Init
       [] OTHER -> own = Unused /\ attr = Unused /\ told = Unused /\ noted = Unused /\ made = Unused
  /\ MemoryInit
  /\ LoadInit
  /\ IF part = "encoding" THEN Transcoding!Init
     ELSE text = Unused /\ base = Unused /\ target = Unused /\ asked = Unused /\ encoding = Unused /\ image = Unused /\ file = Unused /\ length = Unused /\ pc = Unused
  /\ OutputInit /\ (part # "output" => native)
  /\ CopyInit /\ (part # "copy" => children[3] = <<4>>)
  /\ IF part \in {"text", "parser"} THEN TRUE ELSE source = Unused
  /\ IF part \in {"writer", "numbers", "values"} THEN TRUE ELSE node = Unused
  /\ IF part \in {"numbers", "values"} THEN TRUE ELSE kids = Unused

\* A step of one part leaves alone what is of other parts.
OthersIdle ==
  /\ UNCHANGED part
  /\ part # "text" => UNCHANGED <<c, turns>>
  /\ part # "parser" => UNCHANGED p
  /\ part # "writer" => UNCHANGED writerVars
  /\ part \notin {"numbers", "values"} => UNCHANGED valueVars
  /\ part # "memory" => UNCHANGED memoryVars
  /\ part # "load" => UNCHANGED loadVars
  /\ part # "encoding" => UNCHANGED encodingVars
  /\ part # "output" => UNCHANGED outputVars
  /\ part # "copy" => UNCHANGED copyVars
  /\ part \notin {"text", "parser"} => UNCHANGED source
  /\ part \notin {"writer", "numbers", "values"} => UNCHANGED node
  /\ part \notin {"numbers", "values"} => UNCHANGED kids

ConversionPart == part = "text" /\ Conversion!Next /\ OthersIdle
ParserPart == part = "parser" /\ Parser!Next /\ OthersIdle
WriterPart == part = "writer" /\ Writer!Next /\ OthersIdle
NumbersPart == part = "numbers" /\ Numbers!Next /\ OthersIdle
ValuesPart == part = "values" /\ Values!Next /\ OthersIdle
MemoryPart == part = "memory" /\ MemoryNext /\ OthersIdle
LoaderPart == part = "load" /\ LoadNext /\ OthersIdle
EncodingPart == part = "encoding" /\ Transcoding!Next /\ OthersIdle
OutputPart == part = "output" /\ OutputNext /\ OthersIdle
CopyPart == part = "copy" /\ CopyNext /\ OthersIdle

NextParts ==
  \/ ConversionPart \/ ParserPart \/ WriterPart \/ NumbersPart \/ ValuesPart
  \/ MemoryPart \/ LoaderPart \/ EncodingPart \/ OutputPart \/ CopyPart

\* The loop of a copy goes on.
CopyGoesOn == part = "copy" /\ CopyStep /\ OthersIdle

SpecParts == InitParts /\ [][NextParts]_allVars /\ WF_allVars(CopyGoesOn)
-----------------------------------------------------------------------------
(***************************************************************************)
(* A text that is converted in place becomes what reading it once from     *)
(* left to right gives, nothing ahead of the position is touched, and      *)
(* every turn of the loop advances.                                        *)
(***************************************************************************)
TextsConverted ==
  part = "text" =>
    Conversion!TypeOK /\ Conversion!ConvertedText /\ Conversion!UnreadKept /\ Conversion!EveryTurnAdvances

(***************************************************************************)
(* A text parsed in place, its last character only in endch, is accepted   *)
(* and gives a tree exactly when the same text with a zero behind it does, *)
(* and no name or value that was read is touched later.                    *)
(***************************************************************************)
ParsedInPlace ==
  /\ [](part = "parser" => Parser!TypeOK /\ Parser!InPlaceAsTerminated)
  /\ [][part = "parser" => Parser!StringsStay]_allVars

(***************************************************************************)
(* What the writer wrote, whatever the layout, the parser reads as the     *)
(* same tree, but for what text cannot keep.                               *)
(***************************************************************************)
WrittenIsRead ==
  part = "writer" => Writer!TypeOK /\ Writer!DepthIsLevel /\ Writer!RoundTrip

(***************************************************************************)
(* A text or an attribute gives what it was set to, a number clamped to    *)
(* its type, whatever else is done to the node; child_value() agrees.      *)
(***************************************************************************)
ValuesTell ==
  /\ part = "numbers" => Numbers!AttributeTellsWhatWasSet /\ Numbers!ReadsExactly
  /\ part = "values" => Values!TypeOK /\ Values!TextTellsWhatWasSet /\ Values!ChildValueAgrees

(***************************************************************************)
(* A text saved in an encoding is loaded as it was, detected or told, and  *)
(* the pass that measures agrees with the pass that writes.                *)
(***************************************************************************)
SavedIsLoaded ==
  part = "encoding" => Transcoding!TypeOK /\ Transcoding!SavedIsLoaded /\ Transcoding!CountIsWritten
=============================================================================
