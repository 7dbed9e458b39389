----------------------------- MODULE XmlStrconv -----------------------------
(***************************************************************************)
(* The conversions that pugixml makes of text in the buffer it parses:     *)
(* entities, ends of lines and white space, for PCDATA, CDATA, comments    *)
(* and values of attributes.  A text only gets shorter, so it is converted *)
(* in place: a gap of dead characters grows behind the position, and what  *)
(* is after it is moved over it when it grows and at the end.              *)
(*                                                                         *)
(* Positions start at 1; the last character of a buffer is the zero that   *)
(* the parser wrote over the last character, endch.                        *)
(***************************************************************************)
EXTENDS Integers, Sequences, FiniteSets, SequencesExt

CONSTANTS
  Bytes(_),  \* Bytes(u): the characters that utf8_writer writes for code u
  Codes,     \* number of values of an unsigned int
  Nul        \* the character 0

TextAssumption == Codes \in Nat \ {0}

Kind == {"comment", "cdata", "pcdata", "value"}
Space == {" ", "\n", "\r"}
Digit == "0" :> 0 @@ "1" :> 1
HexDigit == Digit @@ "a" :> 10
Entity == <<"a", "m", "p", ";">> :> "&" @@ <<"a", "p", "o", "s", ";">> :> "'" @@ <<"g", "t", ";">> :> ">"
          @@ <<"l", "t", ";">> :> "<" @@ <<"q", "u", "o", "t", ";">> :> "\""

\* The classes of characters at which scanning stops.
Stops(kind) ==
  {Nul, "\r"} \cup
    CASE kind = "comment" -> {"-", ">"}
      [] kind = "cdata" -> {"]", ">"}
      [] kind = "pcdata" -> {"<", "&"}
      [] OTHER -> {"&", "'", "\""}

\* [o, p) of a buffer is moved to n positions before.
Slid(buf, o, p, n) == [i \in DOMAIN buf |-> IF i \in (o - n)..(p - n - 1) THEN buf[i + n] ELSE buf[i]]

\* memmove() of what is between the gap and the position.
Collapsed(d) == IF d.end = 0 THEN d.buf ELSE Slid(d.buf, d.end, d.s, d.size)

\* Mutant of Push: the gap before is forgotten.
PushForget(d, count) == [d EXCEPT !.buf = Collapsed(d), !.s = @ + count, !.end = d.s + count, !.size = count]

\* gap::push()
Push(d, count) ==
  [d EXCEPT !.buf = Collapsed(d), !.s = @ + count, !.end = d.s + count, !.size = @ + count]

\* gap::flush(): where the text ends, once collapsed.
Flush(d) == d.s - d.size

\* The text ends with a zero, before white space after first.
Ended(d, first, result) ==
  LET w == Collapsed(d)
      e == CHOOSE i \in first..Flush(d) :
             (\A j \in i..(Flush(d) - 1) : w[j] \in Space) /\ (i = first \/ w[i - 1] \notin Space)
      zeros == IF d.kind = "value" THEN e..Flush(d) ELSE {e}
  IN  [d EXCEPT !.buf = [i \in DOMAIN w |-> IF i \in zeros THEN Nul ELSE w[i]], !.result = result]

At(d, i) == d.buf[d.s + i]
Skip(d) == [d EXCEPT !.s = @ + 1]
Write(d, char) == [d EXCEPT !.buf[d.s] = char, !.s = @ + 1]
Failed(d) == [d EXCEPT !.result = -1]
-----------------------------------------------------------------------------
\* How many characters after the one at s are the beginning of e.
Common(d, e) ==
  CHOOSE k \in 0..Len(e) : (\A i \in 1..k : At(d, i) = e[i]) /\ (k = Len(e) \/ At(d, k + 1) # e[k + 1])

\* The digits from s + i on, up to the first that is none.
RECURSIVE Number(_, _, _, _)
Number(d, i, digits, u) ==
  IF At(d, i) \in DOMAIN digits
  THEN Number(d, i + 1, digits, ((IF Cardinality(DOMAIN digits) = 2 THEN 10 ELSE 16) * u + digits[At(d, i)]) % Codes)
  ELSE [at |-> i, code |-> u]

\* The bytes are written at s, and the gap ends n characters after it.
Written(d, bytes, n) ==
  LET w == [d EXCEPT !.buf = [i \in DOMAIN @ |-> IF i - d.s \in 0..(Len(bytes) - 1) THEN bytes[i - d.s + 1] ELSE @[i]],
                     !.s = @ + Len(bytes)]
  IN  Push(w, n - Len(bytes))

\* strconv_escape(): an entity is replaced, or s goes to where it stops being one.
Escape(d) ==
  IF At(d, 1) = "#"
  THEN LET hex == At(d, 2) = "x"
           first == IF hex THEN 3 ELSE 2
           n == Number(d, first, IF hex THEN HexDigit ELSE Digit, 0)
       IN  IF At(d, n.at) # ";" \/ n.at = first THEN [d EXCEPT !.s = @ + n.at]
           ELSE Written(d, Bytes(n.code), n.at + 1)
  ELSE LET e == CHOOSE e \in DOMAIN Entity : \A f \in DOMAIN Entity : Common(d, f) <= Common(d, e) IN
       IF Common(d, e) = Len(e) THEN Written(d, <<Entity[e]>>, Len(e) + 1)
       ELSE [d EXCEPT !.s = @ + 1 + Common(d, e)]

\* One end of line, of one or two characters, becomes char.
NewLine(d, char) ==
  LET w == Write(d, char) IN IF At(w, 0) = "\n" THEN Push(w, 1) ELSE w

\* ENDSWITH(): the character, or the end of a buffer whose last it was.
EndsWith(d, i, char) == At(d, i) = char \/ (At(d, i) = Nul /\ d.endch = char)

\* One turn of strconv_comment() and strconv_cdata().
SectionTurn(d, mark) ==
  IF At(d, 0) \notin Stops(d.kind) THEN Skip(d)
  ELSE IF At(d, 0) = "\r" THEN NewLine(d, "\n")
  ELSE IF At(d, 0) = mark /\ At(d, 1) = mark /\ EndsWith(d, 2, ">")
    THEN Ended(d, Flush(d),
               IF d.kind = "cdata" THEN d.s + 1 ELSE IF At(d, 2) = ">" THEN d.s + 3 ELSE d.s + 2)
  ELSE IF At(d, 0) = Nul THEN Failed(d)
  ELSE Skip(d)

\* One turn of strconv_pcdata_impl::parse().
PcdataTurn(d) ==
  IF At(d, 0) \notin Stops("pcdata") THEN Skip(d)
  ELSE IF At(d, 0) = "<" THEN Ended(d, IF d.opts.trim THEN d.begin ELSE Flush(d), d.s + 1)
  ELSE IF d.opts.eol /\ At(d, 0) = "\r" THEN NewLine(d, "\n")
  ELSE IF d.opts.escapes /\ At(d, 0) = "&" THEN Escape(d)
  ELSE IF At(d, 0) = Nul THEN Ended(d, IF d.opts.trim THEN d.begin ELSE Flush(d), d.s)
  ELSE Skip(d)

\* White space from s + i on.
SpacesFrom(d, i) == CHOOSE n \in 0..Len(d.buf) : (\A k \in 0..(n - 1) : At(d, i + k) \in Space) /\ At(d, i + n) \notin Space

\* White space in a value: parse_wnorm(), parse_wconv(), parse_eol() or parse_simple().
ValueSpace(d) ==
  IF d.opts.wnorm
  THEN LET w == Write(d, " ") n == SpacesFrom(w, 0) IN IF n > 0 THEN Push(w, n) ELSE w
  ELSE IF d.opts.wconv THEN IF At(d, 0) = "\r" THEN NewLine(d, " ") ELSE Write(d, " ")
  ELSE IF d.opts.eol /\ At(d, 0) = "\r" THEN NewLine(d, "\n")
  ELSE Skip(d)

\* The white space that the value begins with.
ValueBegin(d) ==
  IF d.opts.wnorm /\ At(d, 0) \in Space THEN Push(d, SpacesFrom(d, 0)) ELSE d

\* One turn of strconv_attribute_impl.
ValueTurn(d) ==
  IF At(d, 0) = d.quote THEN Ended(d, IF d.opts.wnorm THEN 1 ELSE Flush(d), d.s + 1)
  ELSE IF At(d, 0) \in Space THEN ValueSpace(d)
  ELSE IF d.opts.escapes /\ At(d, 0) = "&" THEN Escape(d)
  ELSE IF At(d, 0) = Nul THEN Failed(d)
  ELSE Skip(d)

\* The conversion of kind in buf from s on; quote ends the value of an attribute.
Start(kind, opts, buf, s, endch, quote) ==
  LET d == [kind |-> kind, opts |-> opts, buf |-> buf, s |-> s, begin |-> s, end |-> 0,
            size |-> 0, endch |-> endch, quote |-> quote, result |-> 0]
  IN  IF kind = "value" THEN ValueBegin(d) ELSE d

Turn(d) ==
  CASE d.kind = "comment" -> SectionTurn(d, "-")
    [] d.kind = "cdata" -> SectionTurn(d, "]")
    [] d.kind = "pcdata" -> PcdataTurn(d)
    [] d.kind = "value" -> ValueTurn(d)

RECURSIVE Convert(_)
Convert(d) == IF d.result # 0 THEN d ELSE Convert(Turn(d))
-----------------------------------------------------------------------------
\* What is read at a position, and after n characters.
From(t, n) == SubSeq(t, n + 1, Len(t))
CString(t) == IF Contains(t, Nul) THEN SubSeq(t, 1, (CHOOSE i \in DOMAIN t : t[i] = Nul /\ \A j \in 1..(i - 1) : t[j] # Nul) - 1) ELSE t
=============================================================================
