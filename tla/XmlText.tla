------------------------------- MODULE XmlText -------------------------------
(***************************************************************************)
(* One conversion of a text in pugixml's buffer, a turn of its loop at a   *)
(* time, and what the text should become.                                  *)
(***************************************************************************)
EXTENDS XmlStrconv

CONSTANT
  Text(_)  \* Text(k): texts of kind k to convert, with options

VARIABLES
  c,      \* the conversion that runs
  source, \* the buffer as it was
  turns   \* how many turns its loop took

vars == <<c, source, turns>>
-----------------------------------------------------------------------------
Init ==
  \E k \in Kind : \E t \in Text(k) :
    /\ source = Append(Front(t.text), Nul)
    /\ c = Start(k, t.opts, source, 2, Last(t.text), "'")
    /\ turns = 0

Running(kinds) == c.kind \in kinds /\ c.result = 0 /\ turns' = turns + 1 /\ UNCHANGED source

Section == Running({"comment", "cdata"}) /\ c' = Turn(c)
Pcdata == Running({"pcdata"}) /\ c' = PcdataTurn(c)
Value == Running({"value"}) /\ c' = ValueTurn(c)

Next == Section \/ Pcdata \/ Value

Spec == Init /\ [][Next]_vars
-----------------------------------------------------------------------------
TypeOK ==
  /\ c.s \in 2..(Len(source) + 1) /\ c.end \in 0..c.s /\ c.size \in 0..(c.s - 1)
  /\ c.result \in -1..Len(source)
  /\ DOMAIN c.buf = DOMAIN source

\* The character before which the text ends, or 0 when nothing ends it.
Limit ==
  LET ends(i) ==
        CASE c.kind = "comment" -> /\ source[i] = "-" /\ source[i + 1] = "-"
                                   /\ source[i + 2] = ">" \/ (source[i + 2] = Nul /\ c.endch = ">")
          [] c.kind = "cdata" -> /\ source[i] = "]" /\ source[i + 1] = "]"
                                 /\ source[i + 2] = ">" \/ (source[i + 2] = Nul /\ c.endch = ">")
          [] c.kind = "pcdata" -> source[i] \in {"<", Nul}
          [] c.kind = "value" -> source[i] = "'"
      E == {i \in 2..Len(source) : ends(i)}
  IN  IF E = {} THEN 0 ELSE CHOOSE i \in E : \A j \in E : i <= j

\* The prefixes of t that are a reference, with the characters they stand for.
References(t) ==
  {<<Len(e) + 1, <<Entity[e]>>>> : e \in {e \in DOMAIN Entity : IsPrefix(<<"&">> \o e, t)}} \cup
  LET value(f, base, digits) ==
        FoldLeft(LAMBDA u, x : (base * u + digits[x]) % Codes, 0, f)
      numbers(lead, base, digits) ==
        {<<n, Bytes(value(SubSeq(t, Len(lead) + 1, n - 1), base, digits))>> :
          n \in {n \in (Len(lead) + 2)..Len(t) : /\ IsPrefix(lead, t) /\ t[n] = ";"
                                               /\ \A i \in (Len(lead) + 1)..(n - 1) : t[i] \in DOMAIN digits}}
  IN  numbers(<<"&", "#">>, 10, Digit) \cup numbers(<<"&", "#", "x">>, 16, HexDigit)

SpacesAhead(t) == CHOOSE n \in 0..Len(t) : (\A i \in 1..n : t[i] \in Space) /\ (n = Len(t) \/ t[n + 1] \notin Space)

\* The text t with the options o, read from left to right.
RECURSIVE Reading(_, _)
Reading(t, o) ==
  IF t = <<>> THEN <<>>
  ELSE IF o.spaces = "one" /\ t[1] \in Space THEN <<" ">> \o Reading(From(t, SpacesAhead(t)), o)
  ELSE IF (o.spaces # "kept" /\ t[1] = "\r") \/ (o.spaces = "each" /\ t[1] \in Space)
    THEN <<IF o.spaces = "lines" THEN "\n" ELSE " ">>
         \o Reading(From(t, IF t[1] = "\r" /\ Len(t) > 1 /\ t[2] = "\n" THEN 2 ELSE 1), o)
  ELSE IF o.escapes /\ References(t) # {}
    THEN LET r == CHOOSE r \in References(t) : TRUE IN r[2] \o Reading(From(t, r[1]), o)
  ELSE <<t[1]>> \o Reading(Tail(t), o)

Trimmed(t) == SubSeq(t, 1, CHOOSE n \in 0..Len(t) : (\A i \in (n + 1)..Len(t) : t[i] \in Space)
                                                    /\ (n = 0 \/ t[n] \notin Space))
\* What the text should become.
Expected ==
  LET t == SubSeq(source, 2, Limit - 1)
      spaces == IF c.kind = "value" /\ c.opts.wnorm THEN "one" ELSE IF c.kind = "value" /\ c.opts.wconv THEN "each"
                ELSE IF c.opts.eol \/ c.kind \in {"comment", "cdata"} THEN "lines" ELSE "kept"
      r == Reading(IF spaces = "one" THEN From(t, SpacesAhead(t)) ELSE t,
                   [spaces |-> spaces, escapes |-> c.opts.escapes /\ c.kind \in {"pcdata", "value"}])
  IN  CString(IF spaces = "one" \/ (c.kind = "pcdata" /\ c.opts.trim) THEN Trimmed(r) ELSE r)

(***************************************************************************)
(* A conversion in place gives the text that reading it once from left to  *)
(* right gives, up to a zero that a reference stands for; and it fails     *)
(* exactly when nothing ends the text.                                     *)
(***************************************************************************)
ConvertedText ==
  c.result # 0 =>
    IF Limit = 0 THEN c.result = -1
    ELSE c.result > 0 /\ CString(From(c.buf, 1)) = Expected

(***************************************************************************)
(* What is not read yet is as it was, and so is what is before the text:   *)
(* neither the gap nor a character written for a reference gets ahead of   *)
(* the position, and trimming stops at the text's beginning.               *)
(***************************************************************************)
UnreadKept ==
  /\ c.size <= c.s - c.begin
  /\ \A i \in DOMAIN source : i < c.begin \/ i > c.s => c.buf[i] = source[i]

(***************************************************************************)
(* A conversion ends: no turn leaves the position where it was, also not   *)
(* at something that only looks like a reference.                          *)
(***************************************************************************)
EveryTurnAdvances == turns < c.s
=============================================================================
