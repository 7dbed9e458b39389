------------------------------ MODULE XmlValues ------------------------------
(***************************************************************************)
(* xml_text: the text of a node, wherever it is.  A text node is its own   *)
(* text, an element may have text of its own (parse_embed_pcdata), and     *)
(* else the first text child serves, which set() makes when there is none. *)
(* Beside it, an attribute and its value.                                  *)
(*                                                                         *)
(* Numbers are texts: an int, an unsigned int and a bool are written and   *)
(* read back, the integers being Size bytes wide.  A character is a        *)
(* number: a digit, or a letter of hexadecimal, stands for its value, and  *)
(* the other characters that matter follow.                                *)
(*                                                                         *)
(* Memory is never short, so a call is refused only for the node's type.   *)
(***************************************************************************)
EXTENDS Integers, SequencesExt

CONSTANTS
  Size,            \* sizeof(unsigned int)
  Types,           \* types that the node may have
  Strings,         \* texts that are set as they are
  Ints, Uints,     \* numbers that are set
  Embedded,        \* texts that a parsed element may have of its own
  ClearEmbedded,   \* whether set("") is called for such an element
  MaxKids, MaxCalls,
  None             \* the null pointer

VARIABLES
  node,    \* the type of the node
  own,     \* its value
  kids,    \* its children, their types and values
  attr,    \* the value of the attribute
  told,    \* what the last set() of the text was given, until another call may change the text
  noted,   \* what the last set_value() of the attribute was given
  calls

vars == <<node, own, kids, attr, told, noted, calls>>

SizeAssumption == Size \in {2, 4, 8}

Blank == 16
Plus == 17
Minus == 18
LetterX == 19
LetterT == 20
Letter == 21    \* any other

Character == 0..21
-----------------------------------------------------------------------------
Bits == 8 * Size

\* What an unsigned int can hold.
Cut(n) == n % 2^Bits

\* The unsigned int taken for an int.
Signed(u) == IF u >= 2^(Bits - 1) THEN u - 2^Bits ELSE u

CharAt(text, i) == IF i \in DOMAIN text THEN text[i] ELSE -1

\* Where the characters of text, from the i-th on, are no longer in S.
After(text, i, S) ==
  CHOOSE j \in i..(Len(text) + 1) : CharAt(text, j) \notin S /\ \A k \in i..(j - 1) : text[k] \in S

MaxDigits10 == CASE Size = 8 -> 20 [] Size = 4 -> 10 [] Size = 2 -> 5
MaxLead == CASE Size = 8 -> 1 [] Size = 4 -> 4 [] Size = 2 -> 6

\* Mutant of TooLong10: a lead that is the highest one always fits.
TooLong10Lead(digits, lead, result) ==
  digits >= MaxDigits10 /\ ~(digits = MaxDigits10 /\ lead <= MaxLead)

\* More digits than fit, or as many, and the sum has wrapped around.
TooLong10(digits, lead, result) ==
  /\ digits >= MaxDigits10
  /\ ~(digits = MaxDigits10 /\ (lead < MaxLead \/ (lead = MaxLead /\ result >= 2^(Bits - 1))))

\* string_to_integer()
StringToInteger(text, minv, maxv) ==
  LET sign == After(text, 1, {Blank})
      negative == CharAt(text, sign) = Minus
      s == IF CharAt(text, sign) \in {Plus, Minus} THEN sign + 1 ELSE sign
      hex == CharAt(text, s) = 0 /\ CharAt(text, s + 1) = LetterX
      base == IF hex THEN 16 ELSE 10
      start == After(text, IF hex THEN s + 2 ELSE s, {0})
      end == After(text, start, 0..(base - 1))
      result == FoldLeft(LAMBDA sum, digit : Cut(sum * base + digit), 0, SubSeq(text, start, end - 1))
      overflow == IF hex THEN end - start > 2 * Size
                  ELSE TooLong10(end - start, CharAt(text, start), result)
  IN  IF negative THEN IF overflow \/ result > Cut(-minv) THEN minv ELSE Cut(-result)
      ELSE IF overflow \/ result > maxv THEN maxv ELSE result

GetValueInt(text) == Signed(StringToInteger(text, 2^(Bits - 1), 2^(Bits - 1) - 1))
GetValueUint(text) == StringToInteger(text, 0, 2^Bits - 1)

\* '1', 't', 'T', 'y' and 'Y'
GetValueBool(text) == CharAt(text, 1) \in {1, LetterT}
-----------------------------------------------------------------------------
Decimal[n \in Nat] == IF n < 10 THEN <<n>> ELSE Append(Decimal[n \div 10], n % 10)

\* integer_to_string(), for an unsigned value that stands for a negative one or not.
IntegerToString(value, negative) ==
  IF negative THEN <<Minus>> \o Decimal[Cut(-value)] ELSE Decimal[value]

\* set_value_bool(): "true" or "false"
BoolToString(value) ==
  IF value THEN <<LetterT, Letter, Letter, 14>> ELSE <<15, 10, Letter, Letter, 14>>
-----------------------------------------------------------------------------
Texts == {"pcdata", "cdata"}
Parents == {"element", "document"}
-----------------------------------------------------------------------------
\* strcpy_insitu(): an empty string is a null pointer.
Stored(text) == IF text = <<>> THEN None ELSE text

\* as_string(), as_int(), as_uint(), as_bool() of a value, with the defaults of the header.
AsString(value) == IF value # None THEN value ELSE <<>>
AsInt(value) == IF value # None THEN GetValueInt(value) ELSE 0
AsUint(value) == IF value # None THEN GetValueUint(value) ELSE 0
AsBool(value) == IF value # None THEN GetValueBool(value) ELSE FALSE

\* _data(): 0 is the node itself, i its i-th child, -1 a null pointer.
Data ==
  IF node \in Texts \/ (node = "element" /\ own # None) THEN 0
  ELSE LET found == {i \in DOMAIN kids : kids[i].type \in Texts} IN
       IF found = {} THEN -1 ELSE Min(found)

\* What as_string() and its like start from: the value of _data(), if any.
TextValue == CASE Data = -1 -> None [] Data = 0 -> own [] OTHER -> kids[Data].value

\* child_value()
ChildValue ==
  IF node = "element" /\ own # None THEN own
  ELSE LET found == {i \in DOMAIN kids : kids[i].type \in Texts /\ kids[i].value # None} IN
       IF found = {} THEN <<>> ELSE kids[Min(found)].value
-----------------------------------------------------------------------------
Init ==
  /\ node \in Types
  /\ own \in {None} \cup (IF node = "element" THEN Embedded ELSE {})
  /\ kids = <<>> /\ attr = None
  /\ told = None /\ noted = None /\ calls = 0

\* Every call but the one of the attribute.
Called == calls < MaxCalls /\ calls' = calls + 1 /\ UNCHANGED <<node, attr, noted>>

\* set() on the text of the node: into _data_new().
SetText(text) ==
  LET d == Data IN
  /\ text = <<>> => own = None \/ node # "element" \/ ClearEmbedded
  /\ CASE d = 0 -> own' = Stored(text) /\ UNCHANGED kids
       [] d > 0 -> kids' = [kids EXCEPT ![d].value = Stored(text)] /\ UNCHANGED own
       [] OTHER -> /\ node \in Parents /\ Len(kids) < MaxKids
                   /\ kids' = Append(kids, [type |-> "pcdata", value |-> Stored(text)])
                   /\ UNCHANGED own

SetString == Called /\ \E t \in Strings : SetText(t) /\ told' = [kind |-> "string", given |-> t]
SetInt == Called /\ \E n \in Ints : SetText(IntegerToString(Cut(n), n < 0)) /\ told' = [kind |-> "int", given |-> n]
SetUint == Called /\ \E n \in Uints : SetText(IntegerToString(n, FALSE)) /\ told' = [kind |-> "uint", given |-> n]
SetBool == Called /\ \E b \in BOOLEAN : SetText(BoolToString(b)) /\ told' = [kind |-> "bool", given |-> b]

\* append_child(): what comes last is not the text if there is one.
AppendChild ==
  /\ Called
  /\ node \in Parents /\ Len(kids) < MaxKids
  /\ \E type \in Texts \cup {"element"} : kids' = Append(kids, [type |-> type, value |-> None])
  /\ UNCHANGED <<own, told>>

\* prepend_child()
PrependChild ==
  /\ Called
  /\ node \in Parents /\ Len(kids) < MaxKids
  /\ \E type \in Texts \cup {"element"} :
       /\ kids' = <<[type |-> type, value |-> None]>> \o kids
       /\ told' = IF type = "element" THEN told ELSE None
  /\ UNCHANGED own

\* remove_child()
RemoveChild ==
  /\ Called
  /\ \E i \in DOMAIN kids :
       /\ kids' = RemoveAt(kids, i)
       /\ told' = IF i = Data THEN None ELSE told
  /\ UNCHANGED own

\* set_value() of a child: an element has none to set.
SetValue ==
  /\ Called
  /\ \E i \in DOMAIN kids, t \in Strings :
       /\ kids[i].type \in Texts
       /\ kids' = [kids EXCEPT ![i].value = Stored(t)]
       /\ told' = IF i = Data THEN None ELSE told
  /\ UNCHANGED own

SetAttributeTo(text) ==
  /\ attr' = Stored(text) /\ calls' = calls + 1
  /\ UNCHANGED <<node, own, kids, told>>

\* set_value() of the attribute
SetAttributeString == calls < MaxCalls /\ \E t \in Strings : SetAttributeTo(t) /\ noted' = [kind |-> "string", given |-> t]
SetAttributeNumber ==
  /\ calls < MaxCalls
  /\ \/ \E n \in Ints : SetAttributeTo(IntegerToString(Cut(n), n < 0)) /\ noted' = [kind |-> "int", given |-> n]
     \/ \E n \in Uints : SetAttributeTo(IntegerToString(n, FALSE)) /\ noted' = [kind |-> "uint", given |-> n]
     \/ \E b \in BOOLEAN : SetAttributeTo(BoolToString(b)) /\ noted' = [kind |-> "bool", given |-> b]

Next ==
  \/ SetString \/ SetInt \/ SetUint \/ SetBool
  \/ AppendChild \/ PrependChild \/ RemoveChild \/ SetValue
  \/ SetAttributeString \/ SetAttributeNumber

Spec == Init /\ [][Next]_vars
-----------------------------------------------------------------------------
IsText(v) == v = None \/ (v # <<>> /\ \A i \in DOMAIN v : v[i] \in Character)

\* The state is of its types: no value is an empty string, and only an
\* element or a document has children.
TypeOK ==
  /\ node \in Types
  /\ IsText(own) /\ IsText(attr)
  /\ \A i \in DOMAIN kids : kids[i].type \in Texts \cup {"element"} /\ IsText(kids[i].value)
  /\ kids # <<>> => node \in Parents
  /\ calls \in 0..MaxCalls

\* Read back the way it was written, a value gives what was written.
Gives(value, was) ==
  CASE was.kind = "string" -> AsString(value) = was.given
    [] was.kind = "int" -> AsInt(value) = was.given
    [] was.kind = "uint" -> AsUint(value) = was.given
    [] was.kind = "bool" -> AsBool(value) = was.given

\* What set() was given is what the text gives, however the node got it, and
\* for as long as nothing is done to the child that serves or before it.
TextTellsWhatWasSet == told # None => Gives(TextValue, told)

\* The same of an attribute, for every number that an int and an unsigned hold.
AttributeTellsWhatWasSet == noted # None => Gives(attr, noted)

\* child_value() is the other way to ask for the text: unless the text is
\* empty, it finds the same.
ChildValueAgrees == node \in Parents /\ TextValue # None => ChildValue = TextValue

\* The number that a text says, whatever its size: blanks, a sign, then digits,
\* hexadecimal ones behind 0x, up to what is no digit.
NumberSaid(text) ==
  LET unsigned == SelectSeq(text, LAMBDA c : c \notin {Blank, Plus, Minus})
      hex == Len(unsigned) >= 2 /\ unsigned[1] = 0 /\ unsigned[2] = LetterX
      base == IF hex THEN 16 ELSE 10
      digits == IF hex THEN SubSeq(unsigned, 3, Len(unsigned)) ELSE unsigned
      said[i \in 0..Len(digits)] ==
        IF i = 0 THEN [n |-> 0, more |-> TRUE]
        ELSE LET before == said[i - 1] IN
             IF before.more /\ digits[i] < base THEN [n |-> base * before.n + digits[i], more |-> TRUE]
             ELSE [n |-> before.n, more |-> FALSE]
  IN  IF Contains(text, Minus) THEN -said[Len(digits)].n ELSE said[Len(digits)].n

Clamped(n, least, most) == IF n < least THEN least ELSE IF n > most THEN most ELSE n

\* A text is read as the number that it says, or as the nearest one that the
\* type has: nothing wraps around, at any length of the text.
ReadsExactly ==
  attr # None =>
    /\ AsInt(attr) = Clamped(NumberSaid(attr), -(2^(Bits - 1)), 2^(Bits - 1) - 1)
    /\ AsUint(attr) = Clamped(NumberSaid(attr), 0, 2^Bits - 1)
=============================================================================
