----------------------------- MODULE XmlEncoding -----------------------------
(***************************************************************************)
(* The encodings of pugixml: the decoders and writers of UTF-8, UTF-16,    *)
(* UTF-32 and Latin-1, the conversion of what is saved, the guess of the   *)
(* encoding of what is loaded, and its conversion, in a pass that counts   *)
(* and a pass that writes.                                                 *)
(*                                                                         *)
(* A unit is the sequence of its bytes in memory; a code is what a decoder *)
(* hands to low() or, with high set, to high().                            *)
(***************************************************************************)
EXTENDS Integers, Sequences, SequencesExt

CONSTANTS
  Little,     \* is_little_endian()
  WcharSize,  \* sizeof(wchar_t)
  Saved(_),   \* texts, in UTF-8, that are saved in an encoding
  Encodings   \* the encodings that are asked for

VARIABLES
  text,      \* the text of the document, in UTF-8
  base,      \* the address of the text, modulo 4
  target,    \* the encoding that it is saved in
  asked,     \* the encoding that loading it is told
  encoding,  \* the encoding that loading takes it for
  file,      \* the bytes in between
  length,    \* the first pass
  buffer,    \* the second pass
  pc

vars == <<text, base, target, asked, encoding, file, length, buffer, pc>>

Low(ch) == <<[ch |-> ch, high |-> FALSE]>>
High(ch) == <<[ch |-> ch, high |-> TRUE]>>

Native(unit) == FoldLeft(LAMBDA n, b : (256 * n) + b, 0, IF Little THEN Reverse(unit) ELSE unit)
Unit(n, size) ==
  LET little == [k \in 1..size |-> (n \div 256 ^ (k - 1)) % 256]
  IN  IF Little THEN little ELSE Reverse(little)
Units(bytes, size) == [k \in 1 .. Len(bytes) \div size |-> SubSeq(bytes, (size * (k - 1)) + 1, size * k)]
Swap(unit) == Reverse(unit)
-----------------------------------------------------------------------------
(* Decoders. *)

Trail(byte) == byte \div 64 = 2

\* How many bytes the character at i takes; 0 where no character is.
Utf8Width(data, i) ==
  LET Trails(n) == i + n <= Len(data) /\ \A k \in 1..n : Trail(data[i + k])
  IN  CASE data[i] < 128 -> 1
        [] data[i] \in 192..223 /\ Trails(1) -> 2
        [] data[i] \in 224..239 /\ Trails(2) -> 3
        [] data[i] \in 240..247 /\ Trails(3) -> 4
        [] OTHER -> 0

Utf8Char(data, i, width) ==
  FoldLeft(LAMBDA ch, k : (64 * ch) + (data[i + k] % 64), data[i] % <<128, 32, 16, 8>>[width], [k \in 1 .. width - 1 |-> k])

\* Mutant of AsciiBlock: the last byte of a block is not looked at.
AsciiBlockThree(data, i) == i + 3 <= Len(data) /\ \A k \in i .. i + 2 : data[k] < 128
AsciiBlock(data, i) == i + 3 <= Len(data) /\ \A k \in i .. i + 3 : data[k] < 128

\* The blocks of four bytes are only looked for at addresses that 4 divides.
Utf8Decoded(data, address) ==
  LET blocks[i \in Nat] == IF AsciiBlock(data, i) THEN blocks[i + 4] ELSE i
      from[i \in Nat] ==
        IF i > Len(data) THEN <<>>
        ELSE LET width == Utf8Width(data, i)
             IN  CASE width = 0 -> from[i + 1]
                   [] width = 1 -> LET end == IF (address + i) % 4 = 0 THEN blocks[i + 1] ELSE i + 1
                                   IN  FoldLeft(LAMBDA s, b : s \o Low(b), <<>>, SubSeq(data, i, end - 1)) \o from[end]
                   [] width = 4 -> High(Utf8Char(data, i, 4)) \o from[i + 4]
                   [] OTHER -> Low(Utf8Char(data, i, width)) \o from[i + width]
  IN  from[1]

Utf16Decoded(values) ==
  LET from[i \in Nat] ==
        IF i > Len(values) THEN <<>>
        ELSE LET lead == values[i]
             IN  CASE lead < 55296 \/ lead >= 57344 -> Low(lead) \o from[i + 1]
                   [] lead \in 55296..56319 /\ i < Len(values) /\ values[i + 1] \in 56320..57343 ->
                        High(65536 + ((lead % 1024) * 1024) + (values[i + 1] % 1024)) \o from[i + 2]
                   [] OTHER -> from[i + 1]
  IN  from[1]

Utf32Decoded(values) == FlattenSeq([k \in DOMAIN values |-> IF values[k] < 65536 THEN Low(values[k]) ELSE High(values[k])])
Latin1Decoded(data) == FlattenSeq([k \in DOMAIN data |-> Low(data[k])])
-----------------------------------------------------------------------------
(* Counters and writers, of one code. *)

Utf8Count(code) == IF code.high THEN 4 ELSE IF code.ch < 128 THEN 1 ELSE IF code.ch < 2048 THEN 2 ELSE 3

Trailing(ch) == 128 + (ch % 64)

Utf8Written(code) ==
  LET ch == code.ch
  IN  CASE code.high -> <<240 + ((ch \div 262144) % 16), Trailing(ch \div 4096), Trailing(ch \div 64), Trailing(ch)>>
        [] ~code.high /\ ch < 128 -> <<ch>>
        [] ~code.high /\ ch \in 128..2047 -> <<192 + (ch \div 64), Trailing(ch)>>
        [] OTHER -> <<224 + (ch \div 4096), Trailing(ch \div 64), Trailing(ch)>>

Utf16Count(code) == IF code.high THEN 2 ELSE 1
Utf16Written(code) ==
  IF code.high
    THEN <<(55296 + ((code.ch - 65536) \div 1024)) % 65536, 56320 + ((code.ch - 65536) % 1024)>>
    ELSE <<code.ch>>

Utf32Count(code) == 1
Utf32Written(code) == <<code.ch>>

Latin1Written(code) == <<IF code.high \/ code.ch > 255 THEN 63 ELSE code.ch>>

Counted(Width(_), codes) == FoldLeft(LAMBDA n, code : n + Width(code), 0, codes)
Written(Writer(_), codes) == FoldLeft(LAMBDA s, code : s \o Writer(code), <<>>, codes)

WcharCounted(codes) == IF WcharSize = 2 THEN Counted(Utf16Count, codes) ELSE Counted(Utf32Count, codes)
WcharWritten(codes) == IF WcharSize = 2 THEN Written(Utf16Written, codes) ELSE Written(Utf32Written, codes)
WcharDecoded(values) == IF WcharSize = 2 THEN Utf16Decoded(values) ELSE Utf32Decoded(values)
-----------------------------------------------------------------------------
(* Encodings by name. *)

Endian(little, big) == IF Little THEN little ELSE big
Utf16 == Endian("utf16_le", "utf16_be")
Utf32 == Endian("utf32_le", "utf32_be")
WcharEncoding == IF WcharSize = 2 THEN Utf16 ELSE Utf32

Named(e, otherwise) ==
  CASE e = "wchar" -> WcharEncoding
    [] e = "utf16" -> Utf16
    [] e = "utf32" -> Utf32
    [] e = "auto" -> otherwise
    [] OTHER -> e

SizeOf(e) == IF e \in {"utf16_le", "utf16_be"} THEN 2 ELSE IF e \in {"utf32_le", "utf32_be"} THEN 4 ELSE 1

WriteEncoding(e) == Named(e, "utf8")

\* convert_buffer_output(), and the bytes as they are where none is needed
Output(data, address, e) ==
  LET codes == Utf8Decoded(data, address)
      Bytes(values) == FlattenSeq([k \in DOMAIN values |->
                         LET unit == Unit(values[k], SizeOf(e)) IN IF e \in {Utf16, Utf32} THEN unit ELSE Swap(unit)])
  IN  CASE e = "utf8" -> data
        [] SizeOf(e) = 2 -> Bytes(Written(Utf16Written, codes))
        [] SizeOf(e) = 4 -> Bytes(Written(Utf32Written, codes))
        [] e = "latin1" -> Written(Latin1Written, codes)
-----------------------------------------------------------------------------
(* The guess. *)

Space == {9, 10, 13, 32}
Symbol == (48..57) \cup (65..90) \cup (97..122) \cup (128..255) \cup {95, 58, 45, 46}
XmlSpace == <<60, 63, 120, 109, 108>>                    \* '<?xml'
EncodingWord == <<101, 110, 99, 111, 100, 105, 110, 103>>  \* 'encoding'
LowerCase(b) == IF (b \div 32) % 2 = 0 THEN b + 32 ELSE b

\* parse_declaration_encoding(): the names of encodings in a declaration; one or none.
DeclaredEncoding(data) ==
  LET Past(i, S) == CHOOSE j \in i .. Len(data) + 1 : (\A k \in i .. j - 1 : data[k] \in S) /\ (j > Len(data) \/ data[j] \notin S)
      Is(i, b) == i <= Len(data) /\ data[i] = b
      word == {i \in 7 .. Len(data) - 1 : data[i] = 101 /\ data[i + 1] = 110 /\ \A k \in 7 .. i - 1 : ~(data[k] = 101 /\ data[k + 1] = 110)}
      NameAt(i) ==
        LET equals == Past(i + 8, Space)
            quote == Past(equals + 1, Space)
            delimiter == IF Is(quote, 34) THEN 34 ELSE 39
            end == Past(quote + 1, Symbol)
        IN  IF SubSeq(data, i, i + 7) = EncodingWord /\ Is(equals, 61) /\ Is(quote, delimiter) /\ Is(end, delimiter)
              THEN {SubSeq(data, quote + 1, end - 1)} ELSE {}
  IN  IF Len(data) >= 6 /\ SubSeq(data, 1, 5) = XmlSpace /\ data[6] \in Space
        THEN UNION {NameAt(i) : i \in {j \in word : \A k \in 7..j : data[k] # 63}}
        ELSE {}

Iso88591 == <<105, 115, 111, 45, 56, 56, 53, 57, 45, 49>>
Latin1Name == <<108, 97, 116, 105, 110, 49>>
IsLatin1(name) ==
  \/ Len(name) = 10 /\ [k \in 1..10 |-> IF k <= 3 THEN LowerCase(name[k]) ELSE name[k]] = Iso88591
  \/ Len(name) = 6 /\ [k \in 1..6 |-> IF k <= 5 THEN LowerCase(name[k]) ELSE name[k]] = Latin1Name

Guess(data) ==
  LET Starts(s) == SubSeq(data, 1, Len(s)) = s
  IN  CASE Len(data) < 4 -> "utf8"
        [] Len(data) >= 4 /\ (Starts(<<0, 0, 254, 255>>) \/ Starts(<<0, 0, 0, 60>>)) -> "utf32_be"
        [] Len(data) >= 4 /\ (Starts(<<255, 254, 0, 0>>) \/ Starts(<<60, 0, 0, 0>>)) -> "utf32_le"
        [] Len(data) >= 4 /\ (Starts(<<254, 255>>) \/ Starts(<<0, 60>>)) -> "utf16_be"
        [] Len(data) >= 4 /\ (\/ Starts(<<255, 254>>) /\ ~Starts(<<255, 254, 0, 0>>)
                              \/ Starts(<<60, 0>>) /\ ~Starts(<<60, 0, 0, 0>>)) -> "utf16_le"
        [] OTHER -> IF \E name \in DeclaredEncoding(data) : IsLatin1(name) THEN "latin1" ELSE "utf8"

BufferEncoding(e, data) == Named(e, Guess(data))
-----------------------------------------------------------------------------
(* What convert_buffer() hands to a counter, and then to a writer. *)

Decoded(data, e) ==
  LET values == LET units == Units(data, SizeOf(e))
                IN  [k \in DOMAIN units |-> Native(IF e \in {Utf16, Utf32} THEN units[k] ELSE Swap(units[k]))]
  IN  CASE SizeOf(e) = 2 -> Utf16Decoded(values)
        [] SizeOf(e) = 4 -> Utf32Decoded(values)
        [] e = "latin1" -> Latin1Decoded(data)

\* get_latin1_7bit_prefix_length()
Prefix(data) == CHOOSE n \in 0 .. Len(data) : (\A k \in 1..n : data[k] <= 127) /\ (n = Len(data) \/ data[n + 1] > 127)

\* The bytes that need no conversion: they are copied, or stay where they are.
Kept(data, e) == CASE e = "utf8" -> Len(data) [] e = "latin1" -> Prefix(data) [] OTHER -> 0
Rest(data, e) ==
  IF Kept(data, e) = Len(data) THEN <<>> ELSE Decoded(SubSeq(data, Kept(data, e) + 1, Len(data)), e)
-----------------------------------------------------------------------------
Init ==
  /\ target \in Encodings \ {"auto"} /\ text \in Saved(target)
  /\ base \in 0..3 /\ asked \in {"auto", target}
  /\ file = <<>> /\ encoding = "auto" /\ length = 0 /\ buffer = <<>>
  /\ pc = "save"

Save ==
  /\ pc = "save"
  /\ file' = Output(text, base, WriteEncoding(target))
  /\ pc' = "guess"
  /\ UNCHANGED <<text, base, target, asked, encoding, length, buffer>>

GetEncoding ==
  /\ pc = "guess"
  /\ encoding' = BufferEncoding(asked, file)
  /\ pc' = "count"
  /\ UNCHANGED <<text, base, target, asked, file, length, buffer>>

Count ==
  /\ pc = "count"
  /\ length' = Kept(file, encoding) + Counted(Utf8Count, Rest(file, encoding))
  /\ pc' = "write"
  /\ UNCHANGED <<text, base, target, asked, encoding, file, buffer>>

Write ==
  /\ pc = "write"
  /\ buffer' = SubSeq(file, 1, Kept(file, encoding)) \o Written(Utf8Written, Rest(file, encoding))
  /\ pc' = "done"
  /\ UNCHANGED <<text, base, target, asked, encoding, file, length>>

\* as_wide() in place of saving; as_utf8() of its units, in the same two passes
Widen ==
  /\ pc = "save" /\ target = "wchar"
  /\ LET codes == Utf8Decoded(text, base)
     IN  length' = WcharCounted(codes) /\ file' = WcharWritten(codes)
  /\ pc' = "wide"
  /\ UNCHANGED <<text, base, target, asked, encoding, buffer>>

Narrow ==
  /\ pc = "wide"
  /\ LET codes == WcharDecoded(file)
     IN  length' = Counted(Utf8Count, codes) /\ buffer' = Written(Utf8Written, codes)
  /\ pc' = "narrow"
  /\ UNCHANGED <<text, base, target, asked, encoding, file>>

Next == Save \/ GetEncoding \/ Count \/ Write \/ Widen \/ Narrow

Spec == Init /\ [][Next]_vars
-----------------------------------------------------------------------------
Bytes == 0..255

TypeOK ==
  /\ pc \in {"save", "guess", "count", "write", "done", "wide", "narrow"}
  /\ encoding \in Encodings \ {"wchar", "utf16", "utf32"}
  /\ pc # "wide" /\ pc # "narrow" => file \in Seq(Bytes)
  /\ buffer \in Seq(Bytes)

\* Every conversion allocates what its first pass counts and writes it in its
\* second, to the last byte and no further, whatever bytes it is given.
CountIsWritten ==
  CASE pc \in {"done", "narrow"} -> Len(buffer) = length
    [] pc = "wide" -> Len(file) = length
    [] OTHER -> TRUE

\* The characters of a text by the definition of UTF-8: where each of its
\* bytes is, and the byte that leads it.
Characters(s) ==
  {c \in [first : DOMAIN s, width : 1..4] :
     /\ c.first + c.width - 1 <= Len(s)
     /\ s[c.first] \in <<0..127, 194..223, 224..239, 240..244>>[c.width]
     /\ \A k \in 2 .. c.width : s[c.first + k - 1] \in 128..191}
Overlong(s) == \E c \in Characters(s) : c.width = 4 /\ s[c.first] = 240 /\ s[c.first + 1] < 144

WithoutBroken(s, Image(_)) ==
  LET From(i) == {c \in Characters(s) : c.first = i}
      Taken(i) == IF From(i) = {} THEN <<>> ELSE Image(SubSeq(s, i, i + (CHOOSE c \in From(i) : TRUE).width - 1))
  IN  FoldLeft(LAMBDA r, i : r \o Taken(i), <<>>, [i \in DOMAIN s |-> i])
InLatin1(char) == IF char[1] < 196 THEN char ELSE <<63>>
Same(char) == char

\* A document saved in an encoding is read as the text it was, whether the
\* encoding is told or guessed: without the bytes that are no characters,
\* where it was converted, and with '?' where Latin-1 has no character.
SavedIsLoaded ==
  pc \in {"done", "narrow"} /\ ~Overlong(text) =>
    buffer = CASE target = "utf8" -> text
               [] target = "latin1" -> WithoutBroken(text, InLatin1)
               [] OTHER -> WithoutBroken(text, Same)
=============================================================================
