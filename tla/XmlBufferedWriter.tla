-------------------------- MODULE XmlBufferedWriter --------------------------
(***************************************************************************)
(* pugixml's xml_buffered_writer: everything that is saved goes through    *)
(* its buffer, and reaches the xml_writer in chunks, converted one by one  *)
(* when the output is not UTF-8.                                           *)
(***************************************************************************)
EXTENDS Integers, Sequences, SequencesExt

CONSTANTS
  Capacity,  \* bufcapacity
  Strings,   \* what write_string() and write_buffer() are given, in UTF-8
  Runs,      \* what write(d0, ..) is given: up to six bytes of ASCII
  MaxCalls   \* bound on the calls

Bytes == 0..255

Trail(byte) == byte \in 128..191

\* How many bytes a character has that begins with this one.
Width(lead) == CASE lead < 192 -> 1 [] lead \in 192..223 -> 2 [] lead \in 224..239 -> 3 [] OTHER -> 4

\* The text ends inside a character.
CutOff(text) ==
  \E i \in 1..Len(text) : i + Width(text[i]) - 1 > Len(text) /\ \A k \in i + 1 .. Len(text) : Trail(text[k])

\* Any bytes may be written, but no string ends inside a character: it would
\* if it were not UTF-8, or if its caller had cut it in two.
OutputAssumption ==
  /\ Capacity \in Nat /\ Capacity >= 8 /\ MaxCalls \in Nat
  /\ Strings \cup Runs \subseteq Seq(Bytes)
  /\ \A data \in Runs : Len(data) <= 6
  /\ \A data \in Strings \cup Runs : ~CutOff(data)

VARIABLES
  native,   \* whether the encoding of the output is that of the text
  buffer,
  sent,     \* the chunks that the writer has got
  written,  \* all that the calls were given
  calls

outputVars == <<native, buffer, sent, written, calls>>

\* Mutant of ValidLength: also a character that is cut off is valid.
ValidLengthAll(data) == IF Len(data) < 5 THEN 0 ELSE Len(data)

\* get_valid_length(): up to the last byte that begins a character, which may
\* be cut off.
ValidLength(data) ==
  LET n == Len(data)
      begins == {i \in 1..4 : ~Trail(data[n - i + 1])}
  IN  IF n < 5 THEN 0
      ELSE IF begins = {} THEN n
      ELSE n - CHOOSE i \in begins : \A j \in begins : i <= j

\* flush(data, size)
Chunk(data) == IF data = <<>> THEN <<>> ELSE <<data>>

\* The chunks of convertible size that write_direct() takes off long data.
Chunks(data) ==
  LET from[o \in Nat] ==
        IF Len(data) - o <= Capacity THEN <<>>
        ELSE LET n == ValidLength(SubSeq(data, o + 1, o + Capacity))
             IN  <<SubSeq(data, o + 1, o + n)>> \o from[o + n]
  IN  from[0]

\* write_direct(), when the buffer holds kept
Direct(kept, data) ==
  IF native /\ Len(data) > Capacity
    THEN sent' = sent \o Chunk(kept) \o <<data>> /\ buffer' = <<>>
    ELSE LET chunks == Chunks(data)
         IN  /\ sent' = sent \o Chunk(kept) \o chunks
             /\ buffer' = SubSeq(data, Len(FlattenSeq(chunks)) + 1, Len(data))

Called(data) ==
  /\ calls < MaxCalls /\ calls' = calls + 1
  /\ written' = written \o data
  /\ UNCHANGED native
-----------------------------------------------------------------------------
OutputInit == native \in BOOLEAN /\ buffer = <<>> /\ sent = <<>> /\ written = <<>> /\ calls = 0

WriteBuffer(data) ==
  /\ Called(data)
  /\ IF Len(buffer) + Len(data) <= Capacity
       THEN buffer' = buffer \o data /\ UNCHANGED sent
       ELSE Direct(buffer, data)

\* What fits is copied as it is read; if the buffer is full then, a character
\* that may be cut off is taken back.
WriteString(data) ==
  LET room == Capacity - Len(buffer)
      fits == SubSeq(data, 1, room)
      valid == ValidLength(fits)
  IN  /\ Called(data)
      /\ IF Len(data) < room
           THEN buffer' = buffer \o data /\ UNCHANGED sent
           ELSE Direct(buffer \o SubSeq(data, 1, valid), SubSeq(data, valid + 1, Len(data)))

\* write(d0), .., write(d0, .., d5)
WriteRun(data) ==
  /\ Called(data)
  /\ IF Len(buffer) > Capacity - Len(data)
       THEN sent' = sent \o Chunk(buffer) /\ buffer' = data
       ELSE buffer' = buffer \o data /\ UNCHANGED sent

Flush ==
  /\ sent' = sent \o Chunk(buffer) /\ buffer' = <<>>
  /\ UNCHANGED <<native, written, calls>>

OutputNext ==
  \/ \E data \in Strings : WriteBuffer(data) \/ WriteString(data)
  \/ \E data \in Runs : WriteRun(data)
  \/ Flush

OutputSpec == OutputInit /\ [][OutputNext]_outputVars
-----------------------------------------------------------------------------
OutputTypeOK ==
  /\ native \in BOOLEAN /\ calls \in 0..MaxCalls
  /\ buffer \in Seq(Bytes) /\ sent \in Seq(Seq(Bytes) \ {<<>>}) /\ written \in Seq(Bytes)

\* Nothing is lost, doubled or overtaken: the chunks and then the buffer are
\* what the calls were given, whichever of them found the buffer full.
EverythingInOrder == FlattenSeq(sent) \o buffer = written

\* The buffer never holds more than it can, nor does a chunk that has to go
\* through the scratch buffer, which is sized for Capacity bytes.
ChunksFit ==
  /\ Len(buffer) <= Capacity
  /\ ~native => \A k \in DOMAIN sent : Len(sent[k]) \in 1..Capacity

\* A character goes on behind place p of a text.
Inside(text, p) ==
  \E i \in 1..p : /\ i + Width(text[i]) - 1 \in p + 1 .. Len(text)
                  /\ \A k \in i + 1 .. i + Width(text[i]) - 1 : Trail(text[k])

\* A chunk is converted by itself, so none ends inside a character, and
\* nothing is ever flushed that begins inside one.
WholeCharacters ==
  ~native => \A k \in DOMAIN sent : ~Inside(written, Len(FlattenSeq(SubSeq(sent, 1, k))))

(***************************************************************************)
(* What the calls were given is in the chunks and the buffer, whole and in *)
(* order, and each chunk can be converted by itself in the scratch buffer. *)
(***************************************************************************)
OutputInOrder == OutputTypeOK /\ EverythingInOrder /\ ChunksFit /\ WholeCharacters
=============================================================================
