----------------------------- MODULE SimpleParser -----------------------------
(***************************************************************************)
(* The tokenizer of src/parsers/clrmamepro.cpp: it splits the input at     *)
(* white space and at single characters, except inside quotes, and hands   *)
(* each token to a callback.                                               *)
(*                                                                         *)
(* A character here is a unit the properties tell apart: a quote, a        *)
(* bracket, a blank, or a word (a run of other characters, which the       *)
(* tokenizer treats alike).  A token is the sequence of those it is made   *)
(* of.                                                                     *)
(***************************************************************************)
EXTENDS Naturals, Sequences, SequencesExt

CONSTANTS
  Char,   \* the characters of the input
  Type    \* Type[c]: how the tokenizer treats c (map, and defaultToken)

VARIABLES
  input,      \* _input
  position,   \* _position: how many characters have been read
  sb,         \* the token being built
  quote,      \* TRUE between quotes
  emitted,    \* every token handed to the callback, in order
  finished    \* TRUE once the last emit() has been made

lexVars == <<input, position, sb, quote, emitted, finished>>

LexTypeOK ==
  /\ input \in Seq(Char)
  /\ position \in 0..Len(input)
  /\ sb \in Seq(Char)
  /\ quote \in BOOLEAN
  /\ emitted \in Seq(Seq(Char) \ {<<>>})
  /\ finished \in BOOLEAN

LexInit ==
  /\ position = 0
  /\ sb = <<>>
  /\ quote = FALSE
  /\ emitted = <<>>
  /\ finished = FALSE
-----------------------------------------------------------------------------
\* The token emit() hands over, none if the buffer is empty.
Buffered == IF sb = <<>> THEN <<>> ELSE <<sb>>

Current == input[position + 1]

\* Read the next character, of one of the types in T.
Read(T) ==
  /\ position < Len(input)
  /\ Type[Current] \in T
  /\ position' = position + 1
  /\ UNCHANGED <<input, finished>>

ReadWhiteSpace ==
  /\ ~quote
  /\ Read({"WHITESPACE"})
  /\ emitted' = emitted \o Buffered
  /\ sb' = <<>>
  /\ UNCHANGED quote

\* An opening quote ends nothing: ab"cd" is one token.
OpenQuote ==
  /\ ~quote
  /\ Read({"QUOTE"})
  /\ quote' = TRUE
  /\ UNCHANGED <<sb, emitted>>

\* A closing quote ends a token, except that an empty one is never emitted.
CloseQuote ==
  /\ quote
  /\ Read({"QUOTE"})
  /\ emitted' = emitted \o Buffered
  /\ sb' = <<>>
  /\ quote' = FALSE

\* Mutant of ReadSingle: the token before the bracket is not emitted first.
ReadSingleNoEmit ==
  /\ ~quote
  /\ Read({"SINGLE"})
  /\ emitted' = Append(emitted, <<Current>>)
  /\ UNCHANGED <<sb, quote>>

ReadSingle ==
  /\ ~quote
  /\ Read({"SINGLE"})
  /\ emitted' = emitted \o Buffered \o <<<<Current>>>>
  /\ sb' = <<>>
  /\ UNCHANGED quote

ReadNormal ==
  /\ Read({"NORMAL"} \cup IF quote THEN {"WHITESPACE", "SINGLE"} ELSE {})
  /\ sb' = Append(sb, Current)
  /\ UNCHANGED <<quote, emitted>>

ReadChar ==
  \/ ReadWhiteSpace
  \/ OpenQuote
  \/ CloseQuote
  \/ ReadSingle
  \/ ReadNormal

\* Mutant of FinishInput: a quote left open is waited for.
FinishInputQuoted ==
  /\ position = Len(input)
  /\ ~finished
  /\ ~quote
  /\ emitted' = emitted \o Buffered
  /\ sb' = <<>>
  /\ finished' = TRUE
  /\ UNCHANGED <<input, position, quote>>

\* The emit() after the loop.  A quote still open is forgotten.
FinishInput ==
  /\ position = Len(input)
  /\ ~finished
  /\ emitted' = emitted \o Buffered
  /\ sb' = <<>>
  /\ finished' = TRUE
  /\ UNCHANGED <<input, position, quote>>
-----------------------------------------------------------------------------
(***************************************************************************)
(* What the tokens should be, by position and without the parser's state.  *)
(***************************************************************************)

TypeAt(i) == Type[input[i]]

\* Position i lies between quotes: an odd number of quotes precede it.
Quoted(i) == Cardinality({j \in 1..(i - 1) : TypeAt(j) = "QUOTE"}) % 2 = 1

\* A token ends at position i.
Ends(i) == IF Quoted(i) THEN TypeAt(i) = "QUOTE"
                        ELSE TypeAt(i) \in {"WHITESPACE", "SINGLE"}

\* The characters after the last end before position i, without quotes.
TokenBefore(i) ==
  FlattenSeq([j \in 1..(i - 1) |->
    IF TypeAt(j) = "QUOTE" \/ \E k \in j..(i - 1) : Ends(k) THEN <<>> ELSE <<input[j]>>])

\* The tokens that end at position i: the one before it and a bracket there.
TokensAt(i) ==
  IF Ends(i)
    THEN (IF TokenBefore(i) = <<>> THEN <<>> ELSE <<TokenBefore(i)>>) \o
         (IF TypeAt(i) = "SINGLE" /\ ~Quoted(i) THEN <<<<input[i]>>>> ELSE <<>>)
    ELSE <<>>

(***************************************************************************)
(* No character is lost, moved or put into the wrong token: at every       *)
(* position the tokens emitted are those the text before it determines,    *)
(* and the buffer holds what follows the last of them.                     *)
(***************************************************************************)
TokensOfThePrefix ==
  ~finished =>
    /\ emitted = FlattenSeq([i \in 1..position |-> TokensAt(i)])
    /\ sb = TokenBefore(position + 1)
=============================================================================
