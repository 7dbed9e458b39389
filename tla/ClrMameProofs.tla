---------------------------- MODULE ClrMameProofs ----------------------------
(***************************************************************************)
(* Theorems about ClrMamePro, for every set of texts, whatever they        *)
(* contain, and every conversion of values: its tokens are those of the    *)
(* text, and its stack keeps to the scopes that are open.  On the text of  *)
(* a DAT, whatever games and fields it has, it returns the entries of the  *)
(* DAT.                                                                    *)
(***************************************************************************)
EXTENDS ClrMamePro, DataLemmas

Tokens == Seq(Char)

(***************************************************************************)
(* The part of the state the stack depends on, and the position of the rom *)
(* that insideRom speaks of: among the keys of open scopes, so below the   *)
(* key that waits for a value.                                             *)
(***************************************************************************)
StackTypeOK ==
  /\ input \in Seq(Char)
  /\ position \in Nat
  /\ sb \in Tokens
  /\ emitted \in Seq(Tokens)
  /\ handled \in 0..Len(emitted)
  /\ tokens \in Seq(Tokens)
  /\ {partial, insideRom} \subseteq BOOLEAN

OpenCount == Len(tokens) - (IF partial THEN 1 ELSE 0)

RomOnStack == insideRom => \E i \in 1..OpenCount : tokens[i] = <<"rom">>

StackInv == StackTypeOK /\ KeyOnStack /\ RomOnStack

\* What token() does to the stack, whatever the callback does.
LEMMA PushKeyEffect ==
  ASSUME StackTypeOK, NEW t \in Tokens, PushKey(t)
  PROVE  /\ tokens' \in Seq(Tokens)
         /\ tokens' # <<>>
         /\ OpenCount' = OpenCount
         /\ partial' = TRUE
         /\ \A i \in 1..OpenCount : tokens'[i] = tokens[i]
<1>1. tokens' = Append(tokens, t) /\ ~partial /\ partial' = TRUE
  BY DEF PushKey
<1>2. tokens \in Seq(Tokens)
  BY DEF StackTypeOK
<1>3. Len(tokens') = Len(tokens) + 1 /\ Len(tokens) \in Nat
  BY <1>1, <1>2, PushLen
<1>4. tokens' \in Seq(Tokens)
  BY <1>1, <1>2, PushType
<1>5. tokens' # <<>>
  BY <1>3
<1>6. OpenCount = Len(tokens)
  BY <1>1, <1>3 DEF OpenCount
<1>7. OpenCount' = Len(tokens)
  BY <1>1, <1>3 DEF OpenCount
<1>8. \A i \in 1..OpenCount : tokens'[i] = tokens[i]
  BY <1>1, <1>2, <1>6, PushKeeps
<1>9. QED
  BY <1>1, <1>4, <1>5, <1>6, <1>7, <1>8

LEMMA ReadPairEffect ==
  ASSUME StackTypeOK, NEW t, ReadPair(t)
  PROVE  /\ tokens' \in Seq(Tokens)
         /\ OpenCount' = OpenCount
         /\ partial' = FALSE
         /\ \A i \in 1..OpenCount : tokens'[i] = tokens[i]
<1>1. tokens' = Front(tokens) /\ partial /\ partial' = FALSE /\ tokens # <<>>
  BY DEF ReadPair
<1>2. tokens \in Seq(Tokens)
  BY DEF StackTypeOK
<1>3. Len(tokens') = Len(tokens) - 1 /\ Len(tokens) \in Nat
  BY <1>1, <1>2, PopLen
<1>4. tokens' \in Seq(Tokens)
  BY <1>1, <1>2, PopType
<1>5. OpenCount = Len(tokens) - 1
  BY <1>1, <1>3 DEF OpenCount
<1>6. OpenCount' = Len(tokens) - 1
  BY <1>1, <1>3 DEF OpenCount
<1>7. \A i \in 1..OpenCount : tokens'[i] = tokens[i]
  BY <1>1, <1>2, <1>5, PopKeeps
<1>8. QED
  BY <1>1, <1>4, <1>5, <1>6, <1>7

LEMMA OpenScopeEffect ==
  ASSUME StackTypeOK, NEW t, OpenScope(t), RomOnStack, ScopeStart(Top)
  PROVE  partial' = FALSE /\ tokens' \in Seq(Tokens) /\ RomOnStack'
<1>1. tokens' = tokens /\ partial' = FALSE /\ tokens # <<>>
  BY DEF OpenScope
<1>2. tokens \in Seq(Tokens) /\ Len(tokens) \in Nat /\ Len(tokens) > 0
  BY <1>1 DEF StackTypeOK
<1>3. OpenCount' = Len(tokens)
  BY <1>1, <1>2 DEF OpenCount
<1>4. 1..OpenCount \subseteq 1..Len(tokens)
  BY <1>2 DEF OpenCount
<1>5. ASSUME insideRom'
      PROVE  \E i \in 1..Len(tokens) : tokens[i] = <<"rom">>
  <2>1. CASE insideRom
    BY <1>4, <2>1 DEF RomOnStack
  <2>2. CASE Top = <<"rom">>
    BY <1>2, <2>2 DEF Top, Last
  <2>3. QED
    BY <1>5, <2>1, <2>2 DEF ScopeStart
<1>6. QED
  BY <1>1, <1>2, <1>3, <1>5 DEF RomOnStack

LEMMA CloseScopeEffect ==
  ASSUME StackTypeOK, NEW t, CloseScope(t), RomOnStack, ScopeEnd(Top)
  PROVE  partial' = FALSE /\ tokens' \in Seq(Tokens) /\ RomOnStack'
<1>1. tokens' = Front(tokens) /\ partial' = FALSE /\ tokens # <<>>
  BY DEF CloseScope
<1>2. tokens \in Seq(Tokens) /\ Len(tokens) \in Nat /\ Len(tokens) > 0
  BY <1>1 DEF StackTypeOK
<1>3. tokens' \in Seq(Tokens) /\ Len(tokens') = Len(tokens) - 1
  BY <1>1, <1>2, PopType, PopLen
<1>4. OpenCount' = Len(tokens) - 1
  BY <1>1, <1>2, <1>3 DEF OpenCount
<1>5. ASSUME insideRom'
      PROVE  \E i \in 1..(Len(tokens) - 1) : tokens'[i] = <<"rom">>
  <2>1. insideRom /\ Top # <<"rom">>
    BY <1>5 DEF ScopeEnd
  <2>2. PICK i \in 1..OpenCount : tokens[i] = <<"rom">>
    BY <2>1 DEF RomOnStack
  <2>3. i # Len(tokens)
    BY <2>1, <2>2 DEF Top, Last
  <2>4. i \in 1..(Len(tokens) - 1)
    BY <1>2, <2>2, <2>3 DEF OpenCount
  <2>5. tokens'[i] = tokens[i]
    BY <1>1, <1>2, <2>4, PopKeeps
  <2>6. QED
    BY <2>2, <2>4, <2>5
<1>6. QED
  BY <1>1, <1>3, <1>4, <1>5 DEF RomOnStack
-----------------------------------------------------------------------------
\* The tokenizer emits tokens made of characters of the input.
LEMMA BufferedType ==
  ASSUME sb \in Tokens
  PROVE  Buffered \in Seq(Tokens)
BY DEF Buffered

LEMMA TokenizeType ==
  ASSUME StackTypeOK, Tokenize
  PROVE  /\ input' \in Seq(Char)
         /\ position' \in Nat
         /\ sb' \in Tokens
         /\ emitted' \in Seq(Tokens)
         /\ Len(emitted) <= Len(emitted')
<1> USE DEF StackTypeOK
<1>1. Buffered \in Seq(Tokens)
  BY BufferedType
<1>2. ASSUME NEW m \in Seq(Tokens)
      PROVE  /\ emitted \o m \in Seq(Tokens)
             /\ Len(emitted) <= Len(emitted \o m)
  <2>1. emitted \o m \in Seq(Tokens)
    OBVIOUS
  <2>2. Len(emitted \o m) = Len(emitted) + Len(m) /\ Len(m) \in Nat /\ Len(emitted) \in Nat
    OBVIOUS
  <2>3. QED
    BY <2>1, <2>2
<1>3. ASSUME NEW T, Read(T)
      PROVE  /\ input' \in Seq(Char)
             /\ position' \in Nat
             /\ Current \in Char
  <2>1. position + 1 \in 1..Len(input)
    BY <1>3 DEF Read
  <2>2. Current \in Char
    BY <2>1, ElementOfSeq DEF Current
  <2>3. QED
    BY <1>3, <2>2 DEF Read
<1>4. CASE ReadWhiteSpace
  <2>1. Read({"WHITESPACE"}) /\ emitted' = emitted \o Buffered /\ sb' = <<>>
    BY <1>4 DEF ReadWhiteSpace
  <2>2. sb' \in Tokens
    BY <2>1 DEF Tokens
  <2>3. QED
    BY <1>1, <1>2, <1>3, <2>1, <2>2
<1>5. CASE OpenQuote
  <2>1. Read({"QUOTE"}) /\ emitted' = emitted /\ sb' = sb
    BY <1>5 DEF OpenQuote
  <2>2. Len(emitted) \in Nat
    OBVIOUS
  <2>3. QED
    BY <1>3, <2>1, <2>2
<1>6. CASE CloseQuote
  <2>1. Read({"QUOTE"}) /\ emitted' = emitted \o Buffered /\ sb' = <<>>
    BY <1>6 DEF CloseQuote
  <2>2. sb' \in Tokens
    BY <2>1 DEF Tokens
  <2>3. QED
    BY <1>1, <1>2, <1>3, <2>1, <2>2
<1>7. CASE ReadSingle
  <2>1. /\ Read({"SINGLE"})
        /\ emitted' = emitted \o Buffered \o <<<<Current>>>>
        /\ sb' = <<>>
    BY <1>7 DEF ReadSingle
  <2>2. Current \in Char
    BY <1>3, <2>1
  <2>3. <<<<Current>>>> \in Seq(Tokens)
    BY <2>2 DEF Tokens
  <2>4. Buffered \o <<<<Current>>>> \in Seq(Tokens)
    BY <1>1, <2>3
  <2>5. emitted \o Buffered \o <<<<Current>>>> = emitted \o (Buffered \o <<<<Current>>>>)
    BY <1>1, <2>3
  <2>6. sb' \in Tokens
    BY <2>1 DEF Tokens
  <2>7. QED
    BY <1>2, <1>3, <2>1, <2>4, <2>5, <2>6
<1>8. CASE ReadNormal
  <2>1. PICK T : Read(T)
    BY <1>8 DEF ReadNormal
  <2>2. emitted' = emitted /\ sb' = Append(sb, Current)
    BY <1>8 DEF ReadNormal
  <2>3. Current \in Char
    BY <1>3, <2>1
  <2>4. sb' \in Tokens
    BY <2>2, <2>3 DEF Tokens
  <2>5. Len(emitted) \in Nat
    OBVIOUS
  <2>6. QED
    BY <1>3, <2>1, <2>2, <2>4, <2>5
<1>9. CASE FinishInput
  <2>1. /\ emitted' = emitted \o Buffered
        /\ sb' = <<>>
        /\ input' = input /\ position' = position
    BY <1>9 DEF FinishInput
  <2>2. sb' \in Tokens
    BY <2>1 DEF Tokens
  <2>3. QED
    BY <1>1, <1>2, <2>1, <2>2
<1>10. QED
  BY <1>4, <1>5, <1>6, <1>7, <1>8, <1>9 DEF Tokenize, ReadChar

LEMMA StackInvInit == input \in Seq(Char) /\ ParserInit => StackInv
<1> SUFFICES ASSUME input \in Seq(Char), ParserInit
             PROVE  StackInv
  OBVIOUS
<1>1. /\ position = 0 /\ sb = <<>> /\ emitted = <<>> /\ handled = 0
      /\ tokens = <<>> /\ partial = FALSE /\ insideRom = FALSE
  BY DEF ParserInit, LexInit, TreeInit
<1>3. StackTypeOK
  <2>1. sb \in Tokens /\ emitted \in Seq(Tokens) /\ tokens \in Seq(Tokens)
    BY <1>1 DEF Tokens
  <2>2. handled \in 0..Len(emitted)
    BY <1>1
  <2>3. QED
    BY <1>1, <2>1, <2>2 DEF StackTypeOK
<1>4. QED
  BY <1>1, <1>3 DEF StackInv, KeyOnStack, RomOnStack

LEMMA StackInvNext == StackInv /\ [Next]_vars => StackInv'
<1> SUFFICES ASSUME StackInv, [Next]_vars
             PROVE  StackInv'
  OBVIOUS
<1> USE DEF StackInv
<1>1. CASE Tokenize
  <2>1. /\ input' \in Seq(Char)
        /\ position' \in Nat
        /\ sb' \in Tokens
        /\ emitted' \in Seq(Tokens)
        /\ Len(emitted) <= Len(emitted')
    BY <1>1, TokenizeType
  <2>2. UNCHANGED <<tokens, partial, handled, insideRom>>
    BY <1>1 DEF Tokenize, treeVars, entryVars
  <2>3. handled' \in 0..Len(emitted')
    <3>1. Len(emitted') \in Nat /\ Len(emitted) \in Nat
      BY <2>1 DEF StackTypeOK
    <3>2. QED
      BY <2>1, <2>2, <3>1 DEF StackTypeOK
  <2>4. StackTypeOK'
    BY <2>1, <2>2, <2>3 DEF StackTypeOK
  <2>5. KeyOnStack' /\ RomOnStack'
    BY <2>2 DEF KeyOnStack, RomOnStack, OpenCount
  <2>6. QED
    BY <2>4, <2>5
<1>2. CASE HandleToken
  <2> DEFINE t == emitted[handled + 1]
  <2>1. /\ handled' = handled + 1
        /\ UNCHANGED <<input, position, sb, emitted>>
        /\ handled # Len(emitted)
    BY <1>2 DEF HandleToken, AllHandled, lexVars
  <2>2. handled + 1 \in 1..Len(emitted) /\ Len(emitted) \in Nat
    BY <2>1 DEF StackTypeOK
  <2>3. t \in Tokens
    BY <2>2, ElementOfSeq DEF StackTypeOK
  <2>4. handled' \in 0..Len(emitted')
    BY <2>1, <2>2
  <2>5. ASSUME tokens' \in Seq(Tokens), partial' \in BOOLEAN, insideRom' \in BOOLEAN
        PROVE  StackTypeOK'
    BY <2>1, <2>4, <2>5 DEF StackTypeOK
  <2>6. CASE PushKey(t) /\ UNCHANGED entryVars
    <3>1. insideRom' = insideRom /\ insideRom \in BOOLEAN
      BY <2>6 DEF entryVars, StackTypeOK
    <3>2. /\ tokens' \in Seq(Tokens)
          /\ tokens' # <<>>
          /\ OpenCount' = OpenCount
          /\ partial' = TRUE
          /\ \A i \in 1..OpenCount : tokens'[i] = tokens[i]
      BY <2>3, <2>6, PushKeyEffect
    <3>3. RomOnStack'
      BY <3>1, <3>2 DEF RomOnStack
    <3>4. QED
      BY <2>5, <3>1, <3>2, <3>3 DEF KeyOnStack
  <2>7. CASE ReadPair(t) /\ Pair(Top, t)
    <3>1. insideRom' = insideRom /\ insideRom \in BOOLEAN
      BY <2>7 DEF Pair, StackTypeOK
    <3>2. /\ tokens' \in Seq(Tokens)
          /\ OpenCount' = OpenCount
          /\ partial' = FALSE
          /\ \A i \in 1..OpenCount : tokens'[i] = tokens[i]
      BY <2>7, ReadPairEffect
    <3>3. RomOnStack'
      BY <3>1, <3>2 DEF RomOnStack
    <3>4. QED
      BY <2>5, <3>1, <3>2, <3>3 DEF KeyOnStack
  <2>8. CASE OpenScope(t) /\ ScopeStart(Top)
    <3>1. insideRom' \in BOOLEAN
      BY <2>8 DEF ScopeStart
    <3>2. partial' = FALSE /\ tokens' \in Seq(Tokens) /\ RomOnStack'
      BY <2>8, OpenScopeEffect
    <3>3. QED
      BY <2>5, <3>1, <3>2 DEF KeyOnStack
  <2>9. CASE CloseScope(t) /\ ScopeEnd(Top)
    <3>1. insideRom' \in BOOLEAN
      BY <2>9 DEF ScopeEnd
    <3>2. partial' = FALSE /\ tokens' \in Seq(Tokens) /\ RomOnStack'
      BY <2>9, CloseScopeEffect
    <3>3. QED
      BY <2>5, <3>1, <3>2 DEF KeyOnStack
  <2>10. CASE BackOfEmpty(t) /\ UNCHANGED entryVars
    <3>1. UNCHANGED <<tokens, partial, insideRom>>
      BY <2>10 DEF BackOfEmpty, entryVars
    <3>2. StackTypeOK'
      BY <2>1, <2>4, <3>1 DEF StackTypeOK
    <3>3. QED
      BY <3>1, <3>2 DEF KeyOnStack, RomOnStack, OpenCount
  <2>11. QED
    BY <1>2, <2>6, <2>7, <2>8, <2>9, <2>10 DEF HandleToken
<1>3. CASE UNCHANGED vars
  BY <1>3 DEF vars, lexVars, treeVars, entryVars, StackTypeOK, KeyOnStack, RomOnStack, OpenCount
<1>4. QED
  BY <1>1, <1>2, <1>3 DEF Next

\* The texts of Spec are sequences of characters.
LEMMA InitInput == Init => input \in Seq(Char) /\ ParserInit
BY ClrMameAssumption DEF Init

LEMMA StackInvariant == Spec => []StackInv
  BY InitInput, StackInvInit, StackInvNext, PTL DEF Spec

\* On any text, a value finds its key on the stack.
THEOREM KeyOnStackAlways == Spec => []KeyOnStack
<1>1. StackInv => KeyOnStack
  BY DEF StackInv
<1>2. QED
  BY <1>1, StackInvariant, PTL

\* On any text, insideRom means that a rom's scope is open.
THEOREM InsideRomIsOpenAlways == Spec => []InsideRomIsOpen
<1>1. StackInv => InsideRomIsOpen
  <2> SUFFICES ASSUME StackInv, insideRom
               PROVE  \E i \in DOMAIN OpenScopes : OpenScopes[i] = <<"rom">>
    BY DEF InsideRomIsOpen
  <2>1. tokens \in Seq(Tokens) /\ partial \in BOOLEAN
    BY DEF StackInv, StackTypeOK
  <2>2. PICK i \in 1..OpenCount : tokens[i] = <<"rom">>
    BY DEF StackInv, RomOnStack
  <2>3. CASE partial
    <3>1. tokens # <<>>
      BY <2>3 DEF StackInv, KeyOnStack
    <3>2. i \in 1..(Len(tokens) - 1)
      BY <2>2, <2>3 DEF OpenCount
    <3>3. Front(tokens)[i] = <<"rom">>
      BY <2>1, <2>2, <3>1, <3>2, PopKeeps
    <3>4. Front(tokens) \in Seq(Tokens) /\ Len(Front(tokens)) = Len(tokens) - 1
      BY <2>1, <3>1, PopType, PopLen
    <3>5. i \in DOMAIN Front(tokens)
      BY <3>2, <3>4
    <3>6. QED
      BY <2>3, <3>3, <3>5 DEF OpenScopes
  <2>4. CASE ~partial
    <3>1. OpenCount = Len(tokens) /\ OpenScopes = tokens
      BY <2>1, <2>4 DEF OpenCount, OpenScopes
    <3>2. DOMAIN tokens = 1..Len(tokens)
      BY <2>1
    <3>3. QED
      BY <2>2, <3>1, <3>2
  <2>5. QED
    BY <2>3, <2>4
<1>2. QED
  BY <1>1, StackInvariant, PTL
-----------------------------------------------------------------------------
(***************************************************************************)
(* The tokenizer, by positions.                                            *)
(***************************************************************************)
LEMMA QuotedStep ==
  ASSUME NEW i \in Nat \ {0}
  PROVE  /\ ~Quoted(1)
         /\ TypeAt(i) = "QUOTE" => (Quoted(i + 1) <=> ~Quoted(i))
         /\ TypeAt(i) # "QUOTE" => (Quoted(i + 1) <=> Quoted(i))
<1> DEFINE Quotes(n) == {j \in 1..n : TypeAt(j) = "QUOTE"}
<1>1. \A n \in Nat : IsFiniteSet(Quotes(n)) /\ Cardinality(Quotes(n)) \in Nat
  <2>1. ASSUME NEW n \in Nat PROVE IsFiniteSet(Quotes(n)) /\ Cardinality(Quotes(n)) \in Nat
    <3>1. IsFiniteSet(1..n)
      BY FS_Interval
    <3>2. Quotes(n) \subseteq 1..n
      OBVIOUS
    <3>3. QED
      BY <3>1, <3>2, FS_Subset, FS_CardinalityType
  <2>2. QED
    BY <2>1
<1>2. Cardinality(Quotes(0)) = 0
  <2>1. Quotes(0) = {}
    OBVIOUS
  <2>2. QED
    BY <2>1, FS_EmptySet
<1>3. i - 1 \in Nat /\ i \in Nat
  OBVIOUS
<1>4. Quoted(1) <=> Cardinality(Quotes(0)) % 2 = 1
  BY DEF Quoted
<1>5. Quoted(i) <=> Cardinality(Quotes(i - 1)) % 2 = 1
  BY DEF Quoted
<1>6. Quoted(i + 1) <=> Cardinality(Quotes(i)) % 2 = 1
  BY DEF Quoted
<1>7. ASSUME TypeAt(i) = "QUOTE"
      PROVE  Cardinality(Quotes(i)) = Cardinality(Quotes(i - 1)) + 1
  <2>1. Quotes(i) = Quotes(i - 1) \cup {i} /\ i \notin Quotes(i - 1)
    BY <1>7
  <2>2. QED
    BY <1>1, <1>3, <2>1, FS_AddElement
<1>8. ASSUME TypeAt(i) # "QUOTE"
      PROVE  Quotes(i) = Quotes(i - 1)
  BY <1>8
<1> HIDE DEF Quotes
<1>9. QED
  BY <1>1, <1>2, <1>3, <1>4, <1>5, <1>6, <1>7, <1>8

\* What is left of the text before i is what was left one character earlier,
\* and that character, unless a token ends there.
LEMMA TokenStep ==
  ASSUME input \in Seq(Char), NEW i \in 1..Len(input)
  PROVE  /\ TokenBefore(i) \in Tokens
         /\ Ends(i) => TokenBefore(i + 1) = <<>>
         /\ ~Ends(i) => TokenBefore(i + 1) =
                        TokenBefore(i) \o (IF TypeAt(i) = "QUOTE" THEN <<>> ELSE <<input[i]>>)
<1> DEFINE Ended(j, n) == \E k \in j..n : Ends(k)
           Kept(n) == [j \in 1..n |->
             IF TypeAt(j) = "QUOTE" \/ Ended(j, n) THEN <<>> ELSE <<input[j]>>]
<1>1. i \in Nat /\ i - 1 \in Nat /\ i - 1 + 1 = i /\ Len(input) \in Nat
  OBVIOUS
<1>2. TokenBefore(i) = FlattenSeq(Kept(i - 1)) /\ TokenBefore(i + 1) = FlattenSeq(Kept(i))
  BY DEF TokenBefore
<1>3. \A n \in 0..Len(input) : Kept(n) \in [1..n -> Tokens]
  <2>1. \A j \in 1..Len(input) : input[j] \in Char
    OBVIOUS
  <2>2. \A c \in Char : <<c>> \in Tokens
    BY DEF Tokens
  <2>3. <<>> \in Tokens
    BY DEF Tokens
  <2> HIDE DEF Ended
  <2>4. QED
    BY <1>1, <2>1, <2>2, <2>3
<1>4. TokenBefore(i) \in Tokens
  <2>1. Kept(i - 1) \in [1..(i - 1) -> Seq(Char)]
    BY <1>1, <1>3 DEF Tokens
  <2> HIDE DEF Kept
  <2>2. QED
    BY <1>1, <1>2, <2>1, FlattenType DEF Tokens
<1>5. ASSUME Ends(i) PROVE TokenBefore(i + 1) = <<>>
  <2>1. \A j \in 1..i : Ended(j, i)
    BY <1>1, <1>5
  <2> HIDE DEF Ended
  <2>2. Kept(i) \in [1..i -> {<<>>}]
    BY <2>1
  <2> HIDE DEF Kept
  <2>3. QED
    BY <1>1, <1>2, <2>2, FlattenNone
<1>6. ASSUME ~Ends(i)
      PROVE  TokenBefore(i + 1) =
             TokenBefore(i) \o (IF TypeAt(i) = "QUOTE" THEN <<>> ELSE <<input[i]>>)
  <2>1. \A j \in 1..(i - 1) : Ended(j, i) <=> Ended(j, i - 1)
    BY <1>1, <1>6
  <2>2. ~Ended(i, i)
    BY <1>1, <1>6
  <2>3. i \in 1..i /\ \A j \in 1..(i - 1) : j \in 1..i
    BY <1>1
  <2> HIDE DEF Ended
  <2>4. \A j \in 1..(i - 1) : Kept(i)[j] = Kept(i - 1)[j]
    BY <2>1, <2>3
  <2>5. Kept(i)[i] = IF TypeAt(i) = "QUOTE" THEN <<>> ELSE <<input[i]>>
    BY <2>2, <2>3
  <2>6. Kept(i - 1) = [j \in 1..(i - 1) |-> Kept(i)[j]]
    BY <2>4
  <2>7. PICK n \in Nat : n = i - 1 /\ n + 1 = i
    BY <1>1
  <2>8. Kept(i) \in [1..i -> Seq(Char)]
    BY <1>1, <1>3 DEF Tokens
  <2> HIDE DEF Kept
  <2>9. FlattenSeq(Kept(i)) = FlattenSeq(Kept(i - 1)) \o Kept(i)[i]
    BY <2>6, <2>7, <2>8, FlattenStep
  <2>10. QED
    BY <1>2, <2>5, <2>9
<1>7. QED
  BY <1>4, <1>5, <1>6

LEMMA TokensAtType ==
  ASSUME input \in Seq(Char), NEW j \in 1..Len(input)
  PROVE  TokensAt(j) \in Seq(Tokens)
<1>1. TokenBefore(j) \in Tokens
  BY TokenStep
<1>2. input[j] \in Char
  OBVIOUS
<1>3. <<input[j]>> \in Tokens
  BY <1>2 DEF Tokens
<1> DEFINE a == IF TokenBefore(j) = <<>> THEN <<>> ELSE <<TokenBefore(j)>>
           b == IF TypeAt(j) = "SINGLE" /\ ~Quoted(j) THEN <<<<input[j]>>>> ELSE <<>>
<1>4. a \in Seq(Tokens) /\ b \in Seq(Tokens)
  BY <1>1, <1>3
<1>5. TokensAt(j) = IF Ends(j) THEN a \o b ELSE <<>>
  BY DEF TokensAt
<1> HIDE DEF a, b
<1>6. a \o b \in Seq(Tokens) /\ <<>> \in Seq(Tokens)
  BY <1>4
<1>7. QED
  BY <1>5, <1>6

\* The tokens that end in the first n characters.
Emission(n) == FlattenSeq([i \in 1..n |-> TokensAt(i)])

LEMMA EmissionStep ==
  ASSUME input \in Seq(Char), NEW i \in 1..Len(input)
  PROVE  Emission(i) = Emission(i - 1) \o TokensAt(i)
<1>1. \A j \in 1..Len(input) : TokensAt(j) \in Seq(Tokens)
  BY TokensAtType
<1> DEFINE f == [j \in 1..i |-> TokensAt(j)]
           g == [j \in 1..(i - 1) |-> TokensAt(j)]
<1>2. f \in [1..i -> Seq(Tokens)] /\ f[i] = TokensAt(i)
  <2>1. \A j \in 1..i : j \in 1..Len(input)
    OBVIOUS
  <2>2. i \in 1..i
    OBVIOUS
  <2>3. QED
    BY <1>1, <2>1, <2>2
<1>3. g = [j \in 1..(i - 1) |-> f[j]]
  <2>1. \A j \in 1..(i - 1) : j \in 1..i
    OBVIOUS
  <2>2. QED
    BY <2>1
<1>4. PICK n \in Nat : n = i - 1 /\ n + 1 = i
  OBVIOUS
<1>5. Emission(i) = FlattenSeq(f) /\ Emission(i - 1) = FlattenSeq(g)
  BY DEF Emission
<1> HIDE DEF f, g
<1>6. FlattenSeq(f) = FlattenSeq(g) \o f[i]
  <2>1. f \in [1..(n + 1) -> Seq(Tokens)] /\ g = [j \in 1..n |-> f[j]]
    BY <1>2, <1>3, <1>4
  <2>2. FlattenSeq(f) = FlattenSeq(g) \o f[n + 1]
    BY <2>1, FlattenStep
  <2>3. QED
    BY <1>4, <2>2
<1>7. QED
  BY <1>2, <1>5, <1>6

(***************************************************************************)
(* The inductive invariant: TokensOfThePrefix, and quote is the parity of  *)
(* the quotes read.                                                        *)
(***************************************************************************)
LexInv ==
  /\ input \in Seq(Char)
  /\ position \in 0..Len(input)
  /\ quote \in BOOLEAN
  /\ TokensOfThePrefix
  /\ ~finished => (quote <=> Quoted(position + 1))

\* One character more, read by a step that does to the buffer and to the
\* tokens what the character before the new position asks for.
LEMMA LexStep ==
  ASSUME LexInv, NEW T, Read(T), quote' \in BOOLEAN,
         ~finished =>
           /\ emitted' = emitted \o TokensAt(position + 1)
           /\ sb' = TokenBefore(position + 2)
           /\ quote' <=> Quoted(position + 2)
  PROVE  LexInv'
<1>1. PICK i : i = position + 1
  OBVIOUS
<1>2. /\ input' = input /\ position' = i /\ finished' = finished
      /\ i \in 1..Len(input) /\ i - 1 = position /\ i + 1 = position + 2
      /\ input \in Seq(Char) /\ Len(input) \in Nat
  BY <1>1 DEF Read, LexInv
<1>3. \A n : TokensAt(n)' = TokensAt(n) /\ TokenBefore(n)' = TokenBefore(n) /\ (Quoted(n)' <=> Quoted(n))
  BY <1>2 DEF TokensAt, TokenBefore, Quoted, Ends, TypeAt
<1>4. Emission(i) = Emission(position) \o TokensAt(i)
  BY <1>2, EmissionStep
<1>5. ASSUME ~finished
      PROVE  /\ emitted' = FlattenSeq([n \in 1..i |-> TokensAt(n)])
             /\ sb' = TokenBefore(i + 1)
             /\ quote' <=> Quoted(i + 1)
  BY <1>1, <1>2, <1>4, <1>5 DEF LexInv, TokensOfThePrefix, Emission
<1>6. ASSUME ~finished'
      PROVE  /\ emitted' = FlattenSeq([n \in 1..position |-> TokensAt(n)])'
             /\ sb' = TokenBefore(position + 1)'
             /\ quote' <=> Quoted(position + 1)'
  <2>1. FlattenSeq([n \in 1..position |-> TokensAt(n)])' = FlattenSeq([n \in 1..i |-> TokensAt(n)])
    BY <1>2, <1>3
  <2>2. TokenBefore(position + 1)' = TokenBefore(i + 1) /\ (Quoted(position + 1)' <=> Quoted(i + 1))
    BY <1>2 DEF TokenBefore, Quoted, Ends, TypeAt
  <2>3. QED
    BY <1>2, <1>5, <1>6, <2>1, <2>2
<1>7. TokensOfThePrefix' /\ (~finished' => (quote' <=> Quoted(position + 1)'))
  BY <1>6 DEF TokensOfThePrefix
<1>8. input' \in Seq(Char) /\ position' \in 0..Len(input')
  BY <1>2
<1>9. QED
  BY <1>7, <1>8 DEF LexInv

LEMMA LexInvNext == StackInv /\ LexInv /\ [Next]_vars => LexInv'
<1> SUFFICES ASSUME StackInv, LexInv, [Next]_vars
             PROVE  LexInv'
  OBVIOUS
<1>1. ASSUME UNCHANGED lexVars PROVE LexInv'
  <2>1. /\ input' = input /\ position' = position /\ finished' = finished
        /\ quote' = quote /\ sb' = sb /\ emitted' = emitted
    BY <1>1 DEF lexVars
  <2>2. TokensOfThePrefix' <=> TokensOfThePrefix
    BY <2>1 DEF TokensOfThePrefix, TokensAt, TokenBefore, Quoted, Ends, TypeAt
  <2>3. Quoted(position + 1)' <=> Quoted(position + 1)
    BY <2>1 DEF Quoted, TypeAt
  <2>4. QED
    BY <2>1, <2>2, <2>3 DEF LexInv
<1>2. ASSUME FinishInput PROVE LexInv'
  <2>1. input' = input /\ position' = position /\ finished' = TRUE /\ quote' = quote
    BY <1>2 DEF FinishInput
  <2>2. QED
    BY <2>1 DEF LexInv, TokensOfThePrefix
<1>3. ASSUME ReadChar PROVE LexInv'
  <2>1. PICK i : i = position + 1
    OBVIOUS
  <2>2. PICK T : Read(T)
    BY <1>3 DEF ReadChar, ReadWhiteSpace, OpenQuote, CloseQuote, ReadSingle, ReadNormal
  <2>3. /\ i \in 1..Len(input) /\ i \in Nat \ {0} /\ i + 1 = position + 2
        /\ Current = input[i] /\ input[i] \in Char /\ input \in Seq(Char)
        /\ quote' \in BOOLEAN
    <3>1. i \in 1..Len(input) /\ i \in Nat \ {0} /\ i + 1 = position + 2 /\ input \in Seq(Char)
      BY <2>1, <2>2 DEF LexInv, Read
    <3>2. Current = input[i] /\ input[i] \in Char
      BY <2>1, <3>1 DEF Current
    <3>3. quote' \in BOOLEAN
      BY <1>3 DEF LexInv, ReadChar, ReadWhiteSpace, OpenQuote, CloseQuote, ReadSingle, ReadNormal
    <3>4. QED
      BY <3>1, <3>2, <3>3
  <2>4. SUFFICES ASSUME ~finished
                 PROVE  /\ emitted' = emitted \o TokensAt(i)
                        /\ sb' = TokenBefore(i + 1)
                        /\ quote' <=> Quoted(i + 1)
    BY <2>1, <2>2, <2>3, LexStep
  <2>5. /\ sb = TokenBefore(i) /\ (quote <=> Quoted(i)) /\ sb \in Tokens
    <3>1. sb = TokenBefore(i) /\ (quote <=> Quoted(i))
      BY <2>1, <2>4 DEF LexInv, TokensOfThePrefix
    <3>2. QED
      BY <2>3, <3>1, TokenStep
  <2>6. emitted \in Seq(Tokens)
    BY DEF StackInv, StackTypeOK
  <2>7. /\ Ends(i) => TokenBefore(i + 1) = <<>>
        /\ ~Ends(i) => TokenBefore(i + 1) =
                       sb \o (IF TypeAt(i) = "QUOTE" THEN <<>> ELSE <<input[i]>>)
    BY <2>3, <2>5, TokenStep
  <2>8. /\ TypeAt(i) = "QUOTE" => (Quoted(i + 1) <=> ~quote)
        /\ TypeAt(i) # "QUOTE" => (Quoted(i + 1) <=> quote)
    BY <2>3, <2>5, QuotedStep
  <2>9. Ends(i) <=> IF quote THEN TypeAt(i) = "QUOTE" ELSE TypeAt(i) \in {"WHITESPACE", "SINGLE"}
    BY <2>5 DEF Ends
  <2>10. TokensAt(i) =
           IF Ends(i)
             THEN Buffered \o (IF TypeAt(i) = "SINGLE" /\ ~quote THEN <<<<input[i]>>>> ELSE <<>>)
             ELSE <<>>
    BY <2>5 DEF TokensAt, Buffered
  <2>11. /\ Buffered \in Seq(Tokens) /\ <<<<input[i]>>>> \in Seq(Tokens)
         /\ TypeAt(i) = Type[Current]
    BY <2>3, <2>5, BufferedType DEF TypeAt, Tokens
  <2>12. /\ emitted \o <<>> = emitted /\ Buffered \o <<>> = Buffered /\ sb \o <<>> = sb
         /\ Append(sb, Current) = sb \o <<input[i]>>
         /\ emitted \o Buffered \o <<<<Current>>>> = emitted \o (Buffered \o <<<<input[i]>>>>)
    <3>1. /\ sb \in Seq(Char) /\ Current = input[i] /\ Current \in Char
          /\ Buffered \in Seq(Tokens) /\ <<<<input[i]>>>> \in Seq(Tokens)
      BY <2>3, <2>5, <2>11 DEF Tokens
    <3>2. emitted \o <<>> = emitted /\ Buffered \o <<>> = Buffered /\ sb \o <<>> = sb
      BY <2>6, <3>1
    <3>3. Append(sb, Current) = sb \o <<input[i]>>
      BY <3>1
    <3>4. emitted \o Buffered \o <<<<input[i]>>>> = emitted \o (Buffered \o <<<<input[i]>>>>)
      BY <2>6, <3>1
    <3>5. QED
      BY <3>1, <3>2, <3>3, <3>4
  <2>13. CASE ReadWhiteSpace
    BY <2>7, <2>8, <2>9, <2>10, <2>11, <2>12, <2>13 DEF ReadWhiteSpace, Read
  <2>14. CASE OpenQuote
    BY <2>7, <2>8, <2>9, <2>10, <2>11, <2>12, <2>14 DEF OpenQuote, Read
  <2>15. CASE CloseQuote
    BY <2>7, <2>8, <2>9, <2>10, <2>11, <2>12, <2>15 DEF CloseQuote, Read
  <2>16. CASE ReadSingle
    <3>1. ~quote /\ ~quote' /\ TypeAt(i) = "SINGLE" /\ sb' = <<>>
          /\ emitted' = emitted \o Buffered \o <<<<Current>>>>
      BY <2>11, <2>16 DEF ReadSingle, Read
    <3>2. TokensAt(i) = Buffered \o <<<<input[i]>>>>
      BY <2>9, <2>10, <3>1
    <3>3. emitted' = emitted \o TokensAt(i)
      BY <2>12, <3>1, <3>2
    <3>4. QED
      BY <2>7, <2>8, <2>9, <3>1, <3>3
  <2>17. CASE ReadNormal
    BY <2>7, <2>8, <2>9, <2>10, <2>11, <2>12, <2>17 DEF ReadNormal, Read
  <2>18. QED
    BY <1>3, <2>13, <2>14, <2>15, <2>16, <2>17 DEF ReadChar
<1>4. QED
  BY <1>1, <1>2, <1>3 DEF Next, Tokenize, HandleToken, vars

LEMMA LexInvInit == input \in Seq(Char) /\ ParserInit => LexInv
<1> SUFFICES ASSUME input \in Seq(Char), ParserInit
             PROVE  LexInv
  OBVIOUS
<1>1. /\ input \in Seq(Char) /\ position = 0 /\ sb = <<>> /\ emitted = <<>> /\ quote = FALSE
  BY DEF ParserInit, LexInit
<1>2. [i \in 1..0 |-> TokensAt(i)] = <<>>
  OBVIOUS
<1>3. FlattenSeq([i \in 1..0 |-> TokensAt(i)]) = <<>>
  BY <1>2, EmptySeq, FlattenAppend, Zenon
<1>4. TokenBefore(1) = <<>>
  <2> DEFINE f == [j \in 1..(1 - 1) |->
        IF TypeAt(j) = "QUOTE" \/ \E k \in j..(1 - 1) : Ends(k) THEN <<>> ELSE <<input[j]>>]
  <2>1. f \in [1..0 -> {<<>>}]
    OBVIOUS
  <2>2. TokenBefore(1) = FlattenSeq(f)
    BY DEF TokenBefore
  <2> HIDE DEF f
  <2>3. QED
    BY <2>1, <2>2, FlattenNone
<1>5. ~Quoted(1)
  BY QuotedStep
<1>6. position \in 0..Len(input) /\ position + 1 = 1
  BY <1>1
<1>7. TokensOfThePrefix
  BY <1>1, <1>3, <1>4, <1>6 DEF TokensOfThePrefix
<1>8. QED
  BY <1>1, <1>5, <1>6, <1>7 DEF LexInv

\* On any text, well formed or not, the tokens emitted so far are those the
\* text before the position determines, and the buffer holds what follows.
THEOREM TokensOfThePrefixAlways == Spec => []TokensOfThePrefix
<1>1. LexInv => TokensOfThePrefix
  BY DEF LexInv
<1>2. QED
  BY <1>1, InitInput, LexInvInit, LexInvNext, StackInvariant, PTL DEF Spec
-----------------------------------------------------------------------------
(***************************************************************************)
(* The tokens of a text, part by part.  A part that begins where no quote  *)
(* is open and the buffer is empty, and ends so, yields the same tokens    *)
(* wherever it stands.                                                     *)
(***************************************************************************)
\* After p characters of the text: whether a quote is open, what the buffer
\* holds, and the tokens emitted.
LexAt(p, q, s, out) == (Quoted(p + 1) <=> q) /\ TokenBefore(p + 1) = s /\ Emission(p) = out

Held(s) == IF s = <<>> THEN <<>> ELSE <<s>>

LEMMA LexChar ==
  ASSUME input \in Seq(Char), NEW p \in Nat, p < Len(input), NEW q \in BOOLEAN,
         NEW s \in Tokens, NEW out \in Seq(Tokens), LexAt(p, q, s, out),
         NEW c, c = input[p + 1]
  PROVE  /\ c \in Char
         /\ Type[c] = "NORMAL" => LexAt(p + 1, q, Append(s, c), out)
         /\ Type[c] \in {"WHITESPACE", "SINGLE"} /\ q => LexAt(p + 1, q, Append(s, c), out)
         /\ Type[c] = "QUOTE" /\ ~q => LexAt(p + 1, TRUE, s, out)
         /\ Type[c] = "QUOTE" /\ q => LexAt(p + 1, FALSE, <<>>, out \o Held(s))
         /\ Type[c] = "WHITESPACE" /\ ~q => LexAt(p + 1, FALSE, <<>>, out \o Held(s))
         /\ Type[c] = "SINGLE" /\ ~q => LexAt(p + 1, FALSE, <<>>, out \o (Held(s) \o <<<<c>>>>))
<1>1. PICK i : i = p + 1
  OBVIOUS
<1>2. /\ i \in 1..Len(input) /\ i \in Nat \ {0} /\ i - 1 = p /\ c = input[i] /\ c \in Char
  <2>1. i \in 1..Len(input)
    BY <1>1
  <2>2. QED
    BY <1>1, <2>1
<1>3. /\ s = TokenBefore(i) /\ (q <=> Quoted(i)) /\ out = Emission(p)
  BY <1>1 DEF LexAt
<1>4. /\ Ends(i) => TokenBefore(i + 1) = <<>>
      /\ ~Ends(i) => TokenBefore(i + 1) =
                     s \o (IF TypeAt(i) = "QUOTE" THEN <<>> ELSE <<input[i]>>)
  BY <1>2, <1>3, TokenStep
<1>5. /\ TypeAt(i) = "QUOTE" => (Quoted(i + 1) <=> ~q)
      /\ TypeAt(i) # "QUOTE" => (Quoted(i + 1) <=> q)
  BY <1>2, <1>3, QuotedStep
<1>6. Ends(i) <=> IF q THEN TypeAt(i) = "QUOTE" ELSE TypeAt(i) \in {"WHITESPACE", "SINGLE"}
  BY <1>3 DEF Ends
<1>7. TokensAt(i) =
        IF Ends(i)
          THEN Held(s) \o (IF TypeAt(i) = "SINGLE" /\ ~q THEN <<<<input[i]>>>> ELSE <<>>)
          ELSE <<>>
  BY <1>3 DEF TokensAt, Held
<1>8. Emission(i) = out \o TokensAt(i)
  BY <1>2, <1>3, EmissionStep
<1>9. TypeAt(i) = Type[c]
  BY <1>2 DEF TypeAt
<1>10. /\ out \o <<>> = out /\ Held(s) \o <<>> = Held(s) /\ s \o <<>> = s
       /\ Append(s, c) = s \o <<c>>
  <2>1. s \in Seq(Char) /\ Held(s) \in Seq(Tokens)
    BY DEF Held, Tokens
  <2>2. QED
    BY <1>2, <2>1, AppendRest, ConcatEmptySeq
<1>11. ASSUME NEW q2 \in BOOLEAN, NEW s2, NEW o2
       PROVE  LexAt(p + 1, q2, s2, o2) <=> (Quoted(i + 1) <=> q2) /\ TokenBefore(i + 1) = s2 /\ Emission(i) = o2
  BY <1>1 DEF LexAt
<1> HIDE DEF LexAt
<1>12. CASE Type[c] = "NORMAL"
  BY <1>2, <1>4, <1>5, <1>6, <1>7, <1>8, <1>9, <1>10, <1>11, <1>12
<1>13. CASE Type[c] \in {"WHITESPACE", "SINGLE"} /\ q
  BY <1>2, <1>4, <1>5, <1>6, <1>7, <1>8, <1>9, <1>10, <1>11, <1>13
<1>14. CASE Type[c] = "QUOTE" /\ ~q
  BY <1>2, <1>4, <1>5, <1>6, <1>7, <1>8, <1>9, <1>10, <1>11, <1>14
<1>15. CASE Type[c] = "QUOTE" /\ q
  BY <1>2, <1>4, <1>5, <1>6, <1>7, <1>8, <1>9, <1>10, <1>11, <1>15
<1>16. CASE Type[c] = "WHITESPACE" /\ ~q
  BY <1>2, <1>4, <1>5, <1>6, <1>7, <1>8, <1>9, <1>10, <1>11, <1>16
<1>17. CASE Type[c] = "SINGLE" /\ ~q
  <2>1. TokensAt(i) = Held(s) \o <<<<c>>>>
    BY <1>2, <1>6, <1>7, <1>9, <1>17
  <2>2. ~Quoted(i + 1) /\ TokenBefore(i + 1) = <<>>
    BY <1>4, <1>5, <1>6, <1>9, <1>17
  <2>3. Emission(i) = out \o (Held(s) \o <<<<c>>>>)
    BY <1>8, <2>1
  <2>4. LexAt(p + 1, FALSE, <<>>, out \o (Held(s) \o <<<<c>>>>))
    BY <1>11, <2>2, <2>3
  <2>5. QED
    BY <1>2, <1>17, <2>4
<1>18. QED
  BY <1>2, <1>12, <1>13, <1>14, <1>15, <1>16, <1>17

\* How the parser sets up the tokenizer.
LEMMA TypesOfChars ==
  /\ \A w \in Word : w \in Char /\ Type[w] = "NORMAL" /\ w \notin Special
  /\ Special \subseteq Char
  /\ Type["("] = "SINGLE" /\ Type[")"] = "SINGLE"
  /\ Type["QUOTE"] = "QUOTE" /\ Type["BLANK"] = "WHITESPACE"
<1>1. Char = Word \cup Special /\ Type = CharType /\ Word \cap Special = {}
  BY SetUpAssumption, ClrMameAssumption
<1>2. QED
  BY <1>1 DEF CharType, Special

\* The text stands at p.
Stands(p, text) ==
  /\ input \in Seq(Char) /\ p + Len(text) <= Len(input)
  /\ \A k \in 1..Len(text) : input[p + k] = text[k]

LEMMA StandsParts ==
  ASSUME NEW a \in Seq(Char), NEW b \in Seq(Char), NEW p \in Nat, Stands(p, a \o b)
  PROVE  Stands(p, a) /\ Stands(p + Len(a), b) /\ p + Len(a \o b) = p + Len(a) + Len(b)
<1>1. /\ a \o b \in Seq(Char) /\ Len(a \o b) = Len(a) + Len(b) /\ Len(a) \in Nat /\ Len(b) \in Nat
      /\ \A i \in 1..Len(a) : (a \o b)[i] = a[i]
      /\ \A i \in 1..Len(b) : (a \o b)[Len(a) + i] = b[i]
  <2>1. Len(a \o b) = Len(a) + Len(b) /\ Len(a) \in Nat /\ Len(b) \in Nat
    BY ConcatProperties
  <2>2. QED
    BY <2>1, JoinPrefix
<1> DEFINE c == a \o b
<1> HIDE DEF c
<1>2. p + Len(c) <= Len(input) /\ \A k \in 1..Len(c) : input[p + k] = c[k]
  BY DEF Stands, c
<1>3. \A i \in 1..Len(a) : i \in 1..Len(c) /\ c[i] = a[i]
  BY <1>1 DEF c
<1>4. p + Len(a) <= p + Len(c) /\ p + Len(c) = p + Len(a) + Len(b)
  BY <1>1 DEF c
<1>5. \A i \in 1..Len(a) : input[p + i] = a[i]
  BY <1>2, <1>3
<1>6. ASSUME NEW i \in 1..Len(b) PROVE input[p + Len(a) + i] = b[i]
  <2>1. PICK k \in 1..Len(c) : k = Len(a) + i
    BY <1>1 DEF c
  <2>2. c[k] = b[i] /\ p + k = p + Len(a) + i
    BY <1>1, <2>1 DEF c
  <2>3. QED
    BY <1>2, <2>2
<1>7. p + Len(a) <= Len(input) /\ p + Len(a) + Len(b) <= Len(input)
  BY <1>1, <1>2, <1>4
<1>8. QED
  BY <1>4, <1>5, <1>6, <1>7 DEF Stands, c

LEMMA StandsOne ==
  ASSUME NEW p \in Nat, NEW c, Stands(p, <<c>>)
  PROVE  p < Len(input) /\ input[p + 1] = c /\ p + Len(<<c>>) = p + 1
<1>1. Len(<<c>>) = 1 /\ <<c>>[1] = c
  OBVIOUS
<1> DEFINE t == <<c>>
<1> HIDE DEF t
<1>2. p + Len(t) <= Len(input) /\ \A k \in 1..Len(t) : input[p + k] = t[k]
  BY DEF Stands, t
<1>3. 1 \in 1..Len(t)
  BY <1>1 DEF t
<1>4. p + 1 <= Len(input) /\ input[p + 1] = c
  BY <1>1, <1>2, <1>3 DEF t
<1>5. QED
  BY <1>1, <1>4 DEF t

LEMMA FirstPartAppend ==
  ASSUME NEW T, NEW t \in Seq(T), NEW k \in Nat, k + 1 <= Len(t)
  PROVE  Append(Part(t, 0, k), t[k + 1]) = Part(t, 0, k + 1)
<1>1. PICK m \in Nat : m = k + 1
  OBVIOUS
<1>2. m \in 1..Len(t) /\ k <= Len(t) /\ m <= Len(t)
  BY <1>1
<1>3. PICK x \in T : x = t[m]
  BY <1>2
<1> DEFINE a == Part(t, 0, k)
           b == Part(t, 0, m)
<1>4. a \in Seq(T) /\ Len(a) = k /\ \A j \in 1..k : a[j] = t[j]
  BY <1>2, FirstPartIs
<1>5. b \in Seq(T) /\ Len(b) = m /\ \A j \in 1..m : b[j] = t[j]
  BY <1>2, FirstPartIs
<1> HIDE DEF a, b
<1>6. /\ Append(a, x) \in Seq(T) /\ Len(Append(a, x)) = m
      /\ \A j \in 1..m : Append(a, x)[j] = IF j = m THEN x ELSE a[j]
  BY <1>1, <1>4
<1>7. \A j \in 1..m : Append(a, x)[j] = b[j]
  BY <1>1, <1>3, <1>4, <1>5, <1>6
<1>8. Append(a, x) = b
  BY <1>5, <1>6, <1>7
<1>9. QED
  BY <1>1, <1>3, <1>8 DEF a, b

\* A run of characters that only go into the buffer.
LEMMA LexRun ==
  ASSUME input \in Seq(Char), NEW p \in Nat, NEW q \in BOOLEAN, NEW out \in Seq(Tokens),
         NEW t \in Seq(Char), Stands(p, t), LexAt(p, q, <<>>, out),
         \A i \in 1..Len(t) :
           Type[t[i]] = "NORMAL" \/ (q /\ Type[t[i]] \in {"WHITESPACE", "SINGLE"})
  PROVE  LexAt(p + Len(t), q, t, out)
<1> DEFINE N == {k \in Nat : k <= Len(t) => LexAt(p + k, q, Part(t, 0, k), out)}
<1>1. 0 \in N
  <2>1. p + 0 = p /\ 0 <= Len(t) /\ 0 \in Nat
    OBVIOUS
  <2>2. Part(t, 0, 0) \in Seq(Char) /\ Len(Part(t, 0, 0)) = 0
    BY <2>1, FirstPartIs
  <2>3. Part(t, 0, 0) = <<>>
    BY <2>2
  <2>4. QED
    BY <2>1, <2>3
<1>2. ASSUME NEW k \in N PROVE k + 1 \in N
  <2>1. k \in Nat
    OBVIOUS
  <2>2. ASSUME k + 1 <= Len(t) PROVE LexAt(p + (k + 1), q, Part(t, 0, k + 1), out)
    <3>1. PICK m \in Nat : m = p + k
      BY <2>1
    <3>2. PICK j \in 1..Len(t) : j = k + 1
      BY <2>1, <2>2
    <3>3. p + Len(t) <= Len(input) /\ input[p + j] = t[j] /\ t[j] \in Char /\ Len(t) \in Nat
      BY DEF Stands
    <3>4. p + j = m + 1 /\ m < Len(input) /\ k <= Len(t)
      BY <2>2, <3>1, <3>2, <3>3
    <3>5. Part(t, 0, k) \in Tokens
      BY <2>1, <3>4, FirstPartIs DEF Tokens
    <3>6. LexAt(m, q, Part(t, 0, k), out)
      BY <3>1, <3>4
    <3>7. t[j] = input[m + 1]
      BY <3>3, <3>4
    <3>8. LexAt(m + 1, q, Append(Part(t, 0, k), t[j]), out)
      BY <3>4, <3>5, <3>6, <3>7, LexChar
    <3>9. Append(Part(t, 0, k), t[k + 1]) = Part(t, 0, k + 1)
      BY <2>1, <2>2, FirstPartAppend
    <3>10. m + 1 = p + (k + 1)
      BY <2>1, <3>1
    <3>11. QED
      BY <3>2, <3>8, <3>9, <3>10
  <2>3. QED
    BY <2>1, <2>2
<1> HIDE DEF N
<1>3. Len(t) \in N
  <2>1. Len(t) \in Nat
    OBVIOUS
  <2>2. Nat \subseteq N
    BY <1>1, <1>2, NatSetInduction
  <2>3. QED
    BY <2>1, <2>2
<1>4. Part(t, 0, Len(t)) = t
  <2>1. Rest(t, 0) = t
    BY RestIs
  <2>2. QED
    BY <2>1 DEF Part, Rest
<1>5. QED
  BY <1>3, <1>4 DEF N

\* Wherever the text stands and a token begins, its tokens are toks.
Yields(text, toks) ==
  /\ text \in Seq(Char) /\ toks \in Seq(Tokens)
  /\ \A p \in Nat : \A out \in Seq(Tokens) :
       Stands(p, text) /\ LexAt(p, FALSE, <<>>, out) => LexAt(p + Len(text), FALSE, <<>>, out \o toks)

LEMMA YieldsBoth ==
  ASSUME NEW a, NEW b, NEW k, NEW l, Yields(a, k), Yields(b, l)
  PROVE  Yields(a \o b, k \o l)
<1>1. a \in Seq(Char) /\ b \in Seq(Char) /\ k \in Seq(Tokens) /\ l \in Seq(Tokens)
  BY DEF Yields
<1>2. a \o b \in Seq(Char) /\ k \o l \in Seq(Tokens) /\ Len(a) \in Nat
  BY <1>1, ConcatProperties
<1>3. ASSUME NEW p \in Nat, NEW out \in Seq(Tokens), Stands(p, a \o b), LexAt(p, FALSE, <<>>, out)
      PROVE  LexAt(p + Len(a \o b), FALSE, <<>>, out \o (k \o l))
  <2>1. Stands(p, a) /\ Stands(p + Len(a), b) /\ p + Len(a \o b) = p + Len(a) + Len(b)
    BY <1>1, <1>3, StandsParts
  <2>2. PICK m \in Nat : m = p + Len(a)
    BY <1>2
  <2>3. PICK o \in Seq(Tokens) : o = out \o k
    BY <1>1, ConcatProperties
  <2>4. LexAt(m, FALSE, <<>>, o)
    BY <1>3, <2>1, <2>2, <2>3 DEF Yields
  <2>5. LexAt(m + Len(b), FALSE, <<>>, o \o l)
    BY <2>1, <2>2, <2>4 DEF Yields
  <2>6. o \o l = out \o (k \o l)
    BY <1>1, <2>3, JoinThree
  <2>7. QED
    BY <2>1, <2>2, <2>5, <2>6
<1>4. QED
  BY <1>2, <1>3 DEF Yields

LEMMA YieldsNone == Yields(<<>>, <<>>)
<1>1. ASSUME NEW p \in Nat, NEW out \in Seq(Tokens), LexAt(p, FALSE, <<>>, out)
      PROVE  LexAt(p + Len(<<>>), FALSE, <<>>, out \o <<>>)
  <2>1. p + Len(<<>>) = p /\ out \o <<>> = out
    BY ConcatEmptySeq
  <2>2. QED
    BY <1>1, <2>1
<1>2. <<>> \in Seq(Char) /\ <<>> \in Seq(Tokens)
  OBVIOUS
<1>3. QED
  BY <1>1, <1>2 DEF Yields

LEMMA YieldsAll ==
  ASSUME NEW n \in Nat, NEW f, NEW g,
         f = [i \in 1..n |-> f[i]], g = [i \in 1..n |-> g[i]],
         \A i \in 1..n : Yields(f[i], g[i])
  PROVE  Yields(FlattenSeq(f), FlattenSeq(g))
<1> DEFINE First(h, k) == [i \in 1..k |-> h[i]]
           N == {k \in Nat : k <= n => Yields(FlattenSeq(First(f, k)), FlattenSeq(First(g, k)))}
<1>1. 0 \in N
  <2>1. First(f, 0) = <<>> /\ First(g, 0) = <<>>
    OBVIOUS
  <2>2. FlattenSeq(<<>>) = <<>>
    BY EmptySeq, FlattenAppend, Zenon
  <2>3. QED
    BY <2>1, <2>2, YieldsNone
<1>2. \A i \in 1..n : f[i] \in Seq(Char) /\ g[i] \in Seq(Tokens)
  BY DEF Yields
<1>3. ASSUME NEW k \in N PROVE k + 1 \in N
  <2>1. k \in Nat
    OBVIOUS
  <2>2. ASSUME k + 1 <= n PROVE Yields(FlattenSeq(First(f, k + 1)), FlattenSeq(First(g, k + 1)))
    <3>1. PICK m \in 1..n : m = k + 1
      BY <2>1, <2>2
    <3>2. Yields(FlattenSeq(First(f, k)), FlattenSeq(First(g, k)))
      BY <2>1, <2>2
    <3>3. First(f, k + 1) \in [1..(k + 1) -> Seq(Char)] /\ First(f, k) = [i \in 1..k |-> First(f, k + 1)[i]]
          /\ First(f, k + 1)[k + 1] = f[m]
      BY <1>2, <2>1, <2>2, <3>1
    <3>4. First(g, k + 1) \in [1..(k + 1) -> Seq(Tokens)] /\ First(g, k) = [i \in 1..k |-> First(g, k + 1)[i]]
          /\ First(g, k + 1)[k + 1] = g[m]
      BY <1>2, <2>1, <2>2, <3>1
    <3> HIDE DEF First
    <3>5. FlattenSeq(First(f, k + 1)) = FlattenSeq(First(f, k)) \o f[m]
      BY <2>1, <3>3, FlattenStep
    <3>6. FlattenSeq(First(g, k + 1)) = FlattenSeq(First(g, k)) \o g[m]
      BY <2>1, <3>4, FlattenStep
    <3>7. QED
      BY <3>2, <3>5, <3>6, YieldsBoth
  <2>3. QED
    BY <2>1, <2>2
<1> HIDE DEF N
<1>4. n \in N
  BY <1>1, <1>3, NatSetInduction
<1>5. Yields(FlattenSeq(First(f, n)), FlattenSeq(First(g, n)))
  BY <1>4 DEF N
<1>6. f = First(f, n) /\ g = First(g, n)
  OBVIOUS
<1> HIDE DEF First
<1>7. QED
  BY <1>5, <1>6, Zenon

\* The tokens of a DAT, as WriteDat writes them.
FieldTokens(f) == <<f.key, f.value>>
FieldsTokens(fields) == FlattenSeq([i \in DOMAIN fields |-> FieldTokens(fields[i])])
ScopeTokens(k, body) == <<k, Start>> \o body \o <<End>>
ItemTokens(item) ==
  IF item.rom THEN ScopeTokens(<<"rom">>, FieldsTokens(item.fields)) ELSE FieldsTokens(item.fields)
ItemsTokens(items) == FlattenSeq([i \in DOMAIN items |-> ItemTokens(items[i])])
HeaderTokens(d) == IF d.header THEN ScopeTokens(<<"clrmamepro">>, <<<<"name">>, <<"dat">>>>) ELSE <<>>
DatTokens(d) == HeaderTokens(d) \o ScopeTokens(<<"game">>, ItemsTokens(d.items))

LEMMA YieldsWord ==
  ASSUME NEW t \in Seq(Char), t # <<>>, \A i \in DOMAIN t : t[i] \in Word
  PROVE  Yields(Write(t, FALSE), <<t>>)
<1>1. Write(t, FALSE) = t \o <<"BLANK">>
  BY DEF Write
<1>2. <<"BLANK">> \in Seq(Char) /\ t \in Tokens /\ <<t>> \in Seq(Tokens)
  <2>1. "BLANK" \in Char
    BY TypesOfChars DEF Special
  <2>2. QED
    BY <2>1 DEF Tokens
<1>3. t \o <<"BLANK">> \in Seq(Char) /\ Len(t) \in Nat
  BY <1>2
<1>4. ASSUME NEW p \in Nat, NEW out \in Seq(Tokens), Stands(p, t \o <<"BLANK">>), LexAt(p, FALSE, <<>>, out)
      PROVE  LexAt(p + Len(t \o <<"BLANK">>), FALSE, <<>>, out \o <<t>>)
  <2>0. input \in Seq(Char)
    BY <1>4 DEF Stands
  <2> USE <2>0
  <2>1. Stands(p, t) /\ Stands(p + Len(t), <<"BLANK">>)
        /\ p + Len(t \o <<"BLANK">>) = p + Len(t) + Len(<<"BLANK">>)
    BY <1>2, <1>4, StandsParts
  <2>2. PICK m \in Nat : m = p + Len(t)
    BY <1>3
  <2>3. m < Len(input) /\ input[m + 1] = "BLANK" /\ m + Len(<<"BLANK">>) = m + 1
    BY <2>1, <2>2, StandsOne
  <2>4. \A i \in 1..Len(t) : Type[t[i]] = "NORMAL"
    BY TypesOfChars
  <2>5. LexAt(m, FALSE, t, out)
    BY <1>4, <2>1, <2>2, <2>4, LexRun
  <2>6. LexAt(m + 1, FALSE, <<>>, out \o Held(t))
    BY <1>2, <2>3, <2>5, LexChar, TypesOfChars
  <2>7. QED
    BY <2>1, <2>2, <2>3, <2>6 DEF Held
<1>5. QED
  BY <1>1, <1>2, <1>3, <1>4 DEF Yields

LEMMA YieldsOpen == Yields(<<"(", "BLANK">>, <<Start>>)
<1>1. "(" \in Char /\ "BLANK" \in Char /\ Type["("] = "SINGLE" /\ Type["BLANK"] = "WHITESPACE"
  BY TypesOfChars DEF Special
<1>2. Start = <<"(">>
  BY SetUpAssumption DEF ScopeStartToken
<1>3. <<Start>> \in Seq(Tokens) /\ <<"(">> \in Seq(Char) /\ <<"BLANK">> \in Seq(Char)
      /\ <<"(", "BLANK">> = <<"(">> \o <<"BLANK">> /\ <<"(", "BLANK">> \in Seq(Char)
  BY <1>1, <1>2 DEF Tokens
<1>4. ASSUME NEW p \in Nat, NEW out \in Seq(Tokens), Stands(p, <<"(">> \o <<"BLANK">>), LexAt(p, FALSE, <<>>, out)
      PROVE  LexAt(p + Len(<<"(">> \o <<"BLANK">>), FALSE, <<>>, out \o <<Start>>)
  <2>0. input \in Seq(Char)
    BY <1>4 DEF Stands
  <2> USE <2>0
  <2>1. Stands(p, <<"(">>) /\ Stands(p + Len(<<"(">>), <<"BLANK">>)
        /\ p + Len(<<"(">> \o <<"BLANK">>) = p + Len(<<"(">>) + Len(<<"BLANK">>)
    BY <1>3, <1>4, StandsParts
  <2>2. p < Len(input) /\ input[p + 1] = "(" /\ p + Len(<<"(">>) = p + 1
    BY <2>1, StandsOne
  <2>3. PICK m \in Nat : m = p + 1
    OBVIOUS
  <2>4. m < Len(input) /\ input[m + 1] = "BLANK" /\ m + Len(<<"BLANK">>) = m + 1
    BY <2>1, <2>2, <2>3, StandsOne
  <2>5. <<>> \in Tokens /\ Held(<<>>) = <<>>
    BY DEF Tokens, Held
  <2>6. LexAt(m, FALSE, <<>>, out \o (Held(<<>>) \o <<<<"(">>>>))
    BY <1>1, <1>4, <2>2, <2>3, <2>5, LexChar
  <2>7. out \o (Held(<<>>) \o <<<<"(">>>>) = out \o <<Start>>
    BY <1>2, <1>3, <2>5, ConcatEmptySeq
  <2>8. PICK o \in Seq(Tokens) : o = out \o <<Start>>
    BY <1>3, ConcatProperties
  <2>9. LexAt(m + 1, FALSE, <<>>, o \o Held(<<>>))
    BY <1>1, <2>4, <2>5, <2>6, <2>7, <2>8, LexChar
  <2>10. o \o Held(<<>>) = o
    BY <2>5, ConcatEmptySeq
  <2>11. QED
    BY <2>1, <2>2, <2>3, <2>4, <2>8, <2>9, <2>10
<1>5. QED
  BY <1>3, <1>4 DEF Yields

LEMMA YieldsClose == Yields(<<")">>, <<End>>)
<1>1. ")" \in Char /\ Type[")"] = "SINGLE"
  BY TypesOfChars DEF Special
<1>2. End = <<")">>
  BY SetUpAssumption DEF ScopeEndToken
<1>3. <<End>> \in Seq(Tokens) /\ <<")">> \in Seq(Char)
  BY <1>1, <1>2 DEF Tokens
<1>4. ASSUME NEW p \in Nat, NEW out \in Seq(Tokens), Stands(p, <<")">>), LexAt(p, FALSE, <<>>, out)
      PROVE  LexAt(p + Len(<<")">>), FALSE, <<>>, out \o <<End>>)
  <2>0. input \in Seq(Char)
    BY <1>4 DEF Stands
  <2> USE <2>0
  <2>2. p < Len(input) /\ input[p + 1] = ")" /\ p + Len(<<")">>) = p + 1
    BY <1>4, StandsOne
  <2>5. <<>> \in Tokens /\ Held(<<>>) = <<>>
    BY DEF Tokens, Held
  <2>6. LexAt(p + 1, FALSE, <<>>, out \o (Held(<<>>) \o <<<<")">>>>))
    BY <1>1, <1>4, <2>2, <2>5, LexChar
  <2>7. out \o (Held(<<>>) \o <<<<")">>>>) = out \o <<End>>
    BY <1>2, <1>3, <2>5, ConcatEmptySeq
  <2>8. QED
    BY <2>2, <2>6, <2>7
<1>5. QED
  BY <1>3, <1>4 DEF Yields

LEMMA YieldsQuoted ==
  ASSUME NEW t \in Seq(Char), t # <<>>, \A i \in DOMAIN t : t[i] # "QUOTE"
  PROVE  Yields(Write(t, TRUE), <<t>>)
<1> DEFINE Q == <<"QUOTE">>
           B == <<"BLANK">>
<1>1. /\ "QUOTE" \in Char /\ "BLANK" \in Char /\ Type["QUOTE"] = "QUOTE" /\ Type["BLANK"] = "WHITESPACE"
  BY TypesOfChars DEF Special
<1>2. /\ Q \in Seq(Char) /\ B \in Seq(Char) /\ t \in Tokens /\ <<t>> \in Seq(Tokens) /\ <<>> \in Tokens
      /\ Len(t) \in Nat /\ Held(<<>>) = <<>> /\ Held(t) = <<t>>
  BY <1>1 DEF Tokens, Held
<1>3. Write(t, TRUE) = ((Q \o t) \o Q) \o B
  BY DEF Write
<1>4. Q \o t \in Seq(Char) /\ (Q \o t) \o Q \in Seq(Char) /\ ((Q \o t) \o Q) \o B \in Seq(Char)
  BY <1>2
<1>5. \A c \in Char : c # "QUOTE" => Type[c] \in {"NORMAL", "WHITESPACE", "SINGLE"}
  <2>1. Char = Word \cup Special
    BY SetUpAssumption
  <2>2. QED
    BY <2>1, TypesOfChars DEF Special
<1>6. ASSUME NEW p \in Nat, NEW out \in Seq(Tokens), Stands(p, ((Q \o t) \o Q) \o B), LexAt(p, FALSE, <<>>, out)
      PROVE  LexAt(p + Len(((Q \o t) \o Q) \o B), FALSE, <<>>, out \o <<t>>)
  <2>19. input \in Seq(Char)
    BY <1>6 DEF Stands
  <2> USE <2>19
  <2> DEFINE QT == Q \o t
             QTQ == QT \o Q
  <2>0. QT \in Seq(Char) /\ QTQ \in Seq(Char) /\ Len(QT) \in Nat /\ Len(QTQ) \in Nat
    BY <1>4
  <2> HIDE DEF QTQ
  <2>1. Stands(p, QTQ) /\ Stands(p + Len(QTQ), B) /\ p + Len(QTQ \o B) = p + Len(QTQ) + Len(B)
    BY <1>2, <1>6, <2>0, StandsParts DEF QTQ
  <2> HIDE DEF QT
  <2>2. Stands(p, QT) /\ Stands(p + Len(QT), Q) /\ p + Len(QTQ) = p + Len(QT) + Len(Q)
    BY <1>2, <2>0, <2>1, StandsParts DEF QTQ
  <2>3. Stands(p, Q) /\ Stands(p + Len(Q), t) /\ p + Len(QT) = p + Len(Q) + Len(t)
    BY <1>2, <2>0, <2>2, StandsParts DEF QT
  <2>4. p < Len(input) /\ input[p + 1] = "QUOTE" /\ p + Len(Q) = p + 1
    BY <2>3, StandsOne
  <2>5. PICK m \in Nat : m = p + 1
    OBVIOUS
  <2>6. LexAt(m, TRUE, <<>>, out)
    BY <1>1, <1>2, <1>6, <2>4, <2>5, LexChar
  <2>7. LexAt(m + Len(t), TRUE, t, out)
    <3>1. \A i \in 1..Len(t) : Type[t[i]] = "NORMAL" \/ (TRUE /\ Type[t[i]] \in {"WHITESPACE", "SINGLE"})
      BY <1>5
    <3>2. Stands(m, t)
      BY <2>3, <2>4, <2>5
    <3>3. QED
      BY <2>6, <3>1, <3>2, LexRun
  <2>8. PICK n \in Nat : n = m + Len(t)
    BY <1>2
  <2>9. n < Len(input) /\ input[n + 1] = "QUOTE" /\ n + Len(Q) = n + 1
    BY <2>2, <2>3, <2>4, <2>5, <2>8, StandsOne
  <2>10. LexAt(n + 1, FALSE, <<>>, out \o <<t>>)
    BY <1>1, <1>2, <2>7, <2>8, <2>9, LexChar
  <2>11. PICK k \in Nat : k = n + 1
    OBVIOUS
  <2>12. PICK o \in Seq(Tokens) : o = out \o <<t>>
    BY <1>2, ConcatProperties
  <2>13. p + Len(QTQ) = k
    BY <2>2, <2>3, <2>4, <2>5, <2>8, <2>9, <2>11
  <2>14. k < Len(input) /\ input[k + 1] = "BLANK" /\ k + Len(B) = k + 1
    BY <2>1, <2>13, StandsOne
  <2>15. LexAt(k, FALSE, <<>>, o)
    BY <2>10, <2>11, <2>12
  <2>16. LexAt(k + 1, FALSE, <<>>, o \o <<>>)
    BY <1>1, <1>2, <2>14, <2>15, LexChar
  <2>17. o \o <<>> = o
    BY ConcatEmptySeq
  <2>18. QED
    BY <2>1, <2>12, <2>13, <2>14, <2>16, <2>17 DEF QTQ, QT
<1> HIDE DEF Q, B
<1>7. QED
  BY <1>2, <1>3, <1>4, <1>6 DEF Yields
-----------------------------------------------------------------------------
(***************************************************************************)
(* The text of a DAT yields the tokens of its structure.                   *)
(***************************************************************************)
\* What DatAssumption says of a field.
LEMMA FieldIs ==
  ASSUME NEW d \in Dat, NEW i \in DOMAIN d.items, NEW n \in DOMAIN d.items[i].fields
  PROVE  /\ d.items[i].rom \in BOOLEAN
         /\ d.items[i].fields[n] = [key |-> d.items[i].fields[n].key,
                                    value |-> d.items[i].fields[n].value,
                                    quoted |-> d.items[i].fields[n].quoted]
         /\ \E w \in Word : d.items[i].fields[n].key = <<w>>
         /\ d.items[i].fields[n].value \in Seq(Char)
         /\ d.items[i].fields[n].quoted \in BOOLEAN
         /\ Writable(d.items[i].fields[n])
<1>1. d.items \in Seq(ItemRecord) /\ Writable(d.items[i].fields[n])
  BY DatAssumption
<1>2. d.items[i] \in ItemRecord
  BY <1>1
<1>3. d.items[i].rom \in BOOLEAN /\ d.items[i].fields \in Seq(FieldRecord)
  BY <1>2 DEF ItemRecord
<1>4. PICK f \in FieldRecord : f = d.items[i].fields[n]
  BY <1>3
<1>5. /\ f = [key |-> f.key, value |-> f.value, quoted |-> f.quoted]
      /\ f.key \in {<<w>> : w \in Word} /\ f.value \in Seq(Char) /\ f.quoted \in BOOLEAN
  BY DEF FieldRecord
<1>6. QED
  BY <1>1, <1>3, <1>4, <1>5

LEMMA DatIs ==
  ASSUME NEW d \in Dat
  PROVE  /\ d.header \in BOOLEAN /\ d.items \in Seq(ItemRecord)
         /\ Len(d.items) \in Nat /\ DOMAIN d.items = 1..Len(d.items)
         /\ \A i \in DOMAIN d.items :
              /\ d.items[i].rom \in BOOLEAN /\ d.items[i].fields \in Seq(FieldRecord)
              /\ Len(d.items[i].fields) \in Nat /\ DOMAIN d.items[i].fields = 1..Len(d.items[i].fields)
<1>1. d.header \in BOOLEAN /\ d.items \in Seq(ItemRecord)
  BY DatAssumption
<1>2. ASSUME NEW i \in DOMAIN d.items
      PROVE  /\ d.items[i].rom \in BOOLEAN /\ d.items[i].fields \in Seq(FieldRecord)
             /\ Len(d.items[i].fields) \in Nat /\ DOMAIN d.items[i].fields = 1..Len(d.items[i].fields)
  <2>1. d.items[i] \in ItemRecord
    BY <1>1
  <2>2. d.items[i].rom \in BOOLEAN /\ d.items[i].fields \in Seq(FieldRecord)
    BY <2>1 DEF ItemRecord
  <2>3. QED
    BY <2>2
<1>3. QED
  BY <1>1, <1>2

LEMMA TwoOf ==
  ASSUME NEW x, NEW y
  PROVE  <<x>> \o <<y>> = <<x, y>>
<1>1. <<x>> \in Seq({x, y}) /\ <<x, y>> \in Seq({x, y}) /\ Len(<<x>>) = 1 /\ y \in {x, y}
  OBVIOUS
<1>2. PICK s \in Seq({x, y}) : s = <<x>>
  BY <1>1
<1>3. s \o <<y>> = Append(s, y)
  BY <1>1, AppendIsConcat
<1>4. /\ Append(s, y) \in Seq({x, y}) /\ Len(Append(s, y)) = 2
      /\ Append(s, y)[1] = x /\ Append(s, y)[2] = y
  BY <1>1, <1>2
<1>7. PICK u \in Seq({x, y}), v \in Seq({x, y}) : u = Append(s, y) /\ v = <<x, y>>
  BY <1>1, <1>4
<1>8. Len(u) = 2 /\ Len(v) = 2 /\ u[1] = v[1] /\ u[2] = v[2]
  BY <1>4, <1>7
<1>9. u = v
  BY <1>8, SeqEqual
<1>5. Append(s, y) = <<x, y>>
  BY <1>7, <1>9
<1>6. QED
  BY <1>2, <1>3, <1>5

LEMMA YieldsField ==
  ASSUME NEW f, \E w \in Word : f.key = <<w>>, f.value \in Seq(Char),
         f.quoted \in BOOLEAN, Writable(f)
  PROVE  Yields(WriteField(f), FieldTokens(f))
<1>1. PICK w \in Word : f.key = <<w>>
  OBVIOUS
<1>2. f.key \in Seq(Char) /\ f.key # <<>> /\ \A i \in DOMAIN f.key : f.key[i] \in Word
  BY <1>1, TypesOfChars
<1>3. Yields(Write(f.key, FALSE), <<f.key>>)
  BY <1>2, YieldsWord
<1>4. f.value # <<>> /\ \A i \in DOMAIN f.value : f.value[i] # "QUOTE" /\ (f.quoted \/ f.value[i] \in Word)
  BY DEF Writable
<1>5. Yields(Write(f.value, f.quoted), <<f.value>>)
  <2>1. CASE f.quoted
    <3>1. f.quoted = TRUE
      BY <2>1
    <3>2. Yields(Write(f.value, TRUE), <<f.value>>)
      BY <1>4, YieldsQuoted
    <3>3. QED
      BY <3>1, <3>2
  <2>2. CASE ~f.quoted
    <3>1. f.quoted = FALSE
      BY <2>2
    <3>2. Yields(Write(f.value, FALSE), <<f.value>>)
      BY <1>4, <2>2, YieldsWord
    <3>3. QED
      BY <3>1, <3>2
  <2>3. QED
    BY <2>1, <2>2
<1>6. <<f.key>> \o <<f.value>> = <<f.key, f.value>>
  BY TwoOf
<1>7. QED
  BY <1>3, <1>5, <1>6, YieldsBoth DEF WriteField, FieldTokens

LEMMA YieldsScope ==
  ASSUME NEW w \in Word, NEW text, NEW toks, Yields(text, toks)
  PROVE  Yields(WriteScope(<<w>>, text), ScopeTokens(<<w>>, toks))
<1> DEFINE k == <<w>>
<1>1. k \in Seq(Char) /\ k # <<>> /\ \A i \in DOMAIN k : k[i] \in Word
  BY TypesOfChars
<1> HIDE DEF k
<1>2. Yields(Write(k, FALSE), <<k>>)
  BY <1>1, YieldsWord
<1>3. Yields(Write(k, FALSE) \o <<"(", "BLANK">>, <<k>> \o <<Start>>)
  BY <1>2, YieldsOpen, YieldsBoth
<1>4. Yields((Write(k, FALSE) \o <<"(", "BLANK">>) \o text, (<<k>> \o <<Start>>) \o toks)
  BY <1>3, YieldsBoth
<1>5. Yields(((Write(k, FALSE) \o <<"(", "BLANK">>) \o text) \o <<")">>, ((<<k>> \o <<Start>>) \o toks) \o <<End>>)
  BY <1>4, YieldsClose, YieldsBoth
<1>6. <<k>> \o <<Start>> = <<k, Start>>
  BY TwoOf
<1>7. Yields(WriteScope(k, text), ScopeTokens(k, toks))
  BY <1>5, <1>6 DEF WriteScope, ScopeTokens
<1>8. QED
  BY <1>7 DEF k

LEMMA YieldsItem ==
  ASSUME NEW d \in Dat, NEW i \in DOMAIN d.items
  PROVE  Yields(WriteItem(d.items[i]), ItemTokens(d.items[i]))
<1> DEFINE fs == d.items[i].fields
           f == [n \in DOMAIN fs |-> WriteField(fs[n])]
           g == [n \in DOMAIN fs |-> FieldTokens(fs[n])]
<1>1. Len(fs) \in Nat /\ DOMAIN fs = 1..Len(fs) /\ d.items[i].rom \in BOOLEAN
  BY DatIs
<1>2. ASSUME NEW n \in 1..Len(fs) PROVE Yields(f[n], g[n])
  <2>1. n \in DOMAIN d.items[i].fields
    BY <1>1
  <2>2. /\ \E w \in Word : fs[n].key = <<w>>
        /\ fs[n].value \in Seq(Char) /\ fs[n].quoted \in BOOLEAN /\ Writable(fs[n])
    BY <2>1, FieldIs
  <2> HIDE DEF fs
  <2>3. Yields(WriteField(fs[n]), FieldTokens(fs[n]))
    BY <2>2, YieldsField
  <2>4. QED
    BY <1>1, <2>3
<1>3. f = [n \in 1..Len(fs) |-> f[n]] /\ g = [n \in 1..Len(fs) |-> g[n]]
  BY <1>1
<1>4. WriteFields(fs) = FlattenSeq(f) /\ FieldsTokens(fs) = FlattenSeq(g)
  BY DEF WriteFields, FieldsTokens
<1> HIDE DEF f, g
<1>5. Yields(WriteFields(fs), FieldsTokens(fs))
  BY <1>1, <1>2, <1>3, <1>4, YieldsAll
<1>6. "rom" \in Word
  BY DatAssumption
<1>7. Yields(WriteScope(<<"rom">>, WriteFields(fs)), ScopeTokens(<<"rom">>, FieldsTokens(fs)))
  BY <1>5, <1>6, YieldsScope
<1>8. QED
  BY <1>5, <1>7 DEF WriteItem, ItemTokens

LEMMA YieldsDat ==
  ASSUME NEW d \in Dat
  PROVE  Yields(WriteDat(d), DatTokens(d))
<1> DEFINE h == [key |-> <<"name">>, value |-> <<"dat">>, quoted |-> TRUE]
           f == [i \in DOMAIN d.items |-> WriteItem(d.items[i])]
           g == [i \in DOMAIN d.items |-> ItemTokens(d.items[i])]
<1>1. {"clrmamepro", "game", "rom", "name", "dat"} \subseteq Word
  BY DatAssumption
<1>2. Len(d.items) \in Nat /\ DOMAIN d.items = 1..Len(d.items) /\ d.header \in BOOLEAN
  BY DatIs
<1>3. Yields(FlattenSeq(f), FlattenSeq(g))
  <2>1. \A i \in 1..Len(d.items) : Yields(f[i], g[i])
    BY <1>2, YieldsItem
  <2>2. f = [i \in 1..Len(d.items) |-> f[i]] /\ g = [i \in 1..Len(d.items) |-> g[i]]
    BY <1>2
  <2> HIDE DEF f, g
  <2>3. QED
    BY <1>2, <2>1, <2>2, YieldsAll
<1>4. Yields(WriteScope(<<"game">>, FlattenSeq(f)), ScopeTokens(<<"game">>, ItemsTokens(d.items)))
  BY <1>1, <1>3, YieldsScope DEF ItemsTokens
<1>5. Yields(WriteField(h), FieldTokens(h)) /\ FieldTokens(h) = <<<<"name">>, <<"dat">>>>
  <2>1. h.key = <<"name">> /\ h.value = <<"dat">> /\ h.quoted = TRUE
    OBVIOUS
  <2> HIDE DEF h
  <2>2. h.value \in Seq(Char) /\ h.value # <<>> /\ "dat" # "QUOTE" /\ "dat" \notin Special
    BY <1>1, <2>1, TypesOfChars DEF Special
  <2>3. h.value # <<"(">> /\ h.value # <<")">> /\ \A i \in DOMAIN h.value : h.value[i] # "QUOTE"
    BY <2>1, <2>2 DEF Special
  <2>4. Writable(h)
    BY <2>1, <2>2, <2>3, SetUpAssumption DEF Writable, ScopeStartToken, ScopeEndToken
  <2>5. QED
    BY <1>1, <2>1, <2>2, <2>4, YieldsField DEF FieldTokens
<1>6. Yields(WriteScope(<<"clrmamepro">>, WriteField(h)), ScopeTokens(<<"clrmamepro">>, <<<<"name">>, <<"dat">>>>))
  BY <1>1, <1>5, YieldsScope
<1>7. Yields(IF d.header THEN WriteScope(<<"clrmamepro">>, WriteField(h)) ELSE <<>>, HeaderTokens(d))
  BY <1>6, YieldsNone DEF HeaderTokens
<1>8. WriteDat(d) = (IF d.header THEN WriteScope(<<"clrmamepro">>, WriteField(h)) ELSE <<>>)
                    \o WriteScope(<<"game">>, FlattenSeq(f))
  BY DEF WriteDat
<1>9. DatTokens(d) = HeaderTokens(d) \o ScopeTokens(<<"game">>, ItemsTokens(d.items))
  BY DEF DatTokens
<1> HIDE DEF f, h
<1>10. QED
  BY <1>4, <1>7, <1>8, <1>9, YieldsBoth

\* When all of the text has been read, nothing is left in the buffer.
LEMMA DatEmission ==
  ASSUME NEW d \in Dat, input \in Seq(Char), input = WriteDat(d)
  PROVE  /\ DatTokens(d) \in Seq(Tokens)
         /\ Emission(Len(input)) = DatTokens(d) /\ TokenBefore(Len(input) + 1) = <<>>
<1>1. Yields(input, DatTokens(d))
  BY YieldsDat
<1>2. Len(input) \in Nat
  OBVIOUS
<1>3. LexAt(0, FALSE, <<>>, <<>>)
  <2>1. [i \in 1..0 |-> TokensAt(i)] = <<>>
    OBVIOUS
  <2>2. Emission(0) = <<>>
    BY <2>1, EmptySeq, FlattenAppend, Zenon DEF Emission
  <2>3. TokenBefore(0 + 1) = <<>>
    <3> DEFINE f == [j \in 1..(0 + 1 - 1) |->
          IF TypeAt(j) = "QUOTE" \/ \E k \in j..(0 + 1 - 1) : Ends(k) THEN <<>> ELSE <<input[j]>>]
    <3>1. f \in [1..0 -> {<<>>}]
      OBVIOUS
    <3>2. TokenBefore(0 + 1) = FlattenSeq(f)
      BY DEF TokenBefore
    <3> HIDE DEF f
    <3>3. QED
      BY <3>1, <3>2, FlattenNone
  <2>4. ~Quoted(0 + 1)
    BY QuotedStep
  <2>5. QED
    BY <2>2, <2>3, <2>4 DEF LexAt
<1>4. PICK p \in Nat : p = 0
  OBVIOUS
<1>5. Stands(p, input) /\ p + Len(input) = Len(input)
  BY <1>2, <1>4 DEF Stands
<1>6. <<>> \in Seq(Tokens) /\ DatTokens(d) \in Seq(Tokens)
  BY <1>1 DEF Yields
<1>7. LexAt(p + Len(input), FALSE, <<>>, <<>> \o DatTokens(d))
  BY <1>1, <1>3, <1>4, <1>5, <1>6 DEF Yields
<1>8. <<>> \o DatTokens(d) = DatTokens(d)
  BY <1>6, ConcatEmptySeq
<1>9. QED
  BY <1>5, <1>6, <1>7, <1>8 DEF LexAt

\* The tokens emitted early begin those emitted later.
LEMMA EmissionGrows ==
  ASSUME input \in Seq(Char), NEW p \in 0..Len(input)
  PROVE  \E r \in Seq(Tokens) : Emission(p) \in Seq(Tokens) /\ Emission(Len(input)) = Emission(p) \o r
<1>1. \A j \in 1..Len(input) : TokensAt(j) \in Seq(Tokens)
  BY TokensAtType
<1>2. Len(input) \in Nat
  OBVIOUS
<1>3. PICK f : f = [i \in 1..Len(input) |-> TokensAt(i)]
  OBVIOUS
<1>4. f \in [1..Len(input) -> Seq(Tokens)]
  BY <1>1, <1>3
<1>5. f \in Seq(Seq(Tokens)) /\ Len(f) = Len(input)
  BY <1>2, <1>4
<1>6. [i \in 1..p |-> f[i]] = [i \in 1..p |-> TokensAt(i)]
  BY <1>3
<1>7. JoinFirst(f, p) = Emission(p) /\ Emission(Len(input)) = FlattenSeq(f)
  BY <1>3, <1>6 DEF JoinFirst, Emission
<1>8. /\ JoinFirst(f, p) \in Seq(Tokens) /\ JoinRest(f, p) \in Seq(Tokens)
      /\ FlattenSeq(f) = JoinFirst(f, p) \o JoinRest(f, p)
  BY <1>5, JoinAt
<1>9. QED
  BY <1>7, <1>8

\* The text is that of a DAT, and what is emitted when all of it has been
\* read are its tokens.
TextInv ==
  /\ dat \in Dat /\ input = WriteDat(dat)
  /\ finished => position = Len(input) /\ emitted = DatTokens(dat)

DatStep == [Next]_vars /\ UNCHANGED <<dat, fresh>>

LEMMA TextInit == DatInit => TextInv /\ input \in Seq(Char) /\ ParserInit
<1> SUFFICES ASSUME DatInit PROVE TextInv /\ input \in Seq(Char) /\ ParserInit
  OBVIOUS
<1>1. dat \in Dat /\ input = WriteDat(dat) /\ ParserInit /\ finished = FALSE
  BY DEF DatInit, ParserInit, LexInit
<1>2. PICK d \in Dat : d = dat
  BY <1>1
<1>3. Yields(WriteDat(d), DatTokens(d))
  BY YieldsDat
<1>4. WriteDat(d) \in Seq(Char)
  BY <1>3 DEF Yields
<1>5. QED
  BY <1>1, <1>2, <1>4 DEF TextInv

LEMMA TextStep == StackInv /\ LexInv /\ TextInv /\ DatStep => TextInv'
<1> SUFFICES ASSUME StackInv, LexInv, TextInv, DatStep
             PROVE  TextInv'
  OBVIOUS
<1>1. dat' = dat /\ dat \in Dat /\ input = WriteDat(dat) /\ [Next]_vars
  BY DEF DatStep, TextInv
<1>2. DatTokens(dat)' = DatTokens(dat) /\ WriteDat(dat)' = WriteDat(dat)
  BY <1>1
<1>3. CASE UNCHANGED lexVars
  BY <1>1, <1>2, <1>3 DEF TextInv, lexVars
<1>4. CASE ReadChar
  <2>1. PICK T : Read(T)
    BY <1>4 DEF ReadChar, ReadWhiteSpace, OpenQuote, CloseQuote, ReadSingle, ReadNormal
  <2>2. position # Len(input)
    BY <2>1 DEF Read, LexInv
  <2>3. ~finished
    BY <2>2 DEF TextInv
  <2>4. finished' = finished /\ input' = input
    BY <2>1 DEF Read
  <2>5. QED
    BY <1>1, <1>2, <2>3, <2>4 DEF TextInv
<1>5. CASE FinishInput
  <2>1. /\ position = Len(input) /\ ~finished /\ emitted' = emitted \o Buffered
        /\ input' = input /\ position' = position
    BY <1>5 DEF FinishInput
  <2>2. input \in Seq(Char) /\ emitted = Emission(Len(input)) /\ sb = TokenBefore(Len(input) + 1)
    BY <2>1 DEF LexInv, TokensOfThePrefix, Emission
  <2>3. PICK d \in Dat : d = dat
    BY <1>1
  <2>4. /\ DatTokens(d) \in Seq(Tokens)
        /\ Emission(Len(input)) = DatTokens(d) /\ TokenBefore(Len(input) + 1) = <<>>
    BY <1>1, <2>2, <2>3, DatEmission
  <2>5. Buffered = <<>>
    BY <2>2, <2>4 DEF Buffered
  <2>6. emitted \o <<>> = emitted
    BY <2>2, <2>4, ConcatEmptySeq
  <2>7. emitted' = DatTokens(dat)
    BY <2>1, <2>2, <2>3, <2>4, <2>5, <2>6
  <2>8. QED
    BY <1>1, <1>2, <2>1, <2>7 DEF TextInv
<1>6. QED
  BY <1>1, <1>3, <1>4, <1>5 DEF Next, Tokenize, HandleToken, vars

\* The tokens emitted so far are the first of the DAT.
LEMMA TokensOfTheDat ==
  ASSUME StackInv, LexInv, TextInv
  PROVE  \E r \in Seq(Tokens) : emitted \in Seq(Tokens) /\ DatTokens(dat) = emitted \o r
<1>1. emitted \in Seq(Tokens) /\ input \in Seq(Char) /\ position \in 0..Len(input)
  BY DEF StackInv, StackTypeOK, LexInv
<1>2. PICK d \in Dat : d = dat /\ input = WriteDat(d)
  BY DEF TextInv
<1>3. DatTokens(d) \in Seq(Tokens) /\ Emission(Len(input)) = DatTokens(d)
  BY <1>1, <1>2, DatEmission
<1>4. CASE finished
  <2>1. emitted = DatTokens(dat)
    BY <1>4 DEF TextInv
  <2>2. emitted \o <<>> = emitted /\ <<>> \in Seq(Tokens)
    BY <1>1, ConcatEmptySeq
  <2>3. QED
    BY <1>1, <2>1, <2>2
<1>5. CASE ~finished
  <2>1. emitted = Emission(position)
    BY <1>5 DEF LexInv, TokensOfThePrefix, Emission
  <2>2. PICK r \in Seq(Tokens) : Emission(Len(input)) = Emission(position) \o r
    BY <1>1, EmissionGrows
  <2>3. QED
    BY <1>1, <1>2, <1>3, <2>1, <2>2
<1>6. QED
  BY <1>4, <1>5

\* The next token, by what the DAT has left.
LEMMA NextToken ==
  ASSUME StackInv, LexInv, TextInv, handled # Len(emitted),
         NEW x, NEW a \in Seq(Tokens), Rest(DatTokens(dat), handled) = <<x>> \o a
  PROVE  /\ emitted[handled + 1] = x /\ x \in Tokens
         /\ Rest(DatTokens(dat), handled + 1) = a
<1>1. PICK r \in Seq(Tokens) : emitted \in Seq(Tokens) /\ DatTokens(dat) = emitted \o r
  BY TokensOfTheDat
<1>2. PICK W \in Seq(Tokens), E \in Seq(Tokens) : W = DatTokens(dat) /\ E = emitted
  BY <1>1, ConcatProperties
<1>3. PICK h \in Nat : h = handled /\ h < Len(E)
  BY <1>2 DEF StackInv, StackTypeOK
<1>4. Len(E) <= Len(W) /\ \A i \in 1..Len(E) : W[i] = E[i]
  BY <1>1, <1>2, JoinPrefix
<1>5. Len(E) \in Nat /\ Len(W) \in Nat /\ Len(a) \in Nat
  BY <1>2
<1>6. h < Len(W) /\ h \in 0..Len(W) /\ h + 1 \in 0..Len(W) /\ h + 1 \in 1..Len(E)
  BY <1>3, <1>4, <1>5
<1>7. PICK s \in Seq(Tokens), u \in Seq(Tokens) : s = Rest(W, h) /\ u = Rest(W, h + 1)
  BY <1>2, <1>6, RestIs
<1>8. Len(s) = Len(W) - h /\ \A j \in 1..(Len(W) - h) : s[j] = W[h + j]
  BY <1>2, <1>6, <1>7, RestIs
<1>9. Len(u) = Len(W) - (h + 1) /\ \A j \in 1..(Len(W) - (h + 1)) : u[j] = W[(h + 1) + j]
  BY <1>2, <1>6, <1>7, RestIs
<1>10. s = <<x>> \o a
  BY <1>2, <1>3, <1>7
<1>11. PICK k \in Nat : k = 1
  OBVIOUS
<1>12. k \in 1..(Len(W) - h)
  BY <1>5, <1>6, <1>11
<1>13. s[k] = W[h + 1] /\ W[h + 1] = E[h + 1]
  BY <1>4, <1>6, <1>8, <1>11, <1>12
<1>14. E[h + 1] \in Tokens
  BY <1>2, <1>6, ElementOfSeq
<1>15. <<x>> \in Seq({x}) /\ Len(<<x>>) = 1 /\ <<x>>[1] = x
  OBVIOUS
<1>16. /\ Len(<<x>> \o a) = 1 + Len(a) /\ (<<x>> \o a)[1] = x
       /\ \A j \in 1..Len(a) : (<<x>> \o a)[j + 1] = a[j]
  OBVIOUS
<1>17. s[k] = x
  BY <1>10, <1>11, <1>16
<1>18. Len(u) = Len(a)
  BY <1>5, <1>8, <1>9, <1>10, <1>16
<1>19. ASSUME NEW j \in 1..Len(u) PROVE u[j] = a[j]
  <2>1. u[j] = W[(h + 1) + j]
    BY <1>9
  <2>2. PICK m \in 1..(Len(W) - h) : m = j + 1 /\ h + m = (h + 1) + j
    BY <1>5, <1>9, <1>3
  <2>3. s[m] = W[h + m]
    BY <1>8, <2>2
  <2>4. s[m] = a[j]
    BY <1>10, <1>16, <1>18, <2>2
  <2>5. QED
    BY <2>1, <2>2, <2>3, <2>4
<1>20. u = a
  BY <1>7, <1>18, <1>19, SeqEqual
<1>21. QED
  BY <1>2, <1>3, <1>7, <1>13, <1>14, <1>17, <1>20
-----------------------------------------------------------------------------
(***************************************************************************)
(* What token() makes of the next token, by the state it finds.            *)
(***************************************************************************)
\* What the parser depends on: the tokens of the DAT it has not handled, and
\* the state of token() and of its callbacks.
View(ahead, stack, waits, begun, inRom, e, r) ==
  [ahead |-> ahead, stack |-> stack, waits |-> waits, begun |-> begun, inRom |-> inRom,
   entry |-> e, result |-> r]

Seen == View(Rest(DatTokens(dat), handled), tokens, partial, started, insideRom, entry, result)

Handling == StackInv /\ LexInv /\ TextInv /\ ~undefined /\ HandleToken /\ dat' = dat

\* The assignment pair() makes, as a function of what it reads.
FieldSet(k, v, inRom, e) ==
  CASE k = <<"name">> -> IF inRom THEN [e EXCEPT !.name = v] ELSE e
    [] k = <<"size">> -> [e EXCEPT !.hash.size = Decimal(v) % SizeModulus]
    [] k = <<"crc">> -> [e EXCEPT !.hash.crc32 = Hex32(v)]
    [] k = <<"md5">> -> [e EXCEPT !.hash.md5 = ToMd5(v)]
    [] k = <<"sha1">> -> [e EXCEPT !.hash.sha1 = ToSha1(v)]
    [] OTHER -> e

LEMMA SeenIs ==
  ASSUME NEW a, NEW s, NEW w, NEW b, NEW i, NEW e, NEW r, Seen = View(a, s, w, b, i, e, r)
  PROVE  /\ Rest(DatTokens(dat), handled) = a /\ tokens = s /\ partial = w /\ started = b
         /\ insideRom = i /\ entry = e /\ result = r
BY DEF Seen, View

LEMMA SeenNext ==
  ASSUME NEW a, NEW s, NEW w, NEW b, NEW i, NEW e, NEW r, dat' = dat, handled' = handled + 1,
         Rest(DatTokens(dat), handled + 1) = a, tokens' = s, partial' = w, started' = b,
         insideRom' = i, entry' = e, result' = r
  PROVE  Seen' = View(a, s, w, b, i, e, r)
BY DEF Seen

\* The token handled is the next one of the DAT.
LEMMA HandleNext ==
  ASSUME Handling, NEW x, NEW a \in Seq(Tokens), Rest(DatTokens(dat), handled) = <<x>> \o a
  PROVE  /\ x \in Tokens /\ Rest(DatTokens(dat), handled + 1) = a /\ handled' = handled + 1
         /\ \/ PushKey(x) /\ UNCHANGED entryVars
            \/ ReadPair(x) /\ Pair(Top, x)
            \/ OpenScope(x) /\ ScopeStart(Top)
            \/ CloseScope(x) /\ ScopeEnd(Top)
            \/ BackOfEmpty(x) /\ UNCHANGED entryVars
<1>1. StackInv /\ LexInv /\ TextInv /\ HandleToken
  BY DEF Handling
<1>2. handled # Len(emitted)
  BY <1>1 DEF HandleToken, AllHandled
<1>3. emitted[handled + 1] = x /\ x \in Tokens /\ Rest(DatTokens(dat), handled + 1) = a
  BY <1>1, <1>2, NextToken
<1>4. QED
  BY <1>1, <1>3 DEF HandleToken

LEMMA TakeKey ==
  ASSUME Handling, NEW x, NEW a \in Seq(Tokens), NEW s, NEW b, NEW i, NEW e, NEW r,
         Seen = View(<<x>> \o a, s, FALSE, b, i, e, r), ~IsScope(x)
  PROVE  Seen' = View(a, Append(s, x), TRUE, b, i, e, r) /\ undefined' = FALSE
<1>1. /\ Rest(DatTokens(dat), handled) = <<x>> \o a /\ tokens = s /\ partial = FALSE /\ started = b
      /\ insideRom = i /\ entry = e /\ result = r
  BY SeenIs
<1>2. /\ Rest(DatTokens(dat), handled + 1) = a /\ handled' = handled + 1
      /\ \/ PushKey(x) /\ UNCHANGED entryVars
         \/ ReadPair(x) /\ Pair(Top, x)
         \/ OpenScope(x) /\ ScopeStart(Top)
         \/ CloseScope(x) /\ ScopeEnd(Top)
         \/ BackOfEmpty(x) /\ UNCHANGED entryVars
  BY <1>1, HandleNext
<1>3. PushKey(x) /\ UNCHANGED entryVars
  BY <1>1, <1>2 DEF ReadPair, OpenScope, CloseScope, BackOfEmpty, IsScope
<1>4. /\ tokens' = Append(s, x) /\ partial' = TRUE /\ undefined' = FALSE /\ started' = b
      /\ insideRom' = i /\ entry' = e /\ result' = r /\ dat' = dat
  BY <1>1, <1>3 DEF PushKey, entryVars, Handling
<1>5. Seen' = View(a, Append(s, x), TRUE, b, i, e, r)
  BY <1>2, <1>4, SeenNext
<1>6. QED
  BY <1>4, <1>5

LEMMA TakeValue ==
  ASSUME Handling, NEW x, NEW a \in Seq(Tokens), NEW s \in Seq(Tokens), NEW k \in Tokens,
         NEW b, NEW i, NEW e, NEW r,
         Seen = View(<<x>> \o a, Append(s, k), TRUE, b, i, e, r), ~IsScope(x)
  PROVE  /\ Seen' = View(a, s, FALSE, b, i, IF b THEN FieldSet(k, x, i, e) ELSE e, r)
         /\ undefined' = FALSE
<1>1. /\ Rest(DatTokens(dat), handled) = <<x>> \o a /\ tokens = Append(s, k) /\ partial = TRUE
      /\ started = b /\ insideRom = i /\ entry = e /\ result = r
  BY SeenIs
<1>2. /\ Rest(DatTokens(dat), handled + 1) = a /\ handled' = handled + 1
      /\ \/ PushKey(x) /\ UNCHANGED entryVars
         \/ ReadPair(x) /\ Pair(Top, x)
         \/ OpenScope(x) /\ ScopeStart(Top)
         \/ CloseScope(x) /\ ScopeEnd(Top)
         \/ BackOfEmpty(x) /\ UNCHANGED entryVars
  BY <1>1, HandleNext
<1>3. tokens # <<>> /\ Top = k /\ Front(tokens) = s
  <2>1. Last(Append(s, k)) = k /\ Front(Append(s, k)) = s
    BY PushTop, PopPush
  <2>2. Append(s, k) # <<>>
    BY PushLen
  <2>3. QED
    BY <1>1, <2>1, <2>2 DEF Top
<1>4. ReadPair(x) /\ Pair(k, x)
  BY <1>1, <1>2, <1>3 DEF PushKey, OpenScope, CloseScope, BackOfEmpty, IsScope
<1>5. entry' = IF b THEN FieldSet(k, x, i, e) ELSE e
  BY <1>1, <1>4 DEF Pair, WithField, FieldSet
<1>6. /\ tokens' = s /\ partial' = FALSE /\ undefined' = FALSE /\ started' = b
      /\ insideRom' = i /\ result' = r /\ dat' = dat
  BY <1>1, <1>3, <1>4 DEF ReadPair, Pair, Handling
<1>7. Seen' = View(a, s, FALSE, b, i, IF b THEN FieldSet(k, x, i, e) ELSE e, r)
  BY <1>2, <1>5, <1>6, SeenNext
<1>8. QED
  BY <1>6, <1>7

\* What the brackets of scope k make of the flags and of the result.
Opens(k, i, j) == j = (i \/ k = <<"rom">>)
Closes(k, b, i, e, r, c, j, q) ==
  /\ c = (b \/ k = <<"clrmamepro">>)
  /\ j = (i /\ k # <<"rom">>)
  /\ q = IF k = <<"rom">> THEN Append(r, e) ELSE r

LEMMA OpenStep ==
  ASSUME Handling, NEW a \in Seq(Tokens), Rest(DatTokens(dat), handled) = <<Start>> \o a,
         NEW s \in Seq(Tokens), NEW k \in Tokens, tokens = Append(s, k)
  PROVE  /\ Rest(DatTokens(dat), handled + 1) = a /\ handled' = handled + 1 /\ dat' = dat
         /\ OpenScope(Start) /\ ScopeStart(k)
<1>2. /\ Rest(DatTokens(dat), handled + 1) = a /\ handled' = handled + 1
      /\ \/ PushKey(Start) /\ UNCHANGED entryVars
         \/ ReadPair(Start) /\ Pair(Top, Start)
         \/ OpenScope(Start) /\ ScopeStart(Top)
         \/ CloseScope(Start) /\ ScopeEnd(Top)
         \/ BackOfEmpty(Start) /\ UNCHANGED entryVars
  BY HandleNext
<1>3. tokens # <<>> /\ Top = k
  <2>1. Last(Append(s, k)) = k
    BY PushTop
  <2>2. Append(s, k) # <<>>
    BY PushLen
  <2>3. QED
    BY <2>1, <2>2 DEF Top
<1>4. OpenScope(Start) /\ ScopeStart(k)
  BY <1>2, <1>3 DEF PushKey, ReadPair, CloseScope, BackOfEmpty, IsScope
<1>5. QED
  BY <1>2, <1>4 DEF Handling

LEMMA CloseStep ==
  ASSUME Handling, NEW a \in Seq(Tokens), Rest(DatTokens(dat), handled) = <<End>> \o a,
         NEW s \in Seq(Tokens), NEW k \in Tokens, tokens = Append(s, k)
  PROVE  /\ Rest(DatTokens(dat), handled + 1) = a /\ handled' = handled + 1 /\ dat' = dat
         /\ CloseScope(End) /\ ScopeEnd(k) /\ Front(tokens) = s
<1>2. /\ Rest(DatTokens(dat), handled + 1) = a /\ handled' = handled + 1
      /\ \/ PushKey(End) /\ UNCHANGED entryVars
         \/ ReadPair(End) /\ Pair(Top, End)
         \/ OpenScope(End) /\ ScopeStart(Top)
         \/ CloseScope(End) /\ ScopeEnd(Top)
         \/ BackOfEmpty(End) /\ UNCHANGED entryVars
  BY HandleNext
<1>3. tokens # <<>> /\ Top = k /\ Front(tokens) = s
  BY PushTop, PushLen, PopPush DEF Top
<1>4. Start # End
  <2>1. "(" # ")"
    OBVIOUS
  <2>2. QED
    BY <2>1, SetUpAssumption DEF ScopeStartToken, ScopeEndToken
<1>5. CloseScope(End) /\ ScopeEnd(k)
  BY <1>2, <1>3, <1>4 DEF PushKey, ReadPair, OpenScope, BackOfEmpty, IsScope
<1>6. QED
  BY <1>2, <1>3, <1>5 DEF Handling

LEMMA TakeOpen ==
  ASSUME Handling, NEW a \in Seq(Tokens), NEW s \in Seq(Tokens), NEW k \in Tokens,
         NEW w, NEW b, NEW i \in BOOLEAN, NEW e, NEW r,
         Seen = View(<<Start>> \o a, Append(s, k), w, b, i, e, r),
         NEW j, Opens(k, i, j)
  PROVE  Seen' = View(a, Append(s, k), FALSE, b, j, e, r) /\ undefined' = FALSE
<1>1. /\ Rest(DatTokens(dat), handled) = <<Start>> \o a /\ tokens = Append(s, k)
      /\ started = b /\ insideRom = i /\ entry = e /\ result = r
  BY SeenIs
<1>2. /\ Rest(DatTokens(dat), handled + 1) = a /\ handled' = handled + 1 /\ dat' = dat
      /\ OpenScope(Start) /\ ScopeStart(k)
  BY <1>1, OpenStep
<1>3. insideRom' = j
  BY <1>1, <1>2 DEF ScopeStart, Opens
<1>4. /\ tokens' = Append(s, k) /\ partial' = FALSE /\ undefined' = FALSE /\ started' = b
      /\ entry' = e /\ result' = r
  BY <1>1, <1>2 DEF OpenScope, ScopeStart
<1>5. Seen' = View(a, Append(s, k), FALSE, b, j, e, r)
  BY <1>2, <1>3, <1>4, SeenNext
<1>6. QED
  BY <1>4, <1>5

LEMMA TakeClose ==
  ASSUME Handling, NEW a \in Seq(Tokens), NEW s \in Seq(Tokens), NEW k \in Tokens,
         NEW w, NEW b \in BOOLEAN, NEW i \in BOOLEAN, NEW e, NEW r,
         Seen = View(<<End>> \o a, Append(s, k), w, b, i, e, r),
         NEW c, NEW j, NEW q, Closes(k, b, i, e, r, c, j, q)
  PROVE  Seen' = View(a, s, FALSE, c, j, e, q) /\ undefined' = FALSE
<1>1. /\ Rest(DatTokens(dat), handled) = <<End>> \o a /\ tokens = Append(s, k)
      /\ started = b /\ insideRom = i /\ entry = e /\ result = r
  BY SeenIs
<1>2. /\ Rest(DatTokens(dat), handled + 1) = a /\ handled' = handled + 1 /\ dat' = dat
      /\ CloseScope(End) /\ ScopeEnd(k) /\ Front(tokens) = s
  BY <1>1, CloseStep
<1>3. insideRom' = j /\ started' = c /\ result' = q
  BY <1>1, <1>2 DEF ScopeEnd, Closes
<1>4. /\ tokens' = s /\ partial' = FALSE /\ undefined' = FALSE /\ entry' = e
  BY <1>1, <1>2 DEF CloseScope, ScopeEnd
<1>5. Seen' = View(a, s, FALSE, c, j, e, q)
  BY <1>2, <1>3, <1>4, SeenNext
<1>6. QED
  BY <1>4, <1>5

\* The brackets of the scopes a DAT has.
LEMMA ScopesOfADat ==
  /\ \A i \in BOOLEAN : Opens(<<"clrmamepro">>, i, i) /\ Opens(<<"game">>, i, i) /\ Opens(<<"rom">>, i, TRUE)
  /\ \A b \in BOOLEAN, i \in BOOLEAN : \A e, r :
       /\ Closes(<<"clrmamepro">>, b, i, e, r, TRUE, i, r)
       /\ Closes(<<"game">>, b, i, e, r, b, i, r)
       /\ Closes(<<"rom">>, b, i, e, r, b, FALSE, Append(r, e))
<1>1. /\ <<"clrmamepro">> # <<"rom">> /\ <<"game">> # <<"rom">> /\ <<"game">> # <<"clrmamepro">>
  <2>1. <<"clrmamepro">>[1] = "clrmamepro" /\ <<"rom">>[1] = "rom" /\ <<"game">>[1] = "game"
    OBVIOUS
  <2>2. QED
    BY <2>1
<1>2. ASSUME NEW i \in BOOLEAN
      PROVE  Opens(<<"clrmamepro">>, i, i) /\ Opens(<<"game">>, i, i) /\ Opens(<<"rom">>, i, TRUE)
  BY <1>1 DEF Opens
<1>3. ASSUME NEW b \in BOOLEAN, NEW i \in BOOLEAN, NEW e, NEW r
      PROVE  /\ Closes(<<"clrmamepro">>, b, i, e, r, TRUE, i, r)
             /\ Closes(<<"game">>, b, i, e, r, b, i, r)
             /\ Closes(<<"rom">>, b, i, e, r, b, FALSE, Append(r, e))
  BY <1>1 DEF Closes
<1>4. QED
  BY <1>2, <1>3
-----------------------------------------------------------------------------
(***************************************************************************)
(* The entry a DAT asks for, field by field.                               *)
(***************************************************************************)
\* The entry as it was constructed.
FreshOK == fresh \in [name : Seq(Char), hash : HashRecord]

LEMMA PlacesAre ==
  ASSUME NEW k, NEW i, NEW n, NEW p
  PROVE  p \in Places(k, i, n) <=>
           \E j \in 1..i : \E m \in DOMAIN dat.items[j].fields :
             Gives(j, m, k) /\ (j = i => m <= n) /\ p = <<j, m>>
BY DEF Places

\* The next field of an item is the last of the places, if it gives k at all.
LEMMA PlaceStep ==
  ASSUME dat \in Dat, NEW k, NEW i \in 1..Len(dat.items), NEW n \in Nat,
         n + 1 <= Len(dat.items[i].fields)
  PROVE  /\ ~Gives(i, n + 1, k) => Places(k, i, n + 1) = Places(k, i, n)
         /\ Gives(i, n + 1, k) =>
              Places(k, i, n + 1) # {} /\ LastOf(Places(k, i, n + 1)) = <<i, n + 1>>
<1>1. PICK a \in Nat : a = n + 1
  OBVIOUS
<1>2. /\ Len(dat.items) \in Nat
      /\ \A j \in 1..Len(dat.items) :
           Len(dat.items[j].fields) \in Nat /\ DOMAIN dat.items[j].fields = 1..Len(dat.items[j].fields)
  BY DatIs
<1>3. /\ a \in DOMAIN dat.items[i].fields /\ i \in Nat
      /\ \A j \in 1..i : DOMAIN dat.items[j].fields \subseteq Nat
  BY <1>1, <1>2
<1>4. ASSUME ~Gives(i, a, k) PROVE Places(k, i, a) = Places(k, i, n)
  <2>1. ASSUME NEW p PROVE p \in Places(k, i, a) <=> p \in Places(k, i, n)
    <3>1. ASSUME NEW j \in 1..i, NEW m \in DOMAIN dat.items[j].fields, Gives(j, m, k)
          PROVE  (j = i => m <= a) <=> (j = i => m <= n)
      <4>1. m \in Nat
        BY <1>3
      <4>2. j = i => m # a
        BY <1>4, <3>1
      <4>3. QED
        BY <1>1, <4>1, <4>2
    <3>2. QED
      BY <3>1, PlacesAre
  <2>2. QED
    BY <2>1
<1>5. ASSUME Gives(i, a, k)
      PROVE  Places(k, i, a) # {} /\ LastOf(Places(k, i, a)) = <<i, a>>
  <2>1. PICK P : P = Places(k, i, a)
    OBVIOUS
  <2>2. i \in 1..i /\ (i = i => a <= a)
    BY <1>1, <1>3
  <2>3. <<i, a>> \in P
    BY <1>3, <1>5, <2>1, <2>2, PlacesAre
  <2>4. ASSUME NEW p \in P
        PROVE  p \in Nat \X Nat /\ Precedes(p, <<i, a>>)
    <3>1. PICK j \in 1..i : \E m \in DOMAIN dat.items[j].fields : (j = i => m <= a) /\ p = <<j, m>>
      BY <2>1, PlacesAre
    <3>4. PICK m \in DOMAIN dat.items[j].fields : (j = i => m <= a) /\ p = <<j, m>>
      BY <3>1
    <3>2. j \in Nat /\ m \in Nat /\ (j < i \/ (j = i /\ m <= a))
      BY <1>3, <3>1, <3>4
    <3>3. QED
      BY <3>4, <3>2 DEF Precedes
  <2>5. ASSUME NEW p \in P, Precedes(<<i, a>>, p) PROVE p = <<i, a>>
    <3>1. PICK j \in Nat, m \in Nat : p = <<j, m>>
      BY <2>4
    <3>2. (j < i \/ (j = i /\ m <= a)) /\ (i < j \/ (i = j /\ a <= m))
      BY <2>4, <2>5, <3>1 DEF Precedes
    <3>3. j = i /\ m = a
      BY <1>3, <3>2
    <3>4. QED
      BY <3>1, <3>3
  <2>6. \A q \in P : Precedes(q, <<i, a>>)
    BY <2>4
  <2>7. PICK p : p = LastOf(P)
    OBVIOUS
  <2>8. p \in P /\ \A q \in P : Precedes(q, p)
    BY <2>3, <2>6, <2>7 DEF LastOf
  <2>9. p = <<i, a>>
    BY <2>3, <2>5, <2>8
  <2>10. QED
    BY <2>1, <2>3, <2>7, <2>9
<1>6. QED
  BY <1>1, <1>4, <1>5

\* Before its first field an item has what the items before it gave.
LEMMA PlacesBetween ==
  ASSUME dat \in Dat, NEW k, NEW i \in 1..Len(dat.items)
  PROVE  /\ i = 1 => Places(k, i, 0) = {}
         /\ \A h \in 1..Len(dat.items) :
              i = h + 1 => Places(k, i, 0) = Places(k, h, Len(dat.items[h].fields))
<1>1. /\ Len(dat.items) \in Nat
      /\ \A j \in 1..Len(dat.items) :
           Len(dat.items[j].fields) \in Nat /\ DOMAIN dat.items[j].fields = 1..Len(dat.items[j].fields)
  BY DatIs
<1>2. \A p : p \in Places(k, i, 0) <=>
        \E j \in 1..i : \E m \in DOMAIN dat.items[j].fields : Gives(j, m, k) /\ j # i /\ p = <<j, m>>
  <2>1. \A j \in 1..i : \A m \in DOMAIN dat.items[j].fields : ~(m <= 0)
    BY <1>1
  <2>2. QED
    BY <2>1, PlacesAre
<1>3. ASSUME i = 1 PROVE Places(k, i, 0) = {}
  <2>1. \A j \in 1..i : j = i
    BY <1>3
  <2>2. QED
    BY <1>2, <2>1
<1>4. ASSUME NEW h \in 1..Len(dat.items), i = h + 1
      PROVE  Places(k, i, 0) = Places(k, h, Len(dat.items[h].fields))
  <2>1. \A p : p \in Places(k, h, Len(dat.items[h].fields)) <=>
          \E j \in 1..h : \E m \in DOMAIN dat.items[j].fields : Gives(j, m, k) /\ p = <<j, m>>
    <3>1. \A m \in DOMAIN dat.items[h].fields : m <= Len(dat.items[h].fields)
      BY <1>1
    <3>2. QED
      BY <3>1, PlacesAre
  <2>2. \A j : (j \in 1..i /\ j # i) <=> j \in 1..h
    BY <1>1, <1>4
  <2>3. \A p : p \in Places(k, i, 0) <=> p \in Places(k, h, Len(dat.items[h].fields))
    BY <1>2, <2>1, <2>2
  <2>4. QED
    BY <2>3
<1>5. QED
  BY <1>3, <1>4

\* An entry with the flags it was constructed with.
Built(name, size, crc, md5, sha1) ==
  [name |-> name,
   hash |-> [size |-> size, crc32 |-> crc, md5 |-> md5, sha1 |-> sha1,
             md5enabled |-> fresh.hash.md5enabled, sha1enabled |-> fresh.hash.sha1enabled]]

NameAt(i, n) == Latest("name", i, n, Itself, fresh.name)
SizeAt(i, n) == Latest("size", i, n, Size60, fresh.hash.size)
CrcAt(i, n) == Latest("crc", i, n, Hex32, fresh.hash.crc32)
Md5At(i, n) == Latest("md5", i, n, ToMd5, fresh.hash.md5)
Sha1At(i, n) == Latest("sha1", i, n, ToSha1, fresh.hash.sha1)

LEMMA HashWith ==
  ASSUME NEW p, NEW q, NEW r, NEW s, NEW x, NEW y, NEW a, NEW b, NEW c, NEW d, NEW h, NEW g,
         h = [size |-> p, crc32 |-> q, md5 |-> r, sha1 |-> s, md5enabled |-> x, sha1enabled |-> y],
         g = [h EXCEPT !.size = a, !.crc32 = b, !.md5 = c, !.sha1 = d]
  PROVE  g = [size |-> a, crc32 |-> b, md5 |-> c, sha1 |-> d, md5enabled |-> x, sha1enabled |-> y]
OBVIOUS

LEMMA EntryIs ==
  ASSUME FreshOK, NEW i, NEW n
  PROVE  /\ EntryAt(i, n) = Built(NameAt(i, n), SizeAt(i, n), CrcAt(i, n), Md5At(i, n), Sha1At(i, n))
         /\ fresh = Built(fresh.name, fresh.hash.size, fresh.hash.crc32, fresh.hash.md5, fresh.hash.sha1)
<1>1. PICK f \in [name : Seq(Char), hash : HashRecord] : f = fresh
  BY DEF FreshOK
<1>2. PICK h \in HashRecord : h = fresh.hash
  BY <1>1
<1>3. h = [size |-> h.size, crc32 |-> h.crc32, md5 |-> h.md5, sha1 |-> h.sha1,
           md5enabled |-> h.md5enabled, sha1enabled |-> h.sha1enabled]
  BY DEF HashRecord
<1>4. f = [name |-> f.name, hash |-> f.hash]
  OBVIOUS
<1>5. fresh = Built(fresh.name, fresh.hash.size, fresh.hash.crc32, fresh.hash.md5, fresh.hash.sha1)
  BY <1>1, <1>2, <1>3, <1>4 DEF Built
<1>6. PICK a, b, c, d : /\ a = SizeAt(i, n) /\ b = CrcAt(i, n) /\ c = Md5At(i, n) /\ d = Sha1At(i, n)
  OBVIOUS
<1>9. PICK g : g = [h EXCEPT !.size = a, !.crc32 = b, !.md5 = c, !.sha1 = d]
  OBVIOUS
<1>10. g = [size |-> a, crc32 |-> b, md5 |-> c, sha1 |-> d,
            md5enabled |-> h.md5enabled, sha1enabled |-> h.sha1enabled]
  BY <1>3, <1>9, HashWith
<1>7. EntryAt(i, n) = [name |-> NameAt(i, n), hash |-> g]
  BY <1>2, <1>6, <1>9 DEF EntryAt, NameAt, SizeAt, CrcAt, Md5At, Sha1At
<1>8. QED
  BY <1>2, <1>5, <1>6, <1>7, <1>10 DEF Built

\* Field n + 1 sets what pair() sets when it reads it.
LEMMA LatestStep ==
  ASSUME dat \in Dat, NEW i \in 1..Len(dat.items), NEW n \in Nat, n + 1 <= Len(dat.items[i].fields),
         NEW v, v = dat.items[i].fields[n + 1].value
  PROVE  /\ NameAt(i, n + 1) = IF dat.header /\ Gives(i, n + 1, "name") THEN v ELSE NameAt(i, n)
         /\ SizeAt(i, n + 1) = IF dat.header /\ Gives(i, n + 1, "size") THEN Decimal(v) % SizeModulus ELSE SizeAt(i, n)
         /\ CrcAt(i, n + 1) = IF dat.header /\ Gives(i, n + 1, "crc") THEN Hex32(v) ELSE CrcAt(i, n)
         /\ Md5At(i, n + 1) = IF dat.header /\ Gives(i, n + 1, "md5") THEN ToMd5(v) ELSE Md5At(i, n)
         /\ Sha1At(i, n + 1) = IF dat.header /\ Gives(i, n + 1, "sha1") THEN ToSha1(v) ELSE Sha1At(i, n)
<1>1. PICK a \in Nat : a = n + 1
  OBVIOUS
<1>2. \A k : /\ ~Gives(i, a, k) => Places(k, i, a) = Places(k, i, n)
             /\ Gives(i, a, k) => Places(k, i, a) # {} /\ LastOf(Places(k, i, a)) = <<i, a>>
  BY <1>1, PlaceStep
<1>3. <<i, a>>[1] = i /\ <<i, a>>[2] = a /\ v = dat.items[i].fields[a].value
  BY <1>1
<1>4. NameAt(i, a) = IF dat.header /\ Gives(i, a, "name") THEN v ELSE NameAt(i, n)
  BY <1>2, <1>3 DEF NameAt, Latest, Itself
<1>5. SizeAt(i, a) = IF dat.header /\ Gives(i, a, "size") THEN Decimal(v) % SizeModulus ELSE SizeAt(i, n)
  BY <1>2, <1>3 DEF SizeAt, Latest, Size60
<1>6. CrcAt(i, a) = IF dat.header /\ Gives(i, a, "crc") THEN Hex32(v) ELSE CrcAt(i, n)
  BY <1>2, <1>3 DEF CrcAt, Latest
<1>7. Md5At(i, a) = IF dat.header /\ Gives(i, a, "md5") THEN ToMd5(v) ELSE Md5At(i, n)
  BY <1>2, <1>3 DEF Md5At, Latest
<1>8. Sha1At(i, a) = IF dat.header /\ Gives(i, a, "sha1") THEN ToSha1(v) ELSE Sha1At(i, n)
  BY <1>2, <1>3 DEF Sha1At, Latest
<1>9. QED
  BY <1>1, <1>4, <1>5, <1>6, <1>7, <1>8

LEMMA EntryStep ==
  ASSUME dat \in Dat, FreshOK, NEW i \in 1..Len(dat.items), NEW n \in Nat,
         n + 1 <= Len(dat.items[i].fields), NEW f, f = dat.items[i].fields[n + 1]
  PROVE  EntryAt(i, n + 1) =
         IF dat.header THEN FieldSet(f.key, f.value, dat.items[i].rom, EntryAt(i, n)) ELSE EntryAt(i, n)
<1>1. PICK a \in Nat : a = n + 1
  OBVIOUS
<1>2. PICK v : v = f.value
  OBVIOUS
<1>3. PICK N, S, C, M, H : /\ N = NameAt(i, n) /\ S = SizeAt(i, n) /\ C = CrcAt(i, n)
                           /\ M = Md5At(i, n) /\ H = Sha1At(i, n)
  OBVIOUS
<1>4. EntryAt(i, n) = Built(N, S, C, M, H)
  BY <1>3, EntryIs
<1>5. EntryAt(i, a) = Built(NameAt(i, a), SizeAt(i, a), CrcAt(i, a), Md5At(i, a), Sha1At(i, a))
  BY EntryIs
<1>6. /\ NameAt(i, a) = IF dat.header /\ Gives(i, a, "name") THEN v ELSE N
      /\ SizeAt(i, a) = IF dat.header /\ Gives(i, a, "size") THEN Decimal(v) % SizeModulus ELSE S
      /\ CrcAt(i, a) = IF dat.header /\ Gives(i, a, "crc") THEN Hex32(v) ELSE C
      /\ Md5At(i, a) = IF dat.header /\ Gives(i, a, "md5") THEN ToMd5(v) ELSE M
      /\ Sha1At(i, a) = IF dat.header /\ Gives(i, a, "sha1") THEN ToSha1(v) ELSE H
  BY <1>1, <1>2, <1>3, LatestStep
<1>7. \A k : Gives(i, a, k) <=> f.key = <<k>> /\ (k = "name" => dat.items[i].rom)
  BY <1>1 DEF Gives
<1>8. \A w, k : <<w>> = <<k>> <=> w = k
  <2>1. ASSUME NEW w, NEW k, <<w>> = <<k>> PROVE w = k
    <3>1. <<w>>[1] = w /\ <<k>>[1] = k
      OBVIOUS
    <3>2. QED
      BY <2>1, <3>1
  <2>2. QED
    BY <2>1
<1>9. FieldSet(f.key, v, dat.items[i].rom, Built(N, S, C, M, H)) =
        Built(IF Gives(i, a, "name") THEN v ELSE N,
              IF Gives(i, a, "size") THEN Decimal(v) % SizeModulus ELSE S,
              IF Gives(i, a, "crc") THEN Hex32(v) ELSE C,
              IF Gives(i, a, "md5") THEN ToMd5(v) ELSE M,
              IF Gives(i, a, "sha1") THEN ToSha1(v) ELSE H)
  <2>1. CASE f.key = <<"name">>
    BY <1>7, <1>8, <2>1 DEF FieldSet, Built
  <2>2. CASE f.key = <<"size">>
    BY <1>7, <1>8, <2>2 DEF FieldSet, Built
  <2>3. CASE f.key = <<"crc">>
    BY <1>7, <1>8, <2>3 DEF FieldSet, Built
  <2>4. CASE f.key = <<"md5">>
    BY <1>7, <1>8, <2>4 DEF FieldSet, Built
  <2>5. CASE f.key = <<"sha1">>
    BY <1>7, <1>8, <2>5 DEF FieldSet, Built
  <2>6. CASE f.key \notin {<<"name">>, <<"size">>, <<"crc">>, <<"md5">>, <<"sha1">>}
    BY <1>7, <2>6 DEF FieldSet
  <2>7. QED
    BY <2>1, <2>2, <2>3, <2>4, <2>5, <2>6
<1>10. QED
  BY <1>1, <1>2, <1>4, <1>5, <1>6, <1>9

\* The entry at the start of an item.
LEMMA EntryBefore ==
  ASSUME dat \in Dat, FreshOK, NEW i \in 1..Len(dat.items)
  PROVE  /\ i = 1 => EntryAt(i, 0) = fresh
         /\ \A h \in 1..Len(dat.items) : i = h + 1 => EntryAt(i, 0) = EntryOfItem(h)
<1>1. ASSUME i = 1 PROVE EntryAt(i, 0) = fresh
  <2>1. \A k : Places(k, i, 0) = {}
    BY <1>1, PlacesBetween
  <2>2. /\ NameAt(i, 0) = fresh.name /\ SizeAt(i, 0) = fresh.hash.size /\ CrcAt(i, 0) = fresh.hash.crc32
        /\ Md5At(i, 0) = fresh.hash.md5 /\ Sha1At(i, 0) = fresh.hash.sha1
    BY <2>1 DEF NameAt, SizeAt, CrcAt, Md5At, Sha1At, Latest
  <2>3. QED
    BY <2>2, EntryIs
<1>2. ASSUME NEW h \in 1..Len(dat.items), i = h + 1 PROVE EntryAt(i, 0) = EntryOfItem(h)
  <2>1. PICK n : n = Len(dat.items[h].fields)
    OBVIOUS
  <2>2. \A k : Places(k, i, 0) = Places(k, h, n)
    BY <1>2, <2>1, PlacesBetween
  <2>3. /\ NameAt(i, 0) = NameAt(h, n) /\ SizeAt(i, 0) = SizeAt(h, n) /\ CrcAt(i, 0) = CrcAt(h, n)
        /\ Md5At(i, 0) = Md5At(h, n) /\ Sha1At(i, 0) = Sha1At(h, n)
    BY <2>2 DEF NameAt, SizeAt, CrcAt, Md5At, Sha1At, Latest
  <2>4. EntryAt(i, 0) = EntryAt(h, n)
    BY <2>3, EntryIs
  <2>5. QED
    BY <2>1, <2>4 DEF EntryOfItem
<1>3. QED
  BY <1>1, <1>2
-----------------------------------------------------------------------------
(***************************************************************************)
(* The tokens that are left behind each item and each field.               *)
(***************************************************************************)
\* The tokens and the entries of the DAT, in parts.
ItemParts == [i \in DOMAIN dat.items |-> ItemTokens(dat.items[i])]
FieldParts(i) == [n \in DOMAIN dat.items[i].fields |-> FieldTokens(dat.items[i].fields[n])]
EntryParts == [i \in DOMAIN dat.items |-> EntriesOf(i)]

\* What is ahead of the first i items, of the first n fields of item i, and
\* of the game.
AfterItems(i) == JoinRest(ItemParts, i) \o <<End>>
AfterFields(i, n) ==
  JoinRest(FieldParts(i), n) \o (IF dat.items[i].rom THEN <<End>> \o AfterItems(i) ELSE AfterItems(i))
GameAhead == <<<<"game">>>> \o (<<Start>> \o AfterItems(0))
HeaderAhead == <<<<"name">>>> \o (<<<<"dat">>>> \o (<<End>> \o GameAhead))

\* What has been returned after i items.
EntriesUpTo(i) == JoinFirst(EntryParts, i)

LEMMA KeysAre ==
  /\ {<<"clrmamepro">>, <<"game">>, <<"rom">>, <<"name">>, <<"dat">>, Start, End} \subseteq Tokens
  /\ \A w \in Word : <<w>> \in Tokens /\ ~IsScope(<<w>>)
  /\ {"clrmamepro", "game", "rom", "name", "dat"} \subseteq Word
<1>1. {"clrmamepro", "game", "rom", "name", "dat"} \subseteq Word
  BY DatAssumption
<1>2. \A w \in Word : w \in Char /\ w \notin Special
  BY TypesOfChars
<1>3. {"(", ")"} \subseteq Char
  BY TypesOfChars DEF Special
<1>4. Start = <<"(">> /\ End = <<")">>
  BY SetUpAssumption DEF ScopeStartToken, ScopeEndToken
<1>5. \A c \in Char : <<c>> \in Tokens
  BY DEF Tokens
<1>6. ASSUME NEW w \in Word PROVE ~IsScope(<<w>>)
  <2>1. w # "(" /\ w # ")"
    BY <1>2 DEF Special
  <2>2. <<w>>[1] = w /\ <<"(">>[1] = "(" /\ <<")">>[1] = ")"
    OBVIOUS
  <2>3. <<w>> # <<"(">> /\ <<w>> # <<")">>
    BY <2>1, <2>2
  <2>4. QED
    BY <1>4, <2>3 DEF IsScope
<1>7. QED
  BY <1>1, <1>2, <1>3, <1>4, <1>5, <1>6

\* A scope, token by token, and what follows it.
ScopeThen(k, body, after) ==
  ScopeTokens(k, body) \o after = <<k>> \o (<<Start>> \o (body \o (<<End>> \o after)))

LEMMA ScopeIs ==
  ASSUME NEW T, NEW k \in T, NEW body \in Seq(T), NEW after \in Seq(T), Start \in T, End \in T
  PROVE  ScopeThen(k, body, after) /\ ScopeTokens(k, body) \in Seq(T)
<1>0. <<k>> \in Seq(T) /\ <<Start>> \in Seq(T) /\ <<End>> \in Seq(T)
  OBVIOUS
<1>1. PICK a \in Seq(T), b \in Seq(T), c \in Seq(T) : a = <<k>> /\ b = <<Start>> /\ c = <<End>>
  BY <1>0
<1>2. a \o b = <<k, Start>>
  BY <1>1, TwoOf
<1>3. ScopeTokens(k, body) = ((a \o b) \o body) \o c
  BY <1>1, <1>2 DEF ScopeTokens
<1>4. a \in Seq(T) /\ b \in Seq(T) /\ c \in Seq(T)
  BY <1>1
<1>5. PICK d \in Seq(T) : d = a \o b
  BY <1>4, ConcatProperties
<1>6. PICK e \in Seq(T) : e = d \o body
  BY <1>5, ConcatProperties
<1>7. PICK f \in Seq(T) : f = c \o after
  BY <1>4, ConcatProperties
<1>8. PICK g \in Seq(T) : g = body \o f
  BY <1>7, ConcatProperties
<1>9. d \in Seq(T) /\ e \in Seq(T) /\ f \in Seq(T) /\ g \in Seq(T)
  BY <1>5, <1>6, <1>7, <1>8
<1>10. (e \o c) \o after = e \o (c \o after)
  <2>1. Assoc(e, c, after)
    BY <1>4, <1>9, JoinAssoc
  <2>2. QED
    BY <2>1 DEF Assoc
<1>11. (d \o body) \o f = d \o (body \o f)
  <2>1. Assoc(d, body, f)
    BY <1>9, JoinAssoc
  <2>2. QED
    BY <2>1 DEF Assoc
<1>12. (a \o b) \o g = a \o (b \o g)
  <2>1. Assoc(a, b, g)
    BY <1>4, <1>9, JoinAssoc
  <2>2. QED
    BY <2>1 DEF Assoc
<1>13. e \o c \in Seq(T)
  BY <1>4, <1>9, ConcatProperties
<1>14. (e \o c) \o after = a \o (b \o g)
  BY <1>5, <1>6, <1>7, <1>8, <1>10, <1>11, <1>12
<1>15. QED
  BY <1>1, <1>3, <1>5, <1>6, <1>7, <1>8, <1>13, <1>14 DEF ScopeThen

LEMMA FieldPartsAre ==
  ASSUME dat \in Dat, NEW i \in 1..Len(dat.items)
  PROVE  /\ FieldParts(i) \in Seq(Seq(Tokens)) /\ Len(FieldParts(i)) = Len(dat.items[i].fields)
         /\ Len(FieldParts(i)) \in Nat
         /\ FlattenSeq(FieldParts(i)) = FieldsTokens(dat.items[i].fields)
         /\ \A n \in 1..Len(dat.items[i].fields) :
              /\ FieldParts(i)[n] = <<dat.items[i].fields[n].key, dat.items[i].fields[n].value>>
              /\ dat.items[i].fields[n].key \in Tokens /\ dat.items[i].fields[n].value \in Tokens
              /\ ~IsScope(dat.items[i].fields[n].key) /\ ~IsScope(dat.items[i].fields[n].value)
<1>1. PICK f : f = dat.items[i].fields
  OBVIOUS
<1>2. /\ i \in DOMAIN dat.items /\ Len(f) \in Nat /\ DOMAIN f = 1..Len(f)
  BY <1>1, DatIs
<1>3. PICK d \in Dat : d = dat
  OBVIOUS
<1>4. ASSUME NEW n \in 1..Len(f)
      PROVE  /\ f[n].key \in Tokens /\ f[n].value \in Tokens
             /\ ~IsScope(f[n].key) /\ ~IsScope(f[n].value)
  <2>1. n \in DOMAIN d.items[i].fields /\ i \in DOMAIN d.items
    BY <1>1, <1>2, <1>3
  <2>2. /\ \E w \in Word : f[n].key = <<w>>
        /\ f[n].value \in Seq(Char) /\ Writable(f[n])
    BY <1>1, <1>3, <2>1, FieldIs
  <2>3. f[n].key \in Tokens /\ ~IsScope(f[n].key)
    BY <2>2, KeysAre
  <2>4. f[n].value \in Tokens /\ ~IsScope(f[n].value)
    BY <2>2 DEF Writable, Tokens, IsScope
  <2>5. QED
    BY <2>3, <2>4
<1>5. PICK p : p = FieldParts(i)
  OBVIOUS
<1>6. p = [n \in 1..Len(f) |-> <<f[n].key, f[n].value>>]
  BY <1>1, <1>2, <1>5 DEF FieldParts, FieldTokens
<1>7. \A n \in 1..Len(f) : <<f[n].key, f[n].value>> \in Seq(Tokens)
  BY <1>4
<1>8. p \in Seq(Seq(Tokens)) /\ Len(p) = Len(f)
  BY <1>2, <1>6, <1>7
<1>9. FlattenSeq(p) = FieldsTokens(f)
  BY <1>1, <1>5 DEF FieldParts, FieldsTokens
<1>10. QED
  BY <1>1, <1>2, <1>4, <1>5, <1>6, <1>8, <1>9

LEMMA ItemPartsAre ==
  ASSUME dat \in Dat
  PROVE  /\ ItemParts \in Seq(Seq(Tokens)) /\ Len(ItemParts) = Len(dat.items)
         /\ Len(dat.items) \in Nat
         /\ FlattenSeq(ItemParts) = ItemsTokens(dat.items)
         /\ \A i \in 1..Len(dat.items) :
              ItemParts[i] = ItemTokens(dat.items[i]) /\ FieldsTokens(dat.items[i].fields) \in Seq(Tokens)
<1>1. Len(dat.items) \in Nat /\ DOMAIN dat.items = 1..Len(dat.items)
  BY DatIs
<1>2. ASSUME NEW i \in 1..Len(dat.items)
      PROVE  FieldsTokens(dat.items[i].fields) \in Seq(Tokens) /\ ItemTokens(dat.items[i]) \in Seq(Tokens)
  <2>1. PICK p \in Seq(Seq(Tokens)) : FlattenSeq(p) = FieldsTokens(dat.items[i].fields)
    BY FieldPartsAre
  <2>2. Len(p) \in Nat /\ 0 \in 0..Len(p)
    OBVIOUS
  <2>3. JoinRest(p, 0) \in Seq(Tokens) /\ JoinRest(p, 0) = FlattenSeq(p)
    BY <2>2, JoinAt
  <2>4. FieldsTokens(dat.items[i].fields) \in Seq(Tokens)
    BY <2>1, <2>3
  <2>5. <<>> \in Seq(Tokens) /\ <<"rom">> \in Tokens /\ Start \in Tokens /\ End \in Tokens
    BY KeysAre
  <2>6. ScopeTokens(<<"rom">>, FieldsTokens(dat.items[i].fields)) \in Seq(Tokens)
    BY <2>4, <2>5, ScopeIs
  <2>7. QED
    BY <2>4, <2>6 DEF ItemTokens
<1>3. PICK p : p = ItemParts
  OBVIOUS
<1>4. p = [i \in 1..Len(dat.items) |-> ItemTokens(dat.items[i])]
  BY <1>1, <1>3 DEF ItemParts
<1>5. p \in Seq(Seq(Tokens)) /\ Len(p) = Len(dat.items)
  BY <1>1, <1>2, <1>4
<1>6. FlattenSeq(p) = ItemsTokens(dat.items)
  BY <1>3 DEF ItemParts, ItemsTokens
<1>7. QED
  BY <1>1, <1>2, <1>3, <1>4, <1>5, <1>6

LEMMA AfterItemsType ==
  ASSUME dat \in Dat, NEW i \in 0..Len(dat.items)
  PROVE  AfterItems(i) \in Seq(Tokens) /\ (i = Len(dat.items) => AfterItems(i) = <<End>>)
<1>1. ItemParts \in Seq(Seq(Tokens)) /\ Len(ItemParts) = Len(dat.items)
  BY ItemPartsAre
<1>2. PICK p \in Seq(Seq(Tokens)) : p = ItemParts
  BY <1>1
<1>3. i \in 0..Len(p)
  BY <1>1, <1>2
<1>4. JoinRest(p, i) \in Seq(Tokens) /\ (i = Len(p) => JoinRest(p, i) = <<>>)
  BY <1>3, JoinAt
<1>5. <<End>> \in Seq(Tokens)
  BY KeysAre
<1>6. AfterItems(i) = JoinRest(p, i) \o <<End>>
  BY <1>2 DEF AfterItems
<1>7. <<>> \o <<End>> = <<End>> /\ JoinRest(p, i) \o <<End>> \in Seq(Tokens)
  BY <1>4, <1>5, ConcatProperties, ConcatEmptySeq
<1>8. QED
  BY <1>1, <1>2, <1>4, <1>6, <1>7

LEMMA AfterFieldsIs ==
  ASSUME dat \in Dat, NEW i \in 1..Len(dat.items), NEW n \in 0..Len(dat.items[i].fields)
  PROVE  /\ AfterFields(i, n) \in Seq(Tokens)
         /\ n = Len(dat.items[i].fields) =>
              AfterFields(i, n) = IF dat.items[i].rom THEN <<End>> \o AfterItems(i) ELSE AfterItems(i)
         /\ n < Len(dat.items[i].fields) =>
              AfterFields(i, n) = <<dat.items[i].fields[n + 1].key>> \o
                                  (<<dat.items[i].fields[n + 1].value>> \o AfterFields(i, n + 1))
<1>1. FieldParts(i) \in Seq(Seq(Tokens)) /\ Len(FieldParts(i)) = Len(dat.items[i].fields)
  BY FieldPartsAre
<1>2. PICK p \in Seq(Seq(Tokens)) : p = FieldParts(i)
  BY <1>1
<1>3. n \in 0..Len(p) /\ Len(p) \in Nat
  BY <1>1, <1>2
<1>4. /\ JoinRest(p, n) \in Seq(Tokens)
      /\ n = Len(p) => JoinRest(p, n) = <<>>
      /\ n < Len(p) => /\ JoinRest(p, n) = p[n + 1] \o JoinRest(p, n + 1)
                       /\ JoinRest(p, n + 1) \in Seq(Tokens)
  BY <1>3, JoinAt
<1>5. PICK c : c = IF dat.items[i].rom THEN <<End>> \o AfterItems(i) ELSE AfterItems(i)
  OBVIOUS
<1>6. c \in Seq(Tokens)
  <2>1. i \in 0..Len(dat.items)
    OBVIOUS
  <2>2. AfterItems(i) \in Seq(Tokens) /\ <<End>> \in Seq(Tokens)
    BY <2>1, AfterItemsType, KeysAre
  <2>3. <<End>> \o AfterItems(i) \in Seq(Tokens)
    BY <2>2, ConcatProperties
  <2>4. QED
    BY <1>5, <2>2, <2>3
<1>7. \A m : AfterFields(i, m) = JoinRest(p, m) \o c
  BY <1>2, <1>5 DEF AfterFields
<1>8. AfterFields(i, n) \in Seq(Tokens)
  BY <1>4, <1>6, <1>7, ConcatProperties
<1>9. ASSUME n = Len(p) PROVE AfterFields(i, n) = c
  BY <1>4, <1>6, <1>7, <1>9, ConcatEmptySeq
<1>10. ASSUME n < Len(p)
       PROVE  AfterFields(i, n) = <<dat.items[i].fields[n + 1].key>> \o
                                  (<<dat.items[i].fields[n + 1].value>> \o AfterFields(i, n + 1))
  <2>1. PICK m \in 1..Len(p) : m = n + 1
    BY <1>3, <1>10
  <2>2. /\ p[m] = <<dat.items[i].fields[m].key, dat.items[i].fields[m].value>>
        /\ dat.items[i].fields[m].key \in Tokens /\ dat.items[i].fields[m].value \in Tokens
    BY <1>1, <1>2, <2>1, FieldPartsAre
  <2>14. PICK x \in Tokens, y \in Tokens :
           x = dat.items[i].fields[m].key /\ y = dat.items[i].fields[m].value
    BY <2>2
  <2>15. <<x>> \in Seq(Tokens) /\ <<y>> \in Seq(Tokens)
    BY <2>14
  <2>3. PICK a \in Seq(Tokens), b \in Seq(Tokens) : a = <<x>> /\ b = <<y>>
    BY <2>15
  <2>4. p[m] = a \o b
    BY <2>2, <2>3, <2>14, TwoOf
  <2>5. PICK r \in Seq(Tokens) : r = JoinRest(p, m)
    BY <1>4, <1>10, <2>1
  <2>16. a \in Seq(Tokens) /\ b \in Seq(Tokens) /\ r \in Seq(Tokens)
    BY <2>3, <2>5
  <2>6. PICK s \in Seq(Tokens), t \in Seq(Tokens) : s = b \o r /\ t = r \o c
    BY <1>6, <2>16, ConcatProperties
  <2>17. s \in Seq(Tokens)
    BY <2>6
  <2>7. (a \o b) \o r = a \o (b \o r)
    <3>1. Assoc(a, b, r)
      BY <2>16, JoinAssoc
    <3>2. QED
      BY <3>1 DEF Assoc
  <2>8. (a \o s) \o c = a \o (s \o c)
    <3>1. Assoc(a, s, c)
      BY <1>6, <2>16, <2>17, JoinAssoc
    <3>2. QED
      BY <3>1 DEF Assoc
  <2>9. (b \o r) \o c = b \o (r \o c)
    <3>1. Assoc(b, r, c)
      BY <1>6, <2>16, JoinAssoc
    <3>2. QED
      BY <3>1 DEF Assoc
  <2>10. AfterFields(i, n) = ((a \o b) \o r) \o c
    BY <1>4, <1>7, <1>10, <2>1, <2>4, <2>5
  <2>11. AfterFields(i, m) = t
    BY <1>7, <2>5, <2>6
  <2>12. AfterFields(i, n) = a \o (b \o AfterFields(i, m))
    BY <2>6, <2>7, <2>8, <2>9, <2>10, <2>11
  <2>13. QED
    BY <2>1, <2>3, <2>12, <2>14
<1>11. QED
  BY <1>1, <1>2, <1>5, <1>8, <1>9, <1>10

LEMMA AfterItemsIs ==
  ASSUME dat \in Dat, NEW h \in Nat, NEW i \in 1..Len(dat.items), i = h + 1
  PROVE  AfterItems(h) = IF dat.items[i].rom
                           THEN <<<<"rom">>>> \o (<<Start>> \o AfterFields(i, 0))
                           ELSE AfterFields(i, 0)
<1>1. ItemParts \in Seq(Seq(Tokens)) /\ Len(ItemParts) = Len(dat.items) /\ Len(dat.items) \in Nat
  BY ItemPartsAre
<1>2. PICK p \in Seq(Seq(Tokens)) : p = ItemParts
  BY <1>1
<1>3. h \in 0..Len(p) /\ h < Len(p)
  BY <1>1, <1>2
<1>4. /\ JoinRest(p, h) = p[h + 1] \o JoinRest(p, h + 1)
      /\ JoinRest(p, h + 1) \in Seq(Tokens) /\ p[h + 1] \in Seq(Tokens)
  BY <1>3, JoinAt
<1>15. <<End>> \in Seq(Tokens)
  BY KeysAre
<1>5. PICK r \in Seq(Tokens), e \in Seq(Tokens) : r = JoinRest(p, i) /\ e = <<End>>
  BY <1>4, <1>15
<1>16. r \in Seq(Tokens) /\ e \in Seq(Tokens)
  BY <1>5
<1>6. PICK g \in Seq(Tokens) : g = r \o e
  BY <1>16, ConcatProperties
<1>7. AfterItems(i) = g
  BY <1>2, <1>5, <1>6 DEF AfterItems
<1>8. AfterItems(h) = p[i] \o g
  <2>1. AfterItems(h) = (p[i] \o r) \o e
    BY <1>2, <1>4, <1>5 DEF AfterItems
  <2>2. p[i] \in Seq(Tokens)
    BY <1>4
  <2>3. (p[i] \o r) \o e = p[i] \o (r \o e)
    <3>1. Assoc(p[i], r, e)
      BY <1>16, <2>2, JoinAssoc
    <3>2. QED
      BY <3>1 DEF Assoc
  <2>4. QED
    BY <1>6, <2>1, <2>3
<1>9. PICK f \in Seq(Tokens) : f = FieldsTokens(dat.items[i].fields)
  BY ItemPartsAre
<1>10. p[i] = IF dat.items[i].rom THEN ScopeTokens(<<"rom">>, f) ELSE f
  BY <1>2, <1>9, ItemPartsAre DEF ItemTokens
<1>11. AfterFields(i, 0) = f \o (IF dat.items[i].rom THEN <<End>> \o g ELSE g)
  <2>1. FieldParts(i) \in Seq(Seq(Tokens)) /\ FlattenSeq(FieldParts(i)) = f
    BY <1>9, FieldPartsAre
  <2>2. PICK q \in Seq(Seq(Tokens)) : q = FieldParts(i)
    BY <2>1
  <2>3. 0 \in 0..Len(q)
    OBVIOUS
  <2>4. JoinRest(q, 0) = FlattenSeq(q)
    BY <2>3, JoinAt
  <2>5. QED
    BY <1>7, <2>1, <2>2, <2>4 DEF AfterFields
<1>12. <<"rom">> \in Tokens /\ Start \in Tokens /\ End \in Tokens
  BY KeysAre
<1>17. f \in Seq(Tokens) /\ g \in Seq(Tokens)
  BY <1>6, <1>9
<1>18. PICK k \in Tokens : k = <<"rom">>
  BY <1>12
<1>20. ScopeThen(k, f, g)
  BY <1>12, <1>17, <1>18, ScopeIs
<1>19. ScopeTokens(k, f) \o g = <<k>> \o (<<Start>> \o (f \o (<<End>> \o g)))
  BY <1>20 DEF ScopeThen
<1>13. ScopeTokens(<<"rom">>, f) \o g = <<<<"rom">>>> \o (<<Start>> \o (f \o (<<End>> \o g)))
  BY <1>18, <1>19
<1>14. QED
  BY <1>8, <1>10, <1>11, <1>13

LEMMA DatTokensAre ==
  ASSUME dat \in Dat
  PROVE  /\ DatTokens(dat) = IF dat.header
                               THEN <<<<"clrmamepro">>>> \o (<<Start>> \o HeaderAhead)
                               ELSE GameAhead
         /\ GameAhead \in Seq(Tokens) /\ HeaderAhead \in Seq(Tokens)
         /\ <<Start>> \o AfterItems(0) \in Seq(Tokens) /\ <<Start>> \o HeaderAhead \in Seq(Tokens)
         /\ <<End>> \o GameAhead \in Seq(Tokens) /\ <<<<"dat">>>> \o (<<End>> \o GameAhead) \in Seq(Tokens)
<1>1. ItemParts \in Seq(Seq(Tokens)) /\ Len(dat.items) \in Nat /\ FlattenSeq(ItemParts) = ItemsTokens(dat.items)
  BY ItemPartsAre
<1>2. PICK p \in Seq(Seq(Tokens)) : p = ItemParts
  BY <1>1
<1>3. 0 \in 0..Len(p) /\ 0 \in 0..Len(dat.items)
  BY <1>1
<1>4. JoinRest(p, 0) = FlattenSeq(p) /\ JoinRest(p, 0) \in Seq(Tokens)
  BY <1>3, JoinAt
<1>5. PICK q \in Seq(Tokens) : q = ItemsTokens(dat.items)
  BY <1>1, <1>2, <1>4
<1>6. AfterItems(0) = q \o <<End>> /\ AfterItems(0) \in Seq(Tokens)
  BY <1>1, <1>2, <1>3, <1>4, <1>5, AfterItemsType DEF AfterItems
<1>7. /\ {<<"clrmamepro">>, <<"game">>, <<"name">>, <<"dat">>, Start, End} \subseteq Tokens
      /\ <<>> \in Seq(Tokens)
  BY KeysAre
<1>22. PICK G \in Tokens, C \in Tokens, M \in Tokens, D \in Tokens :
         G = <<"game">> /\ C = <<"clrmamepro">> /\ M = <<"name">> /\ D = <<"dat">>
  BY <1>7
<1>23. G \in Tokens /\ C \in Tokens /\ M \in Tokens /\ D \in Tokens
  BY <1>22
<1>24. /\ <<G>> \in Seq(Tokens) /\ <<C>> \in Seq(Tokens) /\ <<M>> \in Seq(Tokens)
       /\ <<D>> \in Seq(Tokens) /\ <<Start>> \in Seq(Tokens) /\ <<End>> \in Seq(Tokens)
  BY <1>7, <1>23
<1>25. PICK s \in Seq(Tokens), e \in Seq(Tokens) : s = <<Start>> /\ e = <<End>>
  BY <1>24
<1>26. PICK g \in Seq(Tokens), c \in Seq(Tokens) : g = <<G>> /\ c = <<C>>
  BY <1>24
<1>27. PICK m \in Seq(Tokens), d \in Seq(Tokens) : m = <<M>> /\ d = <<D>>
  BY <1>24
<1>8. /\ s = <<Start>> /\ e = <<End>> /\ g = <<<<"game">>>> /\ c = <<<<"clrmamepro">>>>
      /\ m = <<<<"name">>>> /\ d = <<<<"dat">>>>
  BY <1>22, <1>25, <1>26, <1>27
<1>28. /\ s \in Seq(Tokens) /\ e \in Seq(Tokens) /\ g \in Seq(Tokens)
       /\ c \in Seq(Tokens) /\ m \in Seq(Tokens) /\ d \in Seq(Tokens)
  BY <1>25, <1>26, <1>27
<1>9. PICK a \in Seq(Tokens) : a = s \o AfterItems(0)
  BY <1>6, <1>28, ConcatProperties
<1>10. PICK b \in Seq(Tokens) : b = g \o a
  BY <1>9, <1>28, ConcatProperties
<1>11. b = GameAhead
  BY <1>8, <1>9, <1>10 DEF GameAhead
<1>29. b \in Seq(Tokens) /\ q \in Seq(Tokens)
  BY <1>5, <1>10
<1>12. ScopeTokens(<<"game">>, q) = b
  <2>1. PICK z \in Seq(Tokens) : z = <<>>
    BY <1>7
  <2>6. ScopeThen(G, q, z) /\ ScopeTokens(G, q) \in Seq(Tokens)
    BY <1>7, <1>23, <1>29, <2>1, ScopeIs
  <2>2. /\ ScopeTokens(G, q) \o z = <<G>> \o (<<Start>> \o (q \o (<<End>> \o z)))
        /\ ScopeTokens(G, q) \in Seq(Tokens)
    BY <2>6 DEF ScopeThen
  <2>3. <<End>> \o z = <<End>> /\ ScopeTokens(G, q) \o z = ScopeTokens(G, q)
    BY <1>24, <2>1, <2>2, ConcatEmptySeq
  <2>4. ScopeTokens(G, q) = g \o (s \o (q \o <<End>>))
    BY <1>25, <1>26, <2>2, <2>3
  <2>5. QED
    BY <1>6, <1>9, <1>10, <1>22, <2>4
<1>13. PICK u \in Seq(Tokens) : u = e \o b
  BY <1>28, <1>29, ConcatProperties
<1>30. PICK v \in Seq(Tokens) : v = d \o u
  BY <1>13, <1>28, ConcatProperties
<1>31. PICK w \in Seq(Tokens) : w = m \o v
  BY <1>28, <1>30, ConcatProperties
<1>32. PICK y \in Seq(Tokens) : y = s \o w
  BY <1>28, <1>31, ConcatProperties
<1>14. HeaderAhead = w
  BY <1>8, <1>11, <1>13, <1>30, <1>31 DEF HeaderAhead
<1>15. PICK n \in Seq(Tokens) : n = <<<<"name">>, <<"dat">>>> /\ n = m \o d
  <2>1. m \o d = <<<<"name">>, <<"dat">>>>
    BY <1>8, TwoOf
  <2>2. m \o d \in Seq(Tokens)
    BY <1>28, ConcatProperties
  <2>3. QED
    BY <2>1, <2>2
<1>16. ScopeTokens(<<"clrmamepro">>, n) \o b = c \o y
  <2>0. n \in Seq(Tokens) /\ u \in Seq(Tokens)
    BY <1>13, <1>15
  <2>6. ScopeThen(C, n, b)
    BY <1>7, <1>23, <1>29, <2>0, ScopeIs
  <2>1. ScopeTokens(C, n) \o b = <<C>> \o (<<Start>> \o (n \o (<<End>> \o b)))
    BY <2>6 DEF ScopeThen
  <2>2. (m \o d) \o u = m \o (d \o u)
    <3>1. Assoc(m, d, u)
      BY <1>28, <2>0, JoinAssoc
    <3>2. QED
      BY <3>1 DEF Assoc
  <2>3. n \o u = w
    BY <1>15, <1>30, <1>31, <2>2
  <2>4. ScopeTokens(C, n) \o b = c \o (s \o (n \o u))
    BY <1>13, <1>25, <1>26, <2>1
  <2>5. QED
    BY <1>22, <1>32, <2>3, <2>4
<1>17. HeaderTokens(dat) = IF dat.header THEN ScopeTokens(<<"clrmamepro">>, n) ELSE <<>>
  BY <1>15 DEF HeaderTokens
<1>18. DatTokens(dat) = HeaderTokens(dat) \o b
  BY <1>5, <1>12 DEF DatTokens
<1>19. <<>> \o b = b
  BY ConcatEmptySeq
<1>20. DatTokens(dat) = IF dat.header THEN c \o y ELSE b
  BY <1>16, <1>17, <1>18, <1>19
<1>21. QED
  BY <1>8, <1>9, <1>11, <1>13, <1>14, <1>20, <1>30, <1>31, <1>32

\* The entries of the DAT, item by item.
LEMMA EntriesAre ==
  ASSUME dat \in Dat
  PROVE  /\ EntriesUpTo(0) = <<>> /\ EntriesUpTo(Len(dat.items)) = Expected
         /\ \A i \in 0..Len(dat.items) : IsPrefix(EntriesUpTo(i), Expected)
         /\ \A h \in Nat : \A i \in 1..Len(dat.items) :
              i = h + 1 => EntriesUpTo(i) = IF dat.items[i].rom THEN Append(EntriesUpTo(h), EntryOfItem(i))
                                                                ELSE EntriesUpTo(h)
<1>1. Len(dat.items) \in Nat /\ DOMAIN dat.items = 1..Len(dat.items)
  BY DatIs
<1>2. PICK T : T = {EntryOfItem(i) : i \in 1..Len(dat.items)}
  OBVIOUS
<1>3. \A i \in 1..Len(dat.items) : EntryOfItem(i) \in T
  BY <1>2
<1>4. \A i \in 1..Len(dat.items) : EntriesOf(i) \in Seq(T)
  BY <1>3 DEF EntriesOf
<1>5. PICK p : p = EntryParts
  OBVIOUS
<1>6. p = [i \in 1..Len(dat.items) |-> EntriesOf(i)]
  BY <1>1, <1>5 DEF EntryParts
<1>7. p \in Seq(Seq(T)) /\ Len(p) = Len(dat.items)
  BY <1>1, <1>4, <1>6
<1>8. FlattenSeq(p) = Expected
  BY <1>5 DEF EntryParts, Expected
<1>9. \A i : EntriesUpTo(i) = JoinFirst(p, i)
  BY <1>5 DEF EntriesUpTo
<1>10. \A i \in 0..Len(p) :
         /\ JoinFirst(p, i) \in Seq(T) /\ JoinRest(p, i) \in Seq(T)
         /\ FlattenSeq(p) = JoinFirst(p, i) \o JoinRest(p, i)
         /\ JoinFirst(p, 0) = <<>>
         /\ i = Len(p) => JoinFirst(p, i) = FlattenSeq(p)
         /\ i < Len(p) => JoinFirst(p, i + 1) = JoinFirst(p, i) \o p[i + 1]
  BY <1>7, JoinAt
<1>11. ASSUME NEW i \in 0..Len(dat.items) PROVE IsPrefix(EntriesUpTo(i), Expected)
  <2>1. PICK a \in Seq(T), b \in Seq(T) : a = JoinFirst(p, i) /\ b = JoinRest(p, i)
    BY <1>7, <1>10
  <2>2. IsPrefix(a, a \o b)
    BY JoinPrefix
  <2>3. Expected = a \o b
    BY <1>7, <1>8, <1>10, <2>1
  <2>4. QED
    BY <1>9, <2>1, <2>2, <2>3
<1>12. EntriesUpTo(0) = <<>> /\ EntriesUpTo(Len(dat.items)) = Expected
  <2>1. 0 \in 0..Len(p) /\ Len(p) \in 0..Len(p)
    BY <1>1, <1>7
  <2>2. QED
    BY <1>7, <1>8, <1>9, <1>10, <2>1
<1>13. ASSUME NEW h \in Nat, NEW i \in 1..Len(dat.items), i = h + 1
       PROVE  EntriesUpTo(i) = IF dat.items[i].rom THEN Append(EntriesUpTo(h), EntryOfItem(i))
                                                   ELSE EntriesUpTo(h)
  <2>1. h \in 0..Len(p) /\ h < Len(p)
    BY <1>7, <1>13
  <2>2. JoinFirst(p, h) \in Seq(T) /\ JoinFirst(p, h + 1) = JoinFirst(p, h) \o p[h + 1]
    BY <1>10, <2>1
  <2>3. p[h + 1] = EntriesOf(i)
    BY <1>6, <1>13
  <2>4. PICK a \in Seq(T), x \in T : a = JoinFirst(p, h) /\ x = EntryOfItem(i)
    BY <1>3, <2>2
  <2>5. a \o <<>> = a /\ a \o <<x>> = Append(a, x)
    BY ConcatEmptySeq, AppendIsConcat
  <2>6. EntriesOf(i) = IF dat.items[i].rom THEN <<x>> ELSE <<>>
    BY <2>4 DEF EntriesOf
  <2>7. JoinFirst(p, i) = a \o EntriesOf(i)
    BY <1>13, <2>2, <2>3, <2>4
  <2>8. JoinFirst(p, i) = IF dat.items[i].rom THEN Append(a, x) ELSE a
    BY <2>5, <2>6, <2>7
  <2>9. QED
    BY <1>9, <2>4, <2>8
<1>14. QED
  BY <1>11, <1>12, <1>13
-----------------------------------------------------------------------------
(***************************************************************************)
(* Where the parser stands in the DAT.  In the header, at the game, behind *)
(* an item, at the bracket of a rom, behind a field, between its key and   *)
(* its value, or behind the game; and what it has by then.                 *)
(***************************************************************************)
Header == Append(<<>>, <<"clrmamepro">>)
Game == Append(<<>>, <<"game">>)
Scopes(i) == IF dat.items[i].rom THEN Append(Game, <<"rom">>) ELSE Game

EntryAfter(i) == IF i = 0 THEN fresh ELSE EntryOfItem(i)

AtHeader(v) ==
  /\ dat.header
  /\ \/ v = View(<<<<"clrmamepro">>>> \o (<<Start>> \o HeaderAhead), <<>>, FALSE, FALSE, FALSE, fresh, <<>>)
     \/ v = View(<<Start>> \o HeaderAhead, Header, TRUE, FALSE, FALSE, fresh, <<>>)
     \/ v = View(HeaderAhead, Header, FALSE, FALSE, FALSE, fresh, <<>>)
     \/ v = View(<<<<"dat">>>> \o (<<End>> \o GameAhead), Append(Header, <<"name">>), TRUE, FALSE, FALSE, fresh, <<>>)
     \/ v = View(<<End>> \o GameAhead, Header, FALSE, FALSE, FALSE, fresh, <<>>)

AtGame(v) ==
  \/ v = View(GameAhead, <<>>, FALSE, dat.header, FALSE, fresh, <<>>)
  \/ v = View(<<Start>> \o AfterItems(0), Game, TRUE, dat.header, FALSE, fresh, <<>>)

BehindItem(v, i) == v = View(AfterItems(i), Game, FALSE, dat.header, FALSE, EntryAfter(i), EntriesUpTo(i))

AtRom(v, h, i) ==
  /\ i = h + 1 /\ dat.items[i].rom
  /\ v = View(<<Start>> \o AfterFields(i, 0), Append(Game, <<"rom">>), TRUE, dat.header, FALSE,
              EntryAt(i, 0), EntriesUpTo(h))

BehindField(v, h, i, n) ==
  /\ i = h + 1
  /\ v = View(AfterFields(i, n), Scopes(i), FALSE, dat.header, dat.items[i].rom, EntryAt(i, n), EntriesUpTo(h))

AtValue(v, h, i, n) ==
  /\ i = h + 1 /\ n < Len(dat.items[i].fields)
  /\ v = View(<<dat.items[i].fields[n + 1].value>> \o AfterFields(i, n + 1),
              Append(Scopes(i), dat.items[i].fields[n + 1].key), TRUE, dat.header, dat.items[i].rom,
              EntryAt(i, n), EntriesUpTo(h))

BehindGame(v) == v = View(<<>>, <<>>, FALSE, dat.header, FALSE, EntryAfter(Len(dat.items)), Expected)

InDat(v) ==
  \/ AtHeader(v)
  \/ AtGame(v)
  \/ \E i \in 0..Len(dat.items) : BehindItem(v, i)
  \/ \E h \in Nat, i \in 1..Len(dat.items) : AtRom(v, h, i)
  \/ \E h \in Nat, i \in 1..Len(dat.items) : \E n \in 0..Len(dat.items[i].fields) :
       BehindField(v, h, i, n) \/ AtValue(v, h, i, n)
  \/ BehindGame(v)

\* A step of token() from a place in the DAT leads to one.
Leads == undefined' = FALSE /\ \E v : Seen' = v /\ InDat(v)

LEMMA StacksAre == /\ Header \in Seq(Tokens) /\ Game \in Seq(Tokens) /\ <<>> \in Seq(Tokens)
                   /\ Append(Game, <<"rom">>) \in Seq(Tokens) /\ \A i : Scopes(i) \in Seq(Tokens)
<1>1. <<"clrmamepro">> \in Tokens /\ <<"game">> \in Tokens /\ <<"rom">> \in Tokens /\ <<>> \in Seq(Tokens)
  BY KeysAre
<1>2. Header \in Seq(Tokens) /\ Game \in Seq(Tokens)
  BY <1>1, PushType DEF Header, Game
<1>3. Append(Game, <<"rom">>) \in Seq(Tokens)
  BY <1>1, <1>2, PushType
<1>4. QED
  BY <1>1, <1>2, <1>3 DEF Scopes

LEMMA HandlingIs == Handling => dat \in Dat
BY DEF Handling, TextInv

LEMMA HeaderStep ==
  ASSUME Handling, AtHeader(Seen)
  PROVE  Leads
<1>1. dat \in Dat /\ dat.header = TRUE
  BY HandlingIs, DatIs DEF AtHeader
<1>2. /\ GameAhead \in Seq(Tokens) /\ HeaderAhead \in Seq(Tokens) /\ <<Start>> \o HeaderAhead \in Seq(Tokens)
      /\ <<End>> \o GameAhead \in Seq(Tokens) /\ <<<<"dat">>>> \o (<<End>> \o GameAhead) \in Seq(Tokens)
  BY <1>1, DatTokensAre
<1>3. /\ <<"clrmamepro">> \in Tokens /\ <<"name">> \in Tokens /\ <<"dat">> \in Tokens
      /\ ~IsScope(<<"clrmamepro">>) /\ ~IsScope(<<"name">>) /\ ~IsScope(<<"dat">>)
      /\ Header \in Seq(Tokens) /\ <<>> \in Seq(Tokens)
  BY KeysAre, StacksAre
<1>4. /\ FALSE \in BOOLEAN /\ Opens(<<"clrmamepro">>, FALSE, FALSE)
      /\ Closes(<<"clrmamepro">>, FALSE, FALSE, fresh, <<>>, TRUE, FALSE, <<>>)
  BY ScopesOfADat
<1>5. CASE Seen = View(<<<<"clrmamepro">>>> \o (<<Start>> \o HeaderAhead), <<>>, FALSE, FALSE, FALSE, fresh, <<>>)
  <2>1. /\ Seen' = View(<<Start>> \o HeaderAhead, Append(<<>>, <<"clrmamepro">>), TRUE, FALSE, FALSE, fresh, <<>>)
        /\ undefined' = FALSE
    BY <1>2, <1>3, <1>5, TakeKey
  <2>2. QED
    BY <1>1, <2>1 DEF Leads, InDat, AtHeader, Header
<1>6. CASE Seen = View(<<Start>> \o HeaderAhead, Header, TRUE, FALSE, FALSE, fresh, <<>>)
  <2>1. /\ Seen' = View(HeaderAhead, Append(<<>>, <<"clrmamepro">>), FALSE, FALSE, FALSE, fresh, <<>>)
        /\ undefined' = FALSE
    BY <1>2, <1>3, <1>4, <1>6, TakeOpen DEF Header
  <2>2. QED
    BY <1>1, <2>1 DEF Leads, InDat, AtHeader, Header
<1>7. CASE Seen = View(HeaderAhead, Header, FALSE, FALSE, FALSE, fresh, <<>>)
  <2>1. /\ Seen' = View(<<<<"dat">>>> \o (<<End>> \o GameAhead), Append(Header, <<"name">>), TRUE, FALSE, FALSE, fresh, <<>>)
        /\ undefined' = FALSE
    BY <1>2, <1>3, <1>7, TakeKey DEF HeaderAhead
  <2>2. QED
    BY <1>1, <2>1 DEF Leads, InDat, AtHeader
<1>8. CASE Seen = View(<<<<"dat">>>> \o (<<End>> \o GameAhead), Append(Header, <<"name">>), TRUE, FALSE, FALSE, fresh, <<>>)
  <2>1. /\ Seen' = View(<<End>> \o GameAhead, Header, FALSE, FALSE, FALSE, IF FALSE THEN FieldSet(<<"name">>, <<"dat">>, FALSE, fresh) ELSE fresh, <<>>)
        /\ undefined' = FALSE
    BY <1>2, <1>3, <1>8, TakeValue
  <2>2. QED
    BY <1>1, <2>1 DEF Leads, InDat, AtHeader
<1>9. CASE Seen = View(<<End>> \o GameAhead, Header, FALSE, FALSE, FALSE, fresh, <<>>)
  <2>1. /\ Seen' = View(GameAhead, <<>>, FALSE, TRUE, FALSE, fresh, <<>>)
        /\ undefined' = FALSE
    BY <1>2, <1>3, <1>4, <1>9, TakeClose DEF Header
  <2>2. QED
    BY <1>1, <2>1 DEF Leads, InDat, AtGame
<1>10. QED
  BY <1>5, <1>6, <1>7, <1>8, <1>9 DEF AtHeader

LEMMA GameStep ==
  ASSUME Handling, AtGame(Seen)
  PROVE  Leads
<1>1. dat \in Dat /\ dat.header \in BOOLEAN /\ Len(dat.items) \in Nat /\ 0 \in 0..Len(dat.items)
  BY HandlingIs, DatIs
<1>2. /\ GameAhead \in Seq(Tokens) /\ <<Start>> \o AfterItems(0) \in Seq(Tokens)
      /\ AfterItems(0) \in Seq(Tokens)
  BY <1>1, DatTokensAre, AfterItemsType
<1>3. <<"game">> \in Tokens /\ ~IsScope(<<"game">>) /\ Game \in Seq(Tokens) /\ <<>> \in Seq(Tokens)
  BY KeysAre, StacksAre
<1>4. FALSE \in BOOLEAN /\ Opens(<<"game">>, FALSE, FALSE)
  BY ScopesOfADat
<1>5. CASE Seen = View(GameAhead, <<>>, FALSE, dat.header, FALSE, fresh, <<>>)
  <2>1. /\ Seen' = View(<<Start>> \o AfterItems(0), Append(<<>>, <<"game">>), TRUE, dat.header, FALSE, fresh, <<>>)
        /\ undefined' = FALSE
    BY <1>2, <1>3, <1>5, TakeKey DEF GameAhead
  <2>2. QED
    BY <2>1 DEF Leads, InDat, AtGame, Game
<1>6. CASE Seen = View(<<Start>> \o AfterItems(0), Game, TRUE, dat.header, FALSE, fresh, <<>>)
  <2>1. /\ Seen' = View(AfterItems(0), Append(<<>>, <<"game">>), FALSE, dat.header, FALSE, fresh, <<>>)
        /\ undefined' = FALSE
    BY <1>2, <1>3, <1>4, <1>6, TakeOpen DEF Game
  <2>2. EntriesUpTo(0) = <<>> /\ EntryAfter(0) = fresh
    BY <1>1, EntriesAre DEF EntryAfter
  <2>3. BehindItem(View(AfterItems(0), Game, FALSE, dat.header, FALSE, fresh, <<>>), 0)
    BY <2>2 DEF BehindItem
  <2>4. QED
    BY <1>1, <2>1, <2>3 DEF Leads, InDat, Game
<1>7. QED
  BY <1>5, <1>6 DEF AtGame
-----------------------------------------------------------------------------
(***************************************************************************)
(* A token handled at each of these places leads to the next.              *)
(***************************************************************************)
LEMMA RomStep ==
  ASSUME Handling, NEW h \in Nat, NEW i \in 1..Len(dat.items), AtRom(Seen, h, i)
  PROVE  Leads
<1>1. /\ dat \in Dat /\ dat.header \in BOOLEAN /\ dat.items[i].rom = TRUE /\ i = h + 1
      /\ 0 \in 0..Len(dat.items[i].fields)
  BY HandlingIs, DatIs DEF AtRom
<1>2. AfterFields(i, 0) \in Seq(Tokens)
  BY <1>1, AfterFieldsIs
<1>3. <<"rom">> \in Tokens /\ Game \in Seq(Tokens)
  BY KeysAre, StacksAre
<1>4. FALSE \in BOOLEAN /\ Opens(<<"rom">>, FALSE, TRUE)
  BY ScopesOfADat
<1>5. Seen = View(<<Start>> \o AfterFields(i, 0), Append(Game, <<"rom">>), TRUE, dat.header, FALSE,
                  EntryAt(i, 0), EntriesUpTo(h))
  BY DEF AtRom
<1>6. /\ Seen' = View(AfterFields(i, 0), Append(Game, <<"rom">>), FALSE, dat.header, TRUE,
                      EntryAt(i, 0), EntriesUpTo(h))
      /\ undefined' = FALSE
  BY <1>2, <1>3, <1>4, <1>5, TakeOpen
<1>7. PICK v : v = View(AfterFields(i, 0), Append(Game, <<"rom">>), FALSE, dat.header, TRUE,
                        EntryAt(i, 0), EntriesUpTo(h))
  OBVIOUS
<1>8. BehindField(v, h, i, 0)
  BY <1>1, <1>7 DEF BehindField, Scopes
<1>9. QED
  BY <1>1, <1>6, <1>7, <1>8 DEF Leads, InDat

LEMMA ValueStep ==
  ASSUME Handling, FreshOK, NEW h \in Nat, NEW i \in 1..Len(dat.items),
         NEW n \in 0..Len(dat.items[i].fields), AtValue(Seen, h, i, n)
  PROVE  Leads
<1>1. /\ dat \in Dat /\ dat.header \in BOOLEAN /\ i = h + 1
      /\ n < Len(dat.items[i].fields) /\ Len(dat.items[i].fields) \in Nat
  BY HandlingIs, DatIs DEF AtValue
<1>2. PICK m \in 1..Len(dat.items[i].fields) : m = n + 1
  BY <1>1
<1>3. PICK k, x : k = dat.items[i].fields[m].key /\ x = dat.items[i].fields[m].value
  OBVIOUS
<1>4. k \in Tokens /\ x \in Tokens /\ ~IsScope(x)
  BY <1>1, <1>3, FieldPartsAre
<1>5. m \in 0..Len(dat.items[i].fields)
  BY <1>2
<1>6. AfterFields(i, m) \in Seq(Tokens)
  BY <1>1, <1>5, AfterFieldsIs
<1>7. Scopes(i) \in Seq(Tokens)
  BY StacksAre
<1>8. Seen = View(<<x>> \o AfterFields(i, m), Append(Scopes(i), k), TRUE, dat.header, dat.items[i].rom,
                  EntryAt(i, n), EntriesUpTo(h))
  BY <1>2, <1>3 DEF AtValue
<1>9. PICK e : e = IF dat.header THEN FieldSet(k, x, dat.items[i].rom, EntryAt(i, n)) ELSE EntryAt(i, n)
  OBVIOUS
<1>10. /\ Seen' = View(AfterFields(i, m), Scopes(i), FALSE, dat.header, dat.items[i].rom,
                       IF dat.header THEN FieldSet(k, x, dat.items[i].rom, EntryAt(i, n)) ELSE EntryAt(i, n),
                       EntriesUpTo(h))
       /\ undefined' = FALSE
  BY <1>4, <1>6, <1>7, <1>8, TakeValue
<1>11. EntryAt(i, m) = e
  <2>1. PICK f : f = dat.items[i].fields[n + 1]
    OBVIOUS
  <2>2. n \in Nat /\ n + 1 <= Len(dat.items[i].fields)
    BY <1>1
  <2>3. EntryAt(i, n + 1) =
          IF dat.header THEN FieldSet(f.key, f.value, dat.items[i].rom, EntryAt(i, n)) ELSE EntryAt(i, n)
    BY <1>1, <2>1, <2>2, EntryStep
  <2>4. QED
    BY <1>2, <1>3, <1>9, <2>1, <2>3
<1>12. PICK v : v = View(AfterFields(i, m), Scopes(i), FALSE, dat.header, dat.items[i].rom, EntryAt(i, m), EntriesUpTo(h))
  OBVIOUS
<1>13. BehindField(v, h, i, m)
  BY <1>1, <1>12 DEF BehindField
<1>14. Seen' = v /\ undefined' = FALSE
  BY <1>9, <1>10, <1>11, <1>12
<1>15. QED
  BY <1>5, <1>13, <1>14 DEF Leads, InDat

\* A field is next.
LEMMA FieldStep ==
  ASSUME Handling, NEW h \in Nat, NEW i \in 1..Len(dat.items),
         NEW n \in 0..Len(dat.items[i].fields), n < Len(dat.items[i].fields), BehindField(Seen, h, i, n)
  PROVE  Leads
<1>1. /\ dat \in Dat /\ i = h + 1 /\ Len(dat.items[i].fields) \in Nat
  BY HandlingIs, DatIs DEF BehindField
<1>2. PICK m \in 1..Len(dat.items[i].fields) : m = n + 1
  BY <1>1
<1>3. PICK k, x : k = dat.items[i].fields[m].key /\ x = dat.items[i].fields[m].value
  OBVIOUS
<1>4. k \in Tokens /\ x \in Tokens /\ ~IsScope(k)
  BY <1>1, <1>3, FieldPartsAre
<1>5. m \in 0..Len(dat.items[i].fields)
  BY <1>2
<1>6. AfterFields(i, m) \in Seq(Tokens) /\ AfterFields(i, n) = <<k>> \o (<<x>> \o AfterFields(i, m))
  BY <1>1, <1>2, <1>3, <1>5, AfterFieldsIs
<1>7. <<x>> \o AfterFields(i, m) \in Seq(Tokens)
  BY <1>4, <1>6, ConcatProperties
<1>8. Seen = View(<<k>> \o (<<x>> \o AfterFields(i, m)), Scopes(i), FALSE, dat.header, dat.items[i].rom,
                  EntryAt(i, n), EntriesUpTo(h))
  BY <1>6 DEF BehindField
<1>9. /\ Seen' = View(<<x>> \o AfterFields(i, m), Append(Scopes(i), k), TRUE, dat.header, dat.items[i].rom,
                      EntryAt(i, n), EntriesUpTo(h))
      /\ undefined' = FALSE
  BY <1>4, <1>7, <1>8, TakeKey
<1>10. PICK v : v = View(<<x>> \o AfterFields(i, m), Append(Scopes(i), k), TRUE, dat.header, dat.items[i].rom,
                         EntryAt(i, n), EntriesUpTo(h))
  OBVIOUS
<1>11. AtValue(v, h, i, n)
  BY <1>1, <1>2, <1>3, <1>10 DEF AtValue
<1>12. QED
  BY <1>9, <1>10, <1>11 DEF Leads, InDat

\* The rom ends.
LEMMA RomEndStep ==
  ASSUME Handling, NEW h \in Nat, NEW i \in 1..Len(dat.items), NEW n, n = Len(dat.items[i].fields),
         BehindField(Seen, h, i, n), dat.items[i].rom
  PROVE  Leads
<1>1. /\ dat \in Dat /\ dat.header \in BOOLEAN /\ i = h + 1 /\ dat.items[i].rom = TRUE
      /\ n \in 0..n /\ n \in Nat
  BY HandlingIs, DatIs DEF BehindField
<1>2. i \in 0..Len(dat.items) /\ i # 0
  OBVIOUS
<1>3. AfterItems(i) \in Seq(Tokens)
  BY <1>1, <1>2, AfterItemsType
<1>4. AfterFields(i, n) = <<End>> \o AfterItems(i)
  BY <1>1, AfterFieldsIs
<1>5. <<"rom">> \in Tokens /\ Game \in Seq(Tokens)
  BY KeysAre, StacksAre
<1>6. TRUE \in BOOLEAN /\ Closes(<<"rom">>, dat.header, TRUE, EntryAt(i, n), EntriesUpTo(h), dat.header, FALSE,
                                Append(EntriesUpTo(h), EntryAt(i, n)))
  BY <1>1, ScopesOfADat
<1>7. Seen = View(<<End>> \o AfterItems(i), Append(Game, <<"rom">>), FALSE, dat.header, TRUE,
                  EntryAt(i, n), EntriesUpTo(h))
  BY <1>1, <1>4 DEF BehindField, Scopes
<1>8. /\ Seen' = View(AfterItems(i), Game, FALSE, dat.header, FALSE, EntryAt(i, n),
                      Append(EntriesUpTo(h), EntryAt(i, n)))
      /\ undefined' = FALSE
  BY <1>1, <1>3, <1>5, <1>6, <1>7, TakeClose
<1>9. EntryAt(i, n) = EntryOfItem(i) /\ EntryAfter(i) = EntryOfItem(i)
  BY <1>2 DEF EntryOfItem, EntryAfter
<1>10. EntriesUpTo(i) = Append(EntriesUpTo(h), EntryOfItem(i))
  BY <1>1, EntriesAre
<1>11. PICK v : v = View(AfterItems(i), Game, FALSE, dat.header, FALSE, EntryAfter(i), EntriesUpTo(i))
  OBVIOUS
<1>12. BehindItem(v, i) /\ Seen' = v
  BY <1>8, <1>9, <1>10, <1>11 DEF BehindItem
<1>13. QED
  BY <1>2, <1>8, <1>12 DEF Leads, InDat

\* What the entry is when item i begins.
LEMMA EntryNext ==
  ASSUME dat \in Dat, FreshOK, NEW h \in Nat, NEW i \in 1..Len(dat.items), i = h + 1
  PROVE  EntryAfter(h) = EntryAt(i, 0)
<1>1. CASE h = 0
  BY <1>1, EntryBefore DEF EntryAfter
<1>2. CASE h # 0
  <2>1. Len(dat.items) \in Nat
    BY DatIs
  <2>2. h \in 1..Len(dat.items)
    BY <1>2, <2>1
  <2>3. EntryAt(i, 0) = EntryOfItem(h)
    BY <2>2, EntryBefore
  <2>4. QED
    BY <1>2, <2>3 DEF EntryAfter
<1>3. QED
  BY <1>1, <1>2

\* The last of the game's own fields between two roms.
LEMMA FieldsEnd ==
  ASSUME dat \in Dat, NEW v, NEW h \in Nat, NEW i \in 1..Len(dat.items), NEW n,
         n = Len(dat.items[i].fields), BehindField(v, h, i, n), ~dat.items[i].rom
  PROVE  i \in 0..Len(dat.items) /\ BehindItem(v, i)
<1>1. /\ dat.items[i].rom = FALSE /\ i = h + 1 /\ n \in 0..n /\ n \in Nat /\ i # 0
  BY DatIs DEF BehindField
<1>2. AfterFields(i, n) = AfterItems(i)
  BY <1>1, AfterFieldsIs
<1>3. EntryAt(i, n) = EntryAfter(i)
  BY <1>1 DEF EntryOfItem, EntryAfter
<1>4. EntriesUpTo(i) = EntriesUpTo(h)
  BY <1>1, EntriesAre
<1>5. v = View(AfterFields(i, n), Scopes(i), FALSE, dat.header, dat.items[i].rom, EntryAt(i, n), EntriesUpTo(h))
  BY DEF BehindField
<1>6. Scopes(i) = Game
  BY DEF Scopes
<1>7. v = View(AfterFields(i, n), Game, FALSE, dat.header, FALSE, EntryAt(i, n), EntriesUpTo(h))
  BY <1>1, <1>5, <1>6
<1>8. v = View(AfterItems(i), Game, FALSE, dat.header, FALSE, EntryAfter(i), EntriesUpTo(i))
  BY <1>2, <1>3, <1>4, <1>7
<1>9. i \in 0..Len(dat.items)
  OBVIOUS
<1>10. QED
  BY <1>8, <1>9 DEF BehindItem

\* The game ends.
LEMMA GameEndStep ==
  ASSUME Handling, NEW i, i = Len(dat.items), BehindItem(Seen, i)
  PROVE  Leads
<1>1. /\ dat \in Dat /\ dat.header \in BOOLEAN /\ i \in Nat /\ i \in 0..i
  BY HandlingIs, DatIs
<1>2. AfterItems(i) = <<End>>
  BY <1>1, AfterItemsType
<1>3. <<"game">> \in Tokens /\ <<>> \in Seq(Tokens) /\ <<End>> \in Seq(Tokens)
  BY KeysAre, StacksAre
<1>4. <<End>> \o <<>> = <<End>>
  BY <1>3, ConcatEmptySeq
<1>5. FALSE \in BOOLEAN /\ Closes(<<"game">>, dat.header, FALSE, EntryAfter(i), EntriesUpTo(i), dat.header, FALSE,
                                 EntriesUpTo(i))
  BY <1>1, ScopesOfADat
<1>6. Seen = View(<<End>> \o <<>>, Append(<<>>, <<"game">>), FALSE, dat.header, FALSE, EntryAfter(i), EntriesUpTo(i))
  BY <1>2, <1>4 DEF BehindItem, Game
<1>7. /\ Seen' = View(<<>>, <<>>, FALSE, dat.header, FALSE, EntryAfter(i), EntriesUpTo(i))
      /\ undefined' = FALSE
  BY <1>1, <1>3, <1>5, <1>6, TakeClose
<1>8. EntriesUpTo(i) = Expected
  BY <1>1, EntriesAre
<1>9. QED
  BY <1>7, <1>8 DEF Leads, InDat, BehindGame

\* The next rom, or the next field of the game.
LEMMA NextItemStep ==
  ASSUME Handling, FreshOK, NEW h \in Nat, NEW i \in 1..Len(dat.items), i = h + 1,
         BehindItem(Seen, h), ~BehindItem(Seen, i)
  PROVE  Leads
<1>1. /\ dat \in Dat /\ dat.header \in BOOLEAN /\ dat.items[i].rom \in BOOLEAN
      /\ Len(dat.items[i].fields) \in Nat /\ 0 \in 0..Len(dat.items[i].fields)
  BY HandlingIs, DatIs
<1>2. AfterFields(i, 0) \in Seq(Tokens)
  BY <1>1, AfterFieldsIs
<1>3. EntryAfter(h) = EntryAt(i, 0)
  BY <1>1, EntryNext
<1>4. Seen = View(AfterItems(h), Game, FALSE, dat.header, FALSE, EntryAt(i, 0), EntriesUpTo(h))
  BY <1>3 DEF BehindItem
<1>5. CASE dat.items[i].rom
  <2>1. AfterItems(h) = <<<<"rom">>>> \o (<<Start>> \o AfterFields(i, 0))
    BY <1>1, <1>5, AfterItemsIs
  <2>2. <<"rom">> \in Tokens /\ ~IsScope(<<"rom">>) /\ Game \in Seq(Tokens) /\ <<Start>> \in Seq(Tokens)
    <3>1. "rom" \in Word
      BY KeysAre
    <3>2. QED
      BY <3>1, KeysAre, StacksAre
  <2>3. <<Start>> \o AfterFields(i, 0) \in Seq(Tokens)
    BY <1>2, <2>2, ConcatProperties
  <2>4. Seen = View(<<<<"rom">>>> \o (<<Start>> \o AfterFields(i, 0)), Game, FALSE, dat.header, FALSE,
                    EntryAt(i, 0), EntriesUpTo(h))
    BY <1>4, <2>1
  <2>5. /\ Seen' = View(<<Start>> \o AfterFields(i, 0), Append(Game, <<"rom">>), TRUE, dat.header, FALSE,
                        EntryAt(i, 0), EntriesUpTo(h))
        /\ undefined' = FALSE
    BY <2>2, <2>3, <2>4, TakeKey
  <2>6. PICK v : v = View(<<Start>> \o AfterFields(i, 0), Append(Game, <<"rom">>), TRUE, dat.header, FALSE,
                          EntryAt(i, 0), EntriesUpTo(h))
    OBVIOUS
  <2>7. AtRom(v, h, i)
    BY <1>5, <2>6 DEF AtRom
  <2>8. QED
    BY <2>5, <2>6, <2>7 DEF Leads, InDat
<1>6. CASE ~dat.items[i].rom
  <2>1. AfterItems(h) = AfterFields(i, 0) /\ dat.items[i].rom = FALSE
    BY <1>1, <1>6, AfterItemsIs
  <2>2. BehindField(Seen, h, i, 0)
    BY <1>4, <1>6, <2>1 DEF BehindField, Scopes
  <2>3. 0 # Len(dat.items[i].fields)
    BY <1>1, <1>6, <2>2, FieldsEnd
  <2>4. 0 < Len(dat.items[i].fields)
    BY <1>1, <2>3
  <2>5. QED
    BY <1>1, <2>2, <2>4, FieldStep
<1>7. QED
  BY <1>5, <1>6

LEMMA ItemStep ==
  ASSUME Handling, FreshOK, NEW g \in 0..Len(dat.items), BehindItem(Seen, g)
  PROVE  Leads
<1>1. Len(dat.items) \in Nat
  BY HandlingIs, DatIs
<1>2. PICK P : P = {j \in 0..Len(dat.items) : BehindItem(Seen, j)}
  OBVIOUS
<1>3. PICK h \in P : \A j \in P : j <= h
  <2>1. P # {} /\ P \subseteq 0..Len(dat.items)
    BY <1>2
  <2>2. QED
    BY <1>1, <2>1, SetMax
<1>4. h \in Nat /\ h <= Len(dat.items) /\ BehindItem(Seen, h)
  BY <1>1, <1>2, <1>3
<1>5. CASE h = Len(dat.items)
  BY <1>4, <1>5, GameEndStep
<1>6. CASE h # Len(dat.items)
  <2>1. PICK i \in 1..Len(dat.items) : i = h + 1
    BY <1>1, <1>4, <1>6
  <2>2. i \notin P
    BY <1>3, <1>4, <2>1
  <2>3. ~BehindItem(Seen, i)
    BY <1>1, <1>2, <2>1, <2>2
  <2>4. QED
    BY <1>4, <2>1, <2>3, NextItemStep
<1>7. QED
  BY <1>5, <1>6

\* A token is left when there is one to handle.
LEMMA OneIsLeft ==
  ASSUME Handling
  PROVE  ~BehindGame(Seen)
<1>1. StackInv /\ LexInv /\ TextInv /\ handled # Len(emitted)
  BY DEF Handling, HandleToken, AllHandled
<1>2. PICK r \in Seq(Tokens) : emitted \in Seq(Tokens) /\ DatTokens(dat) = emitted \o r
  BY <1>1, TokensOfTheDat
<1>3. PICK W \in Seq(Tokens), E \in Seq(Tokens) : W = DatTokens(dat) /\ E = emitted
  BY <1>2, ConcatProperties
<1>4. PICK h \in Nat : h = handled /\ h < Len(E)
  BY <1>1, <1>3 DEF StackInv, StackTypeOK
<1>5. Len(E) <= Len(W) /\ Len(W) \in Nat /\ Len(E) \in Nat
  BY <1>2, <1>3, JoinPrefix
<1>6. h \in 0..Len(W) /\ Len(W) - h # 0
  BY <1>4, <1>5
<1>7. Len(Rest(W, h)) = Len(W) - h
  BY <1>3, <1>6, RestIs
<1>8. Rest(W, h) # <<>>
  BY <1>6, <1>7
<1>9. Rest(DatTokens(dat), handled) # <<>>
  BY <1>3, <1>4, <1>8
<1>10. SUFFICES ASSUME BehindGame(Seen) PROVE FALSE
  OBVIOUS
<1>11. Seen = View(<<>>, <<>>, FALSE, dat.header, FALSE, EntryAfter(Len(dat.items)), Expected)
  BY <1>10 DEF BehindGame
<1>12. Rest(DatTokens(dat), handled) = <<>>
  BY <1>11, SeenIs
<1>13. QED
  BY <1>9, <1>12

LEMMA HandleInDat ==
  ASSUME Handling, FreshOK, InDat(Seen)
  PROVE  Leads
<1>1. dat \in Dat
  BY HandlingIs
<1>2. CASE AtHeader(Seen)
  BY <1>2, HeaderStep
<1>3. CASE AtGame(Seen)
  BY <1>3, GameStep
<1>4. ASSUME NEW i \in 0..Len(dat.items), BehindItem(Seen, i) PROVE Leads
  BY <1>4, ItemStep
<1>5. ASSUME NEW h \in Nat, NEW i \in 1..Len(dat.items), AtRom(Seen, h, i) PROVE Leads
  BY <1>5, RomStep
<1>6. ASSUME NEW h \in Nat, NEW i \in 1..Len(dat.items), NEW n \in 0..Len(dat.items[i].fields), AtValue(Seen, h, i, n)
      PROVE  Leads
  BY <1>6, ValueStep
<1>7. ASSUME NEW h \in Nat, NEW i \in 1..Len(dat.items), NEW n \in 0..Len(dat.items[i].fields), BehindField(Seen, h, i, n)
      PROVE  Leads
  <2>1. Len(dat.items[i].fields) \in Nat /\ dat.items[i].rom \in BOOLEAN
    BY <1>1, DatIs
  <2>2. CASE n < Len(dat.items[i].fields)
    BY <1>7, <2>2, FieldStep
  <2>3. CASE n = Len(dat.items[i].fields) /\ dat.items[i].rom
    BY <1>7, <2>3, RomEndStep
  <2>4. CASE n = Len(dat.items[i].fields) /\ ~dat.items[i].rom
    <3>1. i \in 0..Len(dat.items) /\ BehindItem(Seen, i)
      BY <1>1, <1>7, <2>4, FieldsEnd
    <3>2. QED
      BY <1>4, <3>1
  <2>5. n < Len(dat.items[i].fields) \/ n = Len(dat.items[i].fields)
    BY <2>1
  <2>6. QED
    BY <2>2, <2>3, <2>4, <2>5
<1>8. ~BehindGame(Seen)
  BY OneIsLeft
<1>9. QED
  BY <1>2, <1>3, <1>4, <1>5, <1>6, <1>7, <1>8 DEF InDat
-----------------------------------------------------------------------------
(***************************************************************************)
(* The invariant of the parser on the text of a DAT.                       *)
(***************************************************************************)
\* A place in the DAT depends on the DAT alone.
LEMMA KeptParts ==
  ASSUME UNCHANGED <<dat, fresh>>
  PROVE  /\ \A i : AfterItems(i)' = AfterItems(i)
         /\ \A i, n : AfterFields(i, n)' = AfterFields(i, n)
         /\ HeaderAhead' = HeaderAhead /\ GameAhead' = GameAhead
         /\ \A i : Scopes(i)' = Scopes(i)
<1>1. dat' = dat
  OBVIOUS
<1>2. ItemParts' = ItemParts
  BY <1>1 DEF ItemParts
<1>3. ASSUME NEW i PROVE FieldParts(i)' = FieldParts(i)
  BY <1>1 DEF FieldParts
<1>4. \A i : AfterItems(i)' = AfterItems(i)
  BY <1>2 DEF AfterItems
<1>5. ASSUME NEW i, NEW n PROVE AfterFields(i, n)' = AfterFields(i, n)
  BY <1>1, <1>3, <1>4 DEF AfterFields
<1>6. GameAhead' = GameAhead
  BY <1>4 DEF GameAhead
<1>7. HeaderAhead' = HeaderAhead
  BY <1>6 DEF HeaderAhead
<1>8. ASSUME NEW i PROVE Scopes(i)' = Scopes(i)
  BY <1>1 DEF Scopes
<1>9. QED
  BY <1>4, <1>5, <1>6, <1>7, <1>8

LEMMA KeptEntries ==
  ASSUME UNCHANGED <<dat, fresh>>
  PROVE  /\ \A i, n : EntryAt(i, n)' = EntryAt(i, n)
         /\ \A i : EntryAfter(i)' = EntryAfter(i)
         /\ \A i : EntriesUpTo(i)' = EntriesUpTo(i)
         /\ Expected' = Expected
<1>1. dat' = dat /\ fresh' = fresh
  OBVIOUS
<1>2. ASSUME NEW j, NEW m, NEW k PROVE Gives(j, m, k)' <=> Gives(j, m, k)
  BY <1>1 DEF Gives
<1>3. ASSUME NEW k, NEW i, NEW n PROVE Places(k, i, n)' = Places(k, i, n)
  BY <1>1 DEF Places, Gives
<1>4. ASSUME NEW i, NEW n PROVE EntryAt(i, n)' = EntryAt(i, n)
  <2>1. NameAt(i, n)' = NameAt(i, n)
    BY <1>1, <1>3 DEF NameAt, Latest
  <2>2. SizeAt(i, n)' = SizeAt(i, n)
    BY <1>1, <1>3 DEF SizeAt, Latest
  <2>3. CrcAt(i, n)' = CrcAt(i, n)
    BY <1>1, <1>3 DEF CrcAt, Latest
  <2>4. Md5At(i, n)' = Md5At(i, n)
    BY <1>1, <1>3 DEF Md5At, Latest
  <2>5. Sha1At(i, n)' = Sha1At(i, n)
    BY <1>1, <1>3 DEF Sha1At, Latest
  <2>6. EntryAt(i, n) = [name |-> NameAt(i, n),
          hash |-> [fresh.hash EXCEPT !.size = SizeAt(i, n), !.crc32 = CrcAt(i, n),
                                      !.md5 = Md5At(i, n), !.sha1 = Sha1At(i, n)]]
    BY DEF EntryAt, NameAt, SizeAt, CrcAt, Md5At, Sha1At
  <2>7. EntryAt(i, n)' = [name |-> NameAt(i, n)',
          hash |-> [fresh'.hash EXCEPT !.size = SizeAt(i, n)', !.crc32 = CrcAt(i, n)',
                                       !.md5 = Md5At(i, n)', !.sha1 = Sha1At(i, n)']]
    BY DEF EntryAt, NameAt, SizeAt, CrcAt, Md5At, Sha1At
  <2>8. QED
    BY <1>1, <2>1, <2>2, <2>3, <2>4, <2>5, <2>6, <2>7
<1>5. ASSUME NEW i PROVE EntryOfItem(i)' = EntryOfItem(i)
  BY <1>1, <1>4 DEF EntryOfItem
<1>6. ASSUME NEW i PROVE EntryAfter(i)' = EntryAfter(i)
  BY <1>1, <1>5 DEF EntryAfter
<1>7. ASSUME NEW i PROVE EntriesOf(i)' = EntriesOf(i)
  BY <1>1, <1>5 DEF EntriesOf
<1>8. EntryParts' = EntryParts
  BY <1>1, <1>7 DEF EntryParts
<1>9. Expected' = Expected
  <2>1. Expected = FlattenSeq(EntryParts) /\ Expected' = FlattenSeq(EntryParts)'
    BY DEF Expected, EntryParts
  <2>2. QED
    BY <1>8, <2>1
<1>10. ASSUME NEW i PROVE EntriesUpTo(i)' = EntriesUpTo(i)
  BY <1>8 DEF EntriesUpTo
<1>11. QED
  BY <1>4, <1>6, <1>9, <1>10

LEMMA KeptPlace ==
  ASSUME UNCHANGED <<dat, fresh>>, NEW v, InDat(v)
  PROVE  InDat(v)'
<1>1. /\ \A i : AfterItems(i)' = AfterItems(i)
      /\ \A i, n : AfterFields(i, n)' = AfterFields(i, n)
      /\ HeaderAhead' = HeaderAhead /\ GameAhead' = GameAhead
      /\ \A i : Scopes(i)' = Scopes(i)
  BY KeptParts
<1>2. /\ \A i, n : EntryAt(i, n)' = EntryAt(i, n)
      /\ \A i : EntryAfter(i)' = EntryAfter(i)
      /\ \A i : EntriesUpTo(i)' = EntriesUpTo(i)
      /\ Expected' = Expected
  BY KeptEntries
<1>3. dat' = dat /\ fresh' = fresh
  OBVIOUS
<1>4. AtHeader(v) => AtHeader(v)'
  BY <1>1, <1>3 DEF AtHeader
<1>5. AtGame(v) => AtGame(v)'
  BY <1>1, <1>3 DEF AtGame
<1>6. ASSUME NEW i, BehindItem(v, i) PROVE BehindItem(v, i)'
  BY <1>1, <1>2, <1>3, <1>6 DEF BehindItem
<1>7. ASSUME NEW h, NEW i, AtRom(v, h, i) PROVE AtRom(v, h, i)'
  BY <1>1, <1>2, <1>3, <1>7 DEF AtRom
<1>8. ASSUME NEW h, NEW i, NEW n, BehindField(v, h, i, n) PROVE BehindField(v, h, i, n)'
  BY <1>1, <1>2, <1>3, <1>8 DEF BehindField
<1>9. ASSUME NEW h, NEW i, NEW n, AtValue(v, h, i, n) PROVE AtValue(v, h, i, n)'
  BY <1>1, <1>2, <1>3, <1>9 DEF AtValue
<1>10. BehindGame(v) => BehindGame(v)'
  BY <1>2, <1>3 DEF BehindGame
<1>11. QED
  BY <1>3, <1>4, <1>5, <1>6, <1>7, <1>8, <1>9, <1>10 DEF InDat

\* The parser is at a place of the DAT, with what it has there.
PlaceInv == ~undefined /\ FreshOK /\ \E v : Seen = v /\ InDat(v)

DatInv == StackInv /\ LexInv /\ TextInv /\ PlaceInv

LEMMA PlaceInit == DatInit => DatInv
<1> SUFFICES ASSUME DatInit PROVE DatInv
  OBVIOUS
<1>1. TextInv /\ input \in Seq(Char) /\ ParserInit
  BY TextInit
<1>2. StackInv /\ LexInv
  BY <1>1, StackInvInit, LexInvInit
<1>3. dat \in Dat
  BY <1>1 DEF TextInv
<1>4. /\ handled = 0 /\ started = FALSE /\ insideRom = FALSE /\ result = <<>>
      /\ tokens = <<>> /\ partial = FALSE /\ undefined = FALSE
      /\ entry \in [name : {<<>>}, hash : Fresh] /\ fresh = entry
  BY DEF DatInit, ParserInit, TreeInit
<1>5. FreshOK
  <2>1. Fresh \subseteq HashRecord
    BY ClrMameAssumption
  <2>2. PICK f \in [name : {<<>>}, hash : Fresh] : f = fresh
    BY <1>4
  <2>3. f \in [name : Seq(Char), hash : HashRecord]
    <3>1. <<>> \in Seq(Char)
      OBVIOUS
    <3>2. f.name \in Seq(Char) /\ f.hash \in HashRecord
      BY <2>1, <3>1
    <3>3. f = [name |-> f.name, hash |-> f.hash]
      OBVIOUS
    <3>4. QED
      BY <3>2, <3>3
  <2>4. QED
    BY <2>2, <2>3 DEF FreshOK
<1>6. PICK W \in Seq(Tokens) : W = DatTokens(dat)
  <2>1. \E r \in Seq(Tokens) : emitted \in Seq(Tokens) /\ DatTokens(dat) = emitted \o r
    BY <1>1, <1>2, TokensOfTheDat
  <2>2. QED
    BY <2>1, ConcatProperties
<1>7. Rest(W, 0) = W
  <2>1. 0 \in 0..Len(W)
    OBVIOUS
  <2>2. QED
    BY <2>1, RestIs
<1>8. Seen = View(W, <<>>, FALSE, FALSE, FALSE, fresh, <<>>)
  BY <1>4, <1>6, <1>7 DEF Seen
<1>9. W = IF dat.header THEN <<<<"clrmamepro">>>> \o (<<Start>> \o HeaderAhead) ELSE GameAhead
  BY <1>3, <1>6, DatTokensAre
<1>10. CASE dat.header
  <2>1. AtHeader(Seen)
    BY <1>8, <1>9, <1>10 DEF AtHeader
  <2>2. QED
    BY <1>1, <1>2, <1>4, <1>5, <2>1 DEF DatInv, PlaceInv, InDat
<1>11. CASE ~dat.header
  <2>1. dat.header = FALSE
    BY <1>3, <1>11, DatIs
  <2>2. AtGame(Seen)
    BY <1>8, <1>9, <2>1 DEF AtGame
  <2>3. QED
    BY <1>1, <1>2, <1>4, <1>5, <2>2 DEF DatInv, PlaceInv, InDat
<1>12. QED
  BY <1>10, <1>11

LEMMA PlaceNext == DatInv /\ [Next /\ UNCHANGED <<dat, fresh>>]_datVars => DatInv'
<1> SUFFICES ASSUME DatInv, [Next /\ UNCHANGED <<dat, fresh>>]_datVars
             PROVE  DatInv'
  OBVIOUS
<1>1. StackInv /\ LexInv /\ TextInv /\ PlaceInv
  BY DEF DatInv
<1>2. [Next]_vars /\ UNCHANGED <<dat, fresh>>
  BY DEF datVars
<1>3. StackInv' /\ LexInv' /\ TextInv'
  BY <1>1, <1>2, StackInvNext, LexInvNext, TextStep DEF DatStep
<1>4. FreshOK'
  BY <1>1, <1>2 DEF PlaceInv, FreshOK
<1>5. PICK v : Seen = v /\ InDat(v)
  BY <1>1 DEF PlaceInv
<1>6. CASE HandleToken
  <2>1. Handling
    BY <1>1, <1>2, <1>6 DEF Handling, PlaceInv
  <2>2. Leads
    BY <1>1, <1>5, <2>1, HandleInDat DEF PlaceInv
  <2>3. PICK u : Seen' = u /\ InDat(u)
    BY <2>2 DEF Leads
  <2>4. InDat(u)'
    BY <1>2, <2>3, KeptPlace
  <2>5. undefined' = FALSE
    BY <2>2 DEF Leads
  <2>6. PlaceInv'
    BY <1>4, <2>3, <2>4, <2>5 DEF PlaceInv
  <2>7. QED
    BY <1>3, <2>6 DEF DatInv
<1>7. CASE UNCHANGED <<treeVars, handled, entryVars>>
  <2>1. Seen' = Seen
    BY <1>2, <1>7 DEF Seen, View, treeVars, entryVars
  <2>2. InDat(v)'
    BY <1>2, <1>5, KeptPlace
  <2>3. undefined' = undefined
    BY <1>7 DEF treeVars
  <2>4. PlaceInv'
    BY <1>1, <1>4, <1>5, <2>1, <2>2, <2>3 DEF PlaceInv
  <2>5. QED
    BY <1>3, <2>4 DEF DatInv
<1>8. QED
  BY <1>2, <1>6, <1>7 DEF Next, Tokenize, vars

LEMMA DatInvariant == DatSpec => []DatInv
  BY PlaceInit, PlaceNext, PTL DEF DatSpec

\* On the text of a DAT, token() never reads below its stack.
THEOREM DatNeverUndefinedAlways == DatSpec => []DatNeverUndefined
<1>1. DatInv => DatNeverUndefined
  BY DEF DatInv, PlaceInv, DatNeverUndefined
<1>2. QED
  BY <1>1, DatInvariant, PTL

\* A bracket, or a key, is ahead of every place but the last.
LEMMA NotEmptyAhead ==
  ASSUME NEW T, NEW a \in Seq(T), NEW x \in T
  PROVE  <<x>> \o a # <<>> /\ a \o <<x>> # <<>>
<1>1. Len(<<x>> \o a) = 1 + Len(a) /\ Len(a \o <<x>>) = Len(a) + 1 /\ Len(a) \in Nat
  OBVIOUS
<1>2. QED
  BY <1>1

LEMMA LastPlace ==
  ASSUME dat \in Dat, NEW v, InDat(v), v.ahead = <<>>
  PROVE  BehindGame(v)
<1>1. /\ <<"clrmamepro">> \in Tokens /\ <<"game">> \in Tokens /\ <<"name">> \in Tokens
      /\ <<"dat">> \in Tokens /\ Start \in Tokens /\ End \in Tokens
  BY KeysAre
<1>2. /\ GameAhead \in Seq(Tokens) /\ HeaderAhead \in Seq(Tokens) /\ <<Start>> \o HeaderAhead \in Seq(Tokens)
      /\ <<Start>> \o AfterItems(0) \in Seq(Tokens)
      /\ <<End>> \o GameAhead \in Seq(Tokens) /\ <<<<"dat">>>> \o (<<End>> \o GameAhead) \in Seq(Tokens)
  BY DatTokensAre
<1>3. \A a \in Seq(Tokens), x \in Tokens : <<x>> \o a # <<>> /\ a \o <<x>> # <<>>
  BY NotEmptyAhead
<1>4. ASSUME NEW i \in 0..Len(dat.items)
      PROVE  AfterItems(i) # <<>> /\ AfterItems(i) \in Seq(Tokens)
  <2>1. ItemParts \in Seq(Seq(Tokens)) /\ i \in 0..Len(ItemParts)
    BY ItemPartsAre
  <2>2. PICK p \in Seq(Seq(Tokens)) : p = ItemParts
    BY <2>1
  <2>3. JoinRest(p, i) \in Seq(Tokens)
    BY <2>1, <2>2, JoinAt
  <2>4. QED
    BY <1>1, <1>3, <2>2, <2>3, AfterItemsType DEF AfterItems
<1>5. ASSUME NEW i \in 1..Len(dat.items), NEW n \in 0..Len(dat.items[i].fields)
      PROVE  AfterFields(i, n) # <<>> /\ AfterFields(i, n) \in Seq(Tokens)
  <2>1. Len(dat.items[i].fields) \in Nat
    BY DatIs
  <2>2. AfterFields(i, n) \in Seq(Tokens)
    BY AfterFieldsIs
  <2>3. CASE n = Len(dat.items[i].fields)
    <3>1. AfterFields(i, n) = IF dat.items[i].rom THEN <<End>> \o AfterItems(i) ELSE AfterItems(i)
      BY <2>3, AfterFieldsIs
    <3>2. AfterItems(i) # <<>> /\ AfterItems(i) \in Seq(Tokens)
      BY <1>4
    <3>3. <<End>> \o AfterItems(i) # <<>>
      BY <1>1, <1>3, <3>2
    <3>4. QED
      BY <2>2, <3>1, <3>2, <3>3
  <2>4. CASE n < Len(dat.items[i].fields)
    <3>1. PICK m \in 1..Len(dat.items[i].fields) : m = n + 1
      BY <2>1, <2>4
    <3>2. PICK k \in Tokens, x \in Tokens : k = dat.items[i].fields[m].key /\ x = dat.items[i].fields[m].value
      BY FieldPartsAre
    <3>3. m \in 0..Len(dat.items[i].fields)
      BY <3>1
    <3>4. AfterFields(i, n) = <<k>> \o (<<x>> \o AfterFields(i, m)) /\ AfterFields(i, m) \in Seq(Tokens)
      BY <2>4, <3>1, <3>2, <3>3, AfterFieldsIs
    <3>5. <<x>> \in Seq(Tokens) /\ k \in Tokens
      BY <3>2
    <3>6. <<x>> \o AfterFields(i, m) \in Seq(Tokens)
      BY <3>4, <3>5, ConcatProperties
    <3>7. QED
      BY <1>3, <2>2, <3>4, <3>5, <3>6
  <2>5. QED
    BY <2>1, <2>3, <2>4
<1>6. ~AtHeader(v)
  <2>1. <<<<"clrmamepro">>>> \o (<<Start>> \o HeaderAhead) # <<>>
    BY <1>1, <1>2, <1>3
  <2>2. <<Start>> \o HeaderAhead # <<>> /\ <<End>> \o GameAhead # <<>>
    BY <1>1, <1>2, <1>3
  <2>3. HeaderAhead # <<>> /\ <<<<"dat">>>> \o (<<End>> \o GameAhead) # <<>>
    BY <1>1, <1>2, <1>3 DEF HeaderAhead
  <2>4. QED
    BY <2>1, <2>2, <2>3 DEF AtHeader, View
<1>7. ~AtGame(v)
  <2>1. 0 \in 0..Len(dat.items)
    BY DatIs
  <2>2. <<Start>> \o AfterItems(0) # <<>>
    BY <1>1, <1>3, <1>4, <2>1
  <2>3. GameAhead # <<>>
    BY <1>1, <1>2, <1>3 DEF GameAhead
  <2>4. QED
    BY <2>2, <2>3 DEF AtGame, View
<1>8. ASSUME NEW i \in 0..Len(dat.items) PROVE ~BehindItem(v, i)
  BY <1>4 DEF BehindItem, View
<1>9. ASSUME NEW h, NEW i \in 1..Len(dat.items) PROVE ~AtRom(v, h, i)
  <2>1. 0 \in 0..Len(dat.items[i].fields)
    BY DatIs
  <2>2. <<Start>> \o AfterFields(i, 0) # <<>>
    BY <1>1, <1>3, <1>5, <2>1
  <2>3. QED
    BY <2>2 DEF AtRom, View
<1>10. ASSUME NEW h, NEW i \in 1..Len(dat.items), NEW n \in 0..Len(dat.items[i].fields)
       PROVE  ~BehindField(v, h, i, n)
  BY <1>5 DEF BehindField, View
<1>11. ASSUME NEW h, NEW i \in 1..Len(dat.items), NEW n \in 0..Len(dat.items[i].fields)
       PROVE  ~AtValue(v, h, i, n)
  <2>1. SUFFICES ASSUME n < Len(dat.items[i].fields) PROVE ~AtValue(v, h, i, n)
    BY DEF AtValue
  <2>2. Len(dat.items[i].fields) \in Nat
    BY DatIs
  <2>3. PICK m \in 1..Len(dat.items[i].fields) : m = n + 1
    BY <2>1, <2>2
  <2>4. PICK x \in Tokens : x = dat.items[i].fields[m].value
    BY FieldPartsAre
  <2>5. m \in 0..Len(dat.items[i].fields)
    BY <2>3
  <2>6. AfterFields(i, m) \in Seq(Tokens)
    BY <1>5, <2>5
  <2>7. <<x>> \o AfterFields(i, m) # <<>>
    BY <1>3, <2>4, <2>6
  <2>8. QED
    BY <2>3, <2>4, <2>7 DEF AtValue, View
<1>12. QED
  BY <1>6, <1>7, <1>8, <1>9, <1>10, <1>11 DEF InDat

\* What is returned at each place.
LEMMA ResultAt ==
  ASSUME dat \in Dat, NEW v, InDat(v)
  PROVE  IsPrefix(v.result, Expected)
<1>2. Len(dat.items) \in Nat /\ 0 \in 0..Len(dat.items) /\ Len(dat.items) \in 0..Len(dat.items)
  BY DatIs
<1>3. /\ \A i \in 0..Len(dat.items) : IsPrefix(EntriesUpTo(i), Expected)
      /\ EntriesUpTo(0) = <<>> /\ EntriesUpTo(Len(dat.items)) = Expected
  BY EntriesAre
<1>4. IsPrefix(<<>>, Expected) /\ IsPrefix(Expected, Expected)
  BY <1>2, <1>3
<1>5. ASSUME NEW h \in Nat, NEW i \in 1..Len(dat.items), i = h + 1 PROVE IsPrefix(EntriesUpTo(h), Expected)
  BY <1>2, <1>3, <1>5
<1>6. AtHeader(v) => v.result = <<>>
  BY DEF AtHeader, View
<1>7. AtGame(v) => v.result = <<>>
  BY DEF AtGame, View
<1>8. ASSUME NEW i \in 0..Len(dat.items), BehindItem(v, i) PROVE IsPrefix(v.result, Expected)
  BY <1>3, <1>8 DEF BehindItem, View
<1>9. ASSUME NEW h \in Nat, NEW i \in 1..Len(dat.items), AtRom(v, h, i) PROVE IsPrefix(v.result, Expected)
  BY <1>5, <1>9 DEF AtRom, View
<1>10. ASSUME NEW h \in Nat, NEW i \in 1..Len(dat.items), NEW n, BehindField(v, h, i, n)
       PROVE  IsPrefix(v.result, Expected)
  BY <1>5, <1>10 DEF BehindField, View
<1>11. ASSUME NEW h \in Nat, NEW i \in 1..Len(dat.items), NEW n, AtValue(v, h, i, n)
       PROVE  IsPrefix(v.result, Expected)
  BY <1>5, <1>11 DEF AtValue, View
<1>12. BehindGame(v) => v.result = Expected
  BY DEF BehindGame, View
<1>13. QED
  BY <1>4, <1>6, <1>7, <1>8, <1>9, <1>10, <1>11, <1>12 DEF InDat

\* The parser returns an entry for each rom of the DAT, with the fields the
\* DAT gives it, and while it reads it has the first of them.
THEOREM ResultMatchesDatAlways == DatSpec => []ResultMatchesDat
<1>1. DatInv => ResultMatchesDat
  <2> SUFFICES ASSUME DatInv PROVE ResultMatchesDat
    OBVIOUS
  <2>1. StackInv /\ LexInv /\ TextInv /\ PlaceInv /\ dat \in Dat
    BY DEF DatInv, TextInv
  <2>2. PICK v : Seen = v /\ InDat(v)
    BY <2>1 DEF PlaceInv
  <2>3. v.ahead = Rest(DatTokens(dat), handled) /\ v.result = result
    BY <2>2 DEF Seen, View
  <2>4. IsPrefix(result, Expected)
    BY <2>1, <2>2, <2>3, ResultAt
  <2>5. ASSUME Returned PROVE result = Expected
    <3>1. emitted = DatTokens(dat) /\ handled = Len(emitted)
      BY <2>1, <2>5 DEF Returned, AllHandled, TextInv
    <3>2. PICK E \in Seq(Tokens) : E = emitted
      BY <2>1 DEF StackInv, StackTypeOK
    <3>3. Len(E) \in 0..Len(E)
      OBVIOUS
    <3>4. Rest(E, Len(E)) = <<>>
      BY <3>3, RestIs
    <3>5. v.ahead = <<>>
      BY <2>3, <3>1, <3>2, <3>4
    <3>6. BehindGame(v)
      BY <2>1, <2>2, <3>5, LastPlace
    <3>7. QED
      BY <2>3, <3>6 DEF BehindGame, View
  <2>6. QED
    BY <2>4, <2>5 DEF ResultMatchesDat
<1>2. QED
  BY <1>1, DatInvariant, PTL
=============================================================================
