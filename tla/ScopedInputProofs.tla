-------------------------- MODULE ScopedInputProofs --------------------------
(***************************************************************************)
(* Theorems about ScopedInput: SimpleTreeParser understands every          *)
(* well-formed text, over any words and of any depth.                      *)
(***************************************************************************)
EXTENDS ScopedInput, DataLemmas

\* The invariant is inductive as it stands.
IInv == TypeOK /\ InStep /\ NeverUndefined

\* Which path through token() each of the author's steps takes.
LEMMA WriteKeyEffect ==
  ASSUME IInv, NEW w \in Word, WriteKey(w)
  PROVE  PushKey(w) /\ call' = Silent /\ ~partial
<1>1. ~partial /\ Token(w)
  BY DEF WriteKey, IInv, InStep
<1>2. w \notin {Start, End}
  BY ScopedAssumption
<1>3. QED
  BY <1>1, <1>2 DEF Token, ReadPair, OpenScope, CloseScope, BackOfEmpty, IsScope

LEMMA WriteValueEffect ==
  ASSUME IInv, NEW w \in Word, WriteValue(w)
  PROVE  ReadPair(w) /\ call' = PairCall(Top, w)
<1>1. partial /\ Token(w)
  BY DEF WriteValue, IInv, InStep
<1>2. w \notin {Start, End}
  BY ScopedAssumption
<1>3. tokens # <<>>
  BY <1>1 DEF IInv, InStep, TypeOK
<1>4. QED
  BY <1>1, <1>2, <1>3 DEF Token, PushKey, OpenScope, CloseScope, BackOfEmpty, IsScope

LEMMA WriteStartEffect ==
  ASSUME IInv, WriteStart
  PROVE  OpenScope(Start) /\ call' = ScopeCall(Top, FALSE) /\ partial
<1>1. partial /\ Token(Start)
  BY DEF WriteStart, IInv, InStep
<1>2. tokens # <<>>
  BY <1>1 DEF IInv, InStep, TypeOK
<1>3. QED
  BY <1>1, <1>2, ScopedAssumption
     DEF Token, PushKey, ReadPair, CloseScope, BackOfEmpty, IsScope

LEMMA WriteEndEffect ==
  ASSUME IInv, WriteEnd
  PROVE  CloseScope(End) /\ call' = ScopeCall(Top, TRUE) /\ ~partial
<1>1. ~partial /\ Token(End) /\ depth > 0 /\ ~keyed
  BY DEF WriteEnd, IInv, InStep
<1>2. tokens # <<>>
  BY <1>1 DEF IInv, InStep, TypeOK
<1>3. QED
  BY <1>1, <1>2, ScopedAssumption
     DEF Token, PushKey, ReadPair, OpenScope, BackOfEmpty, IsScope

\* The callbacks have their type.
LEMMA PairCallType ==
  ASSUME NEW k \in Word, NEW v \in Word
  PROVE  PairCall(k, v) \in Callback
BY DEF Callback

LEMMA ScopeCallType ==
  ASSUME NEW k \in Word, NEW b \in BOOLEAN
  PROVE  ScopeCall(k, b) \in Callback
BY DEF Callback

LEMMA IInvInit == Init => IInv
<1> SUFFICES ASSUME Init
             PROVE  IInv
  OBVIOUS
<1>1. /\ tokens = <<>> /\ partial = FALSE /\ undefined = FALSE
      /\ depth = 0 /\ keyed = FALSE /\ call = Silent
  BY DEF Init, TreeInit
<1>2. TypeOK
  <2>1. call \in Callback
    BY <1>1 DEF Callback
  <2>2. tokens \in Seq(Word) /\ depth \in 0..MaxDepth
    BY <1>1, ScopedAssumption
  <2>3. QED
    BY <1>1, <2>1, <2>2 DEF TypeOK
<1>3. InStep /\ NeverUndefined
  <2>1. Len(tokens) = 0
    BY <1>1
  <2>2. QED
    BY <1>1, <2>1 DEF InStep, NeverUndefined
<1>4. QED
  BY <1>2, <1>3 DEF IInv

LEMMA IInvNext == IInv /\ [Next]_vars => IInv'
<1> SUFFICES ASSUME IInv, [Next]_vars
             PROVE  IInv'
  OBVIOUS
<1>0. /\ tokens \in Seq(Word) /\ depth \in Nat /\ depth <= MaxDepth /\ MaxDepth \in Nat
      /\ undefined \in BOOLEAN /\ ~undefined
      /\ (partial <=> keyed)
      /\ Len(tokens) = depth + (IF keyed THEN 1 ELSE 0)
  BY ScopedAssumption DEF IInv, TypeOK, InStep, NeverUndefined
<1>1. ASSUME NEW w \in Word, WriteKey(w)
      PROVE  IInv'
  <2>1. /\ tokens' = Append(tokens, w) /\ partial' = TRUE /\ undefined' = undefined
        /\ call' = Silent
    BY <1>1, WriteKeyEffect DEF PushKey
  <2>2. keyed' = TRUE /\ depth' = depth /\ ~keyed
    BY <1>1 DEF WriteKey
  <2>3. tokens' \in Seq(Word) /\ Len(tokens') = Len(tokens) + 1
    BY <1>0, <2>1, PushType, PushLen
  <2>4. TypeOK'
    <3>1. call' \in Callback
      BY <2>1 DEF Callback
    <3>2. partial' \in BOOLEAN /\ undefined' \in BOOLEAN /\ keyed' \in BOOLEAN
      BY <1>0, <2>1, <2>2
    <3>3. tokens' \in Seq(Word) /\ depth' \in 0..MaxDepth
      BY <1>0, <2>1, <2>2, <2>3
    <3>4. QED
      BY <3>1, <3>2, <3>3 DEF TypeOK
  <2>5. InStep'
    BY <1>0, <2>1, <2>2, <2>3 DEF InStep
  <2>6. QED
    BY <1>0, <2>1, <2>4, <2>5 DEF IInv, NeverUndefined
<1>2. ASSUME NEW w \in Word, WriteValue(w)
      PROVE  IInv'
  <2>1. /\ tokens' = Front(tokens) /\ partial' = FALSE /\ undefined' = undefined
        /\ call' = PairCall(Top, w) /\ tokens # <<>>
    BY <1>2, WriteValueEffect DEF ReadPair
  <2>2. keyed' = FALSE /\ depth' = depth /\ keyed
    BY <1>2 DEF WriteValue
  <2>3. tokens' \in Seq(Word) /\ Len(tokens') = Len(tokens) - 1
    BY <1>0, <2>1, PopType, PopLen
  <2>4. Top \in Word
    BY <1>0, <2>1, TopType DEF Top
  <2>5. TypeOK'
    <3>1. call' \in Callback
      BY <2>1, <2>4, PairCallType
    <3>2. partial' \in BOOLEAN /\ undefined' \in BOOLEAN /\ keyed' \in BOOLEAN
      BY <1>0, <2>1, <2>2
    <3>3. tokens' \in Seq(Word) /\ depth' \in 0..MaxDepth
      BY <1>0, <2>1, <2>2, <2>3
    <3>4. QED
      BY <3>1, <3>2, <3>3 DEF TypeOK
  <2>6. InStep'
    BY <1>0, <2>1, <2>2, <2>3 DEF InStep
  <2>7. QED
    BY <1>0, <2>1, <2>5, <2>6 DEF IInv, NeverUndefined
<1>3. CASE WriteStart
  <2>1. /\ tokens' = tokens /\ partial' = FALSE /\ undefined' = undefined
        /\ call' = ScopeCall(Top, FALSE) /\ tokens # <<>>
    BY <1>3, WriteStartEffect DEF OpenScope
  <2>2. keyed' = FALSE /\ depth' = depth + 1 /\ keyed /\ depth < MaxDepth
    BY <1>3 DEF WriteStart
  <2>3. Top \in Word
    BY <1>0, <2>1, TopType DEF Top
  <2>4. depth' \in 0..MaxDepth
    BY <1>0, <2>2
  <2>5. TypeOK'
    <3>1. call' \in Callback
      BY <2>1, <2>3, ScopeCallType
    <3>2. partial' \in BOOLEAN /\ undefined' \in BOOLEAN /\ keyed' \in BOOLEAN
      BY <1>0, <2>1, <2>2
    <3>3. tokens' \in Seq(Word) /\ depth' \in 0..MaxDepth
      BY <1>0, <2>1, <2>2, <2>4
    <3>4. QED
      BY <3>1, <3>2, <3>3 DEF TypeOK
  <2>6. InStep'
    BY <1>0, <2>1, <2>2 DEF InStep
  <2>7. QED
    BY <1>0, <2>1, <2>5, <2>6 DEF IInv, NeverUndefined
<1>4. CASE WriteEnd
  <2>1. /\ tokens' = Front(tokens) /\ partial' = FALSE /\ undefined' = undefined
        /\ call' = ScopeCall(Top, TRUE) /\ tokens # <<>>
    BY <1>4, WriteEndEffect DEF CloseScope
  <2>2. keyed' = keyed /\ depth' = depth - 1 /\ ~keyed /\ depth > 0
    BY <1>4 DEF WriteEnd
  <2>3. tokens' \in Seq(Word) /\ Len(tokens') = Len(tokens) - 1
    BY <1>0, <2>1, PopType, PopLen
  <2>4. Top \in Word
    BY <1>0, <2>1, TopType DEF Top
  <2>5. depth' \in 0..MaxDepth
    BY <1>0, <2>2
  <2>6. keyed' = FALSE
    BY <1>0, <2>2 DEF IInv, TypeOK
  <2>7. TypeOK'
    <3>1. call' \in Callback
      BY <2>1, <2>4, ScopeCallType
    <3>2. QED
      BY <1>0, <2>1, <2>3, <2>5, <2>6, <3>1 DEF TypeOK
  <2>8. InStep'
    BY <1>0, <2>1, <2>2, <2>3, <2>6 DEF InStep
  <2>9. QED
    BY <1>0, <2>1, <2>7, <2>8 DEF IInv, NeverUndefined
<1>5. CASE UNCHANGED vars
  BY <1>5 DEF vars, treeVars, IInv, TypeOK, InStep, NeverUndefined
<1>6. QED
  BY <1>1, <1>2, <1>3, <1>4, <1>5 DEF Next

LEMMA Invariant == Spec => []IInv
  BY IInvInit, IInvNext, PTL DEF Spec

\* Type correctness.
THEOREM TypeCorrect == Spec => []TypeOK
<1>1. IInv => TypeOK
  BY DEF IInv
<1>2. QED
  BY <1>1, Invariant, PTL

\* The stack follows the text, whatever its words and however deep it nests.
THEOREM InStepAlways == Spec => []InStep
<1>1. IInv => InStep
  BY DEF IInv
<1>2. QED
  BY <1>1, Invariant, PTL

\* No well-formed text leads to undefined behaviour.
THEOREM NeverUndefinedAlways == Spec => []NeverUndefined
<1>1. IInv => NeverUndefined
  BY DEF IInv
<1>2. QED
  BY <1>1, Invariant, PTL
-----------------------------------------------------------------------------
\* SimpleTreeParser implements ScopeTree on every well-formed text.
THEOREM Refinement == Spec => ImplementsScopeTree
<1> DEFINE scopesOf == IF partial THEN Front(tokens) ELSE tokens
           keyOf == IF partial THEN Top ELSE NoWord
<1>1. Init => Abstract!Init
  BY DEF Init, TreeInit, Abstract!Init, Silent, Abstract!Silent
<1>2. IInv /\ IInv' /\ [Next]_vars => [Abstract!Next]_(Abstract!vars)
  <2> SUFFICES ASSUME IInv, IInv', [Next]_vars
               PROVE  Abstract!Next \/ UNCHANGED Abstract!vars
    OBVIOUS
  <2>0. tokens \in Seq(Word) /\ NoWord \notin Word
    BY ScopedAssumption DEF IInv, TypeOK
  <2>1. ASSUME NEW w \in Word, WriteKey(w)
        PROVE  Abstract!Next
    <3>1. tokens' = Append(tokens, w) /\ partial' = TRUE /\ ~partial /\ call' = Silent
      BY <2>1, WriteKeyEffect DEF PushKey
    <3>2. keyOf = NoWord /\ scopesOf = tokens
      BY <3>1
    <3>3. keyOf' = w
      BY <2>0, <3>1, PushTop DEF Top
    <3>4. scopesOf' = tokens
      BY <2>0, <3>1, PopPush
    <3>5. Abstract!Key(w)
      BY <3>1, <3>2, <3>3, <3>4 DEF Abstract!Key, Silent, Abstract!Silent
    <3>6. QED
      BY <3>5 DEF Abstract!Next
  <2>2. ASSUME NEW w \in Word, WriteValue(w)
        PROVE  Abstract!Next
    <3>1. /\ tokens' = Front(tokens) /\ partial' = FALSE /\ partial
          /\ tokens # <<>> /\ call' = PairCall(Top, w)
      BY <2>2, WriteValueEffect DEF ReadPair
    <3>2. keyOf = Top /\ scopesOf = Front(tokens) /\ Top # NoWord
      BY <2>0, <3>1, TopType DEF Top
    <3>3. keyOf' = NoWord /\ scopesOf' = Front(tokens)
      BY <3>1
    <3>4. Abstract!Value(w)
      BY <3>1, <3>2, <3>3 DEF Abstract!Value, PairCall, Abstract!PairCall
    <3>5. QED
      BY <3>4 DEF Abstract!Next
  <2>3. CASE WriteStart
    <3>1. /\ tokens' = tokens /\ partial' = FALSE /\ partial
          /\ tokens # <<>> /\ call' = ScopeCall(Top, FALSE)
      BY <2>3, WriteStartEffect DEF OpenScope
    <3>2. keyOf = Top /\ scopesOf = Front(tokens) /\ Top # NoWord
      BY <2>0, <3>1, TopType DEF Top
    <3>3. keyOf' = NoWord /\ scopesOf' = tokens
      BY <3>1
    <3>4. Append(Front(tokens), Top) = tokens
      BY <2>0, <3>1, PushPop DEF Top
    <3>5. Abstract!Open
      BY <3>1, <3>2, <3>3, <3>4 DEF Abstract!Open, ScopeCall, Abstract!ScopeCall
    <3>6. QED
      BY <3>5 DEF Abstract!Next
  <2>4. CASE WriteEnd
    <3>1. /\ tokens' = Front(tokens) /\ partial' = FALSE /\ ~partial
          /\ tokens # <<>> /\ call' = ScopeCall(Top, TRUE)
      BY <2>4, WriteEndEffect DEF CloseScope
    <3>2. keyOf = NoWord /\ scopesOf = tokens /\ keyOf' = NoWord /\ scopesOf' = Front(tokens)
      BY <3>1
    <3>3. scopesOf # <<>> /\ Last(scopesOf) = Top /\ Front(scopesOf) = Front(tokens)
      BY <3>1, <3>2 DEF Top
    <3>4. call' = Abstract!ScopeCall(Last(scopesOf), TRUE)
      BY <3>1, <3>3 DEF ScopeCall, Abstract!ScopeCall
    <3>5. \A s : Abstract!Front(s) = Front(s) /\ Abstract!Last(s) = Last(s)
      BY DEF Front, Last, Abstract!Front, Abstract!Last
    <3>6. scopesOf' = Front(scopesOf) /\ keyOf' = keyOf /\ keyOf = NoWord
      BY <3>2, <3>3
    <3>7. Abstract!Close
      BY <3>3, <3>6, <3>4, <3>5, Zenon DEF Abstract!Close
    <3>8. QED
      BY <3>7 DEF Abstract!Next
  <2>5. CASE UNCHANGED vars
    BY <2>5 DEF vars, treeVars, Abstract!vars, Top
  <2>6. QED
    BY <2>1, <2>2, <2>3, <2>4, <2>5 DEF Next
<1>3. QED
  BY <1>1, <1>2, Invariant, PTL DEF Spec, ImplementsScopeTree, Abstract!Spec
=============================================================================
