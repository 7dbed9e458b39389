----------------------------- MODULE ScopedInput -----------------------------
(***************************************************************************)
(* SimpleTreeParser fed with a well-formed text.  The author of the text   *)
(* knows only how deep it is nested and whether a key is waiting; the      *)
(* parser must find out which scope each end closes.                       *)
(***************************************************************************)
EXTENDS SimpleTreeParser

CONSTANTS
  Word,       \* tokens that are keys and values
  NoWord,     \* no token
  MaxDepth    \* bound on the nesting

ASSUME ScopedAssumption ==
  /\ Start # End
  /\ Start \notin Word
  /\ End \notin Word
  /\ NoWord \notin Word
  /\ MaxDepth \in Nat

VARIABLES
  depth,   \* scopes the author has open
  keyed,   \* the author has written a key and nothing after it
  call     \* the last callback of the parser

vars == <<treeVars, depth, keyed, call>>

Silent == [kind |-> "none"]
PairCall(k, v) == [kind |-> "pair", key |-> k, value |-> v]
ScopeCall(k, isEnd) == [kind |-> "scope", key |-> k, isEnd |-> isEnd]

Callback == {Silent} \cup {PairCall(k, v) : k, v \in Word}
                     \cup {ScopeCall(k, isEnd) : k \in Word, isEnd \in BOOLEAN}

TypeOK ==
  /\ tokens \in Seq(Word)
  /\ partial \in BOOLEAN /\ undefined \in BOOLEAN /\ keyed \in BOOLEAN
  /\ depth \in 0..MaxDepth
  /\ call \in Callback

Init ==
  /\ TreeInit
  /\ depth = 0
  /\ keyed = FALSE
  /\ call = Silent

\* token(t), with the callback it makes.
Token(t) ==
  \/ PushKey(t) /\ call' = Silent
  \/ ReadPair(t) /\ call' = PairCall(Top, t)
  \/ OpenScope(t) /\ call' = ScopeCall(Top, FALSE)
  \/ CloseScope(t) /\ call' = ScopeCall(Top, TRUE)
  \/ BackOfEmpty(t) /\ UNCHANGED call
-----------------------------------------------------------------------------
\* The author's grammar.
WriteKey(w) ==
  /\ ~keyed
  /\ keyed' = TRUE
  /\ UNCHANGED depth
  /\ Token(w)

WriteValue(w) ==
  /\ keyed
  /\ keyed' = FALSE
  /\ UNCHANGED depth
  /\ Token(w)

WriteStart ==
  /\ keyed
  /\ depth < MaxDepth
  /\ keyed' = FALSE
  /\ depth' = depth + 1
  /\ Token(Start)

WriteEnd ==
  /\ ~keyed
  /\ depth > 0
  /\ UNCHANGED keyed
  /\ depth' = depth - 1
  /\ Token(End)

Next ==
  \/ \E w \in Word : WriteKey(w) \/ WriteValue(w)
  \/ WriteStart
  \/ WriteEnd

Spec == Init /\ [][Next]_vars
-----------------------------------------------------------------------------
(***************************************************************************)
(* A well-formed text never takes the parser to an empty stack.            *)
(***************************************************************************)
NeverUndefined == ~undefined

(***************************************************************************)
(* The parser is never ahead of the text or behind it: its stack holds one *)
(* key per open scope, and one more exactly while a key is waiting.        *)
(***************************************************************************)
InStep ==
  /\ partial <=> keyed
  /\ Len(tokens) = depth + (IF keyed THEN 1 ELSE 0)

(***************************************************************************)
(* Pairs and ends of scopes are reported with the keys they belong to,     *)
(* although the parser keeps both kinds of key on one stack.               *)
(***************************************************************************)
Abstract == INSTANCE ScopeTree WITH
  scopes <- IF partial THEN Front(tokens) ELSE tokens,
  key <- IF partial THEN Top ELSE NoWord

ImplementsScopeTree == Abstract!Spec
=============================================================================
