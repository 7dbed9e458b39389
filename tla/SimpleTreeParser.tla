--------------------------- MODULE SimpleTreeParser ---------------------------
(***************************************************************************)
(* The scope parser of src/parsers/clrmamepro.cpp: token() pairs a key     *)
(* with the value that follows it and keeps the keys of open scopes on a   *)
(* stack.  There is one action per path through token(); each makes at     *)
(* most one callback, for which Top is the key.                            *)
(***************************************************************************)
EXTENDS Naturals, Sequences, SequencesExt

CONSTANTS Start, End    \* scope[0] and scope[1]

VARIABLES
  tokens,      \* keys of the open scopes, then the key waiting for a value
  partial,     \* a key was the last token
  undefined    \* back() or pop_back() was called on an empty vector

treeVars == <<tokens, partial, undefined>>

TreeInit ==
  /\ tokens = <<>>
  /\ partial = FALSE
  /\ undefined = FALSE

IsScope(t) == t \in {Start, End}

Top == Last(tokens)

\* A key: it waits for a value or for a start of scope.
PushKey(t) ==
  /\ ~undefined
  /\ ~IsScope(t)
  /\ ~partial
  /\ tokens' = Append(tokens, t)
  /\ partial' = TRUE
  /\ UNCHANGED undefined

\* Mutant of ReadPair: partial is not reset.
ReadPairPartial(t) ==
  /\ ~undefined
  /\ ~IsScope(t)
  /\ partial
  /\ tokens # <<>>
  /\ tokens' = Front(tokens)
  /\ UNCHANGED <<partial, undefined>>

\* The value t of the key Top: callbackPair(Top, t).
ReadPair(t) ==
  /\ ~undefined
  /\ ~IsScope(t)
  /\ partial
  /\ tokens # <<>>
  /\ tokens' = Front(tokens)
  /\ partial' = FALSE
  /\ UNCHANGED undefined

\* Mutants of OpenScope: partial stays set, the bracket is pushed, the key is
\* popped.
OpenScopePartial(t) ==
  /\ ~undefined
  /\ t = Start
  /\ tokens # <<>>
  /\ UNCHANGED <<tokens, partial, undefined>>

OpenScopePushes(t) ==
  /\ ~undefined
  /\ t = Start
  /\ tokens' = Append(tokens, t)
  /\ partial' = FALSE
  /\ UNCHANGED undefined

OpenScopePops(t) ==
  /\ ~undefined
  /\ t = Start
  /\ tokens # <<>>
  /\ tokens' = Front(tokens)
  /\ partial' = FALSE
  /\ UNCHANGED undefined

\* callbackScope(Top, false).  Top is meant to be a key that waits.
OpenScope(t) ==
  /\ ~undefined
  /\ t = Start
  /\ tokens # <<>>
  /\ partial' = FALSE
  /\ UNCHANGED <<tokens, undefined>>

\* Mutant of CloseScope: the scope stays on the stack.
CloseScopeKeepsKey(t) ==
  /\ ~undefined
  /\ t = End
  /\ t # Start
  /\ tokens # <<>>
  /\ partial' = FALSE
  /\ UNCHANGED <<tokens, undefined>>

\* callbackScope(Top, true), whatever Top is: a key that waits for a value
\* is taken for the scope.
CloseScope(t) ==
  /\ ~undefined
  /\ t = End
  /\ t # Start
  /\ tokens # <<>>
  /\ tokens' = Front(tokens)
  /\ partial' = FALSE
  /\ UNCHANGED undefined

\* back() of an empty vector.  Nothing is promised from here on.
BackOfEmpty(t) ==
  /\ ~undefined
  /\ IsScope(t) \/ partial
  /\ tokens = <<>>
  /\ undefined' = TRUE
  /\ UNCHANGED <<tokens, partial>>

(***************************************************************************)
(* A value always finds its key: pair() never takes the back of an empty   *)
(* vector, on any sequence of tokens at all.                               *)
(***************************************************************************)
KeyOnStack == partial => tokens # <<>>
=============================================================================
