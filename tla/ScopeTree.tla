------------------------------ MODULE ScopeTree ------------------------------
(***************************************************************************)
(* What SimpleTreeParser promises for a well-formed text: a text of nested *)
(* scopes, "key ( ... )", and of pairs, "key value".  Each pair is         *)
(* reported with its own key and the end of each scope with the key the    *)
(* scope was opened with.                                                  *)
(***************************************************************************)
EXTENDS Naturals, Sequences, SequencesExt

CONSTANTS
  Word,    \* keys and values
  NoWord   \* no key is waiting

VARIABLES
  scopes,   \* keys of the open scopes, the innermost last
  key,      \* the key that waits for its value or scope
  call      \* the last callback

vars == <<scopes, key, call>>

\* Callbacks, and none.
Silent == [kind |-> "none"]
PairCall(k, v) == [kind |-> "pair", key |-> k, value |-> v]
ScopeCall(k, isEnd) == [kind |-> "scope", key |-> k, isEnd |-> isEnd]

Init ==
  /\ scopes = <<>>
  /\ key = NoWord
  /\ call = Silent

Key(k) ==
  /\ key = NoWord
  /\ key' = k
  /\ call' = Silent
  /\ UNCHANGED scopes

Value(v) ==
  /\ key # NoWord
  /\ key' = NoWord
  /\ call' = PairCall(key, v)
  /\ UNCHANGED scopes

Open ==
  /\ key # NoWord
  /\ key' = NoWord
  /\ scopes' = Append(scopes, key)
  /\ call' = ScopeCall(key, FALSE)

Close ==
  /\ key = NoWord
  /\ scopes # <<>>
  /\ scopes' = Front(scopes)
  /\ call' = ScopeCall(Last(scopes), TRUE)
  /\ UNCHANGED key

Next ==
  \/ \E w \in Word : Key(w) \/ Value(w)
  \/ Open
  \/ Close

Spec == Init /\ [][Next]_vars
=============================================================================
