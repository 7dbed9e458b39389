------------------------------ MODULE Catalogue ------------------------------
(***************************************************************************)
(* What the import promises the file system, with no pointers and no       *)
(* sharing: a catalogue of DATs, each a map from ROM name to contents.     *)
(* While it is open DATs and ROMs may be added but nothing already there   *)
(* changes or disappears; once sealed it is fixed.                         *)
(***************************************************************************)
CONSTANTS Dat, Rom, Content

VARIABLES catalogue, sealed

vars == <<catalogue, sealed>>

Empty == [x \in {} |-> x]

Extend(m, k, v) == [x \in DOMAIN m \cup {k} |-> IF x = k THEN v ELSE m[x]]

Init == catalogue = Empty /\ sealed = FALSE

AddDat(d) ==
  /\ ~sealed
  /\ d \notin DOMAIN catalogue
  /\ catalogue' = Extend(catalogue, d, Empty)
  /\ UNCHANGED sealed

AddRom(d, r, c) ==
  /\ ~sealed
  /\ d \in DOMAIN catalogue
  /\ r \notin DOMAIN catalogue[d]
  /\ catalogue' = [catalogue EXCEPT ![d] = Extend(@, r, c)]
  /\ UNCHANGED sealed

Seal ==
  /\ ~sealed
  /\ sealed' = TRUE
  /\ UNCHANGED catalogue

Next ==
  \/ \E d \in Dat : AddDat(d)
  \/ \E d \in Dat, r \in Rom, c \in Content : AddRom(d, r, c)
  \/ Seal

Spec == Init /\ [][Next]_vars
=============================================================================
