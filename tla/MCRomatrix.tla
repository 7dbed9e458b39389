------------------------------ MODULE MCRomatrix ------------------------------
(***************************************************************************)
(* A small instance of the whole program: three files, two of which are    *)
(* one DAT, and two records of different size.  A ROM is named like a DAT, *)
(* another has a name of two components.                                   *)
(***************************************************************************)
EXTENDS Romatrix, TLC

Record(n, m) == [size |-> n, crc32 |-> 1, md5 |-> m, sha1 |-> "s1",
                 md5enabled |-> TRUE, sha1enabled |-> TRUE]

MCPrefix == ("m1" :> 1) @@ ("m2" :> 2) @@ ("s1" :> 3)

Component == {"a", "b"}
MCDatName == {<<"a">>, <<"b">>}
MCRomName == {<<"a">>, <<"a", "b">>}

MCFile == {"f1", "f2", "f3"}
MCFileName == [f \in MCFile |-> IF f = "f2" THEN <<"b">> ELSE <<"a">>]

\* No entry, for a file neither parser finds anything in, or one.
MCEmpty == {<<>>}
MCResult ==
  {<<>>} \cup
  {<<[name |-> n, hash |-> h]>> :
     n \in MCRomName, h \in {Record(1, "m1"), Record(2, "m2")}}

\* Every path of at most three components, and a relative one.
MCPath ==
  {[absolute |-> TRUE, names |-> s] :
     s \in UNION {[1..n -> Component] : n \in 0..3}}
  \cup {[absolute |-> FALSE, names |-> <<"a">>]}

\* Addresses below the two special handles of an 8-valued fi->fh.
MCDatAddress == (<<"a">> :> 1) @@ (<<"b">> :> 5)

Symmetry == Permutations(Node) \cup Permutations(Client)
=============================================================================
