------------------------------ MODULE MCClrMame ------------------------------
(***************************************************************************)
(* Small instances of ClrMamePro.  DATs of at most two items, each with at *)
(* most two fields (one, for fields of the game); and, beside any DAT,     *)
(* every text of at most MaxLength characters, well formed or not: the     *)
(* file may be no DAT at all.                                              *)
(***************************************************************************)
EXTENDS ClrMamePro, TLC

CONSTANT MaxLength

MCWord == {"clrmamepro", "game", "rom", "name", "size", "crc", "md5", "status",
           "dat", "a", "b", "1", "6"}

MCChar == MCWord \cup Special

\* Numbers; anything else is read as 0.
MCNumber(v) == IF v = <<"1">> THEN 1 ELSE IF v = <<"6">> THEN 6 ELSE 0
MCDecimal(v) == MCNumber(v)
MCHex32(v) == MCNumber(v)

\* Digests: that of <<"a">> and another.
MCDigest(v) == IF v = <<"a">> THEN "da" ELSE "d0"
MCToMd5(v) == MCDigest(v)
MCToSha1(v) == MCDigest(v)

\* The size and crc32 of a new entry are found in no field.
MCFresh ==
  {[size |-> 3, crc32 |-> 3, md5 |-> "d0", sha1 |-> "d0",
    md5enabled |-> FALSE, sha1enabled |-> FALSE]}

Field(k, v, q) == [key |-> <<k>>, value |-> v, quoted |-> q]

\* A name with a blank and a bracket, a size that does not fit, and a field
\* the parser does not know.
Fields ==
  {Field("name", <<"a">>, FALSE), Field("name", <<"a", "BLANK", "(", "b">>, TRUE),
   Field("size", <<"1">>, FALSE), Field("size", <<"6">>, FALSE),
   Field("crc", <<"1">>, FALSE), Field("md5", <<"a">>, FALSE),
   Field("status", <<"name">>, FALSE)}

UpTo1(S) == {<<>>} \cup {<<e>> : e \in S}
UpTo2(S) == UpTo1(S) \cup {<<e, f>> : e, f \in S}

Items == {[rom |-> TRUE, fields |-> f] : f \in UpTo2(Fields)} \cup
         {[rom |-> FALSE, fields |-> f] : f \in UpTo1(Fields)}

MCDat == {[header |-> h, items |-> i] : h \in BOOLEAN, i \in UpTo2(Items)}
-----------------------------------------------------------------------------
\* The characters of texts that may be no DAT.
TextChar == {"rom", "size"} \cup Special
MCText == UNION {[1..n -> TextChar] : n \in 0..MaxLength}

NoItems == [header |-> FALSE, items |-> <<>>]

\* The parser on any text.
TextInit == Init /\ dat = NoItems /\ fresh = entry

TextSpec == TextInit /\ [][Next /\ UNCHANGED <<dat, fresh>>]_datVars /\ WF_vars(Next)
=============================================================================
