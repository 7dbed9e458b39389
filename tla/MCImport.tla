------------------------------- MODULE MCImport -------------------------------
(***************************************************************************)
(* Small instances of Import.  Three files, two of one filename().  Two    *)
(* ROMs, m1/s1 and m2/s2; the first comes with both flags (h1), with the   *)
(* sha1 flag only (h3, a Logiqx entry whose flags differ) and with none    *)
(* (u1, as the ClrMamePro parser returns it).                              *)
(***************************************************************************)
EXTENDS Import, TLC

Record(m, s, md5on, sha1on) ==
  [size |-> 1, crc32 |-> 1, md5 |-> m, sha1 |-> s,
   md5enabled |-> md5on, sha1enabled |-> sha1on]

\* The leading bytes of s1 and s2 collide.
MCPrefix == ("m1" :> 1) @@ ("m2" :> 2) @@ ("s1" :> 3) @@ ("s2" :> 3)

h1 == Record("m1", "s1", TRUE, TRUE)
h2 == Record("m2", "s2", TRUE, TRUE)
h3 == Record("m1", "s1", FALSE, TRUE)
u1 == Record("m1", "s1", FALSE, FALSE)
u2 == Record("m2", "s2", FALSE, FALSE)

Entries(H) == [name : RomName, hash : H]
UpTo1(S) == {<<>>} \cup {<<e>> : e \in S}
UpTo2(S) == UpTo1(S) \cup {<<e, f>> : e \in S, f \in S}

MCFile == {"f1", "f2", "f3"}
MCFileName == [f \in MCFile |-> IF f = "f2" THEN "d2" ELSE "d1"]

\* Mixed: a record arrives under every combination of flags.
MixedLogiqx == UpTo2(Entries({h1, h3}))
MixedClrMame == UpTo1(Entries({u1, u2}))

\* Debug: Logiqx entries are hashable, ClrMamePro ones are not.
DebugLogiqx == UpTo1(Entries({h1, h2})) \cup {<<[name |-> "r1", hash |-> h1], [name |-> "r1", hash |-> h2]>>}
DebugClrMame == UpTo1(Entries({u1}))

Symmetry == Permutations(Node) \cup Permutations(RomName)
=============================================================================
