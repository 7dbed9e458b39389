----------------------------- MODULE MCServices -----------------------------
(***************************************************************************)
(* Small instances of four parts of the program that share no state: the   *)
(* file calls of MatrixFS (HelloFile), the Logiqx parser in a release and  *)
(* in a debug build, Hasher and the LevelDB store.  A behaviour takes one  *)
(* of them and leaves the others at their beginning, so that the run       *)
(* explores each of them by itself.                                        *)
(***************************************************************************)
EXTENDS HelloFile, Logiqx, Hasher, LevelDBStore

VARIABLE part
-----------------------------------------------------------------------------
(***************************************************************************)
(* HelloFile: words of five bits, a string of four bytes, and the largest  *)
(* sizes and offsets that FUSE's limits allow.                             *)
(***************************************************************************)
MCHello == <<1, 2, 3, 4>>

(***************************************************************************)
(* Logiqx: documents of a game of up to two roms and one of up to one,     *)
(* beside elements of other names and a second datafile.                   *)
(***************************************************************************)
MCNoName == "#none"

Node(n, a, c) == [name |-> n, attributes |-> a, children |-> c]
Attr(n, v) == [name |-> n, value |-> v]

MCMalformed == Node("malformed", <<>>, <<>>)

\* A rom with nothing, with a crc only, with an empty md5, with two sizes and
\* a size that does not fit, and roms that are no good; and another element.
Roms ==
  {Node("rom", <<>>, <<>>),
   Node("rom", <<Attr("name", "a"), Attr("crc", "1")>>, <<>>),
   Node("rom", <<Attr("md5", ""), Attr("size", "6"), Attr("status", "verified")>>, <<>>),
   Node("rom", <<Attr("size", "1"), Attr("sha1", "a"), Attr("size", "6"), Attr("status", "odd")>>, <<>>),
   Node("rom", <<Attr("md5", "a"), Attr("status", "nodump")>>, <<>>),
   Node("disk", <<Attr("sha1", "a")>>, <<Node("rom", <<>>, <<>>)>>)}

UpTo1(S) == {<<>>} \cup {<<e>> : e \in S}
UpTo2(S) == UpTo1(S) \cup {<<e, f>> : e, f \in S}

Games(R) == {Node("game", <<>>, r) : r \in R}

Header == Node("header", <<>>, <<Node("game", <<>>, <<Node("rom", <<>>, <<>>)>>)>>)
SecondDatafile == Node("datafile", <<>>, <<Node("game", <<>>, <<Node("rom", <<>>, <<>>)>>)>>)
TextNode == Node(MCNoName, <<>>, <<>>)

Datafiles ==
  {Node("datafile", <<>>, <<g, Header, h>>) : g \in Games(UpTo2(Roms)), h \in Games(UpTo1(Roms))}
    \cup {Node("datafile", <<>>, <<>>)}

MCDocument ==
  {MCMalformed, Node(MCNoName, <<>>, <<TextNode, Header>>)} \cup
  {Node(MCNoName, <<>>, <<TextNode, d, SecondDatafile>>) : d \in Datafiles}

RomTexts == {"", "a", "1", "6", "verified", "odd", "nodump"}

Number(v) == IF v = "1" THEN 1 ELSE IF v = "6" THEN 6 ELSE 0
Hex(v) == Number(v) % 4
Digest(v) == IF v = "a" THEN "da" ELSE "d0"

\* The hash of a new entry: whatever memory holds, and no flag set.
MCFresh ==
  {[size |-> 3, crc32 |-> c, md5 |-> "dx", sha1 |-> "dx",
    md5enabled |-> FALSE, sha1enabled |-> FALSE] : c \in {2, 3}}

(***************************************************************************)
(* Hasher: a file with a line end, one with a SUB and an ordinary one, and *)
(* a size field that the longest file does not fit.  Memory may hold a     *)
(* byte of the first file.                                                 *)
(***************************************************************************)
Files == <<<<"a", "CR", "LF">>, <<"b", "SUB">>, <<"c">>>>

ASSUME PartsAssumption == LogiqxAssumption /\ HasherAssumption /\ StoreAssumption
-----------------------------------------------------------------------------
InitParts ==
  /\ part \in {"hello", "logiqx", "hasher", "store"}
  /\ Init /\ LogiqxInit /\ HasherInit /\ StoreInit
  /\ part # "logiqx" => doc = Malformed /\ ~debug

HelloStep ==
  /\ part = "hello" /\ Next
  /\ UNCHANGED <<part, logiqxVars, hasherVars, storeVars>>

LogiqxStep ==
  /\ part = "logiqx" /\ LogiqxNext
  /\ UNCHANGED <<part, vars, hasherVars, storeVars>>

HasherStep ==
  /\ part = "hasher" /\ HasherNext
  /\ UNCHANGED <<part, vars, logiqxVars, storeVars>>

StoreStep ==
  /\ part = "store" /\ StoreNext
  /\ UNCHANGED <<part, vars, logiqxVars, hasherVars>>

NextParts == HelloStep \/ LogiqxStep \/ HasherStep \/ StoreStep

SpecParts == InitParts /\ [][NextParts]_<<part, vars, logiqxVars, hasherVars, storeVars>>
=============================================================================
