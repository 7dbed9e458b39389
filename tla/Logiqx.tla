------------------------------- MODULE Logiqx -------------------------------
(***************************************************************************)
(* LogiqxParser::parse of src/parsers/logiqx.cpp: two nested loops over    *)
(* the games of a document's first datafile and the roms of each game.     *)
(*                                                                         *)
(* A document is a value.  A node is a record of its name, its attributes  *)
(* and its children, both sequences in document order; a node without a    *)
(* name, such as text, has the name NoName.  An xml_node that points at a  *)
(* child is its index among the children, and 0 is the null node.          *)
(***************************************************************************)
EXTENDS HashData, Integers, SequencesExt

CONSTANTS
  NoName,        \* the null name pointer
  Document,      \* documents: a node, or Malformed for one that does not load
  Malformed,
  Text,          \* the values of the attributes of roms, and ""
  Fresh,         \* hash fields of a new ParseEntry: whatever memory holds,
                 \* but for the flags, which are not set
  SizeModulus,   \* 2^60
  SumModulus,    \* 2^64
  Decimal(_),    \* strtoull, base 10
  Hex32(_),      \* strtoull, base 16, cut to 32 bits
  ToMd5(_),      \* toByteArray, into an md5_t
  ToSha1(_)      \* toByteArray, into a sha1_t

IsList(s) == s \in Seq(Range(s))

IsRom(r) == IsList(r.attributes) /\ \A a \in Range(r.attributes) : a.value \in Text
IsGame(g) == IsList(g.children) /\ \A r \in Range(g.children) : IsRom(r)
IsDatafile(f) == IsList(f.children) /\ \A g \in Range(f.children) : IsGame(g)
IsDocument(d) == IsList(d.children) /\ \A f \in Range(d.children) : IsDatafile(f)

LogiqxAssumption ==
  /\ {SizeModulus, SumModulus} \subseteq Nat \ {0}
  /\ Size = 0..(SizeModulus - 1)
  /\ "" \in Text
  /\ \A v \in Text :
       Decimal(v) \in Nat /\ Hex32(v) \in Crc32 /\ ToMd5(v) \in Md5 /\ ToSha1(v) \in Sha1
  /\ \A f \in Fresh : f.crc32 \in Crc32 /\ f.md5 \in Md5 /\ f.sha1 \in Sha1
  /\ \A d \in Document \ {Malformed} : IsDocument(d)

VARIABLES
  debug,    \* assertions are compiled in: the build, which never changes
  doc,      \* the document
  game,     \* the outer iterator: a child of the datafile
  rom,      \* the inner iterator: a child of that game
  pc,       \* "load", "game", "rom", "returned" or "aborted"
  entries, count, sizeInBytes   \* result

logiqxVars == <<debug, doc, game, rom, pc, entries, count, sizeInBytes>>

LogiqxTypeOK ==
  /\ debug \in BOOLEAN
  /\ doc \in Document
  /\ pc \in {"load", "game", "rom", "returned", "aborted"}
  /\ {game, rom} \subseteq Nat
  /\ \A i \in DOMAIN entries : entries[i].hash \in HashRecord
  /\ sizeInBytes \in 0..(SumModulus - 1)

LogiqxInit ==
  /\ debug \in BOOLEAN
  /\ doc \in Document
  /\ game = 0
  /\ rom = 0
  /\ pc = "load"
  /\ entries = <<>>
  /\ count = 0
  /\ sizeInBytes = 0

\* The first of s after index i that is named name, or 0.
NextNamed(s, i, name) ==
  LET found == {j \in (i + 1)..Len(s) : s[j].name = name}
  IN  IF found = {} THEN 0 ELSE CHOOSE j \in found : \A k \in found : j <= k

\* child(name) is the first of that name, next_sibling(name) the next one.
Child(node, name) == NextNamed(node.children, 0, name)
NextSibling(node, i, name) == NextNamed(node.children, i, name)

\* attribute(name): the first of that name, or 0, the empty attribute.
Attribute(node, name) == NextNamed(node.attributes, 0, name)

Has(node, name) == Attribute(node, name) # 0

\* attribute(name).as_string(): the empty string for the empty attribute.
AsString(node, name) ==
  IF Has(node, name) THEN node.attributes[Attribute(node, name)].value ELSE ""
-----------------------------------------------------------------------------
\* doc.child("datafile"): a null node has no children.
Datafile ==
  LET i == Child(doc, "datafile")
  IN  IF i = 0 THEN [name |-> NoName, attributes |-> <<>>, children |-> <<>>]
               ELSE doc.children[i]

Game == Datafile.children[game]
Rom == Game.children[rom]

\* A status the parser does not know is GOOD.
Good(r) == AsString(r, "status") \notin {"nodump", "baddump"}

\* The record built for rom r in an entry constructed as fresh.
HashOf(r, fresh) ==
  [size |-> Decimal(AsString(r, "size")) % SizeModulus,
   crc32 |-> IF Has(r, "crc") THEN Hex32(AsString(r, "crc")) ELSE fresh.crc32,
   md5 |-> IF Has(r, "md5") THEN ToMd5(AsString(r, "md5")) ELSE fresh.md5,
   sha1 |-> IF Has(r, "sha1") THEN ToSha1(AsString(r, "sha1")) ELSE fresh.sha1,
   md5enabled |-> Has(r, "md5"),
   sha1enabled |-> Has(r, "sha1")]
-----------------------------------------------------------------------------
\* load_file, and the start of the outer loop.
Load ==
  /\ pc = "load"
  /\ IF doc = Malformed
       THEN pc' = "returned" /\ UNCHANGED game
       ELSE pc' = "game" /\ game' = Child(Datafile, "game")
  /\ UNCHANGED <<debug, doc, rom, entries, count, sizeInBytes>>

\* The test of the outer loop, and the start of the inner one.
EnterGame ==
  /\ pc = "game"
  /\ IF game = 0
       THEN pc' = "returned" /\ UNCHANGED rom
       ELSE pc' = "rom" /\ rom' = Child(Game, "rom")
  /\ UNCHANGED <<debug, doc, game, entries, count, sizeInBytes>>

\* The end of the inner loop: on to the next game.
LeaveGame ==
  /\ pc = "rom"
  /\ rom = 0
  /\ pc' = "game"
  /\ game' = NextSibling(Datafile, game, "game")
  /\ UNCHANGED <<debug, doc, rom, entries, count, sizeInBytes>>

\* A turn of the inner loop that continues at once.
SkipRom ==
  /\ pc = "rom"
  /\ rom # 0
  /\ ~Good(Rom)
  /\ rom' = NextSibling(Game, rom, "rom")
  /\ UNCHANGED <<debug, doc, game, pc, entries, count, sizeInBytes>>

\* Mutant of ReadRom: one entry serves every rom.
ReadRomStale ==
  /\ pc = "rom"
  /\ rom # 0
  /\ Good(Rom)
  /\ \E fresh \in IF entries = <<>> THEN Fresh ELSE {Last(entries).hash} :
       LET hash == HashOf(Rom, fresh) IN
       /\ ~debug \/ Hashable(hash)
       /\ entries' = Append(entries, [name |-> AsString(Rom, "name"), hash |-> hash])
       /\ sizeInBytes' = (sizeInBytes + hash.size) % SumModulus
  /\ count' = count + 1
  /\ rom' = NextSibling(Game, rom, "rom")
  /\ UNCHANGED <<debug, doc, game, pc>>

\* A turn that returns an entry.
ReadRom ==
  /\ pc = "rom"
  /\ rom # 0
  /\ Good(Rom)
  /\ \E fresh \in Fresh :
       LET hash == HashOf(Rom, fresh) IN
       /\ ~debug \/ Hashable(hash)
       /\ entries' = Append(entries, [name |-> AsString(Rom, "name"), hash |-> hash])
       /\ sizeInBytes' = (sizeInBytes + hash.size) % SumModulus
  /\ count' = count + 1
  /\ rom' = NextSibling(Game, rom, "rom")
  /\ UNCHANGED <<debug, doc, game, pc>>

\* The assertion of a debug build fails.
AssertFails ==
  /\ pc = "rom"
  /\ rom # 0
  /\ Good(Rom)
  /\ debug
  /\ ~Has(Rom, "md5") /\ ~Has(Rom, "sha1")
  /\ pc' = "aborted"
  /\ UNCHANGED <<debug, doc, game, rom, entries, count, sizeInBytes>>

LogiqxNext == Load \/ EnterGame \/ LeaveGame \/ SkipRom \/ ReadRom \/ AssertFails

LogiqxSpec == LogiqxInit /\ [][LogiqxNext]_logiqxVars
-----------------------------------------------------------------------------
\* The roms to expect, as places in the document: a game of the datafile and
\* a rom of that game whose status is good.
GoodPlaces ==
  IF doc = Malformed THEN {} ELSE
  LET games == {g \in DOMAIN Datafile.children : Datafile.children[g].name = "game"}
      roms(g) == {r \in DOMAIN Datafile.children[g].children :
                    LET node == Datafile.children[g].children[r]
                    IN  node.name = "rom" /\ Good(node)}
  IN  UNION {{<<g, r>> : r \in roms(g)} : g \in games}

RomAt(p) == Datafile.children[p[1]].children[p[2]]

\* The order of the document.
Before(p, q) == p[1] < q[1] \/ (p[1] = q[1] /\ p[2] < q[2])

\* Entry e says what rom r says, and what r leaves out is what a new entry
\* held, with no flag set.
Describes(e, r) ==
  /\ e.name = AsString(r, "name")
  /\ e.hash.size = Decimal(AsString(r, "size")) % SizeModulus
  /\ Has(r, "crc") => e.hash.crc32 = Hex32(AsString(r, "crc"))
  /\ Has(r, "md5") => e.hash.md5 = ToMd5(AsString(r, "md5"))
  /\ Has(r, "sha1") => e.hash.sha1 = ToSha1(AsString(r, "sha1"))
  /\ e.hash.md5enabled <=> Has(r, "md5")
  /\ e.hash.sha1enabled <=> Has(r, "sha1")
  /\ \E f \in Fresh : /\ ~Has(r, "crc") => e.hash.crc32 = f.crc32
                      /\ ~Has(r, "md5") => e.hash.md5 = f.md5
                      /\ ~Has(r, "sha1") => e.hash.sha1 = f.sha1

(***************************************************************************)
(* The entries are the good roms of the document, in its order, each with  *)
(* its own fields and no other rom's; games and roms elsewhere in the      *)
(* document, and those of a second datafile, give none.                    *)
(***************************************************************************)
EntriesMatchDocument ==
  \E at \in [DOMAIN entries -> GoodPlaces] :
    /\ \A i \in DOMAIN entries : Describes(entries[i], RomAt(at[i]))
    /\ \A i, j \in DOMAIN entries : i < j => Before(at[i], at[j])
    /\ \A i \in DOMAIN entries : \A p \in GoodPlaces : Before(p, at[i]) => p \in Range(at)
    /\ pc = "returned" => Range(at) = GoodPlaces

(***************************************************************************)
(* The totals main prints are those of the entries; and no entry means     *)
(* count is 0, on which main parses the file again as ClrMamePro.          *)
(***************************************************************************)
TotalsMatchEntries ==
  /\ count = Len(entries)
  /\ sizeInBytes = SumFunction([i \in DOMAIN entries |-> entries[i].hash.size]) % SumModulus

(***************************************************************************)
(* Every rom taken for good has an md5 or a sha1 digest, as the assertion  *)
(* at src/parsers/logiqx.cpp:62 says.  A debug build makes it so: it has   *)
(* stopped before it returns an entry on which the hash functor's own      *)
(* assertion (src/data/entry.h:52) would fail in the middle of an import.  *)
(***************************************************************************)
GoodRomsHaveDigest == \A i \in DOMAIN entries : Hashable(entries[i].hash)

(***************************************************************************)
(* The entries LogiqxParser::parse returns are the good roms of the        *)
(* document, each with its own fields, and the totals main prints are      *)
(* theirs; a debug build returns none without a digest, for its assertion  *)
(* (src/parsers/logiqx.cpp:62) has stopped it first.                       *)
(***************************************************************************)
LogiqxReadsTheDocument ==
  /\ LogiqxTypeOK
  /\ EntriesMatchDocument
  /\ TotalsMatchEntries
  /\ debug => GoodRomsHaveDigest
=============================================================================
