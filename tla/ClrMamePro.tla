------------------------------ MODULE ClrMamePro ------------------------------
(***************************************************************************)
(* ClrMameProParser::parse of src/parsers/clrmamepro.cpp: the tokenizer    *)
(* feeds the scope parser, whose callbacks pair() and scope() fill one     *)
(* ParseEntry and copy it into the result at the end of each "rom".        *)
(*                                                                         *)
(* The callbacks are synchronous: the tokenizer reads on when the tokens   *)
(* it has emitted are handled.  The parser is used for one file, as main   *)
(* uses it.                                                                *)
(***************************************************************************)
EXTENDS HashData, SimpleParser, SimpleTreeParser

CONSTANTS
  Word,          \* runs of characters that are not special
  Text,          \* texts a file may hold
  Fresh,         \* hash fields of a new ParseEntry: size and crc32 are
                 \* whatever memory holds, and no flag is set
  SizeModulus,   \* 2^60: size is a bit field
  SumModulus,    \* 2^64: sizeInBytes is a size_t
  Decimal(_),    \* strtoull, base 10
  Hex32(_),      \* strtoull, base 16, cut to 32 bits
  ToMd5(_),      \* toByteArray, into an md5_t
  ToSha1(_)      \* toByteArray, into a sha1_t

Special == {"(", ")", "QUOTE", "BLANK"}

\* addSingle, addQuote, addWhiteSpace
CharType == [c \in Word \cup Special |->
  CASE c \in {"(", ")"} -> "SINGLE"
    [] c = "QUOTE" -> "QUOTE"
    [] c = "BLANK" -> "WHITESPACE"
    [] OTHER -> "NORMAL"]

\* setScope
ScopeStartToken == <<"(">>
ScopeEndToken == <<")">>

\* How parse() sets up the tokenizer and the scope parser.
ASSUME SetUpAssumption ==
  /\ Char = Word \cup Special
  /\ Type = CharType
  /\ Start = ScopeStartToken
  /\ End = ScopeEndToken

ASSUME ClrMameAssumption ==
  /\ Word \cap Special = {}
  /\ \A t \in Text : t \in Seq(Char)
  /\ Fresh \subseteq {h \in HashRecord : ~h.md5enabled /\ ~h.sha1enabled}
  /\ {SizeModulus, SumModulus} \subseteq Nat \ {0}

VARIABLES
  handled,     \* tokens that token() has handled
  started,     \* the header has been read
  insideRom,   \* in a scope named rom
  entry,       \* the fields read last
  result,      \* result.entries
  count,       \* result.count
  sizeInBytes  \* result.sizeInBytes

entryVars == <<started, insideRom, entry, result, count, sizeInBytes>>
vars == <<lexVars, treeVars, handled, entryVars>>

ParseEntry == [name : Seq(Char), hash : HashRecord]

TypeOK ==
  /\ LexTypeOK
  /\ tokens \in Seq(Seq(Char))
  /\ {partial, undefined, started, insideRom} \subseteq BOOLEAN
  /\ handled \in 0..Len(emitted)
  /\ entry \in ParseEntry
  /\ result \in Seq(ParseEntry)
  /\ count = Len(result)
  /\ sizeInBytes \in 0..(SumModulus - 1)

\* The parser before it reads any input.
ParserInit ==
  /\ LexInit
  /\ TreeInit
  /\ handled = 0
  /\ started = FALSE
  /\ insideRom = FALSE
  /\ entry \in [name : {<<>>}, hash : Fresh]
  /\ result = <<>>
  /\ count = 0
  /\ sizeInBytes = 0

Init == input \in Text /\ ParserInit
-----------------------------------------------------------------------------
\* The assignment pair() makes for key k: the entry with field k set to v.
WithField(k, v) ==
  CASE k = <<"name">> -> IF insideRom THEN [entry EXCEPT !.name = v] ELSE entry
    [] k = <<"size">> -> [entry EXCEPT !.hash.size = Decimal(v) % SizeModulus]
    [] k = <<"crc">> -> [entry EXCEPT !.hash.crc32 = Hex32(v)]
    [] k = <<"md5">> -> [entry EXCEPT !.hash.md5 = ToMd5(v)]
    [] k = <<"sha1">> -> [entry EXCEPT !.hash.sha1 = ToSha1(v)]
    [] OTHER -> entry

\* Mutant of Pair: the header is not waited for.
PairAtOnce(k, v) ==
  /\ entry' = WithField(k, v)
  /\ UNCHANGED <<started, insideRom, result, count, sizeInBytes>>

Pair(k, v) ==
  /\ entry' = IF started THEN WithField(k, v) ELSE entry
  /\ UNCHANGED <<started, insideRom, result, count, sizeInBytes>>

\* scope() at the start of a scope.
ScopeStart(k) ==
  /\ insideRom' = (insideRom \/ k = <<"rom">>)
  /\ UNCHANGED <<started, entry, result, count, sizeInBytes>>

\* Mutant of ScopeEnd: insideRom is not reset.
ScopeEndInside(k) ==
  /\ started' = (started \/ k = <<"clrmamepro">>)
  /\ IF k = <<"rom">>
       THEN /\ result' = Append(result, entry)
            /\ count' = count + 1
            /\ sizeInBytes' = (sizeInBytes + entry.hash.size) % SumModulus
       ELSE UNCHANGED <<result, count, sizeInBytes>>
  /\ UNCHANGED <<insideRom, entry>>

\* scope() at the end of a scope.  The entry is copied, not cleared, and the
\* header is not asked for.
ScopeEnd(k) ==
  /\ insideRom' = (insideRom /\ k # <<"rom">>)
  /\ started' = (started \/ k = <<"clrmamepro">>)
  /\ IF k = <<"rom">>
       THEN /\ result' = Append(result, entry)
            /\ count' = count + 1
            /\ sizeInBytes' = (sizeInBytes + entry.hash.size) % SumModulus
       ELSE UNCHANGED <<result, count, sizeInBytes>>
  /\ UNCHANGED entry
-----------------------------------------------------------------------------
AllHandled == handled = Len(emitted)

\* One turn of the tokenizer's loop, or its last emit().
Tokenize ==
  /\ ~undefined
  /\ AllHandled
  /\ ReadChar \/ FinishInput
  /\ UNCHANGED <<treeVars, handled, entryVars>>

\* token(t) for the next token, with the callback it makes.
HandleToken ==
  /\ ~AllHandled
  /\ handled' = handled + 1
  /\ LET t == emitted[handled + 1]
     IN  \/ PushKey(t) /\ UNCHANGED entryVars
         \/ ReadPair(t) /\ Pair(Top, t)
         \/ OpenScope(t) /\ ScopeStart(Top)
         \/ CloseScope(t) /\ ScopeEnd(Top)
         \/ BackOfEmpty(t) /\ UNCHANGED entryVars
  /\ UNCHANGED lexVars

Next == Tokenize \/ HandleToken

Spec == Init /\ [][Next]_vars

\* parse() is one thread that nothing blocks.
FairSpec == Spec /\ WF_vars(Next)

\* parse() has returned.
Returned == finished /\ AllHandled /\ ~undefined
-----------------------------------------------------------------------------
(***************************************************************************)
(* A rom being read has its scope open: insideRom, which only the scopes   *)
(* named rom set and reset, agrees with the stack of the scope parser, on  *)
(* any text.                                                               *)
(***************************************************************************)
OpenScopes == IF partial THEN Front(tokens) ELSE tokens

InsideRomIsOpen == insideRom => \E i \in DOMAIN OpenScopes : OpenScopes[i] = <<"rom">>

(***************************************************************************)
(* Parsing ends on any text, unless it is undefined.                       *)
(***************************************************************************)
ParseEnds == <>(undefined \/ Returned)

(***************************************************************************)
(* What the hash functor asserts of a record put into the database: it has *)
(* an md5 or a sha1 digest enabled (src/data/entry.h:52).                  *)
(***************************************************************************)
EntriesHashable == \A i \in DOMAIN result : Hashable(result[i].hash)
-----------------------------------------------------------------------------
(***************************************************************************)
(* The parser reading a DAT: an optional header and one game, which holds  *)
(* fields of its own and roms with their fields.  The text is generated    *)
(* from the structure, and what the parser returns is compared with what   *)
(* the structure says.                                                     *)
(***************************************************************************)
CONSTANT
  Dat   \* structures: header, a BOOLEAN; items, each the fields of the game
        \* or, if rom is TRUE, those of a rom

FieldRecord == [key : {<<w>> : w \in Word}, value : Seq(Char), quoted : BOOLEAN]
ItemRecord == [rom : BOOLEAN, fields : Seq(FieldRecord)]

\* A value that the tokenizer can hand over as one token and that the scope
\* parser does not take for a bracket: it is not empty, it is no bracket by
\* itself, no quote is in it, and outside quotes nothing is special.
Writable(f) ==
  /\ f.value \notin {<<>>, Start, End}
  /\ \A i \in DOMAIN f.value : f.value[i] # "QUOTE" /\ (f.quoted \/ f.value[i] \in Word)

ASSUME DatAssumption ==
  /\ {"clrmamepro", "game", "rom", "name", "dat"} \subseteq Word
  /\ \A d \in Dat :
       /\ d \in [header : BOOLEAN, items : Seq(ItemRecord)]
       /\ \A i \in DOMAIN d.items : \A n \in DOMAIN d.items[i].fields : Writable(d.items[i].fields[n])

VARIABLES
  dat,     \* the structure the text was generated from
  fresh    \* the entry as it was constructed

datVars == <<vars, dat, fresh>>

\* A token as a text: between quotes if that is asked for, then a blank.
Write(t, quoted) ==
  (IF quoted THEN <<"QUOTE">> \o t \o <<"QUOTE">> ELSE t) \o <<"BLANK">>

WriteField(f) == Write(f.key, FALSE) \o Write(f.value, f.quoted)
WriteFields(fields) == FlattenSeq([i \in DOMAIN fields |-> WriteField(fields[i])])
WriteScope(k, body) == Write(k, FALSE) \o <<"(", "BLANK">> \o body \o <<")">>

WriteItem(item) ==
  IF item.rom THEN WriteScope(<<"rom">>, WriteFields(item.fields))
              ELSE WriteFields(item.fields)

WriteDat(d) ==
  (IF d.header
     THEN WriteScope(<<"clrmamepro">>, WriteField([key |-> <<"name">>, value |-> <<"dat">>, quoted |-> TRUE]))
     ELSE <<>>) \o
  WriteScope(<<"game">>, FlattenSeq([i \in DOMAIN d.items |-> WriteItem(d.items[i])]))

DatInit ==
  /\ dat \in Dat
  /\ input = WriteDat(dat)
  /\ ParserInit
  /\ fresh = entry

DatSpec == DatInit /\ [][Next /\ UNCHANGED <<dat, fresh>>]_datVars
-----------------------------------------------------------------------------
\* Field m of item j gives k.  A name is a rom's own.
Gives(j, m, k) ==
  /\ dat.items[j].fields[m].key = <<k>>
  /\ k = "name" => dat.items[j].rom

\* Where k is given, up to field n of item i, and the last of such places.
Places(k, i, n) ==
  UNION {{<<j, m>> : m \in {l \in DOMAIN dat.items[j].fields : Gives(j, l, k) /\ (j = i => l <= n)}} :
         j \in 1..i}

Precedes(p, q) == p[1] < q[1] \/ (p[1] = q[1] /\ p[2] <= q[2])

LastOf(P) == CHOOSE p \in P : \A q \in P : Precedes(q, p)

\* The value of field k after field n of item i: the latest one given, in
\* that item or an earlier one, or else what the entry started with.
Latest(k, i, n, convert(_), default) ==
  IF dat.header /\ Places(k, i, n) # {}
    THEN LET p == LastOf(Places(k, i, n)) IN convert(dat.items[p[1]].fields[p[2]].value)
    ELSE default

Itself(v) == v
Size60(v) == Decimal(v) % SizeModulus

EntryAt(i, n) ==
  [name |-> Latest("name", i, n, Itself, fresh.name),
   hash |-> [fresh.hash EXCEPT
     !.size = Latest("size", i, n, Size60, @),
     !.crc32 = Latest("crc", i, n, Hex32, @),
     !.md5 = Latest("md5", i, n, ToMd5, @),
     !.sha1 = Latest("sha1", i, n, ToSha1, @)]]

EntryOfItem(i) == EntryAt(i, Len(dat.items[i].fields))

EntriesOf(i) == IF dat.items[i].rom THEN <<EntryOfItem(i)>> ELSE <<>>

Expected == FlattenSeq([i \in DOMAIN dat.items |-> EntriesOf(i)])

(***************************************************************************)
(* The parser returns one entry per rom, in order.  A field a rom leaves   *)
(* out has the value of the rom before it, or one the game gave, because   *)
(* the entry is never cleared; without a header no field is read at all,   *)
(* and there is an entry per rom nevertheless.                             *)
(***************************************************************************)
ResultMatchesDat ==
  /\ IsPrefix(result, Expected)
  /\ Returned => result = Expected

(***************************************************************************)
(* The text of a DAT never leads to undefined behaviour.                   *)
(***************************************************************************)
DatNeverUndefined == ~undefined
=============================================================================
