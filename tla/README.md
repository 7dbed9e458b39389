# A verification development for romatrix

romatrix reads a folder of DAT files (lists of ROM dumps, each identified by
its size and digests), builds an in-memory database in which equal ROMs are
shared, and mounts that database as a read-only FUSE file system with one
folder per DAT and one file per ROM. This directory holds TLA+ models of that
program, the TLC runs that check them on small instances, and theorems about
them that TLAPS checks. Line numbers refer to the repository's files; `main.cpp`,
`entry.h`, `clrmamepro.cpp` and `logiqx.cpp` stand for `src/main.cpp`,
`src/data/entry.h`, `src/parsers/clrmamepro.cpp` and `src/parsers/logiqx.cpp`,
and `pugixml.cpp` for the copy of pugixml that is part of the repository, in
`src/libs/pugixml/`.

## 1. Inventory

| Part | Source | State it keeps | Operations | Modelled in |
|------|--------|----------------|------------|-------------|
| `HashData`, `DatFile` | `entry.h` | a record: size, three digests, a flag per digest; a DAT: two names and a map from ROM name to `const HashData*` | equality, hash functor (with an assertion) | `HashData` |
| `DatabaseData` | `main.cpp:285-324` | `_dats`, a map from name to `DatFile`; `_hashes`, a set of records | `addDatFile`, `addHashData`, `datForName`, totals | `DatabaseData`, `Catalogue` |
| import loop | `main.cpp:332-416` | the file being read, its entries, the running totals | parse the file, file its entries, mount | `Import` |
| `SimpleParser` | `clrmamepro.cpp:10-157` | position, buffer `sb`, `quote` | one step per character, a callback per token | `SimpleParser` |
| `SimpleTreeParser` | `clrmamepro.cpp:159-230` | `tokens`, `partial` | one step per token, a callback per pair and per scope | `SimpleTreeParser`, `ScopedInput`, `ScopeTree` |
| `ClrMameProParser` | `clrmamepro.cpp:232-300` | `started`, `insideRom`, `entry`, `result` | `pair`, `scope`, `parse` | `ClrMamePro` |
| `MatrixFS`, directories | `main.cpp:34-118, 418-528` | none but a handle per open directory, in `fi->fh` | `getattr`, `opendir`, `readdir` | `MatrixFS`, `Romatrix` |
| `MatrixFS`, files | `main.cpp:41-86` | none | `open`, `read`, `statfs`, `access` | `HelloFile` |
| `LogiqxParser` | `logiqx.cpp` | none between calls | `parse`: a loop over an XML document | `Logiqx` |
| `Hasher` | `main.cpp:142-212` | three running digests | `compute`, `update`, `get`, `reset` | `Hasher` |
| `LevelDBDatabase` | `main.cpp:216-283` | an open LevelDB | `init`, `shutdown`, `contains`, `write` | `LevelDBStore`; `main` does not use it |

pugixml reads the Logiqx files. Its code is in the repository, is compiled with
the program and is nine tenths of what is compiled, so it is modelled too:

| Part of `pugixml.cpp` | State it keeps | Operations | Modelled in |
|------|------|------|------|
| memory | pages: what is handed out of each and what was freed | allocate and free nodes and strings; create, destroy and move a document | `XmlMemory` |
| tree | four links per node | append, prepend, insert before and after, of new and of moved nodes; remove; reset and move a document | `XmlDom`, `XmlForest` |
| attributes | a list per node, a hint per caller | the same edits; look up by name, with and without the hint | `XmlAttributes` |
| copies | strings shared between copies, and who has shared them | copy a tree, turn by turn; `set_name`, `set_value` | `XmlCopy` |
| conversions | a position and a gap in a buffer | references, ends of lines, white space | `XmlStrconv`, `XmlText` |
| parser | a position, the current node, the character that was cut off | tags, attributes, text, sections, comments, instructions, document types | `XmlParser` |
| writer | the node, the depth, what layout is due | a node, and the way up from it | `XmlWriter` |
| encodings | a buffer of bytes | decode, count and write in five encodings; guess; convert | `XmlEncoding` |
| buffered output | a buffer and how full it is | the `write` functions, `flush` | `XmlBufferedWriter` |
| loading | who holds which block of memory | `load_file`, `load` from streams, `load_buffer*`, `append_buffer`, `reset`, move | `XmlLoad` |
| document order | where names and values lie in the buffer; shared marks | the comparator of XPath; every edit that makes places meaningless | `XmlOrder` |
| values | the text of a node, the value of an attribute | `xml_text`, `set_value`, `as_int` and their like | `XmlValues` |
| navigation, walks | none, or a place in the tree with a depth | by name, by path; `traverse`, iterators | `XmlNavigation` |
| XPath paths | node sets, sorted or not | axes, tests, predicates, rewriting, early end | `XPathSteps` |

Not modelled are the rest of XPath, the headers of LevelDB and the project files
(section 7), and `tbx`, a submodule whose directory is empty. Paths, digests, the
folder listing and the string conversions come from `tbx` and are external to
the models.

**How the parts interact.** `main` is one thread. For each file of the folder
it calls `LogiqxParser::parse`, calls `ClrMameProParser::parse` when that gave
no entry, opens a `DatFile` under the file's name and files the entries one by
one: each goes into the set of records, and the address of the record that is
there afterwards goes into the DAT's map. `ClrMameProParser` runs the tokenizer,
which calls `SimpleTreeParser::token` for each token, which calls `pair` or
`scope`: nested synchronous callbacks over shared members. When every file is
done `main` hands over to FUSE, whose threads call `getattr`, `opendir` and
`readdir`; these read the database without a lock and write nothing but the
`fi->fh` of their own caller.

**What is hard.** Nothing here waits for a message, and only the LevelDB store
survives a restart. The difficulties are pointers into a growing set, equality and hashing that
disagree, files whose order decides the result, a hand-written parser whose
stack, flags and buffers must stay in step on any text, fields that outlive the
record they were read for, undefined behaviour reachable from input, and a file
handle that is sometimes a pointer, sometimes a marker and sometimes an error
code. In pugixml they are links, marks and counts that every one of a dozen
functions has to keep, so that the harm of one call shows many calls later: a
list that is a chain one way and a ring the other, strings that several nodes
share until one of them is set, a page that is given back by a count, a shortcut
that everybody has to switch off. Text is converted inside the buffer it is
read from, and trees are walked while they are edited. `PROJECT.json` lists each
hazard at its line with the properties that would notice it.

**What makes each part correct.**

- Database: equal records are shared as far as their hash codes allow; an
  address once given leads to the same contents for ever.
- Import: the catalogue depends on the order of the files and on nothing else;
  a name keeps the first entry filed under it; the import ends.
- Tokenizer: tokens are cut where brackets, blanks and quotes say.
- Scope parser: one key per open scope, plus one that waits; pairs and scopes
  are reported with their own keys; no well-formed text is undefined.
- ClrMamePro: one entry per `rom`, in order, with the fields that were given.
- Directories: no handle is misread; listing and lookup describe one tree; a
  file has the size of its first entry.
- The served file: a program that reads it, in whatever portions and at the
  largest offsets, gets its bytes and nothing else.
- Logiqx: the good roms in order, each with its own fields; totals that are theirs.
- Hasher: the digests printed for a file that could be read are of that file's
  bytes, whatever went wrong with the files before it.
- Store: what `write` acknowledged is there after every restart of the process.
- pugixml: lists and trees whole after any sequence of calls; no memory lost,
  freed twice or used after; a text read as reading it once from left to right
  would; what is written is read as the same tree; a loop over a tree that
  changes ends and leaves nothing out; an order and an early end that agree with
  the definition.

## 2. Modules, and how they correspond to the code

```
HashData <- DatabaseData <- Import ------------.
                  ^                             > Romatrix   (composition)
                  '------- MatrixFS ------------'
SimpleParser ----.
SimpleTreeParser -+-> ClrMamePro
HashData --------'
SimpleTreeParser <- ScopedInput      (implements ScopeTree)
Import                               (implements Catalogue)

HelloFile, Logiqx <- HashData, Hasher, LevelDBStore    one to a behaviour, in MCServices

XmlDom <- XmlNavigation              XmlDom (implements XmlForest)
XmlAttributes, XmlOrder, XPathSteps  in MCXmlTree, with the two above
XmlStrconv <- XmlText
XmlStrconv <- XmlParser <- XmlWriter (reads what it wrote)
XmlEncoding <- XmlBufferedWriter
XmlMemory, XmlLoad, XmlCopy, XmlValues                 in MCXmlText, with the five above
```

`MCServices`, `MCXmlTree` and `MCXmlText` are harnesses. Each takes several parts
that share no state, and a behaviour begins with the choice of one of them and
leaves the variables of the others alone: a run explores the union of its parts,
one by itself after the other. The components the proofs are about are extended
by their harness, which checks their properties under the constants the
theorems range over and leaves the idle ones at their beginning; the others are
instances, and their properties have in the harness the name of what they say
together.

`PROJECT.json` maps each definition to its lines. Comments marked "Mutant of"
belong to definitions that no specification uses: variants of the next
definition with a plausible bug, for which the property they are meant to break
does break.

**`HashData`, `DatabaseData`.** A record has the fields `operator==` compares
and the two flags the functor reads. `hashes` maps the address of each node of
the `unordered_set` to its record and `dats` maps each DAT to its map of
addresses. A lookup in an `unordered_set` is certain to find an equal element
only if it has the same hash code; one with another code may share the bucket or
not. `AddHashData` therefore may return an equal element with another code, or
insert a second one. Both happen in real builds (by bucket count and by whether
the library caches codes).

**`Import`.** `TakeFile` is the loop body down to `addDatFile`; `FileEntry` one
turn of the inner loop, with `addHashData` and the insert into the map;
`AssertFails` the same turn in a debug build when the functor's assertion
fails; `ParseAborts` a parse that does not return; `Mount` the end of the loop.
Parsers appear through their results, which are constants: any list of entries.
`taken` is a history of what was read, for the properties. The order of
`contentsOfFolder` is free. `Catalogue` is the abstract view: a map from DAT to
ROM to contents that only grows until it is sealed.

**`SimpleParser`.** One action per branch of the loop and one for the last
`emit()`. A run of ordinary characters is one character of the model, and a
token is the sequence of its characters. Line and column are left out: nothing
reads them.

**`SimpleTreeParser`.** One action per path through `token()`. `BackOfEmpty`
sets `undefined` where the code calls `back()` on an empty vector; after it
nothing more happens in the model, since nothing is promised. `ScopedInput`
feeds it the well-formed texts, generated by an author who knows only the depth
and whether a key waits. `ScopeTree` is the reader those texts deserve: a stack
of scopes, a key, and calls that carry the right key.

**`ClrMamePro`.** Joins the two with `pair()` and `scope()`. Each token is
handled before the next character is read (`AllHandled`), as the callbacks are
synchronous. A new `ParseEntry` has a size and crc32 that nothing initialises:
`Fresh` is the set of values they may have. `Decimal`, `Hex32`, `ToMd5` and
`ToSha1` are the conversions, constants of the model; the cut of the size to
its 60-bit field and of the sum to 64 bits are in the model. Its last part
generates the text of a structured DAT and states what must come back: field by
field, the latest value given up to the end of a rom (`Latest`), by places and
not by going through the text.

**`MatrixFS`, `Romatrix`.** Names and relative paths are sequences of
components, so a ROM's name may be empty or contain a separator. `GetAttr`,
`OpenedHandle` and `Filled` are what `getattr`, `opendir` and `readdir` compute;
handles are numbers below `Word`, with the marker for the list of DATs
(all ones), `-ENOENT` made unsigned, and an address per `DatFile`. A path that
is neither a folder nor a file gets success and zeroed attributes, as in the
code (mode `"none"`). A client is one open directory of the kernel's: `Lookup`,
then `OpenDir` if the answer was a directory, then `ReadDir`s, then `ReleaseDir`.
That order is FUSE's and external to the program, which relies on it: the code
tests no handle. `Romatrix` runs the import and then serves any number of
clients in any interleaving.

**`HelloFile`.** `open` and `read` as clients see them: `Open` answers with one
of three codes, `ReadNext` asks for any size at any offset that FUSE allows and
goes on from where it was, `Close`. `ReadSize` has the conversions of the code:
the offset is signed, the length is not, sums are modulo `Word`. `FuseAssumption`
is external: offsets are not negative, and a size together with the length of
the string fits a word.

**`Logiqx`.** A document is a value, nodes and attributes with what `child`,
`next_sibling(name)` and `attribute` of pugixml find in it. One action loads it,
one goes to the next `game`, one to the next `rom`, one ends. A new entry has
whatever was in memory for crc32. `debug` says whether assertions are compiled:
a behaviour begins in a release or in a debug build and never changes it. What
should come of the document is said by places, pairs of a game and a rom of it.

**`Hasher`.** One action for each call of `compute`, each of which may fail and
is not tested, and one for `reset` with the line that is printed. A digest is the
sequence of bytes it was fed. The file is opened in text mode, so a read turns
CR LF into LF and stops at a SUB. `new byte[size]` initialises nothing and the
last file's buffer has just been freed: `Allocate` gives any bytes of `Stale`,
which may be those of an earlier file, and `ReadFile` overwrites as many as it
reads.

**`LevelDBStore`.** One caller as the commented-out lines of `main` would be. A
failed `Open` leaves a null pointer, a failed `Put` may have been logged, the
process may die and start again, the machine may lose what was not synced.

**pugixml, the tree.** In `XmlDom` each function is an action whose new links
are those of the code, assignment by assignment (`AppendLinks`, `BeforeLinks`,
`RemoveLinks`, ...). A removed node is given back with everything below it.
Calls that are refused change nothing and are left out. `XmlForest` is what they
promise: a sequence of children per node, which `ChildSequences` reads off the links. `XmlNavigation` gives nodes names and
walks them, with an edit of the tree between any two steps of a walk.
`XmlAttributes` has the lists of attributes and the hint, which a caller may
keep over any edits. `XmlCopy` has the loops of `node_copy_tree` a turn at a time,
of the outer one (`CopyNode`, `SkipCopy`, `FailNode`) and of the inner one
(`GoAcross`, `GoUp`), an allocation failing at any turn, and the strings: in the
document's buffer or on the heap, shared or not, written in place or anew.

**pugixml, text.** `XmlStrconv` converts in place with the gap as the code keeps
it; `XmlText` runs one conversion and says what should come of it. `XmlParser`
takes a construct a step; its strings are positions in the buffer in which it
writes zeros, and the last character is held in `endch`. `XmlWriter` writes a
tree node by node, and its property has the parser, `XmlParser`, read the result.
`XmlEncoding` decodes, counts and writes units that are sequences of bytes;
alignment matters to the decoder and is a variable (`base`). `XmlBufferedWriter`
has each kind of `write` as an action. `XmlValues` takes a number's digits as a
text and the sums modulo the width of the type.

**pugixml, memory.** `XmlMemory` counts in blocks of the alignment. A page is a
record of what was handed out and freed. What is alive, and what it belongs to
(`ownerOf`: a document, or a node for its strings and children), is a history that
stands for the links of the tree; `destroy_node` frees what is below a node in any
order its recursion can take (`DestroyOrders`). The pages of a document, and
what is below a node, are least sets closed under a link. `XmlLoad` has one action for each stage of a load and one for each
call that can fail; a block is a name, and the question is who holds it.
`XmlOrder` keeps for each node where its name and value lie, or that they lie
outside, and the marks by which the shortcut is switched off.

**pugixml, XPath.** A path of `XPathSteps` is the chain of its syntax tree. The
walks of the axes are functions over nodes numbered in document order; `Optimized`
is the rewriting; evaluation is `all`, `first` or `any`, as the callers ask. The
definition it is compared with is that of XPath, by sets and positions.

## 3. Runs

| Run | What it explores | Properties |
|-----|------------------|------------|
| `import` | release build; three files, two of one name; up to two Logiqx entries or one ClrMamePro entry each; two ROMs, one under three flag settings; sha1 prefixes that collide; three nodes | `FirstEntryWins`, `DistinctRecords`, `RecordsWithinCount` |
| `import_debug` | debug build, parsers that may abort; fairness | `ImplementsCatalogue`, `ImportEnds` |
| `scoped_input` | every well-formed text over three words, four scopes deep, of any length | `InStep`, `NeverUndefined`, `ImplementsScopeTree` |
| `clrmame_dat` | every DAT of up to two items with up to two fields, with and without header; quoted names, missing fields, unknown fields, a size that does not fit | `ResultMatchesDat`, `DatNeverUndefined` |
| `clrmame_text` | every text of up to six characters over two words, brackets, quote and blank | `KeyOnStack`, `TokensOfThePrefix`, `InsideRomIsOpen`, `ParseEnds` |
| `romatrix` | import of three files, two of one name and some of them empty, then two clients over every path of up to three components and a relative one | `SystemTypeOK`, `HandlesLive`, `ListingMatchesLookups`, `SizeOfFirstEntry` |
| `clrmame_hashable` | as `clrmame_dat`; a violation is expected | `EntriesHashable` |
| `services` | parts `hello`, `logiqx` in a release and in a debug build, `hasher`, `store` | `ReadsAreTheFile`, `LogiqxReadsTheDocument`, `DigestsOfTheFile`, `StoreKeepsItsWord` |
| `xml_tree` | parts `dom`, `walk`, `order` | `ListsAndTrees`, `WhollyAttached`, `ImplementsForest`, `WalksVisitAll`, `OrderOfTheDocument` |
| `xml_queries` | parts `search`, `attributes`, `query` | `SearchesFind`, `AttributesKept`, `PathsSelect` |
| `xml_text` | parts `text`, `parser`, `writer`, `numbers`, `values` | `TextsConverted`, `ParsedInPlace`, `WrittenIsRead`, `ValuesTell` |
| `xml_bytes` | parts `memory`, `load`, `output`, `encoding`, `copy`; fairness of the copy's loop | `PagesOutliveObjects`, `BuffersHeldOnce`, `OutputInOrder`, `SavedIsLoaded`, `CopiesFaithful`, `CopyEnds` |

What they show:

- `FirstEntryWins`: each name of the catalogue leads to the contents of the
  first entry filed under it in loading order, and there are no other names.
- `DistinctRecords`: of the number of records `main` prints. `operator==` ignores
  the flags and the functor chooses by one of them, so the set may or may not find
  an equal record; still no contents filed are missing, none are made up, and the
  same contents are there twice only if they came both with and without an md5.
  The two flags have four settings; that the set tells only two of them apart is
  what the functor does.
  `RecordsWithinCount` ties the number of records to the total of entries.
- `ImplementsCatalogue`: through addresses, sharing and the freedom of the set,
  a reader sees a map that grows and is fixed once mounted. This is what makes
  the file system's unguarded reads sound.
- `InStep`, `ImplementsScopeTree`: on well-formed text the parser's one stack
  of keys means what the author of the text meant.
- `ResultMatchesDat`: the entries are those the structure determines, with the
  behaviour the code has today: a field that a rom leaves out comes from an
  earlier rom or from the game, and without a header the entries have no field.
- `KeyOnStack`, `TokensOfThePrefix`, `InsideRomIsOpen`, `ParseEnds`: what
  remains true on any text, since a file that Logiqx rejects is read as
  ClrMamePro text whatever it is. `TokensOfThePrefix` compares the tokenizer
  with a definition by position that has no state.
- `HandlesLive`: no open directory has `-ENOENT`, 0 or a foreign address for a
  handle. `ListingMatchesLookups`: what one client was listed another can look
  up, as the right kind, and what can be looked up is listed; for names of one
  component. `SizeOfFirstEntry` goes from the files to `st_size`.
- `ReadsAreTheFile`: the window that `read` copies lies in the string at every
  offset and size, and a program that goes on from where it was has a prefix.
- `LogiqxReadsTheDocument`: the entries are the good roms of the first datafile,
  no field comes from another rom, the totals are those of the entries; a debug
  build returns no entry on which the hash functor's assertion would fail.
- `DigestsOfTheFile`: if every call for a file succeeded, what is printed are its
  digests, whatever memory held and whatever failed before; where text mode
  shortens the file, digests of what is left and then of what was in the rest of the
  buffer. If a call failed, the three digests are still of the same bytes, as
  many as the size says. They may be bytes of an earlier file (section 6).
- `StoreKeepsItsWord`: a caller that heeds `init` never makes the class
  dereference a null pointer; acknowledged writes survive restarts of the
  process, and `shutdown` counts each key once.
- `ListsAndTrees`, `WhollyAttached`, `ImplementsForest`: see the proofs; the
  refinement also says at which place a node comes to lie.
- `WalksVisitAll`: a walk visits in document order what is there, nothing twice
  and nothing left out, and the depth it tells is the node's, while its steps
  insert and remove nodes anywhere but the node the walk is at.
- `SearchesFind`: `first_element_by_path` finds a node exactly if the path leads
  to one, and `path()` leads back.
- `AttributesKept`: the rings of attributes are whole, edits change them at the
  place named, and the lookup with a hint finds what the lookup without finds.
- `PathsSelect`: after the rewriting a path selects what it selected before, by
  the definition; a set that claims to be sorted is; the first node asked for is
  the first of the set.
- `TextsConverted`, `ParsedInPlace`: conversion through the gap gives what a
  reading from left to right gives; a text whose last character is in `endch`
  gives the tree of the same text with a zero behind it; no string that was read
  is written to again.
- `WrittenIsRead`: what is written, in every layout, is accepted by the parser
  and gives the same tree but for what the text cannot keep: neighbouring texts
  merge, empty ones vanish, hyphens in comments are kept apart.
- `ValuesTell`: a number written is read back, one that does not fit is clamped,
  and a text says what it was last set to wherever it lies.
- `PagesOutliveObjects`: no object in a page given back or over another, no empty
  page kept but the one allocated from, each page in the list of the one document
  whose objects lie in it, no assertion of the allocator fails.
- `BuffersHeldOnce`: through every failure of a load, each block has one holder or
  was freed, and a tree's strings are in memory that its document holds.
- `SavedIsLoaded`: what is saved in an encoding comes back, told or guessed; the
  pass that counts and the pass that writes agree, at every alignment.
- `OutputInOrder`: chunks put together are what was written; none exceeds the
  buffer of the conversion; none ends inside a character.
- `OrderOfTheDocument`: the comparator agrees with the tree for every two nodes or
  attributes after any of the edits.
- `CopiesFaithful`, `CopyEnds`: the copy is the tree as it was when copying began,
  also below that tree and without what could not be allocated; no later call
  changes the text of another node; and the loop ends.

**Why the bounds are enough.** Two DATs, of which one is loaded from two files,
give every order of a first, a repeated and an unrelated file. Two ROM names and
two records give a name kept, a name replaced if it could be, a record shared
inside a DAT and across DATs, and a record that comes back with other flags. Two
nodes are enough where flags do not vary; the third is for the twin. The scope
parser treats all words alike except the two brackets, so three words tell keys
and values apart; depth four passes every path with scopes below and above.
Six characters are enough for a key, a scope, a quote and a
stray bracket in any order; the properties of that run that concern the stack
are also proved for texts of any length. Two items show a field that survives
from one rom, or from the game, to the next. Two clients tell what each sees
from what the other sees; folders are one level deep, so three components
include every path that resolves and a deeper one that must not.

The parts of the harnesses, with their bounds beside the instances:

- `hello`: words of five bits, a string of four bytes, two readers; sizes and
  offsets about 0, the end of the string and the ends of the ranges.
- `logiqx`: a game of up to two roms and one of up to one; six roms tell each
  path of the loop and each missing field; a size that does not fit its field.
- `hasher`: a file with a line end, one with a SUB and an ordinary one; every call
  may fail; a failed `fstat` gives 0 or 3; memory holds a byte of the first file or
  one of none. `store`: two keys, two values, three records in the log.
- `dom`: two documents and three nodes of three types. An edit touches at most a
  parent, a node and its two neighbours; two documents are for moves between
  them. What is true of lists of any length is proved.
- `walk`, `search`: a document of four nodes, deep or wide, and one edit in a
  walk: before, behind, above or below where the walk is. Paths of five tokens
  hold `..` after a name, `.`, a leading and a doubled delimiter.
- `attributes`: two elements and a text, three attributes, two names.
- `query`: two documents in which every axis has something before, behind, above
  and below; one or two links added to a start, of 12 axes, and unions.
- `text`, `parser`: three pieces out of about twenty, cut so that the marks that
  end a construct meet half of themselves; alone, before an element, in one, in a
  document type, and cut off by one. `writer`: three nodes of every type.
- `numbers`: integers of two bytes; texts about each power at which the code
  decides. `values`: four calls, three children.
- `memory`: three pages of four units, so that a second page and a large one
  exist when the first is given back; sizes up to more than a page.
- `load`: sources that end before, at and behind the end of a chunk of two.
- `encoding`: up to three pieces out of characters of every width, a run of five
  that the decoder takes as a block, and bytes that are none; four alignments.
- `output`: a buffer of eight bytes and three calls, strings up to two buffers.
- `order`: a tree of three nodes and two attributes, three edits. `copy`: two
  documents, trees of three nodes, two calls after which nothing new is reached:
  one to share a string and one to set it.

Nodes still to be allocated are alike (`SYMMETRY` in `xml_tree` and
`xml_queries`; neither checks liveness).

`CHECK_DEADLOCK FALSE` is set where the program ends: after the mount, an abort
or the return of `parse()`; in the harnesses, where a text is converted, a
document loaded or a bound on the calls is reached. `scoped_input` checks for
deadlock.

## 4. Fairness

`import_debug` and `clrmame_text` assume weak fairness of the whole next-state
relation and nothing more. The code is one thread in loops that do not block,
so a step that can be taken is taken. `xml_bytes` assumes weak fairness of the
turns of one loop, that of `node_copy_tree`, and of nothing else: it is one
thread, the copy is one call, and whether a caller ever makes another is its own
affair. The other loops of pugixml are modelled by functions or in steps whose
number a property bounds (`EveryTurnAdvances` in `TextsConverted`). The file
system has no liveness property: a client may stay silent.

## 5. Proofs

| Module | Theorem | For every |
|--------|---------|-----------|
| `RomatrixProofs`, import | `TypeCorrect`, `FirstEntryWinsAlways`, `DistinctRecordsAlways`, `RecordsWithinCountAlways`, `Refinement` (`Spec => ImplementsCatalogue`) | folder, parser results, set of addresses, build |
| `ScopedInputProofs` | `TypeCorrect`, `InStepAlways`, `NeverUndefinedAlways`, `Refinement` (`Spec => ImplementsScopeTree`) | set of words, depth and length of text |
| `ClrMameProofs`, any text | `KeyOnStackAlways`, `InsideRomIsOpenAlways`, `TokensOfThePrefixAlways` | set of texts, well formed or not |
| `ClrMameProofs`, DATs | `ResultMatchesDatAlways`, `DatNeverUndefinedAlways` (of `DatSpec`) | set of DATs, with any items and fields; conversions; contents of new entries |
| `RomatrixProofs`, program | `SystemImports` (`SystemSpec => Spec`), `HandlesLiveAlways`, `ListingMatchesLookupsAlways`, `SystemTypeCorrect`, `SizeOfFirstEntryAlways` | folder, set of paths and clients, layout of the DatFiles |
| `ServicesProofs`, file calls | `TypeCorrect`, `ReadsInBoundsAlways`, `PrefixReadAlways`, `ReadsAreTheFileAlways` | string, width of a word, set of offsets and sizes, number of readers |
| `ServicesProofs`, Logiqx | `LogiqxReadsTheDocumentAlways` | document, conversions, contents of new entries, build |
| `ServicesProofs`, `Hasher` | `DigestsOfTheFileAlways` | list of files, contents of memory, width of the size field, calls that fail |
| `ServicesProofs`, store | `StoreKeepsItsWordAlways` | set of keys and values, length of the log, crashes and losses |
| `XmlProofs`, tree | `IInvAlways`, `TypeCorrect`, `ListsLinkedAlways`, `LoopsEnd`, `WhollyAttachedAlways`, `ListsAndTreesAlways`, `ImplementsForestAlways` (`Spec => ImplementsForest`) | number of nodes and documents, set of types, sequence of calls |
| `XmlEditProofs`, attributes | `AttributesKeptAlways` | set of nodes, attributes and names, sequence of calls and lookups |
| `XmlEditProofs`, copies | `CopiesFaithfulAlways` | finite set of nodes and strings, trees loaded, calls, nodes that cannot be allocated |
| `XmlMemoryProofs` | `PagesOutliveObjectsAlways` | set of documents and pages, sizes of pages, nodes and strings, sequence of calls |
| `XmlProofs`, loading | `BuffersHeldOnceAlways` | number of documents and blocks, sources, sizes of chunks, calls that fail |
| `XmlProofs`, output | `OutputInOrderAlways` | size of the buffer from eight bytes on, strings written, sequence of calls |

`DataLemmas` states once what several of these need: induction over the naturals
and over the parts of a finite set, what push, pop and top do to a sequence, sums,
remainders, sequences put together, and sequences into which a member is put or
from which it is taken.

**Assumptions.** `ImportAssumption`: files have names and parsers return lists
of entries. `ScopedAssumption`: brackets are not words. `SetUpAssumption` and
`ClrMameAssumption`: the tokenizer is set up as `parse()` does, and a new entry
has no flag set. `DatAssumption`: a DAT is a list of items with lists of fields,
the words of the format are words, and no value is empty, a bracket by itself or
contains a quote; these three the format cannot say, and the first two are
hazards of their own (an empty quoted value gives no token, a quoted bracket is
taken for a bracket), on which `KeyOnStack` and its like hold and
`ResultMatchesDat` cannot. `MatrixFSAssumption`: the name of a DAT has one component,
the names of a path are a sequence, and the address of a `DatFile` is not null, not all ones and not `-ENOENT`, and is
its own. `FuseAssumption`: what FUSE asks for, as above; without the bound on
sizes the sum in `read` wraps around. `DomAssumption`: documents are nodes, and
the null pointer is none; `AttributeAssumption` says the like.
`MemoryAssumption`: pages are not documents, a node is at most a quarter of a page, and a
page is shorter than the first size that a string's header cannot say (32768 bytes
less the page's header, against 524288).
`CopyAssumption`: documents are nodes, the null pointer is none of the things,
there are finitely many nodes and no fewer addresses for strings than nodes
(what may run out is left to `MayFail`), and a loaded tree is one the parser
leaves: ordered trees of nodes in use, no string at two nodes. `StoreAssumption`, `HasherAssumption`,
`LogiqxAssumption`, `LoadAssumption` and `OutputAssumption` say what the
constants are (a conversion gives a value of its field, a modulus is not zero, the
null pointer is no block); beyond that, a document is a tree of finite
lists, no string written ends inside a character, and the buffer of the output
holds the longest character, which it does with its 2048 bytes. TLC evaluates
each in a passing run.

**Induction.** No theorem here may take a predicate for a parameter, but a set
serves as well: `NatSetInduction` is induction for a set of naturals,
`NatRecursion` gives the function a recursion defines, `PartsInduction` goes
through the parts of a finite set. So sums, concatenations and folds are
within reach where they are recursive functions or those of the community
modules. What is defined by a RECURSIVE operator or `SelectSeq` is not.

**The import.** `FirstEntryWins` is not inductive: it says nothing of what
address an entry holds or of where the loop stands. `IInv` adds the type
invariant, `PointersValid` (every address in a DAT is in use) and `LoopInv` (the
entries still to be filed are the end of the list of the file read last, which
names the current DAT), and carries `TwinsDiffer` along (equal records differ in
their hash code). `TakeFile` adds
no position to those filed; `FileEntry` adds one, later than all others, so the
earliest position of a name changes only if it had none, which is exactly when
`insert` binds it; and no step changes the record at an address in use. The
refinement follows: `TakeFile` adds a DAT or stutters, `FileEntry` adds a ROM or
stutters, `Mount` and both aborts seal.

`RecordsWithinCountAlways` needs `CountInv`: the set of addresses in use is
finite, and what it holds together with the entries still to be filed is within
the total. Filing an entry takes one from the entries and adds at most one
record (`FileEntryCounts`, by the library's theorems on cardinalities).
`DistinctRecordsAlways` needs `RecordsInv`, that each record is that of an entry
filed and each entry filed has an equal record; then a record is determined by
its contents and the md5 flag, because these two determine its hash code and
`TwinsDiffer` does the rest. That is an injection into what was filed, and
`FS_Injection` compares the cardinalities (`RecordsAreKinds`).

**The scope parser.** `IInv` is the type invariant with `InStep` and
`NeverUndefined`: each grammar rule allows one path through `token()`, on a
stack whose length is known.

**The parser on any text.** `StackInv` says where on the stack the rom is that
`insideRom` speaks of: among the keys of open scopes, below a key that waits.
A pair takes only the key that waits; the end of a scope may take such a key in
place of its scope, and then `insideRom` is reset if that key was `rom`, and
the scopes below are untouched.

**The program.** `SystemImports` carries every theorem about the import over.
`FsInv` says that nobody has asked anything before the mount, that what a
client has been told is true of the store, and that handles are live; since the
store no longer changes, it stays so. `SizeOfFirstEntryAlways` combines it with
`FirstEntryWins`: the record a file's size comes from has the contents of the
first entry filed.

For `ListingMatchesLookupsAlways`, `TreeInv` says that before the mount nobody
was told anything, that the mode a client holds is what `getattr` answers for
the path it asked about, and that the names it was listed are those of the
directory it has open; `FolderInv` says that the folder name of a DAT is the name
it is filed under. What is left is about paths: one whose parent is the root has
one component, and one whose parent is a DAT is not the name of a DAT
(`OneComponentBelow`, from the assumption on names), so the branches of `getattr`
cannot be taken for one another.

**The tokenizer.** `TokensOfThePrefix` compares with a definition by position,
in which each position determines the tokens that end there (`TokensAt`) and the
word that is open (`TokenBefore`). `LexInv` adds that `quote` is the parity of the
quotes before the position. One lemma, `LexStep`, says that a step which does
what the definition asks of its position keeps it, and each branch of the loop
does; that what was emitted before is not touched is `FlattenAppend`.

**The parser on a DAT.** `ResultMatchesDat` needs three things, each of which is a
part of `DatInv`. First, that the tokens are those of the structure: a part of the
text that begins where no quote is open and the buffer is empty, and ends so,
yields the same tokens wherever it stands (`Yields`), and two such parts one behind
the other yield the tokens of both (`YieldsBoth`); so the tokens of a DAT follow
from those of a word, a bracket and a quoted value (`YieldsDat`), and `TextInv`
says that they are what has been emitted in the end. Second, where the parser
stands: `PlaceInv` says that the tokens it has not handled, its stack, its flags,
its entry and its result are together those of one place of the DAT
(`InDat`: in the header, at the game, behind an item, at the bracket of a rom,
behind a field, between key and value, behind the game). One lemma says what
`token()` makes of each kind of token (`TakeKey`, `TakeValue`, `TakeOpen`,
`TakeClose`), one for each place that the next token leads to another place.
Third, that the entry of the structure, which is defined by the last place that
gives a field, changes with the next field as `pair()` changes it (`EntryStep`),
and is at the beginning of a rom what the rom before left (`EntryBefore`). Some
text belongs to two places, that of an item without fields and that of the
next one, which is why `ItemStep` takes the last.

**Logiqx.** That the entries are the good roms needs to know which ones: `LogiqxInv`
says there is a list of places, increasing in the document, of which entry `i`
describes the `i`-th, and which are the good places that the two loops have passed
(`PlacesOf`), with where the cursors may stand (`CursorInv`) and that the total is
the sum of the sizes in its width (`TotalsInv`). A turn that skips a rom passes a
place that is not good, one that keeps it appends the place; the end of a game
passes all that is left of it. That no field comes from another rom is
`Describes`, in which every field is a function of that rom alone.

**Hasher.** `HasherInv` adds to the claims what is true between two calls: the
three digests are equal, the digest and the descriptor are as fresh as the next
call expects, the buffer is as long as the size, and, if none of the calls for
this file failed, the size is that of the file. Of the bytes beyond those read
it says only that they are bytes.

**The store.** `StoreKeepsItsWord` is inductive once one knows that a caller that
was told `init` succeeded has an open database. What it claims of the keys is
preserved by a crash because what is acknowledged is in the part of the log that
the process has handed over, and by the loss of power because only what was
not synced may go; the count of `shutdown` is the cardinality of what an iterator
finds (`Cardinality`, `MapThenFoldSet`).

**The served file.** `ReadsInBounds` follows from the arithmetic of `ReadSize`: a
signed offset that is not negative converts to itself, and the sum does not wrap
around, by `FuseAssumption`. `PrefixRead` then goes by each step: a window that
begins where the prefix ends prolongs it (`AdjacentParts`).

**The tree.** That each list is linked both ways is not inductive: an edit trusts
that no other list has the node, that no loop over `parent` or `next_sibling`
runs for ever, and that what is moved is not above where it goes. `IInv` says of
the links, taken as one value, that they are a ring (`Ring`, every fact about
`first`, `next` and `prev` in terms of the node they lead to) and that `next` has
no cycle, of `parent` that it has none, and which nodes are alive and where.
`NoCycle(f)` says that every non-empty set of nodes has one that `f` leads out
of, which needs no induction. One lemma per edit shows that the ring is kept
(`AppendRing`, `BeforeRing`, `RemoveRing`, ...), a second that the cycle does not
arise (`EndNoCycle`, `BetweenNoCycle`, `HangNoCycle`). That `next` has no cycle
is needed in one place only, and there it cannot be done without: a node that is
before its first sibling and has none behind is an only child (`OnlyChild`).
`HangNoCycle` uses what `allow_move` tests: the node is not `Above` its new
parent.

**The tree as a forest.** `ImplementsForest` compares the links with what a caller
thinks in, a sequence of children per node. `Chain(N, x, s)` says that `s` is what the
links `N` lead to from `x` on. Two chains from one node are equal
(`ChainUnique`, by induction over their places), and there is one from every
node (`ChainExists`): of the nodes without a chain, one would have `next` lead to
a node that has one. So `Kids(t)`, the sequences of the links `t`, are those for
which `Chain` holds, and an edit is understood by showing a chain of the new links:
the old sequence with the node put in (`InsertKids`) or taken out (`RemoveKids`).
The ring gives what those two need of each function (`AppendKids`, `PrependKids`,
`AfterKids`, `BeforeKids`, `TakenOutKids`), and that the members of a sequence are
those whose `parent` it is (`KidsSet`) makes the descendants of `XmlForest` the
subtree that `destroy_node` goes over (`BelowIs`). A document that is reset loses
what is alive in its pages, which is what is below it (`DocumentHolds`). Each
action then is a step of `XmlForest`, and the place of the node
(`PlaceRight`) follows from the place where it was put in, because no
node is twice in a sequence (`KidsDistinct`).

**The attributes.** `AttrInv` turns what `XmlAttributes` reads off the links around:
the links are told from the lists (`Laid`: for an attribute at a place of a list,
`next_attribute` is the one at the next place, and `prev_attribute_c` the one
before or, for the first, the last), no attribute is at two places, and those
with a name are those at some place. An edit of the links then is an edit of one
list: for each function, what it writes is what a list with the attribute put in
at `i` says (`LinkLastSplices`, `LinkBeforeSplices`, ...) or with the one at `i`
taken out (`UnlinkCuts`), and one lemma each for putting in and for taking out
shows that the other lists keep their links (`SpliceKeeps`, `CutKeeps`). That
the lists are what a walk along the links finds needs that the recursion of
`ListFrom` has a solution, and one only, whatever the links are outside of the
lists (`WalkExists`, `WalkIs`, by induction from the end of a list); the walk of
the iterators back is the same lemma for the reversed lists and
`previous_attribute` (`LeadsBack`). `HintedIs` then says what a lookup with a hint
finds: the hint is a place of the list or its end, and what is behind it and
what is before it are the whole list.

**The copies.** `of` in `job` tells what each copy was made of; `had` are the lists as
they were. While the loop runs there is a path (`Path`) of copies from `dn` down to
`dit`: each is a child of the one before, and what it was made of is a child of what
the one before was made of. For a copy on the path the children copied are those
before that child (`Reached`), for the last those before `sit`, or up to it when
the loop is in its inner part; a copy that is not on the path has all (`Whole`). The
place in the list as it is and in the list as it was differ once the loop is past
`dn`, if the copy is being put into the tree that is copied (`Olds`, `Kept`). So
`WalkCopies` makes the path longer by one, `WalkGoes` moves along a list or takes
the last off the path, and `WalkSkips` steps over a node, `dn` or one without memory.
Why the loop may compare `sit` with `sn` only on its way up: `sit` is never `sn`
otherwise, as the path of originals would be a circle (`WalkIsAt`). When `sit` is
`None` all copies are whole, and they are all of the subtree of `dn`, as the copies are
closed under children. For the strings, `StringsIn` adds to `StringsOwned` that nodes
that are not alive have none; a string that is taken from the heap is nobody's
(`UnusedIsFree`), and one there is as long as there is a node to be made
(`HeapLeft`, by counting). `Gives` then is all that a call does: one node reads
something else.

**The memory.** The invariant, `MemoryInvariant`, is `Sound` and `Owners`. `Sound` has three
parts. `PagesLinked`: the links of the pages are inverse to each other, the one
without a next is the root of its allocator, the one without a previous is the
sentinel, and every page is reached from the sentinel of its allocator; there is
one lemma for each way in which lists change (a page put last, put before the
root, taken out, all taken out, taken over by another document). `Counted`: what was freed
in a page and the sizes of what lies in it are what was handed out (`CountWithout`
for the sums). `Lying`: objects end where the used part does and no two overlap. An
object freed leaves a `Sound` memory (`DeallocateSound`), so does a whole order of
frees (`DestroySound`, by induction over the order), and when a page is given back
the count says that nothing lies in it. `Owners` says that what an object
belongs to lies in a page with the same allocator, and that each object is
reached from its document: without it nothing could be said of `destroy_node`, which
frees all that is below a node with the allocator of the node's parent, nor of
`_destroy`, which gives back the pages and must not leave an object in one. The
theorem is for callers that move from documents that had a node once
(`MoveEmpty = FALSE`), for the others it is wrong (section 6).

**Loading.** Each block has one holder, or is in flight: in the hands of the call
that is under way. `HeldInv(flight)` says so of the documents, `Flight` says which
blocks those are in each stage (the chunks of a stream, a buffer given away), and
`ChunksInv` and `ReadyInv` say what such a call has gathered. Each step is then a
transfer between three sets: the documents, the call and the heap; one lemma for
each kind of transfer (allocate, give back, hand over, move between documents)
serves all of them.

**The output.** `OutInv` is that the chunks and the buffer put together are what was
written (`Sound`) and, when the output is converted, that each chunk fits and none
ends inside a character (`Cut`). The heart is `Chunks`, the loop of `write_direct`
over long data: by induction over what is left of the data, each turn
takes off up to a byte that begins a character (`ValidLength`), at least one and at most
what the buffer holds. It may find no such byte among the last four, and then
cuts at the full length: with four bytes that continue there was no character
to be cut.

**Only model-checked.** `ImportEnds`, `ParseEnds` and `CopyEnds`, liveness under
fairness, which is outside the prover. What concerns texts, numbers and
encodings in pugixml (`TextsConverted`, `ParsedInPlace`, `WrittenIsRead`,
`ValuesTell`, `SavedIsLoaded`) and walks and paths (`WalksVisitAll`, `SearchesFind`,
`PathsSelect`): they compare two recursive definitions, RECURSIVE ones among them,
and the proof would be about those more than about the code. `OrderOfTheDocument`
is in reach of the prover, as its recursion is a function; it is left to TLC because
the comparator by depths would have to be related to the whole list of a tree.

## 6. Disagreements found

**Digests without flags.** `ClrMameProParser::pair` stores digests without
setting their flags, so every entry it returns has none. The hash functor
asserts one (`assert(o.md5enabled || o.sha1enabled);`, `entry.h:52`): a debug
build aborts on the first entry of any ClrMamePro DAT, and a release build
hashes the sha1 even when only the md5 was given. `clrmame_hashable` shows an
entry that the assertion rejects; in `import_debug` such an entry takes the
import to `"aborted"`, and `import` covers the release build, where it becomes a
twin of the flagged record of the same ROM.

The rest were met while modelling. No run is given to them; each can be seen by
the change that is named.

- `LogiqxParser` asserts a digest for every good rom (`logiqx.cpp:62`), and a rom
  with nothing but a crc is a good rom to the code before. A debug build stops at
  it, a release build returns an entry that the hash functor's assertion rejects.
  Claim `GoodRomsHaveDigest` of the part `logiqx` too.
- `xml_document::_move` (`pugixml.cpp:6960`) takes over the page list of a document
  that never had a page, that is its sentinel; after that the document that was
  moved to has no `prev` for its root page, and the first large allocation fails
  `assert(_root->prev)` (`pugixml.cpp:731`). Set `MoveEmpty` to `TRUE`.
- `allocate_string` allows a page as long as the first size its header cannot say
  (`PUGI__STATIC_ASSERT(xml_memory_page_size <= max_encoded_offset)`, `pugixml.cpp:641`). A
  string of that size put into an emptied root page has size 0 in its header, and is
  freed as the whole page as long as nothing changes the page's count; that count is
  stale while the page is the root (`pugixml.cpp:685`), and 0 blocks are freed. The
  compiled sizes are far apart. Set `PageSize` to `MaxEncoded`.
- `parse_fragment` adds "plain character data that does not have a parent node"
  to the tree (`pugixml.hpp:195`), without the last character if the text ends
  there. Set `fragment` in `DefaultOptions`.
- `Hasher::compute` gives `size` bytes to the digests, however few `_read` put into
  the buffer: a file with a CR LF or a SUB, or one that could not be read, is
  printed with digests of memory nothing initialised, which may be the buffer
  `compute` freed for the file before. Claim `r.sha1 = File[i]` in `OwnDigest`
  without `Plain`.
- `load_buffer_inplace_own` says that the document "will free the buffer when it is
  no longer needed" (`pugixml.hpp:1051`); when the conversion has no memory nobody
  does (`pugixml.cpp:4691`). `load_file` and the loads from a stream come to the
  same line with a buffer of their own, and lose it in the same way. Put `"convert own"` into `Failing` and claim `NothingLost`.
- A document with the mark that switches the shortcut of document order off loses
  it when it is moved. Set `MoveShared` to `TRUE`. With `parse_embed_pcdata` an
  element has a value that lies behind its attributes and before its children:
  compared with an attribute, by name and value, the places can mislead. Give
  node 3 of `ParsedTree` the value 18.
- `xml_text::set("")` on an element that has text of its own and a text child
  clears the former, after which the latter is the text: `set` returned true and
  `get` does not give the empty string. Set `ClearEmbedded` to `TRUE`.

## 7. Not modelled

- `statfs` and `access`: constant answers. `Hasher::update` and `get`: the lines of
  `compute` once more, and `main` does not call them. `aproximateSize` and the
  totals `main` prints beyond the counts: arithmetic for display.
- LevelDB, `tbx` and FUSE: external. FUSE appears through the order of its calls.
- The rest of pugixml's XPath: the lexer and parser (a grammar, not modelled
  yet), the expressions and functions (floating point and strings), and its
  allocator, strings, variables and sorts. Of location paths: namespaces, tests
  for comments and instructions, attributes named `xmlns`. Nodes of two documents
  are not compared, which the code does by address.
- `save_file`, `print` and the writers to streams: chunks handed to a library.
  `find_child_by_attribute`, the `find_*` templates and iterators over attributes:
  plain loops over what is modelled; handles, operators and hashes: one line each.
- Compact and `wchar_t` modes of pugixml: `pugiconfig.hpp` defines neither.
- In what is modelled: allocations that fail in the parser and in edits (a call
  that has no memory changes nothing; copies and loads are modelled with
  failures), the byte order mark that the parser skips, overlong forms of UTF-8,
  floating-point values, `format_no_escapes` and `format_save_file_text`, a step of
  a walk that removes or moves the node the walk is at, which pugixml forbids.

## 8. Plan

Done: the import with its abstract catalogue, the ClrMamePro parser in three
layers, the directory tree and the whole program; `Logiqx`, `Hasher`, `HelloFile`
and `LevelDBStore`; of pugixml all that `LogiqxParser` and `load_file` reach, and
the edits, copies, output, walks and location paths beside it; proofs of the
import, the scope parser, the tokenizer, `Logiqx`, the hasher, the store, the
program, the served file, the tree with its refinement, the attributes, the
copies, the memory, loading and output.

Left, in this order:

1. The two parsers in sequence as `main` calls them (`main.cpp:378-381`), in place
   of the constants of `Import`.
2. XPath's allocator with capture and restore, then its lexer and parser.
