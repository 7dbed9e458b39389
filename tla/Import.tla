-------------------------------- MODULE Import --------------------------------
(***************************************************************************)
(* The import loop of main() in src/main.cpp: read every file of the dats  *)
(* folder, parse it as Logiqx and, if that yields nothing, as ClrMamePro,  *)
(* and file each entry in the database; then mount the file system.        *)
(*                                                                         *)
(* The parsers are given by what they return.  The folder is listed in an  *)
(* unspecified order, and two files may have the same filename().          *)
(***************************************************************************)
EXTENDS DatabaseData, Naturals, Sequences, FiniteSets

CONSTANTS
  File,            \* the files in the dats folder
  FileName,        \* FileName[f]: filename() of f's path, which names its DAT
  LogiqxResult,    \* entry lists LogiqxParser::parse may return
  ClrMameResult,   \* entry lists ClrMameProParser::parse may return
  AssertsEnabled,  \* FALSE in a build with NDEBUG
  ParserMayAbort,  \* TRUE if a parse may not return (see ParseAborts)
  NoDat            \* no DatFile yet

ParseEntry == [name : RomName, hash : HashRecord]

ASSUME ImportAssumption ==
  /\ FileName \in [File -> DatName]
  /\ \A r \in LogiqxResult \cup ClrMameResult : r \in Seq(ParseEntry)
  /\ {AssertsEnabled, ParserMayAbort} \subseteq BOOLEAN
  /\ NoDat \notin DatName

VARIABLES
  unread,     \* files the range-for has not reached
  datFile,    \* key of the DatFile the current entries go to
  entries,    \* entries of the current file not filed yet
  count,      \* tresult.count
  status,     \* "importing", "mounted", or "aborted" before it
  taken       \* history: DAT name and entries of each file read, in order

vars == <<storeVars, unread, datFile, entries, count, status, taken>>

Importing == status = "importing"

TypeOK ==
  /\ StoreTypeOK
  /\ unread \subseteq File
  /\ datFile \in DatName \cup {NoDat}
  /\ entries \in Seq(ParseEntry)
  /\ count \in Nat
  /\ status \in {"importing", "mounted", "aborted"}
  /\ taken \in Seq([dat : DatName, entries : Seq(ParseEntry)])

Init ==
  /\ StoreInit
  /\ unread = File
  /\ datFile = NoDat
  /\ entries = <<>>
  /\ count = 0
  /\ status = "importing"
  /\ taken = <<>>
-----------------------------------------------------------------------------
\* The Logiqx parse, or the ClrMamePro one when that is empty.
ParseResult == {r \in LogiqxResult : r # <<>>} \cup
               (IF <<>> \in LogiqxResult THEN ClrMameResult ELSE {})

\* Mutant of TakeFile: the total of a file replaces the running total.
TakeFileLastTotal(f) ==
  /\ Importing
  /\ entries = <<>>
  /\ unread' = unread \ {f}
  /\ \E result \in ParseResult :
       /\ entries' = result
       /\ count' = Len(result)
       /\ taken' = Append(taken, [dat |-> FileName[f], entries |-> result])
  /\ datFile' = FileName[f]
  /\ AddDatFile(FileName[f])
  /\ UNCHANGED <<hashes, status>>

\* Top of the loop body: parse the next file and open its DatFile.
TakeFile(f) ==
  /\ Importing
  /\ entries = <<>>
  /\ unread' = unread \ {f}
  /\ \E result \in ParseResult :
       /\ entries' = result
       /\ count' = count + Len(result)
       /\ taken' = Append(taken, [dat |-> FileName[f], entries |-> result])
  /\ datFile' = FileName[f]
  /\ AddDatFile(FileName[f])
  /\ UNCHANGED <<hashes, status>>

\* A parse that does not return: the assertion of LogiqxParser fails, or
\* SimpleTreeParser takes the back of an empty vector.
ParseAborts ==
  /\ Importing
  /\ ParserMayAbort
  /\ entries = <<>>
  /\ unread # {}
  /\ status' = "aborted"
  /\ UNCHANGED <<storeVars, unread, datFile, entries, count, taken>>

\* Mutant of FileEntry: the inner loop does not move on.
FileEntryAgain ==
  /\ Importing
  /\ entries # <<>>
  /\ AssertsEnabled => Hashable(Head(entries).hash)
  /\ \E a \in Node :
       /\ AddHashData(Head(entries).hash, a)
       /\ AddEntry(datFile, Head(entries).name, a)
  /\ UNCHANGED <<entries, unread, datFile, count, status, taken>>

\* One turn of the inner loop.
FileEntry ==
  /\ Importing
  /\ entries # <<>>
  /\ AssertsEnabled => Hashable(Head(entries).hash)
  /\ \E a \in Node :
       /\ AddHashData(Head(entries).hash, a)
       /\ AddEntry(datFile, Head(entries).name, a)
  /\ entries' = Tail(entries)
  /\ UNCHANGED <<unread, datFile, count, status, taken>>

\* The insert calls the hash functor, whose assertion fails.
AssertFails ==
  /\ Importing
  /\ entries # <<>>
  /\ AssertsEnabled
  /\ ~Hashable(Head(entries).hash)
  /\ status' = "aborted"
  /\ UNCHANGED <<storeVars, unread, datFile, entries, count, taken>>

\* Both loops are done: createHandle mounts the file system.
Mount ==
  /\ Importing
  /\ entries = <<>>
  /\ unread = {}
  /\ status' = "mounted"
  /\ UNCHANGED <<storeVars, unread, datFile, entries, count, taken>>

Next ==
  \/ \E f \in unread : TakeFile(f)
  \/ ParseAborts
  \/ FileEntry
  \/ AssertFails
  \/ Mount

Spec == Init /\ [][Next]_vars

\* main is one thread that nothing blocks.
FairSpec == Spec /\ WF_vars(Next)
-----------------------------------------------------------------------------
(***************************************************************************)
(* What the catalogue must hold, computed from the files read so far.      *)
(***************************************************************************)

\* Entries of the i-th file that have been filed.
FiledOf(i) == IF i = Len(taken)
                THEN Len(taken[i].entries) - Len(entries)
                ELSE Len(taken[i].entries)

\* Positions <<file, entry>> filed so far.
Filed == UNION {{i} \X (1..FiledOf(i)) : i \in DOMAIN taken}

EntryAt(p) == taken[p[1]].entries[p[2]]

\* Positions filed under DAT d and ROM name n.
FiledAs(d, n) == {p \in Filed : taken[p[1]].dat = d /\ EntryAt(p).name = n}

Precedes(p, q) == p[1] < q[1] \/ (p[1] = q[1] /\ p[2] < q[2])

\* The earliest positions of S in loading order.
Earliest(S) == {p \in S : \A q \in S : ~Precedes(q, p)}

(***************************************************************************)
(* Loading order decides, and nothing else does: the catalogue has exactly *)
(* the DATs of the files read and exactly the ROM names filed under each,  *)
(* and each name leads to the contents of the first entry filed under it,  *)
(* however records are shared and whatever was filed since.                *)
(***************************************************************************)
FirstEntryWins ==
  /\ DOMAIN dats = {taken[i].dat : i \in DOMAIN taken}
  /\ \A d \in DOMAIN dats :
       /\ DOMAIN dats[d] = {n \in RomName : FiledAs(d, n) # {}}
       /\ \A n \in DOMAIN dats[d] :
            \E p \in Earliest(FiledAs(d, n)) :
              Published[d][n] = Contents(EntryAt(p).hash)

\* What has been filed, as far as operator== and the hash functor tell it
\* apart: the functor looks at no flag but md5enabled.
FiledKinds ==
  {<<Contents(EntryAt(p).hash), EntryAt(p).hash.md5enabled>> : p \in Filed}

(***************************************************************************)
(* The number of records main prints: the contents in the set are those of *)
(* the entries filed, with none lost and none made up, and although        *)
(* operator== and the hash functor disagree on equal records, contents are *)
(* kept twice only if they came both with an md5 and without, whatever the *)
(* other flag was, in whatever order and from whichever parser.            *)
(***************************************************************************)
DistinctRecords ==
  /\ {Contents(hashes[a]) : a \in DOMAIN hashes}
       = {Contents(EntryAt(p).hash) : p \in Filed}
  /\ Cardinality(DOMAIN hashes) <= Cardinality(FiledKinds)

(***************************************************************************)
(* The two totals main prints are consistent: there are never more records *)
(* in the set than entries counted and filed.                              *)
(***************************************************************************)
RecordsWithinCount == Cardinality(DOMAIN hashes) + Len(entries) <= count

(***************************************************************************)
(* The import implements the abstract catalogue: pointers, sharing and the *)
(* nondeterminism of the set are invisible to a reader, whose catalogue    *)
(* only grows while importing and is fixed from then on.                   *)
(***************************************************************************)
Abstract == INSTANCE Catalogue WITH
  Dat <- DatName,
  Rom <- RomName,
  Content <- {Contents(h) : h \in HashRecord},
  catalogue <- Published,
  sealed <- ~Importing

ImplementsCatalogue == Abstract!Spec

(***************************************************************************)
(* The import ends, with the file system mounted unless the program was    *)
(* aborted: no file and no entry keeps the loops from advancing.           *)
(***************************************************************************)
ImportEnds == <>(status \in {"mounted", "aborted"})
=============================================================================
