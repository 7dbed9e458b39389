------------------------------- MODULE MatrixFS -------------------------------
(***************************************************************************)
(* The directory tree of MatrixFS in src/main.cpp: getattr, opendir and    *)
(* readdir over the in-memory database.                                    *)
(*                                                                         *)
(* A name and a relative path are sequences of path components.  The name  *)
(* of a DAT is a filename(), one component; the name of a ROM is whatever  *)
(* its DAT says, so it may be empty or hold a separator.                   *)
(*                                                                         *)
(* A client stands for one open directory of the kernel's: FUSE asks the   *)
(* attributes of a path, opens it if they are a directory's, and then      *)
(* reads it through the handle opendir left in fi->fh.                     *)
(***************************************************************************)
EXTENDS DatabaseData, Integers, Sequences, SequencesExt

CONSTANTS
  Path,         \* paths FUSE passes: [absolute, names]
  Client,
  Word,         \* 2^64, the number of values of fi->fh
  ENOENT,
  DatAddress,   \* DatAddress[d]: the address of the DatFile of d
  Closed        \* no directory open

Root == [absolute |-> TRUE, names |-> <<>>]

\* The special values of fi->fh: all ones, and -ENOENT made unsigned.
DAT_LIST_FH_HANDLE == Word - 1
MissingHandle == Word - ENOENT

ASSUME MatrixFSAssumption ==
  /\ \A d \in DatName : d = <<d[1]>>
  /\ \A p \in Path : /\ p.absolute \in BOOLEAN
                      /\ Len(p.names) \in Nat
                      /\ p.names = [i \in 1..Len(p.names) |-> p.names[i]]
  /\ Word \in Nat /\ ENOENT \in 2..(Word - 1)
  /\ \A d \in DatName : DatAddress[d] \in 1..(Word - 1)
                           \ {DAT_LIST_FH_HANDLE, MissingHandle}
  /\ \A d, e \in DatName : DatAddress[d] = DatAddress[e] => d = e
  /\ Closed \notin Int

VARIABLES
  seen,      \* the last path each client asked about, and the answer
  handle,    \* fi->fh of each client's open directory
  listing    \* what each client's last readdir of its directory gave

fsVars == <<seen, handle, listing>>

Mode == {"dir", "file", "none", "ENOENT"}

FsTypeOK ==
  /\ seen \in [Client -> [path : Path \cup {Root}, mode : Mode,
                         size : Size \cup {0}]]
  /\ handle \in [Client -> 0..(Word - 1) \cup {Closed}]
  /\ listing \in [Client -> [result : {"none", "ok", "ENOENT"},
                            names : SUBSET (DatName \cup RomName)]]

Answer(result, names) == [result |-> result, names |-> names]

FsInit ==
  /\ seen = [c \in Client |-> [path |-> Root, mode |-> "none", size |-> 0]]
  /\ handle = [c \in Client |-> Closed]
  /\ listing = [c \in Client |-> Answer("none", {})]
-----------------------------------------------------------------------------
Reply(p, mode, size) == [path |-> p, mode |-> mode, size |-> size]

\* datForName finds a DAT of that name.
HasDat(name) == name \in DOMAIN dats

\* The path is a ROM of a DAT: parent() is the DAT and filename() the ROM.
IsEntry(names) ==
  /\ names # <<>>
  /\ HasDat(Front(names))
  /\ <<Last(names)>> \in DOMAIN dats[Front(names)]

\* The paths getattr finds a folder or a file at.
IsDir(p) == p = Root \/ (p.absolute /\ HasDat(p.names))
IsFile(p) == p.absolute /\ ~HasDat(p.names) /\ IsEntry(p.names)

\* The record a ROM's entry points to.
RecordOf(names) == hashes[dats[Front(names)][<<Last(names)>>]]

\* getattr.  Mode "none": success, with every field left zero.
GetAttr(p) ==
  IF IsDir(p) THEN Reply(p, "dir", 0)
  ELSE IF IsFile(p) THEN Reply(p, "file", RecordOf(p.names).size)
  ELSE Reply(p, IF p.absolute THEN "none" ELSE "ENOENT", 0)

\* Mutant of OpenedHandle: the root is not special.
OpenedHandleNoRoot(p) ==
  IF HasDat(p.names) THEN DatAddress[p.names] ELSE MissingHandle

\* Mutant of OpenedHandle: the handle is signed.
OpenedHandleSigned(p) ==
  IF p = Root THEN -1
  ELSE IF IsDir(p) THEN DatAddress[p.names]
  ELSE MissingHandle

\* The handle opendir leaves in fi->fh; it returns 0 whatever it finds.
OpenedHandle(p) ==
  IF p = Root THEN DAT_LIST_FH_HANDLE
  ELSE IF IsDir(p) THEN DatAddress[p.names]
  ELSE IF p.absolute THEN MissingHandle ELSE 0

\* Mutant of Filled: DATs without entries are not listed.
FilledNonEmpty(fh) ==
  IF fh = DAT_LIST_FH_HANDLE
    THEN Answer("ok", {folderName[d] : d \in {e \in DOMAIN dats : dats[e] # EmptyMap}})
  ELSE IF \E d \in DOMAIN dats : DatAddress[d] = fh
    THEN Answer("ok", DOMAIN dats[CHOOSE d \in DOMAIN dats :
                                    DatAddress[d] = fh])
  ELSE Answer("ENOENT", {})

\* The names readdir fills in beside "." and "..".  A handle that is not the
\* address of a DatFile is dereferenced all the same.
Filled(fh) ==
  IF fh = DAT_LIST_FH_HANDLE
    THEN Answer("ok", {folderName[d] : d \in DOMAIN folderName})
  ELSE IF fh = 0
    THEN Answer("ENOENT", {})
  ELSE IF \E d \in DOMAIN dats : DatAddress[d] = fh
    THEN Answer("ok", DOMAIN dats[CHOOSE d \in DOMAIN dats :
                                    DatAddress[d] = fh])
  ELSE Answer("undefined", {})
-----------------------------------------------------------------------------
Lookup(c, p) ==
  /\ handle[c] = Closed
  /\ seen' = [seen EXCEPT ![c] = GetAttr(p)]
  /\ UNCHANGED <<handle, listing>>

OpenDir(c) ==
  /\ handle[c] = Closed
  /\ seen[c].mode = "dir"
  /\ handle' = [handle EXCEPT ![c] = OpenedHandle(seen[c].path)]
  /\ UNCHANGED <<seen, listing>>

ReadDir(c) ==
  /\ handle[c] # Closed
  /\ listing' = [listing EXCEPT ![c] = Filled(handle[c])]
  /\ UNCHANGED <<seen, handle>>

\* MatrixFS has no releasedir: FUSE forgets the handle.
ReleaseDir(c) ==
  /\ handle[c] # Closed
  /\ handle' = [handle EXCEPT ![c] = Closed]
  /\ listing' = [listing EXCEPT ![c] = Answer("none", {})]
  /\ UNCHANGED seen

FsStep ==
  \/ \E c \in Client, p \in Path : Lookup(c, p)
  \/ \E c \in Client : OpenDir(c) \/ ReadDir(c) \/ ReleaseDir(c)
-----------------------------------------------------------------------------
(***************************************************************************)
(* readdir casts fi->fh to a DatFile* without a test that could tell       *)
(* -ENOENT from an address.  It is safe because a directory is opened only *)
(* after getattr called it one, and then opendir finds the very DAT.       *)
(***************************************************************************)
HandlesLive ==
  \A c \in Client : handle[c] # Closed =>
    \/ seen[c].path = Root /\ handle[c] = DAT_LIST_FH_HANDLE
    \/ /\ HasDat(seen[c].path.names)
       /\ handle[c] = DatAddress[seen[c].path.names]

(***************************************************************************)
(* readdir, which lists folder names and map keys, and getattr, which      *)
(* splits paths, describe one tree: a name of one component that one       *)
(* client was given is a folder (below the root) or a file (below a DAT)   *)
(* when another asks for it, and what is found by asking is listed.        *)
(***************************************************************************)
Under(p, q) == /\ p.absolute /\ p.names # <<>>
               /\ q = [absolute |-> TRUE, names |-> Front(p.names)]

ListingMatchesLookups ==
  \A c, k \in Client :
    LET p == seen[k].path IN
    /\ listing[c].result = "ok"
    /\ Under(p, seen[c].path)
    => IF <<Last(p.names)>> \in listing[c].names
         THEN seen[k].mode = IF seen[c].path = Root THEN "dir" ELSE "file"
         ELSE seen[k].mode = "none"
=============================================================================
