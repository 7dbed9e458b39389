---------------------------- MODULE DatabaseData ----------------------------
(***************************************************************************)
(* The in-memory database of src/main.cpp: a set of HashData records and a *)
(* map from DAT name to DatFile, whose entries point into that set.        *)
(*                                                                         *)
(* A record lives in a node of the unordered_set, at an address that never *)
(* changes; a const HashData* is that address.  A DatFile* is the key of   *)
(* its node in the map; the fields of the DatFile are the variables        *)
(* folderName and dats, indexed by that key.                               *)
(***************************************************************************)
EXTENDS HashData

CONSTANTS
  DatName,   \* names of DAT files
  RomName,   \* names of ROM entries
  Node       \* heap addresses std::unordered_set may place a record at

VARIABLES
  dats,         \* _dats: the entries of each DAT, RomName -> Node
  folderName,   \* the folder name of each DAT
  hashes        \* _hashes: the record at each node in use

storeVars == <<dats, folderName, hashes>>

EmptyMap == [k \in {} |-> k]

\* Map m with v bound to k.
Bind(m, k, v) == [x \in DOMAIN m \cup {k} |-> IF x = k THEN v ELSE m[x]]

\* std::unordered_map::insert: a key already there keeps its value.
MapInsert(m, k, v) == IF k \in DOMAIN m THEN m ELSE Bind(m, k, v)

IsMap(m, S, T) == \E D \in SUBSET S : m \in [D -> T]

StoreTypeOK ==
  /\ IsMap(folderName, DatName, DatName)
  /\ dats = [d \in DOMAIN folderName |-> dats[d]]
  /\ \A d \in DOMAIN dats : IsMap(dats[d], RomName, Node)
  /\ IsMap(hashes, Node, HashRecord)

StoreInit ==
  /\ dats = EmptyMap
  /\ folderName = EmptyMap
  /\ hashes = EmptyMap
-----------------------------------------------------------------------------
\* addDatFile, with the DatFile main builds: its two names are the same.
AddDatFile(name) ==
  /\ dats' = MapInsert(dats, name, EmptyMap)
  /\ folderName' = MapInsert(folderName, name, name)

\* The set holds an element that insert of h is certain to find: one that is
\* equal and has the same hash code.
Present(h) == \E a \in DOMAIN hashes :
                SameHash(hashes[a], h) /\ HashCode(hashes[a]) = HashCode(h)

\* Mutant of AddHashData: storage that moves, so an address can be reused.
AddHashDataMoving(h, a) ==
  /\ a \in Node
  /\ ~Present(h)
  /\ hashes' = Bind(hashes, a, h)

(***************************************************************************)
(* addHashData: _hashes.insert(h) returns the element at address a.  An    *)
(* equal element with another hash code may share the bucket h goes to, or *)
(* not, so the insert may find it or miss it.                              *)
(***************************************************************************)
AddHashData(h, a) ==
  \/ /\ a \in DOMAIN hashes
     /\ SameHash(hashes[a], h)
     /\ UNCHANGED hashes
  \/ /\ a \in Node \ DOMAIN hashes
     /\ ~Present(h)
     /\ hashes' = Bind(hashes, a, h)

\* Mutant of AddEntry: entries[name] = hash, which replaces.
AddEntryAssign(d, name, a) ==
  /\ dats' = [dats EXCEPT ![d] = Bind(@, name, a)]
  /\ UNCHANGED folderName

\* datFile->entries.insert(name, hash), for the DatFile of DAT d.
AddEntry(d, name, a) ==
  /\ dats' = [dats EXCEPT ![d] = MapInsert(@, name, a)]
  /\ UNCHANGED folderName
-----------------------------------------------------------------------------
\* What a reader sees: the contents each entry's pointer leads to.
Published ==
  [d \in DOMAIN dats |->
     [n \in DOMAIN dats[d] |-> Contents(hashes[dats[d][n]])]]
=============================================================================
