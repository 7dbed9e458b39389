------------------------------- MODULE Romatrix -------------------------------
(***************************************************************************)
(* The whole program: main() imports the DATs and then mounts the file     *)
(* system, whose callbacks read the database and never write it.           *)
(***************************************************************************)
EXTENDS Import, MatrixFS

allVars == <<vars, fsVars>>

SystemInit == Init /\ FsInit

\* fuse_main runs inside createHandle, after the import.
Serve == status = "mounted" /\ FsStep /\ UNCHANGED vars

SystemNext == (Next /\ UNCHANGED fsVars) \/ Serve

SystemSpec == SystemInit /\ [][SystemNext]_allVars
-----------------------------------------------------------------------------
SystemTypeOK == TypeOK /\ FsTypeOK

(***************************************************************************)
(* End to end: the size a file is shown with is that of the first entry of *)
(* its name in the DATs of its folder's name, in loading order.            *)
(***************************************************************************)
SizeOfFirstEntry ==
  \A c \in Client : seen[c].mode = "file" =>
    LET names == seen[c].path.names IN
    \E p \in Earliest(FiledAs(Front(names), <<Last(names)>>)) :
      seen[c].size = EntryAt(p).hash.size
=============================================================================
