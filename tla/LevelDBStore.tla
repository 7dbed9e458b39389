---------------------------- MODULE LevelDBStore ----------------------------
(***************************************************************************)
(* LevelDBDatabase of src/main.cpp, a DatabaseStore over LevelDB, with a   *)
(* caller that uses it as the commented-out lines of main would: init(),   *)
(* and then contains(), write() and shutdown() if init() returned true.    *)
(*                                                                         *)
(* LevelDB itself is external: an Open that fails stores a null pointer,   *)
(* a Put that fails may have been logged, and the writes of this program   *)
(* ask for no sync, so a crash of the machine may lose the last of them    *)
(* while a crash of the process loses none.                                *)
(***************************************************************************)
EXTENDS Integers, Sequences, FiniteSets, Functions

CONSTANTS
  Key,
  Value,       \* values, a value being its size
  MaxWrites    \* bound on the records in the log

NoKey == "NoKey"

StoreAssumption == MaxWrites \in Nat /\ Value \subseteq Nat /\ NoKey \notin Key

VARIABLES
  db,            \* the member: "unset", "null", "open" or "deleted"
  log,           \* the records of the database, in the order they were put
  synced,        \* how many of them a crash of the machine leaves
  ready,         \* the caller has had true from init()
  acknowledged,  \* history: what write() has returned true for since the
                 \* machine last crashed
  found,         \* history: a key contains() said is there, or NoKey
  storeCount, storeSize,   \* what shutdown() printed
  undefined      \* db was dereferenced when it pointed at no database

storeVars == <<db, log, synced, ready, acknowledged, found, storeCount, storeSize, undefined>>

Keys == {log[i].key : i \in DOMAIN log}
ValueOf(k) ==
  log[CHOOSE i \in DOMAIN log :
        log[i].key = k /\ \A j \in DOMAIN log : log[j].key = k => j <= i].value

Record == [key : Key, value : Value]

StoreTypeOK ==
  /\ db \in {"unset", "null", "open", "deleted"}
  /\ log \in Seq(Record)
  /\ synced \in 0..Len(log)
  /\ {ready, undefined} \subseteq BOOLEAN
  /\ acknowledged \subseteq Record
  /\ found \in Key \cup {NoKey}
  /\ storeCount \in Nat /\ storeSize \in Nat

StoreInit ==
  /\ db = "unset"
  /\ log = <<>>
  /\ synced = 0
  /\ ready = FALSE
  /\ acknowledged = {}
  /\ found = NoKey
  /\ storeCount = 0 /\ storeSize = 0
  /\ undefined = FALSE
-----------------------------------------------------------------------------
\* init(): Open may fail.
InitStore ==
  /\ ~ready
  /\ db' \in {"open", "null"}
  /\ ready' = (db' = "open")
  /\ UNCHANGED <<log, synced, acknowledged, found, storeCount, storeSize, undefined>>

\* A call that dereferences db when there is no database.
Dereference(rest) ==
  IF db = "open" THEN rest /\ UNCHANGED undefined
  ELSE /\ undefined' = TRUE
       /\ UNCHANGED <<log, acknowledged, found, storeCount, storeSize>>

\* contains(): a read that fails is taken for a key that is not there.
ContainsKey(k) ==
  /\ ready
  /\ Dereference(/\ found' \in {NoKey} \cup (Keys \cap {k})
                 /\ UNCHANGED <<log, acknowledged, storeCount, storeSize>>)
  /\ UNCHANGED <<db, synced, ready>>

\* Mutant of Write: a write that failed is acknowledged.
WriteUnchecked(k, v) ==
  /\ ready
  /\ Len(log) < MaxWrites
  /\ Dereference(/\ log' \in {log, Append(log, [key |-> k, value |-> v])}
                 /\ acknowledged' = {r \in acknowledged : r.key # k} \cup {[key |-> k, value |-> v]}
                 /\ UNCHANGED <<found, storeCount, storeSize>>)
  /\ UNCHANGED <<db, synced, ready>>

\* write(): true only if Put was; a Put that failed may be in the log.
Write(k, v) ==
  /\ ready
  /\ Len(log) < MaxWrites
  /\ Dereference(\E ok \in BOOLEAN :
       /\ log' = Append(log, [key |-> k, value |-> v]) \/ (~ok /\ log' = log)
       /\ acknowledged' = {r \in acknowledged : r.key # k} \cup
                          (IF ok THEN {[key |-> k, value |-> v]} ELSE {})
       /\ UNCHANGED <<found, storeCount, storeSize>>)
  /\ UNCHANGED <<db, synced, ready>>

\* shutdown(): a pass over the keys, and the database is deleted.
Shutdown ==
  /\ ready
  /\ Dereference(/\ storeCount' = Cardinality(Keys)
                 /\ storeSize' = SumFunction([k \in Keys |-> ValueOf(k)])
                 /\ UNCHANGED <<log, acknowledged, found>>)
  /\ db' = "deleted"
  /\ ready' = FALSE
  /\ UNCHANGED synced

\* LevelDB or the system writes part of the log to the disk.
Sync ==
  /\ synced' \in (synced + 1)..Len(log)
  /\ UNCHANGED <<db, log, ready, acknowledged, found, storeCount, storeSize, undefined>>

\* The program ends, by a crash or after shutdown(), and is run again.
RestartProcess ==
  /\ db' = "unset"
  /\ ready' = FALSE
  /\ found' = NoKey
  /\ storeCount' = 0 /\ storeSize' = 0
  /\ UNCHANGED <<log, synced, acknowledged, undefined>>

CrashMachine ==
  /\ \E n \in synced..Len(log) : log' = SubSeq(log, 1, n) /\ synced' = n
  /\ db' = "unset"
  /\ ready' = FALSE
  /\ acknowledged' = {}
  /\ found' = NoKey
  /\ storeCount' = 0 /\ storeSize' = 0
  /\ UNCHANGED undefined

StoreNext ==
  \/ InitStore
  \/ \E k \in Key : ContainsKey(k) \/ \E v \in Value : Write(k, v)
  \/ Shutdown
  \/ Sync
  \/ RestartProcess
  \/ CrashMachine

StoreSpec == StoreInit /\ [][StoreNext]_storeVars
-----------------------------------------------------------------------------
(***************************************************************************)
(* A caller that heeds init() and stops at shutdown() never dereferences a *)
(* pointer to no database, through any restart.                            *)
(***************************************************************************)
CarefulCallerSafe == ~undefined

(***************************************************************************)
(* What write() returned true for is in the database, with that value,     *)
(* until it is written again: no restart of the process loses it.          *)
(***************************************************************************)
AcknowledgedKept ==
  \A r \in acknowledged : r.key \in Keys /\ ValueOf(r.key) = r.value

(***************************************************************************)
(* shutdown() prints a key that was put more than once as one entry, with  *)
(* the size put last.                                                      *)
(***************************************************************************)
EntriesCountedOnce ==
  db = "deleted" /\ ~undefined =>
    /\ storeCount = Cardinality(Keys)
    /\ \A r \in acknowledged : storeSize >= r.value

(***************************************************************************)
(* A careful caller of LevelDBDatabase never makes it dereference a        *)
(* pointer to no database, what write() acknowledged survives every        *)
(* restart of the process, and shutdown() counts each key once.            *)
(***************************************************************************)
StoreKeepsItsWord ==
  /\ StoreTypeOK
  /\ CarefulCallerSafe
  /\ AcknowledgedKept
  /\ EntriesCountedOnce
=============================================================================
