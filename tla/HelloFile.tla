------------------------------ MODULE HelloFile ------------------------------
(***************************************************************************)
(* open() and read() of MatrixFS in src/main.cpp: the one file whose       *)
(* contents the file system serves, and programs that open it and read     *)
(* it, in order or from where they like.                                   *)
(*                                                                         *)
(* read() adds and compares 64-bit unsigned numbers, and its offset is     *)
(* signed.  What it may be asked for is external: FUSE passes an offset    *)
(* that is not negative and a size within its request limit.               *)
(***************************************************************************)
EXTENDS Integers, Sequences

CONSTANTS
  Word,        \* 2^64
  Path, hello_path,
  hello_str,   \* the contents, without the final zero
  Request,        \* sizes FUSE asks for
  Offset,      \* offsets FUSE asks for
  Reader

len == Len(hello_str)

ASSUME FuseAssumption ==
  /\ hello_path \in Path
  /\ hello_str \in Seq(Nat)
  /\ Word \in Nat
  /\ Offset \subseteq 0..(Word \div 2 - 1)
  /\ Request \subseteq Nat
  /\ \A s \in Request : s + len < Word

RDONLY == "RDONLY"
Mode == {RDONLY, "WRONLY", "RDWR"}
ENOENT == "ENOENT"
EACCES == "EACCES"
OK == "OK"

VARIABLES
  handle,     \* handle[r]: what open() answered, or "closed"
  position,   \* position[r]: how far r has read
  buf         \* buf[r]: what r has read

vars == <<handle, position, buf>>

TypeOK ==
  /\ handle \in [Reader -> {"closed", OK, ENOENT, EACCES}]
  /\ position \in [Reader -> 0..len]
  /\ buf \in [Reader -> Seq(Nat)]

Init ==
  /\ handle = [r \in Reader |-> "closed"]
  /\ position = [r \in Reader |-> 0]
  /\ buf = [r \in Reader |-> <<>>]
-----------------------------------------------------------------------------
OpenResult(path, mode) ==
  IF path # hello_path THEN ENOENT
  ELSE IF mode # RDONLY THEN EACCES
  ELSE OK

\* An offset, converted to size_t for the comparison and the sum.
Unsigned(offset) == offset % Word

\* Mutant of ReadSize: the last byte is left out.
ReadSizeShort(size, offset) ==
  IF Unsigned(offset) < len
    THEN IF (Unsigned(offset) + size) % Word >= len
           THEN len - offset - 1
           ELSE size
    ELSE 0

\* The size that read() copies and returns.
ReadSize(size, offset) ==
  IF Unsigned(offset) < len
    THEN IF (Unsigned(offset) + size) % Word > len
           THEN len - offset
           ELSE size
    ELSE 0

\* Memory from hello_str on; what follows the string is another byte.
Memory(i) == IF i <= len THEN hello_str[i] ELSE 0

\* The bytes memcpy() takes.
Copied(size, offset) == [i \in 1..ReadSize(size, offset) |-> Memory(offset + i)]

Open(r) ==
  /\ handle[r] = "closed"
  /\ \E path \in Path, mode \in Mode :
       handle' = [handle EXCEPT ![r] = OpenResult(path, mode)]
  /\ position' = [position EXCEPT ![r] = 0]
  /\ buf' = [buf EXCEPT ![r] = <<>>]

\* The next part of the file.
ReadNext(r) ==
  /\ handle[r] = OK
  /\ \E size \in Request :
       /\ buf' = [buf EXCEPT ![r] = @ \o Copied(size, position[r])]
       /\ position' = [position EXCEPT ![r] = @ + ReadSize(size, position[r])]
  /\ UNCHANGED handle

Close(r) ==
  /\ handle[r] # "closed"
  /\ handle' = [handle EXCEPT ![r] = "closed"]
  /\ UNCHANGED <<position, buf>>

Next == \E r \in Reader : Open(r) \/ ReadNext(r) \/ Close(r)

Spec == Init /\ [][Next]_vars
-----------------------------------------------------------------------------
(***************************************************************************)
(* Wherever a read starts and however much it asks for, it copies no more  *)
(* than that, nothing from outside the string, and no less than there is:  *)
(* neither the conversion of the offset nor the wrap of the sum lets it.   *)
(***************************************************************************)
ReadsInBounds ==
  \A r \in Reader, size \in Request : \A offset \in Offset \cup {position[r]} :
    LET n == ReadSize(size, offset) IN
    /\ 0 <= n /\ n <= size
    /\ n # 0 => offset + n <= len
    /\ n < size => offset + n >= len

(***************************************************************************)
(* A program that reads on gets the file from its start, with no gap and   *)
(* no byte twice, and never a read past its end.                           *)
(***************************************************************************)
PrefixRead == \A r \in Reader : buf[r] = SubSeq(hello_str, 1, position[r])

(***************************************************************************)
(* The file is served whole and nothing else is: both of these, for every  *)
(* program that has it open.                                               *)
(***************************************************************************)
ReadsAreTheFile == TypeOK /\ ReadsInBounds /\ PrefixRead
=============================================================================
