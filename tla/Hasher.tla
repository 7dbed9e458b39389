------------------------------- MODULE Hasher -------------------------------
(***************************************************************************)
(* Hasher of src/main.cpp as the import loop uses it: compute() for each   *)
(* file of the folder, reset(), and a line printed with the digests.       *)
(*                                                                         *)
(* A running digest is the sequence of bytes it has been fed.  compute()   *)
(* tests none of its calls, and each may fail: then the size or the bytes  *)
(* are what memory held, and since the buffer of each file is freed before *)
(* the next is allocated, these may be bytes of an earlier file.  The file *)
(* is opened in text mode, where a read turns CR LF into LF and stops at a *)
(* SUB.                                                                    *)
(***************************************************************************)
EXTENDS Integers, Sequences, SequencesExt

CONSTANTS
  Byte,         \* what a file may hold, "CR", "LF" and "SUB" as any other
  File,         \* the files, in the order of the folder: a sequence of contents
  Stale,        \* bytes that new memory may hold, from earlier files or not
  AnySize,      \* values an st_size that nothing has written may have
  SizeField     \* 2^60: size is a bit field

HasherAssumption ==
  /\ File \in Seq(Seq(Byte))
  /\ AnySize \subseteq Nat
  /\ SizeField \in Nat \ {0}

VARIABLES
  nextCall,        \* the call compute() makes next
  file,      \* the file being hashed: 1..Len(File)
  fd,        \* its descriptor is open
  size,      \* the local of compute()
  buffer,    \* the bytes allocated; NoBuffer
  crc, md5, sha1,   \* the running digests
  printed,   \* the records main has printed
  failed     \* history: the files one of whose calls failed

hasherVars == <<nextCall, file, fd, size, buffer, crc, md5, sha1, printed, failed>>

NoBuffer == <<"none">>

HasherTypeOK ==
  /\ nextCall \in {"_open", "fstat", "new", "_read", "update", "delete", "reset", "done", "abort"}
  /\ file \in 1..(Len(File) + 1)
  /\ fd \in BOOLEAN
  /\ size \in Nat
  /\ failed \subseteq DOMAIN File
  /\ \A i \in DOMAIN printed : printed[i].size \in 0..(SizeField - 1)

HasherInit ==
  /\ nextCall = IF File = <<>> THEN "done" ELSE "_open"
  /\ file = 1
  /\ fd = FALSE
  /\ size = 0
  /\ buffer = NoBuffer
  /\ crc = <<>>
  /\ md5 = <<>>
  /\ sha1 = <<>>
  /\ printed = <<>>
  /\ failed = {}

\* The bytes a read in text mode makes of s: those before the first SUB, and
\* of them no CR that a LF follows.
TextMode(s) ==
  LET end == CHOOSE n \in 0..Len(s) :
               /\ \A i \in 1..n : s[i] # "SUB"
               /\ n < Len(s) => s[n + 1] = "SUB"
      text[i \in 0..end] ==
        IF i = 0 THEN <<>>
        ELSE IF s[i] = "CR" /\ i < end /\ s[i + 1] = "LF" THEN text[i - 1]
        ELSE Append(text[i - 1], s[i])
  IN  text[end]

Failed == failed' = failed \cup {file}
-----------------------------------------------------------------------------
OpenFile ==
  /\ nextCall = "_open"
  /\ \/ fd' = TRUE /\ UNCHANGED failed
     \/ fd' = FALSE /\ Failed
  /\ nextCall' = "fstat"
  /\ UNCHANGED <<file, size, buffer, crc, md5, sha1, printed>>

\* fstat() of a descriptor that is not open fails.
SizeOfFile ==
  /\ nextCall = "fstat"
  /\ \/ fd /\ size' = Len(File[file]) /\ UNCHANGED failed
     \/ size' \in AnySize /\ Failed
  /\ nextCall' = "new"
  /\ UNCHANGED <<file, fd, buffer, crc, md5, sha1, printed>>

\* new byte[size] initialises nothing.  If it throws the program ends: nothing
\* catches it.
Allocate ==
  /\ nextCall = "new"
  /\ \/ nextCall' = "_read" /\ buffer' \in [1..size -> Stale]
     \/ nextCall' = "abort" /\ UNCHANGED buffer
  /\ UNCHANGED <<file, fd, size, crc, md5, sha1, printed, failed>>

\* One call of _read(), which may return less than it was asked for and leaves
\* the rest of the buffer as it is.
ReadFile ==
  /\ nextCall = "_read"
  /\ LET there == IF fd /\ size > 0
                    THEN TextMode(SubSeq(File[file], 1, IF size < Len(File[file]) THEN size ELSE Len(File[file])))
                    ELSE <<>>
     IN  \E n \in 0..Len(there) :
           /\ buffer' = [i \in 1..size |-> IF i <= n THEN there[i] ELSE buffer[i]]
           /\ IF n < Len(there) THEN Failed ELSE UNCHANGED failed
  /\ nextCall' = "update"
  /\ UNCHANGED <<file, fd, size, crc, md5, sha1, printed>>

Update ==
  /\ nextCall = "update"
  /\ crc' = crc \o buffer
  /\ md5' = md5 \o buffer
  /\ sha1' = sha1 \o buffer
  /\ nextCall' = "delete"
  /\ UNCHANGED <<file, fd, size, buffer, printed, failed>>

\* delete [], _close() and the record, which get() reads off the digests.
ReturnHash ==
  /\ nextCall = "delete"
  /\ buffer' = NoBuffer
  /\ fd' = FALSE
  /\ printed' = Append(printed,
       [size |-> size % SizeField, crc32 |-> crc, md5 |-> md5, sha1 |-> sha1])
  /\ nextCall' = "reset"
  /\ UNCHANGED <<file, size, crc, md5, sha1, failed>>

\* Mutant of Reset: the last digest is forgotten.
ResetTwo ==
  /\ nextCall = "reset"
  /\ crc' = <<>>
  /\ md5' = <<>>
  /\ file' = file + 1
  /\ nextCall' = IF file = Len(File) THEN "done" ELSE "_open"
  /\ UNCHANGED <<fd, size, buffer, sha1, printed, failed>>

\* reset(), the line main prints, and the next file.
Reset ==
  /\ nextCall = "reset"
  /\ crc' = <<>>
  /\ md5' = <<>>
  /\ sha1' = <<>>
  /\ file' = file + 1
  /\ nextCall' = IF file = Len(File) THEN "done" ELSE "_open"
  /\ UNCHANGED <<fd, size, buffer, printed, failed>>

HasherNext == OpenFile \/ SizeOfFile \/ Allocate \/ ReadFile \/ Update \/ ReturnHash \/ Reset

HasherSpec == HasherInit /\ [][HasherNext]_hasherVars
-----------------------------------------------------------------------------
\* A file that text mode leaves as it is.
Plain(s) == TextMode(s) = s

(***************************************************************************)
(* A file that is read without a failure is printed with the digests of    *)
(* its own bytes, whatever happened to the files before it and whatever    *)
(* memory held; only if text mode changes the file are they those of its   *)
(* translation followed by what the rest of the buffer held.               *)
(***************************************************************************)
OwnDigest ==
  \A i \in DOMAIN printed \ failed :
    LET r == printed[i] IN
    /\ r.size = Len(File[i]) % SizeField
    /\ r.crc32 = r.md5 /\ r.md5 = r.sha1
    /\ Len(r.sha1) = Len(File[i])
    /\ IsPrefix(TextMode(File[i]), r.sha1)
    /\ Plain(File[i]) => r.sha1 = File[i]

(***************************************************************************)
(* Even when a call fails, the three digests printed with a size are of    *)
(* the same bytes, and of as many as that size says: nothing of the        *)
(* digests of the files before is in them, although bytes of those files   *)
(* may be.                                                                 *)
(***************************************************************************)
DigestsAgree ==
  \A i \in DOMAIN printed :
    LET r == printed[i] IN
    /\ r.crc32 = r.md5 /\ r.md5 = r.sha1
    /\ r.size = Len(r.sha1) % SizeField

(***************************************************************************)
(* What Hasher prints of a file it could read are the digests of that      *)
(* file, through every failure of the calls it does not test; of one it    *)
(* could not, digests that at least agree with each other and the size.    *)
(***************************************************************************)
DigestsOfTheFile == HasherTypeOK /\ OwnDigest /\ DigestsAgree
=============================================================================
