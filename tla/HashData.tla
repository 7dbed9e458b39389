------------------------------ MODULE HashData ------------------------------
(***************************************************************************)
(* The value the whole program trades in: the HashData record of           *)
(* src/data/entry.h, which identifies a ROM by its size and its digests.   *)
(*                                                                         *)
(* The record carries one flag per digest.  operator== ignores the flags   *)
(* while the hash functor picks a digest by them, so two records can be    *)
(* equal and still have different hash codes.                              *)
(***************************************************************************)
CONSTANTS
  Size,     \* values of the 60-bit size field
  Crc32,    \* values of the crc32 field
  Md5,      \* md5 digests
  Sha1,     \* sha1 digests
  Prefix    \* Prefix[d]: the leading 8 bytes of digest d, read as a size_t

\* crc32enabled and padding are left out: nothing ever reads them.
HashRecord == [size : Size, crc32 : Crc32, md5 : Md5, sha1 : Sha1,
               md5enabled : BOOLEAN, sha1enabled : BOOLEAN]

\* The fields operator== compares.
Contents(h) == <<h.size, h.crc32, h.md5, h.sha1>>

SameHash(g, h) == Contents(g) = Contents(h)

\* The assertion at the top of HashData::hasher.
Hashable(h) == h.md5enabled \/ h.sha1enabled

\* Mutant of HashCode: a record without flags gets a code of its own.
HashCodeUnflagged(h) ==
  IF h.md5enabled THEN Prefix[h.md5]
  ELSE IF h.sha1enabled THEN Prefix[h.sha1] ELSE 0

HashCode(h) == IF h.md5enabled THEN Prefix[h.md5] ELSE Prefix[h.sha1]
=============================================================================
