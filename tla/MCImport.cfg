SPECIFICATION Spec
CONSTANTS
  Size = {1}
  Crc32 = {1}
  Md5 = {"m1", "m2"}
  Sha1 = {"s1", "s2"}
  Prefix <- MCPrefix
  DatName = {"d1", "d2"}
  RomName = {r1, r2}
  Node = {a1, a2, a3}
  File <- MCFile
  FileName <- MCFileName
  LogiqxResult <- MixedLogiqx
  ClrMameResult <- MixedClrMame
  AssertsEnabled = FALSE
  ParserMayAbort = FALSE
  NoDat = NoDat
SYMMETRY Symmetry
INVARIANTS FirstEntryWins DistinctRecords RecordsWithinCount
CHECK_DEADLOCK FALSE
