SPECIFICATION SystemSpec
CONSTANTS
  Size = {1, 2}
  Crc32 = {1}
  Md5 = {"m1", "m2"}
  Sha1 = {"s1"}
  Prefix <- MCPrefix
  DatName <- MCDatName
  RomName <- MCRomName
  Node = {a1, a2}
  File <- MCFile
  FileName <- MCFileName
  LogiqxResult <- MCResult
  ClrMameResult <- MCEmpty
  AssertsEnabled = FALSE
  ParserMayAbort = FALSE
  NoDat = NoDat
  Path <- MCPath
  Client = {k1, k2}
  Word = 8
  ENOENT = 2
  DatAddress <- MCDatAddress
  Closed = Closed
SYMMETRY Symmetry
INVARIANTS SystemTypeOK HandlesLive ListingMatchesLookups SizeOfFirstEntry
CHECK_DEADLOCK FALSE
