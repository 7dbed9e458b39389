SPECIFICATION SpecParts
CONSTANTS
  Word = 32
  Path = {"/hello", "/other"}
  hello_path = "/hello"
  hello_str <- MCHello
  Request = {0, 1, 2, 4, 5, 27}
  Offset = {0, 1, 3, 4, 5, 15}
  Reader = {r1, r2}
  Size = {0, 1, 2, 3}
  Crc32 = {0, 1, 2, 3}
  Md5 = {"da", "d0", "dx"}
  Sha1 = {"da", "d0", "dx"}
  Prefix = Prefix
  NoName <- MCNoName
  Document <- MCDocument
  Malformed <- MCMalformed
  Text <- RomTexts
  Fresh <- MCFresh
  SizeModulus = 4
  SumModulus = 3
  Decimal <- Number
  Hex32 <- Hex
  ToMd5 <- Digest
  ToSha1 <- Digest
  Byte = {"a", "b", "c", "CR", "LF", "SUB"}
  File <- Files
  Stale = {"a", "junk"}
  AnySize = {0, 3}
  SizeField = 3
  Key = {"k1", "k2"}
  Value = {1, 2}
  MaxWrites = 3
INVARIANTS ReadsAreTheFile LogiqxReadsTheDocument DigestsOfTheFile StoreKeepsItsWord
CHECK_DEADLOCK FALSE
