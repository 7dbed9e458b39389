SPECIFICATION DatSpec
CONSTANTS
  Size = {0, 1, 2, 3}
  Crc32 = {0, 1, 3, 6}
  Md5 = {"da", "d0"}
  Sha1 = {"da", "d0"}
  Prefix = Prefix
  Char <- MCChar
  Type <- CharType
  Start <- ScopeStartToken
  End <- ScopeEndToken
  Word <- MCWord
  MaxLength = 0
  Text = {}
  Fresh <- MCFresh
  SizeModulus = 4
  SumModulus = 5
  Decimal <- MCDecimal
  Hex32 <- MCHex32
  ToMd5 <- MCToMd5
  ToSha1 <- MCToSha1
  Dat <- MCDat
INVARIANT EntriesHashable
CHECK_DEADLOCK FALSE
