SPECIFICATION SpecParts
CONSTANTS
  doc1 = doc1  doc2 = doc2  n1 = n1  n2 = n2  n3 = n3
  root = root  w1 = w1  w2 = w2  w3 = w3  w4 = w4
  Node = {doc1, doc2, n1, n2, n3}
  Document = {doc1, doc2}
  Type = {"element", "pcdata", "declaration"}
  WalkedNode = {root, w1, w2, w3, w4}
  WalkedDocument = {root}
  None = None
  Holder = {"m", "n", "text"}
  Plain = {"text"}
  Attribute = {"a1", "a2", "a3"}
  AttrName = {"x", "y"}
  NoAttr = NoAttr
  Parts = {"search", "attributes", "query"}
INVARIANTS SearchesFind PathsSelect
PROPERTY AttributesKept
SYMMETRY Alike
CHECK_DEADLOCK FALSE
