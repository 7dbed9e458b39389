SPECIFICATION Spec
CONSTANTS
  Start = "("
  End = ")"
  Word = {"game", "rom", "size"}
  NoWord = NoWord
  MaxDepth = 4
INVARIANTS InStep NeverUndefined
PROPERTY ImplementsScopeTree
