SPECIFICATION SpecParts
CONSTANTS
  None = None
  Doc <- TwoDocuments
  Page <- ThreePages
  NoPage = NoPage
  PageSize = 4
  NodeSize = 1
  StringSize <- StringSizes
  MaxEncoded = 5
  MaxLive = 3
  MoveEmpty = FALSE
  Documents <- TwoDocuments
  Blocks <- FourBlocks
  NoBlock = NoBlock
  User = User
  Sources <- Contents
  ChunkSize = 2
  MaxExtras = 2
  Failing <- Failures
  Capacity = 8
  Strings <- StringsPut
  Runs <- RunsPut
  MaxCalls = 3
  Node <- CopyNodes
  Document <- CopyDocuments
  Buffer <- InBuffer
  Heap <- OnHeap
  Text <- Lengths
  LengthOf <- Itself
  Loaded <- TwoTrees
  Reuse = 2
  MayFail = TRUE
  MaxEdits = 2
  Parts = {"memory", "load", "output", "encoding", "copy"}
INVARIANTS PagesOutliveObjects BuffersHeldOnce OutputInOrder SavedIsLoaded
PROPERTIES CopiesFaithful CopyEnds
CHECK_DEADLOCK FALSE
