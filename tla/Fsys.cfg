SPECIFICATION filesSpec
CONSTANTS
  NDir = 1
  Addr = 2
  Files <- MCFiles
  Dir = 1
  Blocks <- MCBlocks
  Sparse <- MCSparse
  MapLen <- MCMapLen
  IndAt <- MCIndAt
  Ext <- MCExt
  Window = 3
  PerNode = 2
  Tree <- MCTree
  Slots <- MCSlots
  JFirst = 11
  JTable = 1
  Kind <- MCKind
  Entry <- MCEntry
  Text <- MCText
  Paths <- MCPaths
  Prefix <- MCPrefix
  PathMax = 4
  MaxLinks = 2
  Parts <- MCParts
  WSIZE = 4
  INBUFSIZ = 3
  Streams <- MCStreams
INVARIANTS ReadIsFile ReadComplete NameResolved UnpackedIsPlain
PROPERTY CallsReturn
CHECK_DEADLOCK FALSE
