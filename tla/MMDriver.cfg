SPECIFICATION Spec
CONSTANTS
  Chunk <- MCChunk
  HeapLo <- MCHeapLo
  MaxHeap <- MCMaxHeap
  SizeT <- MCSizeT
  Ids <- TwoIds
  Requests <- Sizes
  MaxSteps = 8
  Balanced = TRUE
INVARIANTS
  TypeOK
  BoundaryTags
  ListDoublyLinked
  CheckerSilent
  DriverSatisfied
  PayloadsIntact
  RangesMatchBlocks
  UtilAtMostOne
PROPERTIES
  ImplementsBlocks
CHECK_DEADLOCK FALSE
