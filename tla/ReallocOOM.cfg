SPECIFICATION Spec
CONSTANTS
  Chunk <- MCChunk
  HeapLo <- MCHeapLo
  MaxHeap <- MCMaxHeap
  SizeT <- MCSizeT
  Ids <- TwoIds
  Requests <- Sizes
  MaxSteps = 8
  Balanced = TRUE
PROPERTIES
  ReallocFailureReturns
CHECK_DEADLOCK FALSE
