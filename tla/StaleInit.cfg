SPECIFICATION Spec
CONSTANTS
  Chunk <- MCChunk
  HeapLo <- MCHeapLo
  MaxHeap <- MCMaxHeap
  SizeT <- MCSizeT
  Ids <- TwoIds
  Requests <- SplitSizes
  MaxSteps = 8
  Balanced = FALSE
PROPERTIES
  InitForgetsThePast
CHECK_DEADLOCK FALSE
