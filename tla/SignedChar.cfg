SPECIFICATION Spec
CONSTANTS
  Chunk <- MCChunk
  HeapLo <- MCHeapLo
  MaxHeap <- MCMaxHeap
  SizeT <- MCSizeT
  Ids <- HighId
  Requests <- Sizes
  MaxSteps = 8
  Balanced = TRUE
INVARIANTS
  DataLossIsReal
CHECK_DEADLOCK FALSE
