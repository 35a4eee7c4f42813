SPECIFICATION Spec
CONSTANTS
  Chunk <- MCChunk
  HeapLo <- MCHeapLo
  MaxHeap <- MCMaxHeap
  Requests <- MCRequests
INVARIANTS
  TypeOK
  WellFormed
  Accounted
  EmptyIsOneBlock
PROPERTIES
  GrowsOnlyWhenFull
  OthersUntouched
  KeepsPromise
CHECK_DEADLOCK FALSE
