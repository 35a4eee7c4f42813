---------------------------- MODULE MCBlockHeap ----------------------------
(* BlockHeap on a small arena: chunks of 32 bytes, room for four of them,  *)
(* and requests whose blocks take 16, 32 and 48 bytes.                     *)
EXTENDS BlockHeap

MCChunk == 32
MCHeapLo == 8
MCMaxHeap == MCHeapLo + 16 + 4 * MCChunk
MCRequests == {0, 8, 20, 40}

=============================================================================
