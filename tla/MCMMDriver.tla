----------------------------- MODULE MCMMDriver -----------------------------
(* MMDriver on an arena of a few chunks of 32 bytes.  Ids double as fill   *)
(* bytes: 2 and 3 cannot be taken for a header or a pointer; 130 is the    *)
(* first even id whose low byte is negative as a signed char.              *)
EXTENDS MMDriver

MCChunk == 32
MCHeapLo == 8
MCMaxHeap == MCHeapLo + 16 + 3 * MCChunk
MCSizeT == 1024

TwoIds == {2, 3}
ThreeIds == {2, 3, 6}
HighId == {130}

Sizes == {0, 8, 20, 40}
SplitSizes == {16, 40}

=============================================================================
