---------------------------- MODULE MCBubbleSort ----------------------------
(* Every array of up to four of these numbers, in an int of four bits that *)
(* holds -8 to 7: the difference of -8 and 7 overflows, and the remainder  *)
(* of -8 and -1 traps.                                                     *)
EXTENDS BubbleSort

MCIntMax == 7
MCNumbers == {-8, -1, 0, 7}
MCMaxCount == 4

=============================================================================
