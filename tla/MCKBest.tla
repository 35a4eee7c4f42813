------------------------------ MODULE MCKBest ------------------------------
(* KBest with words of four bits.  With an epsilon of one hundredth only   *)
(* equal times converge, with thirty all do that are above zero.           *)
(* The limits allow fewer samples than K, and more.  From 13 the low word  *)
(* wraps with some of the times, from 255 both words do.  Of the interrupt *)
(* rates one is not recorded, and the other takes samples below zero.  A   *)
(* cache of three ints is not a whole number of blocks of two.             *)
EXTENDS KBest

MCRadix == 16
MCRecordThresh == 30
MCTimes == {100, 130}
MCStarts == {13, 255}
MCTicks == {0, 1}
MCRates == {30, 115}
MCKs == {1, 3}
MCLimits == {2, 5}
MCEpsilons == {1, 30}
MCDen == 100
MCSizes == {1, 3}
MCBlocks == {1, 2}

=============================================================================
