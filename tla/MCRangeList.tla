---------------------------- MODULE MCRangeList ----------------------------
(* RangeList against a package that may return any of these addresses: one *)
(* of them is misaligned, some payloads leave the heap of bytes 8 to 55.   *)
EXTENDS RangeList

MCLowEnd == 8
MCHighEnd == 55
MCAddresses == {0, 8, 16, 20, 24, 32, 40, 56}
MCLengths == {1, 8, 20, 33}

=============================================================================
