-------------------------------- MODULE CInt --------------------------------
(* The int of C.  INT_MAX is 2^31 - 1 for the program, and less where TLC  *)
(* enumerates ints.                                                        *)
EXTENDS Integers

CONSTANT IntMax                                            \* INT_MAX

ASSUME IntAssumption == IntMax \in Nat

IntMin == -IntMax - 1
Int32 == IntMin .. IntMax

=============================================================================
