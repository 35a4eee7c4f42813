------------------------------- MODULE Clock -------------------------------
(***************************************************************************)
(* get_counter of clock.c: the processor's cycle counter is read as two    *)
(* unsigned words, and the difference of two readings is formed word by    *)
(* word, with a borrow.  A reading is a record [hi, lo]; Radix is the      *)
(* number of values of a word, 2^32 in the code.  The compensated counter  *)
(* takes off what the timer interrupts are thought to have cost.           *)
(***************************************************************************)
EXTENDS Integers, FiniteSetsExt

CONSTANTS
  Radix,
  RecordThresh   \* RECORDTHRESH: an interrupt that takes no longer counts not

(* rdtsc: the two words of the counter when it stands at n                 *)
Reading(n) == [hi |-> (n \div Radix) % Radix, lo |-> n % Radix]

(* mutant: the borrow is forgotten                                         *)
ElapsedNoBorrow(start, now) ==
  Radix * ((now.hi - start.hi) % Radix) + ((now.lo - start.lo) % Radix)

(* get_counter, when start_counter has read start                          *)
Elapsed(start, now) ==
  LET lo == (now.lo - start.lo) % Radix
      borrow == IF lo > now.lo THEN 1 ELSE 0
      hi == (now.hi - start.hi - borrow) % Radix
  IN  Radix * hi + lo

-----------------------------------------------------------------------------
(* callibrate, having seen events that took these cycles per tick, when    *)
(* cyc_per_tick was 0                                                      *)
Callibrated(rates) ==
  LET recorded == {r \in rates : r > RecordThresh}
  IN  IF recorded = {} THEN 0 ELSE Min(recorded)

(* get_comp_counter, when so many ticks fell between the readings          *)
Compensated(start, now, ticks, cyc_per_tick) ==
  Elapsed(start, now) - ticks * cyc_per_tick

=============================================================================
