------------------------------- MODULE MemLib -------------------------------
(***************************************************************************)
(* memlib.c, the simulated memory system: an arena obtained once from the  *)
(* C library's malloc and a break that only mem_reset_brk moves back.      *)
(*                                                                         *)
(* h is the machine state the allocator works on, a record with fields     *)
(*    mem  the arena's words; mem_reset_brk does not clear them            *)
(*    brk  mem_brk                                                         *)
(*    fl   mm.c's free_list                                                *)
(*    ok   FALSE once the process has died on a wild access                *)
(* Addresses are byte addresses; every word the code touches is aligned.   *)
(***************************************************************************)
EXTENDS Integers

CONSTANTS HeapLo, MaxHeap,   \* mem_start_brk, mem_max_addr
          SizeT              \* the modulus of size_t and unsigned int

(* memlib.c gets 20 MB from malloc, aligned for any object; SizeT is 2^32. *)
ASSUME MemAssumption ==
  /\ HeapLo \in Nat /\ HeapLo > 0 /\ HeapLo % 8 = 0
  /\ MaxHeap \in Nat /\ HeapLo <= MaxHeap
  /\ SizeT \in Nat /\ MaxHeap - HeapLo < SizeT \div 2

NULL == 0
Failed == -1                 \* (void *)-1
WSIZE == 4
DSIZE == 8

Arena == {HeapLo + WSIZE * k : k \in 0 .. (MaxHeap - HeapLo) \div WSIZE - 1}

(* get_val and set_val.  Outside the arena a write kills the process; the  *)
(* operators that may read there test their pointer first.                 *)
Get(h, a) == IF a \in Arena THEN h.mem[a] ELSE 0
Set(h, a, v) ==
  IF a \in Arena THEN [h EXCEPT !.mem[a] = v] ELSE [h EXCEPT !.ok = FALSE]
Die(h) == [h EXCEPT !.ok = FALSE]

(* the memory the process starts with: the arena is mapped fresh, as zeros *)
MemInit == [mem |-> [a \in Arena |-> 0], brk |-> HeapLo, fl |-> NULL, ok |-> TRUE]

MemResetBrk(h) == [h EXCEPT !.brk = HeapLo]

(* incr is an int: a size_t of the upper half arrives negative             *)
ToInt(n) == IF n < SizeT \div 2 THEN n ELSE n - SizeT

SbrkFails(h, n) == ToInt(n) < 0 \/ h.brk + ToInt(n) > MaxHeap
Sbrk(h, n) == IF SbrkFails(h, n) THEN h ELSE [h EXCEPT !.brk = @ + ToInt(n)]
SbrkResult(h, n) == IF SbrkFails(h, n) THEN Failed ELSE h.brk

MemHeapHi(h) == h.brk - 1
MemHeapSize(h) == h.brk - HeapLo

=============================================================================
