------------------------------ MODULE MMDriver ------------------------------
(***************************************************************************)
(* The driver (mdriver.c) over the word-level allocator.  A trace is any   *)
(* sequence of requests in which an id is allocated before it is resized   *)
(* or freed; main replays traces in three phases, each on a rewound heap:  *)
(*    valid   eval_mm_valid checks extents and contents of every payload   *)
(*    util    eval_mm_util keeps the totals its result is computed from    *)
(*    speed   eval_mm_speed, once or more, checks nothing                  *)
(* A trace may end after any request.  main replays the same trace in all  *)
(* phases; here each phase may see another one, which allows more.         *)
(***************************************************************************)
EXTENDS MMWords, SequencesExt

CONSTANTS
  Ids,         \* trace indices
  Requests,    \* request sizes: multiples of a word, since memory is words;
               \* read_trace does not refuse zero, and puts what it reads
               \* into the int of a traceop_t, so none is in the upper half
               \* of size_t
  MaxSteps,    \* bound on the length of a behaviour
  Balanced     \* TRUE: a trace has freed all it allocated when the next
               \* phase starts, as every "-bal" trace has; FALSE: a trace
               \* may end, or be given up, with blocks still allocated

ASSUME TraceAssumption ==
  /\ Ids \subseteq Nat
  /\ \A n \in Requests : n \in Nat /\ n % WSIZE = 0 /\ n < SizeT \div 2
  /\ Balanced \in BOOLEAN
  /\ MaxSteps \in Nat

VARIABLES
  h,           \* arena, break and free_list
  block,       \* id -> [p, size], the trace's blocks and block_sizes for
               \* the ids it has allocated and not yet freed; the speed
               \* phase, which leaves block_sizes alone, reads no size.
               \* The traces here never read what the tables still hold
               \* of other ids, and Driver is about those that might
  ranges,      \* the extents add_range recorded
  phase,
  verdict,     \* the error the driver reported and the size of the request
               \* it names; NoError while it has none
  total, peak, \* total_size and max_total_size of eval_mm_util
  steps,       \* requests and phase starts so far, at most MaxSteps
  view         \* auxiliary: always the heap and the client read back from
               \* h and block, kept so that TLC reads them back only once

vars == <<h, block, ranges, phase, verdict, total, peak, steps, view>>

R == INSTANCE RangeList WITH
  LowEnd <- HeapLo, HighEnd <- MaxHeap - 1, Addresses <- Arena, Lengths <- Requests \ {0}

-----------------------------------------------------------------------------
(* What the driver writes in a payload and how it reads it back.           *)

FillByte(i) == i % 256

(* memset; a word filled with byte b is written b                          *)
Fill(g, p, n, i) ==
  [g EXCEPT !.mem = [a \in Arena |->
     IF a >= p /\ a < p + n THEN FillByte(i) ELSE g.mem[a]]]

(* newp[j]: a plain char, which is signed on x86                           *)
AsChar(b) == IF b >= 128 THEN b - 256 ELSE b

Preserved(g, p, n, i) ==
  \A k \in 0 .. n - 1 :
    k % WSIZE = 0 => AsChar(Get(g, p + k)) = FillByte(i)

NoError == [what |-> "none", size |-> 0]

(* mutant: NULL is not told from a block                                   *)
JudgeOnlyValid(list, g, p, n, null) ==
  IF phase = "valid" THEN R!Complaint(list, p, n, HeapLo, MemHeapHi(g)) ELSE "none"

(* the failure the driver sees in the pointer a package function returned  *)
Judge(list, g, p, n, null) ==
  IF p = NULL THEN null
  ELSE IF phase = "valid" THEN R!Complaint(list, p, n, HeapLo, MemHeapHi(g))
  ELSE "none"

-----------------------------------------------------------------------------
(* The start of a phase: mem_reset_brk, then mm_init.                      *)

Reborn == MMInit(MemResetBrk(h)).h

NoBlocks == [i \in {} |-> [p |-> NULL, size |-> 0]]

Restart(next) ==
  /\ Balanced => block = NoBlocks
  /\ h' = Reborn
  /\ block' = NoBlocks
  /\ phase' = next
  /\ verdict' = NoError
  /\ total' = 0
  /\ peak' = 0

(* main goes on to the next trace after the timing, or after a failure     *)
EvalMMValid ==
  /\ \/ phase = "speed" /\ verdict = NoError
     \/ phase = "valid" /\ verdict # NoError
  /\ Restart("valid")
  /\ ranges' = <<>>

EvalMMUtil ==
  /\ phase = "valid" /\ verdict = NoError
  /\ Restart("util")
  /\ UNCHANGED ranges

EvalMMSpeed ==
  /\ phase \in {"util", "speed"} /\ verdict = NoError
  /\ Restart("speed")
  /\ UNCHANGED ranges

(* a wild access inside the package: nothing after it happens              *)
Crash ==
  /\ h' = Die(h)
  /\ UNCHANGED <<block, ranges, phase, verdict, total, peak>>

(* the trace is given up: eval_mm_valid returns 0, the others exit         *)
Complain(g, what, n) ==
  /\ h' = g
  /\ verdict' = [what |-> what, size |-> n]
  /\ UNCHANGED <<phase, total, peak>>

Forget(i) == block' = [j \in DOMAIN block \ {i} |-> block[j]]

(* mutant: the peak adds up every request                                  *)
AccountForever(delta) ==
  IF phase = "util"
  THEN total' = total + delta /\ peak' = Max({peak, peak + delta})
  ELSE UNCHANGED <<total, peak>>

Account(delta) ==
  IF phase = "util"
  THEN total' = total + delta /\ peak' = Max({peak, total + delta})
  ELSE UNCHANGED <<total, peak>>

Remember(i, p, n) ==
  block' = [j \in DOMAIN block \cup {i} |->
              IF j = i THEN [p |-> p, size |-> n] ELSE block[j]]

Accept(g, list, i, p, n) ==
  /\ IF phase = "valid"
     THEN h' = Fill(g, p, n, i) /\ ranges' = R!Added(list, p, n)
     ELSE h' = g /\ UNCHANGED ranges
  /\ Remember(i, p, n)
  /\ UNCHANGED <<phase, verdict>>

-----------------------------------------------------------------------------
(* The three requests of a trace.  (\E r \in {e} names e like LET, but has *)
(* TLC evaluate it once.)                                                  *)

Alloc(i, n) ==
  /\ verdict = NoError
  /\ \E r \in {MMMalloc(h, n)} :
     LET fault == Judge(ranges, r.h, r.p, n, "mm_malloc_failed") IN
     \/ ~r.h.ok /\ Crash
     \/ /\ r.h.ok /\ fault = "none"
        /\ Accept(r.h, ranges, i, r.p, n)
        /\ Account(n)
     \/ /\ r.h.ok /\ fault # "none"
        /\ Complain(r.h, fault, n)
        /\ UNCHANGED <<block, ranges>>

(* the old extent is gone before the new one is judged; the contents are   *)
(* compared after that, over the smaller of the two sizes; mm_realloc to   *)
(* zero bytes frees the block and returns NULL                             *)
Realloc(i, n) ==
  /\ verdict = NoError
  /\ \E old \in {block[i]}, r \in {MMRealloc(h, block[i].p, n)} :
     LET rest == IF phase = "valid" THEN R!Removed(ranges, old.p) ELSE ranges
         seen == Judge(rest, r.h, r.p, n, "mm_realloc_failed")
         lost == phase = "valid" /\ ~Preserved(r.h, r.p, Min({n, old.size}), i)
         fault == IF seen = "none" /\ lost THEN "data_lost" ELSE seen
     IN
     \/ ~r.h.ok /\ Crash
     \/ /\ r.h.ok /\ fault = "none"
        /\ Accept(r.h, rest, i, r.p, n)
        /\ Account(n - old.size)
     \/ /\ r.h.ok /\ fault # "none"
        /\ Complain(r.h, fault, n)
        /\ IF n = 0 THEN Forget(i) ELSE UNCHANGED block
        /\ ranges' = IF r.p = NULL THEN ranges
                     ELSE IF seen = "none" THEN R!Added(rest, r.p, n) ELSE rest

Free(i) ==
  /\ verdict = NoError
  /\ h' = MMFree(h, block[i].p)
  /\ ranges' = IF phase = "valid" THEN R!Removed(ranges, block[i].p) ELSE ranges
  /\ Forget(i)
  /\ total' = IF phase = "util" THEN total - block[i].size ELSE total
  /\ UNCHANGED <<phase, verdict, peak>>

-----------------------------------------------------------------------------
(* What the client holds, read back from the trace's tables.               *)
LiveOf(held) ==
  [p \in {held[i].p : i \in DOMAIN held} |->
     held[CHOOSE i \in DOMAIN held : held[i].p = p].size]

-----------------------------------------------------------------------------
Init ==
  /\ h = MMInit(MemResetBrk(MemInit)).h
  /\ block = NoBlocks
  /\ ranges = <<>>
  /\ phase = "valid"
  /\ verdict = NoError
  /\ total = 0
  /\ peak = 0
  /\ steps = 0
  /\ view = [heap |-> HeapOf(h), live |-> LiveOf(block)]

Next ==
  /\ h.ok
  /\ steps < MaxSteps
  /\ steps' = steps + 1
  /\ \/ \E i \in Ids \ DOMAIN block, n \in Requests : Alloc(i, n)
     \/ \E i \in DOMAIN block, n \in Requests : Realloc(i, n)
     \/ \E i \in DOMAIN block : Free(i)
     \/ EvalMMValid
     \/ EvalMMUtil
     \/ EvalMMSpeed
  /\ view' = [heap |-> HeapOf(h'), live |-> LiveOf(block')]

Spec == Init /\ [][Next]_vars

-----------------------------------------------------------------------------
Detailed == INSTANCE BlockHeap WITH
  heap <- view.heap, live <- view.live, crashed <- ~h.ok

(* The words implement the blocks: every function of mm.c, through its     *)
(* boundary tags and list words, does what its operator in BlockHeap does. *)
ImplementsBlocks == Detailed!Spec

-----------------------------------------------------------------------------
(* Type invariant.                                                         *)
TypeOK ==
  /\ h \in [mem : [Arena -> Nat], brk : Nat, fl : Nat, ok : BOOLEAN]
  /\ DOMAIN block \subseteq Ids
  /\ \A i \in DOMAIN block : block[i].p \in Arena /\ block[i].size \in Requests
  /\ R!TypeOK
  /\ phase \in {"valid", "util", "speed"}
  /\ verdict \in [what : {"none", "mm_malloc_failed", "mm_realloc_failed", "misaligned",
                          "outside_heap", "overlap", "data_lost"},
                  size : Requests \cup {0}]
  /\ total \in Int /\ peak \in Nat
  /\ steps \in 0 .. MaxSteps

(* Header and footer of every block agree, between an intact prologue and  *)
(* epilogue: coalesce and mm_realloc read whichever is nearer.             *)
BoundaryTags ==
  /\ Get(h, Base - 12) = Word(DSIZE, 1)
  /\ Get(h, Base - 8) = Word(DSIZE, 1)
  /\ Get(h, h.brk - WSIZE) = Word(0, 1)
  /\ \A b \in BlocksOf(h) : Get(h, Header(b)) = Get(h, Footer(h, b))

(* Each block on the list points back at the one that points at it, the    *)
(* first at nothing: only so can a block be unlinked without a search.     *)
ListDoublyLinked ==
  LET nth == Walk(h) IN
  \A k \in 0 .. Steps :
    nth[k] # NULL => PrevFree(h, nth[k]) = (IF k = 0 THEN NULL ELSE nth[k - 1])

(* mm_check, which no caller ever runs, would report nothing.              *)
CheckerSilent == MMCheck(h) = 0

(* The driver finds no fault with the package on any trace, except that a  *)
(* request for zero bytes is answered with NULL.                           *)
DriverSatisfied == verdict # NoError => verdict.size = 0

(* No call writes into a payload the client still holds, nor loses the     *)
(* contents on the way to a new place.                                     *)
PayloadsIntact ==
  phase = "valid" =>
    \A i \in DOMAIN block, a \in Arena :
      a >= block[i].p /\ a < block[i].p + block[i].size => Get(h, a) = FillByte(i)

(* The recorded extents are those of the blocks held, so every extent      *)
(* add_range tests against belongs to a payload that is really there.      *)
RangesMatchBlocks ==
  phase = "valid" /\ verdict = NoError =>
    ToSet(ranges) = {R!Extent(block[i].p, block[i].size) : i \in DOMAIN block}

(* Utilization, max_total_size over the heap size, never exceeds one.      *)
UtilAtMostOne == peak <= MemHeapSize(h)

-----------------------------------------------------------------------------
(* mm.c:251, "If realloc() fails the original block is left untouched":    *)
(* a realloc the arena cannot serve returns, rather than kill the process. *)
ReallocFailureReturns ==
  [][\A i \in DOMAIN block, n \in Requests : Realloc(i, n) => h'.ok]_vars

(* mm.c:117, "initialize the malloc package": whatever trace ran before,   *)
(* the heap mm_init leaves is the heap of a fresh process.                 *)
InitForgetsThePast ==
  [][(\E next \in {"valid", "util", "speed"} : Restart(next)) =>
       HeapOf(h') = Detailed!InitHeap]_vars

(* mdriver.c:658, "mm_realloc did not preserve the data from old block":   *)
(* the driver says so only if the data it wrote is not there.              *)
DataLossIsReal ==
  verdict.what = "data_lost" =>
    \E i \in DOMAIN block : \E a \in Arena :
      a >= block[i].p /\ a < block[i].p + block[i].size /\ Get(h, a) # FillByte(i)

=============================================================================
