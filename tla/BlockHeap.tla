----------------------------- MODULE BlockHeap -----------------------------
(***************************************************************************)
(* The allocator of mm.c seen as blocks.                                   *)
(*                                                                         *)
(* Headers, footers and the two list words inside a free block are not     *)
(* visible at this level.  The heap is a record                            *)
(*    brk   the simulated program break (where the epilogue block is)      *)
(*    size  block pointer -> block size, one entry per block between the   *)
(*          prologue and the epilogue                                      *)
(*    free  the blocks whose allocated bit is clear                        *)
(*    fl    the explicit free list, first element first                    *)
(* and every function of mm.c that changes it is an operator from heaps to *)
(* heaps.  A block pointer is the address of the payload, as in mm.c.      *)
(* MMWords.tla models the same functions word by word, and MMDriver.tla    *)
(* shows that they implement this module.                                  *)
(***************************************************************************)
EXTENDS Integers, Sequences, SequencesExt

CONSTANTS
  Chunk,      \* CHUNKSIZE, the least number of bytes the heap grows by
  HeapLo,     \* mem_start_brk
  MaxHeap,    \* mem_max_addr, the largest legal value of the break
  Requests    \* the sizes the client asks for

(* mm.c uses 4096 for CHUNKSIZE, memlib.c an arena of 20 MB from malloc,   *)
(* which both satisfy these.                                               *)
ASSUME ChunkAssumption ==
  Chunk \in Nat /\ Chunk % 8 = 0 /\ Chunk >= 16
ASSUME ArenaAssumption ==
  /\ HeapLo \in Nat /\ HeapLo % 8 = 0
  /\ MaxHeap \in Nat /\ HeapLo + 16 + Chunk <= MaxHeap
ASSUME RequestAssumption == Requests \subseteq Nat

VARIABLES
  heap,       \* the heap record
  live,       \* client's view: pointer handed out -> bytes asked for
  crashed     \* the process died inside mm_malloc

vars == <<heap, live, crashed>>

-----------------------------------------------------------------------------
(* Sizes.                                                                  *)

Align(n) == 8 * ((n + 7) \div 8)
BlockSize(n) == 8 + Align(n)
MinBlock == BlockSize(1)

Base == HeapLo + 16      \* the first block follows padding, prologue, header

NoBlock == [b \in {} |-> 0]

-----------------------------------------------------------------------------
(* The free list.                                                          *)

Push(s, b) == <<b>> \o s

Unlink(s, b) ==
  IF b \in ToSet(s)
  THEN RemoveAt(s, CHOOSE i \in DOMAIN s : s[i] = b)
  ELSE s

(* mutant: an exact fit is passed over                                     *)
FitsLoosely(H, bytes) == {i \in DOMAIN H.fl : H.size[H.fl[i]] > bytes}

Fits(H, bytes) == {i \in DOMAIN H.fl : H.size[H.fl[i]] >= bytes}

(* mutant: the first block will do, whatever its size                      *)
FindFirst(H, bytes) == H.fl[1]

FindFit(H, bytes) ==
  H.fl[CHOOSE i \in Fits(H, bytes) : \A j \in Fits(H, bytes) : i <= j]

-----------------------------------------------------------------------------
(* Heap surgery.                                                           *)

Blocks(H) == DOMAIN H.size
End(H, b) == b + H.size[b]

(* mutant: the swallowed block is still counted as free                    *)
JoinKeepsFree(H, b) ==
  LET n == End(H, b) IN
  [brk  |-> H.brk,
   size |-> [c \in Blocks(H) \ {n} |->
               IF c = b THEN H.size[b] + H.size[n] ELSE H.size[c]],
   free |-> H.free,
   fl   |-> Unlink(H.fl, n)]

(* b swallows the free block that follows it, which leaves the free list   *)
Join(H, b) ==
  LET n == End(H, b) IN
  [brk  |-> H.brk,
   size |-> [c \in Blocks(H) \ {n} |->
               IF c = b THEN H.size[b] + H.size[n] ELSE H.size[c]],
   free |-> H.free \ {n},
   fl   |-> Unlink(H.fl, n)]

(* mutant: the previous block's footer is not looked at                    *)
CoalesceForward(H, b) ==
  LET All == IF End(H, b) \in H.free THEN Join(H, b) ELSE H
  IN  [All EXCEPT !.fl = Push(Unlink(All.fl, b), b)]

(* mutant: the previous block is taken to be free                          *)
CoalesceBlindly(H, b) ==
  LET Next == IF End(H, b) \in H.free THEN Join(H, b) ELSE H
      Prev == {p \in Blocks(H) : End(H, p) = b}
      All  == IF Prev = {} THEN Next ELSE Join(Next, CHOOSE p \in Prev : TRUE)
      all  == IF Prev = {} THEN b ELSE CHOOSE p \in Prev : TRUE
  IN  [All EXCEPT !.fl = Push(Unlink(All.fl, all), all)]

Coalesce(H, b) ==
  LET Next == IF End(H, b) \in H.free THEN Join(H, b) ELSE H
      Prev == {p \in H.free : End(H, p) = b}
      All  == IF Prev = {} THEN Next ELSE Join(Next, CHOOSE p \in Prev : TRUE)
      all  == IF Prev = {} THEN b ELSE CHOOSE p \in Prev : TRUE
  IN  [All EXCEPT !.fl = Push(Unlink(All.fl, all), all)]

(* extend_heap: the epilogue becomes the header of a new free block        *)
Extend(H, bytes) ==
  Coalesce([brk  |-> H.brk + bytes,
            size |-> [c \in Blocks(H) \cup {H.brk} |->
                        IF c = H.brk THEN bytes ELSE H.size[c]],
            free |-> H.free \cup {H.brk},
            fl   |-> Push(H.fl, H.brk)],
           H.brk)

(* mutant: what is split off is put nowhere                                *)
PlaceLeaks(H, b, bytes) ==
  IF H.size[b] - bytes >= MinBlock
  THEN [brk  |-> H.brk,
        size |-> [c \in Blocks(H) \cup {b + bytes} |->
                    IF c = b THEN bytes
                    ELSE IF c = b + bytes THEN H.size[b] - bytes
                    ELSE H.size[c]],
        free |-> H.free \ {b},
        fl   |-> H.fl]
  ELSE [H EXCEPT !.free = @ \ {b}]

(* place: b holds the request; what is left becomes a block if it can      *)
Place(H, b, bytes) ==
  IF H.size[b] - bytes >= MinBlock
  THEN [brk  |-> H.brk,
        size |-> [c \in Blocks(H) \cup {b + bytes} |->
                    IF c = b THEN bytes
                    ELSE IF c = b + bytes THEN H.size[b] - bytes
                    ELSE H.size[c]],
        free |-> (H.free \ {b}) \cup {b + bytes},
        fl   |-> Push(H.fl, b + bytes)]
  ELSE [H EXCEPT !.free = @ \ {b}]

-----------------------------------------------------------------------------
(* The package's entry points.                                             *)

GrowBy(bytes) == IF bytes >= Chunk THEN bytes ELSE Chunk

(* what find_fit searches when it succeeds, what extend_heap leaves if not *)
Room(H, bytes) ==
  IF Fits(H, bytes) # {} THEN H ELSE Extend(H, GrowBy(bytes))

Chosen(H, bytes) ==
  IF Fits(H, bytes) # {} THEN FindFit(H, bytes) ELSE Head(Room(H, bytes).fl)

(* mem_sbrk refuses: mm_malloc then unlinks NULL and the process dies      *)
OutOfMemory(H, n) ==
  Fits(H, BlockSize(n)) = {} /\ H.brk + GrowBy(BlockSize(n)) > MaxHeap

(* mutant: the block handed out stays on the free list                     *)
MallocStaysListed(H, n) ==
  Place(Room(H, BlockSize(n)), Chosen(H, BlockSize(n)), BlockSize(n))

Malloc(H, n) ==
  LET G == Room(H, BlockSize(n))
      b == Chosen(H, BlockSize(n))
  IN  Place([G EXCEPT !.fl = Unlink(@, b)], b, BlockSize(n))

Free(H, p) ==
  Coalesce([brk  |-> H.brk,
            size |-> H.size,
            free |-> H.free \cup {p},
            fl   |-> Push(H.fl, p)],
           p)

InitHeap ==
  Extend([brk |-> Base, size |-> NoBlock, free |-> {}, fl |-> <<>>], Chunk)

CanGrow(H, p, n) ==
  /\ End(H, p) \in H.free
  /\ H.size[p] + H.size[End(H, p)] >= BlockSize(n)

-----------------------------------------------------------------------------
(* The client: any sequence of legal calls.  A request for zero bytes is   *)
(* ignored by mm_malloc (a stuttering step) and frees in mm_realloc.       *)

With(p, n) == [q \in DOMAIN live \cup {p} |-> IF q = p THEN n ELSE live[q]]
Without(p) == [q \in DOMAIN live \ {p} |-> live[q]]

Init ==
  /\ heap = InitHeap
  /\ live = NoBlock
  /\ crashed = FALSE

MallocCall(n) ==
  /\ n > 0
  /\ ~OutOfMemory(heap, n)
  /\ heap' = Malloc(heap, n)
  /\ live' = With(Chosen(heap, BlockSize(n)), n)
  /\ UNCHANGED crashed

FreeCall(p) ==
  /\ heap' = Free(heap, p)
  /\ live' = Without(p)
  /\ UNCHANGED crashed

ReallocFits(p, n) ==
  /\ n > 0
  /\ BlockSize(n) <= heap.size[p]
  /\ live' = With(p, n)
  /\ UNCHANGED <<heap, crashed>>

ReallocGrows(p, n) ==
  /\ BlockSize(n) > heap.size[p]
  /\ CanGrow(heap, p, n)
  /\ heap' = Place(Join(heap, p), p, BlockSize(n))
  /\ live' = With(p, n)
  /\ UNCHANGED crashed

ReallocMoves(p, n) ==
  LET q == Chosen(heap, BlockSize(n)) IN
  /\ BlockSize(n) > heap.size[p]
  /\ ~CanGrow(heap, p, n)
  /\ ~OutOfMemory(heap, n)
  /\ heap' = Free(Malloc(heap, n), p)
  /\ live' = [r \in (DOMAIN live \ {p}) \cup {q} |-> IF r = q THEN n ELSE live[r]]
  /\ UNCHANGED crashed

MallocCrash(n) ==
  /\ n > 0
  /\ OutOfMemory(heap, n)
  /\ crashed' = TRUE
  /\ UNCHANGED <<heap, live>>

ReallocCrash(p, n) ==
  /\ BlockSize(n) > heap.size[p]
  /\ ~CanGrow(heap, p, n)
  /\ OutOfMemory(heap, n)
  /\ crashed' = TRUE
  /\ UNCHANGED <<heap, live>>

(* the driver rewinds the break and calls mm_init again                    *)
Restart ==
  /\ heap' = InitHeap
  /\ live' = NoBlock
  /\ UNCHANGED crashed

Next ==
  /\ ~crashed
  /\ \/ \E n \in Requests : MallocCall(n) \/ MallocCrash(n)
     \/ \E p \in DOMAIN live :
          \/ FreeCall(p)
          \/ \E n \in Requests :
               \/ ReallocFits(p, n)
               \/ ReallocGrows(p, n)
               \/ ReallocMoves(p, n)
               \/ ReallocCrash(p, n)
     \/ Restart

Spec == Init /\ [][Next]_vars

-----------------------------------------------------------------------------
(* Invariants.                                                             *)

HeapType(H) ==
  /\ H = [brk |-> H.brk, size |-> H.size, free |-> H.free, fl |-> H.fl]
  /\ H.brk \in Nat
  /\ Blocks(H) \subseteq Nat
  /\ H.size \in [Blocks(H) -> Nat]
  /\ H.free \subseteq Blocks(H)
  /\ H.fl \in Seq(Blocks(H))

(* Type invariant.                                                         *)
TypeOK ==
  /\ HeapType(heap)
  /\ DOMAIN live \subseteq Nat
  /\ live \in [DOMAIN live -> Nat]
  /\ crashed \in BOOLEAN

Aligned(H) ==
  \A b \in Blocks(H) :
    b >= Base /\ b % 8 = 0 /\ H.size[b] % 8 = 0 /\ H.size[b] >= MinBlock

(* The blocks tile the memory between prologue and epilogue: walking from  *)
(* header to header, or from footer to footer, meets every block once.     *)
Tiled(H) ==
  /\ H.brk % 8 = 0
  /\ Aligned(H)
  /\ Base \in Blocks(H) \cup {H.brk}
  /\ \A b \in Blocks(H) : End(H, b) \in Blocks(H) \cup {H.brk}
  /\ \A b, c \in Blocks(H) : b < c => End(H, b) <= c
  /\ \A c \in (Blocks(H) \cup {H.brk}) \ {Base} : \E b \in Blocks(H) : End(H, b) = c
  /\ \A b \in Blocks(H) : b < H.brk

(* What coalesce's comment demands (mm.c:337): a block is marked free      *)
(* exactly when it is on the free list, where it is once.                  *)
FreeListExact(H) == IsInjective(H.fl) /\ ToSet(H.fl) = H.free

(* Adjacent free blocks are joined every time a block is freed or the heap *)
(* is extended (mm.c:29-30), so two free blocks are never neighbours.      *)
Coalesced(H) == \A b \in H.free : End(H, b) \notin H.free

(* The heap's blocks tile it, the free list is exact and no free blocks    *)
(* are adjacent, whatever sequence of calls was made.                      *)
WellFormed ==
  /\ Tiled(heap) /\ FreeListExact(heap) /\ Coalesced(heap)
  /\ Base < heap.brk /\ heap.brk <= MaxHeap

(* Every block that is not free is held by the client, and no other: no    *)
(* block is leaked by split, join or move, none handed out is reclaimed,   *)
(* and each has room for what was asked plus header and footer.            *)
Accounted ==
  /\ Blocks(heap) = heap.free \cup DOMAIN live
  /\ heap.free \cap DOMAIN live = {}
  /\ \A p \in DOMAIN live : live[p] + 8 <= heap.size[p]

(* Once everything has been freed one block is left, as long as the heap:  *)
(* coalescing in any order of calls undoes every split.                    *)
EmptyIsOneBlock == live = NoBlock => Blocks(heap) = {Base}

(* The break moves up only for a request no free block could hold.         *)
GrowsOnlyWhenFull ==
  [][heap'.brk > heap.brk =>
       \E q \in DOMAIN live' \ DOMAIN live :
         \A f \in heap.free : heap.size[f] < BlockSize(live'[q])]_vars

(* A call never resizes a block another pointer holds: what a live pointer *)
(* owns is changed only by a realloc of that pointer.                      *)
OthersUntouched ==
  [][\A p \in DOMAIN live \cap DOMAIN live' :
       live'[p] = live[p] => heap'.size[p] = heap.size[p]]_vars

-----------------------------------------------------------------------------
(* The promise kept.  A request may fail with no more than a chunk and a   *)
(* block's overhead left.                                                  *)

Promise == INSTANCE MallocSpec WITH
  Lo <- HeapLo, Hi <- MaxHeap, Slack <- Chunk + 16, Sizes <- Requests,
  live <- live, top <- heap.brk, dead <- crashed

(* Every behaviour of the allocator is one MallocSpec allows.              *)
KeepsPromise == Promise!PSpec

=============================================================================
