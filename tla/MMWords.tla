------------------------------ MODULE MMWords ------------------------------
(***************************************************************************)
(* mm.c word by word: boundary tags, the doubly linked list threaded       *)
(* through the free blocks' payloads, and every function as an operator    *)
(* from machine states to machine states (see MemLib for the state h).     *)
(* A function that also returns a pointer gives a record [h, p].           *)
(***************************************************************************)
EXTENDS MemLib, Sequences, FiniteSetsExt

CONSTANT Chunk               \* CHUNKSIZE

ASSUME ChunkAssumption ==
  /\ Chunk \in Nat /\ Chunk % 8 = 0 /\ Chunk >= 16
  /\ HeapLo + 16 + Chunk <= MaxHeap

-----------------------------------------------------------------------------
(* Headers, footers and neighbours of a block pointer bp.                  *)

Word(size, alloc) == size + alloc            \* make_header
GetSize(h, a) == (Get(h, a) \div 8) * 8
IsAllocated(h, a) == Get(h, a) % 2 = 1

Header(bp) == bp - WSIZE
SizeOf(h, bp) == GetSize(h, Header(bp))
NextBlock(h, bp) == bp + SizeOf(h, bp)
Footer(h, bp) == NextBlock(h, bp) - DSIZE
PrevBlock(h, bp) == bp - GetSize(h, bp - DSIZE)

Tag(h, bp, w) == Set(h, Header(bp), w)
TagFooter(h, bp, w) == Set(h, Footer(h, bp), w)   \* where the header says
TagBoth(h, bp, w) == TagFooter(Tag(h, bp, w), bp, w)

NextFree(h, bp) == Get(h, bp)
PrevFree(h, bp) == Get(h, bp + WSIZE)

(* align and calc_block_size, in size_t arithmetic                         *)
Align(n) == (((n + 7) % SizeT) \div 8) * 8
(* mutant: header and footer are not paid for                              *)
PayloadSize(n) == Align(n)

BlockSize(n) == (DSIZE + Align(n)) % SizeT
MinBlock == BlockSize(1)

-----------------------------------------------------------------------------
(* The free list.                                                          *)

SetNext(h, bp, next) == IF bp = NULL THEN h ELSE Set(h, bp, next)
SetPrev(h, bp, prev) == IF bp = NULL THEN h ELSE Set(h, bp + WSIZE, prev)

AddToFreeList(h, bp) ==
  LET linked == SetPrev(SetNext(h, bp, h.fl), h.fl, bp)
  IN  [SetPrev(linked, bp, NULL) EXCEPT !.fl = bp]

(* mutant: the block after it keeps pointing back at it                    *)
RemoveOneWay(h, bp) ==
  LET prev == PrevFree(h, bp)
      next == NextFree(h, bp)
  IN  IF bp \notin Arena THEN Die(h)
      ELSE IF prev # NULL THEN SetNext(h, prev, next)
      ELSE [SetPrev(h, next, NULL) EXCEPT !.fl = next]

RemoveFromFreeList(h, bp) ==
  LET prev == PrevFree(h, bp)
      next == NextFree(h, bp)
  IN  IF bp \notin Arena THEN Die(h)
      ELSE IF prev # NULL THEN SetPrev(SetNext(h, prev, next), next, prev)
      ELSE [SetPrev(h, next, NULL) EXCEPT !.fl = next]

(* the k-th block reached from free_list along the next words, then NULL;  *)
(* a list without a cycle has fewer than Steps blocks, so a search that    *)
(* would spin on a corrupted list stops here at its last block             *)
Steps == (MaxHeap - HeapLo) \div 16 + 1
Walk(h) ==
  LET nth[k \in 0 .. Steps] ==
        IF k = 0 THEN h.fl
        ELSE LET bp == nth[k - 1] IN IF bp = NULL THEN NULL ELSE NextFree(h, bp)
  IN  nth

FindFit(h, size) ==
  LET nth == Walk(h)
      stop == {k \in 0 .. Steps : nth[k] = NULL \/ SizeOf(h, nth[k]) >= size}
  IN  nth[Min(stop \cup {Steps})]

-----------------------------------------------------------------------------
(* Splitting, merging, growing.                                            *)

(* what place does behind the first part of a split                        *)
SplitOff(h, bp, rest) ==
  LET next == NextBlock(h, bp)
  IN  AddToFreeList(TagBoth(h, next, Word(rest, 0)), next)

(* mutant: a split leaves the first part without a footer                  *)
PlaceNoFooter(h, bp, size) ==
  LET rest == SizeOf(h, bp) - size
  IN  IF rest >= MinBlock THEN SplitOff(Tag(h, bp, Word(size, 1)), bp, rest)
      ELSE TagBoth(h, bp, Word(SizeOf(h, bp), 1))

Place(h, bp, size) ==
  LET rest == SizeOf(h, bp) - size
  IN  IF rest >= MinBlock THEN SplitOff(TagBoth(h, bp, Word(size, 1)), bp, rest)
      ELSE TagBoth(h, bp, Word(SizeOf(h, bp), 1))

UnlistUnless(alloc, h, bp) == IF alloc THEN h ELSE RemoveFromFreeList(h, bp)

(* the three cases of coalesce that join blocks; size is that of bp        *)
JoinNext(h, bp, next, size) == TagBoth(h, bp, Word(size + SizeOf(h, next), 0))

JoinPrev(h, bp, prev, size) ==
  LET w == Word(size + SizeOf(h, prev), 0) IN Tag(TagFooter(h, bp, w), prev, w)

JoinBoth(h, prev, next, size) ==
  LET w == Word(size + SizeOf(h, prev) + GetSize(h, Footer(h, next)), 0)
  IN  TagFooter(Tag(h, prev, w), next, w)

Merged(h, bp, prev, next, prevAlloc, nextAlloc, size) ==
  IF prevAlloc /\ nextAlloc THEN h
  ELSE IF prevAlloc THEN JoinNext(h, bp, next, size)
  ELSE IF nextAlloc THEN JoinPrev(h, bp, prev, size)
  ELSE JoinBoth(h, prev, next, size)

Coalesce(h, bp) ==
  LET prev == PrevBlock(h, bp)
      next == NextBlock(h, bp)
      prevAlloc == IsAllocated(h, Footer(h, prev))
      nextAlloc == IsAllocated(h, Header(next))
      apart == UnlistUnless(prevAlloc, UnlistUnless(nextAlloc, h, next), prev)
      alone == UnlistUnless(IsAllocated(apart, Header(bp)), apart, bp)
      first == IF prevAlloc THEN bp ELSE prev
  IN  [h |-> AddToFreeList(Merged(alone, bp, prev, next, prevAlloc, nextAlloc,
                                  SizeOf(h, bp)), first),
       p |-> first]

NewEpilogue(h, bp) == Tag(h, NextBlock(h, bp), Word(0, 1))

ExtendHeap(h, words) ==
  LET size == IF words % 2 = 1 THEN (words + 1) * WSIZE ELSE words * WSIZE
      bp == SbrkResult(h, size)
      block == TagBoth(Sbrk(h, size), bp, Word(size, 0))
  IN  IF bp = Failed THEN [h |-> h, p |-> NULL]
      ELSE Coalesce(AddToFreeList(NewEpilogue(block, bp), bp), bp)

-----------------------------------------------------------------------------
(* The package's entry points.                                             *)

(* padding, prologue and epilogue at lo                                    *)
Frame(h, lo) ==
  LET prologue == Set(Set(Set(h, lo, 0), lo + WSIZE, Word(DSIZE, 1)),
                      lo + 2 * WSIZE, Word(DSIZE, 1))
  IN  Set(prologue, lo + 3 * WSIZE, Word(0, 1))

ListOnly(h, bp) == [SetPrev(SetNext(h, bp, NULL), bp, NULL) EXCEPT !.fl = bp]

(* the result is -1 or 0                                                   *)
Started(first) ==
  IF first.p = NULL THEN [h |-> first.h, p |-> -1]
  ELSE [h |-> ListOnly(first.h, first.p), p |-> 0]

MMInit(h) ==
  LET lo == SbrkResult(h, 4 * WSIZE)
  IN  IF lo = Failed THEN [h |-> h, p |-> -1]
      ELSE Started(ExtendHeap(Frame(Sbrk(h, 4 * WSIZE), lo), Chunk \div WSIZE))

(* a block for the request, still free: what find_fit finds, or a new one  *)
Found(h, size) ==
  LET fit == FindFit(h, size)
  IN  IF fit = NULL THEN ExtendHeap(h, Max({size, Chunk}) \div WSIZE)
      ELSE [h |-> h, p |-> fit]

Taken(found, size) ==
  IF found.p = NULL THEN [h |-> RemoveFromFreeList(found.h, NULL), p |-> NULL]
  ELSE [h |-> Place(RemoveFromFreeList(found.h, found.p), found.p, size),
        p |-> found.p]

(* mutant: the block handed out stays on the free list                     *)
MallocStaysListed(h, n) ==
  LET found == Found(h, BlockSize(n))
  IN  IF n = 0 THEN [h |-> h, p |-> NULL]
      ELSE [h |-> Place(found.h, found.p, BlockSize(n)), p |-> found.p]

MMMalloc(h, n) ==
  IF n = 0 THEN [h |-> h, p |-> NULL]
  ELSE Taken(Found(h, BlockSize(n)), BlockSize(n))

(* mutant: the freed block is not joined with its neighbours               *)
FreeAlone(h, bp) == AddToFreeList(TagBoth(h, bp, Word(SizeOf(h, bp), 0)), bp)

MMFree(h, bp) ==
  LET w == Word(SizeOf(h, bp), 0) IN
  IF Header(bp) \notin Arena THEN Die(h)
  ELSE Coalesce(AddToFreeList(TagBoth(h, bp, w), bp), bp).h

(* mutant: the contents do not move with the block                         *)
CopyNothing(h, from, to, n) == h

(* n bytes from one payload to another, in whole words                     *)
Copy(h, from, to, n) ==
  LET last == to + n - WSIZE IN
  [h EXCEPT !.mem = [a \in Arena |->
     IF a >= to /\ a <= last /\ a - to + from \in Arena THEN h.mem[a - to + from]
     ELSE h.mem[a]]]

(* the way of mm_realloc through a new block                               *)
Moved(new, bp, cur, n) ==
  IF new.p = NULL THEN new
  ELSE [h |-> MMFree(Copy(new.h, bp, new.p, Min({cur, n})), bp), p |-> new.p]

MMRealloc(h, bp, n) ==
  LET cur == SizeOf(h, bp)
      required == BlockSize(n)
      next == NextBlock(h, bp)
      combined == cur + SizeOf(h, next)
      absorbed == Tag(RemoveFromFreeList(h, next), bp, Word(combined, 1))
  IN  IF n = 0 THEN [h |-> MMFree(h, bp), p |-> NULL]
      ELSE IF bp = NULL THEN MMMalloc(h, n)
      ELSE IF required <= cur THEN [h |-> h, p |-> bp]
      ELSE IF ~IsAllocated(h, Header(next)) /\ combined >= required
      THEN [h |-> Place(absorbed, bp, required), p |-> bp]
      ELSE Moved(MMMalloc(h, n), bp, cur, n)

-----------------------------------------------------------------------------
(* The heap read back: by its headers from the first block, by its list.   *)

Base == HeapLo + 4 * WSIZE

BlocksOf(g) ==
  LET nth[k \in 0 .. Steps] ==
        IF k = 0 THEN Base ELSE LET b == nth[k - 1] IN NextBlock(g, b)
  IN  {b \in {nth[k] : k \in 0 .. Steps} : SizeOf(g, b) > 0}

FreeListOf(g) ==
  LET nth == Walk(g)
      length == Min({k \in 0 .. Steps : nth[k] = NULL} \cup {Steps})
  IN  [k \in 1 .. length |-> nth[k - 1]]

HeapOf(g) ==
  [brk  |-> g.brk,
   size |-> [b \in BlocksOf(g) |-> SizeOf(g, b)],
   free |-> {b \in BlocksOf(g) : ~IsAllocated(g, Header(b))},
   fl   |-> FreeListOf(g)]

-----------------------------------------------------------------------------
(* mm_check: 0 when the list looks sound, -1 when it reports ILLEGAL.  The *)
(* counts of NULL references are over the blocks on the list.              *)

MMCheck(h) ==
  LET nth == Walk(h)
      listed == {k \in 0 .. Steps : nth[k] # NULL}
      outside(p) == p # NULL /\ (p < HeapLo \/ p > MemHeapHi(h))
      nil(word(_, _)) == Cardinality({k \in listed : word(h, nth[k]) = NULL})
  IN  IF \/ h.fl # NULL /\ PrevFree(h, h.fl) # NULL
         \/ \E k \in listed :
              \/ IsAllocated(h, Header(nth[k]))
              \/ outside(NextFree(h, nth[k]))
              \/ outside(PrevFree(h, nth[k]))
         \/ nil(PrevFree) > 1
         \/ nil(NextFree) > 1
      THEN -1 ELSE 0

=============================================================================
