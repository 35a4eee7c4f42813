--------------------------- MODULE MMDriverProofs ---------------------------
(***************************************************************************)
(* The driver over the words: its invariant, and that the words it drives  *)
(* implement BlockHeap.  The invariant says that the words hold the heap,  *)
(* that the trace's table lists the allocated blocks (Books), that the list *)
(* of extents is that of the table (Recorded), that the payloads hold their *)
(* fill bytes (Filled) and that the totals add up (Tally).                 *)
(***************************************************************************)
EXTENDS MMDriver, MMWordsProofs

-----------------------------------------------------------------------------
(* BlockHeap has the same operators under both instances.                  *)

(* The free list.                                                          *)
LEMMA SameList ==
  ASSUME NEW s, NEW b
  PROVE  Detailed!Push(s, b) = P!Push(s, b) /\ Detailed!Unlink(s, b) = P!Unlink(s, b)
<1>1. Detailed!Push(s, b) = P!Push(s, b)
  BY DEF Detailed!Push, P!Push
<1>2. Detailed!Unlink(s, b) = P!Unlink(s, b)
  BY DEF Detailed!Unlink, P!Unlink, Detailed!ToSet, P!ToSet, Detailed!RemoveAt, P!RemoveAt
<1> QED BY <1>1, <1>2

(* Sizes and ends of blocks.                                               *)
LEMMA SameSizes ==
  ASSUME NEW H, NEW b, NEW n
  PROVE  /\ Detailed!BlockSize(n) = P!BlockSize(n) /\ Detailed!MinBlock = P!MinBlock
         /\ Detailed!Base = P!Base /\ Detailed!NoBlock = P!NoBlock
         /\ Detailed!End(H, b) = P!End(H, b) /\ Detailed!Blocks(H) = P!Blocks(H)
         /\ Detailed!GrowBy(n) = P!GrowBy(n) /\ Detailed!Fits(H, n) = P!Fits(H, n)
<1>1. Detailed!BlockSize(n) = P!BlockSize(n) /\ Detailed!MinBlock = P!MinBlock
  BY DEF Detailed!BlockSize, P!BlockSize, Detailed!MinBlock, P!MinBlock, Detailed!Align, P!Align
<1>2. Detailed!Base = P!Base /\ Detailed!NoBlock = P!NoBlock
  BY DEF Detailed!Base, P!Base, Detailed!NoBlock, P!NoBlock
<1>3. Detailed!End(H, b) = P!End(H, b) /\ Detailed!Blocks(H) = P!Blocks(H)
  BY DEF Detailed!End, P!End, Detailed!Blocks, P!Blocks
<1>4. Detailed!GrowBy(n) = P!GrowBy(n)
  BY DEF Detailed!GrowBy, P!GrowBy
<1>5. Detailed!Fits(H, n) = P!Fits(H, n)
  BY DEF Detailed!Fits, P!Fits
<1> QED BY <1>1, <1>2, <1>3, <1>4, <1>5

(* Joining.                                                                *)
LEMMA SameJoin ==
  ASSUME NEW H, NEW b
  PROVE  Detailed!Join(H, b) = P!Join(H, b)
<1>1. Detailed!Unlink(H.fl, P!End(H, b)) = P!Unlink(H.fl, P!End(H, b))
  BY SameList
<1>2. Detailed!End(H, b) = P!End(H, b) /\ Detailed!Blocks(H) = P!Blocks(H)
  BY SameSizes
<1> QED BY <1>1, <1>2 DEF Detailed!Join, P!Join

(* Coalescing.                                                             *)
LEMMA SameCoalesce ==
  ASSUME NEW H, NEW b
  PROVE  Detailed!Coalesce(H, b) = P!Coalesce(H, b)
<1> DEFINE prev == {p \in H.free : P!End(H, p) = b}
           next == IF P!End(H, b) \in H.free THEN P!Join(H, b) ELSE H
           q == CHOOSE p \in prev : TRUE
           all == IF prev = {} THEN next ELSE P!Join(next, q)
           first == IF prev = {} THEN b ELSE q
<1>1. P!Coalesce(H, b) = [all EXCEPT !.fl = P!Push(P!Unlink(all.fl, first), first)]
  BY DEF P!Coalesce
<1>2. {p \in H.free : Detailed!End(H, p) = b} = prev
  BY SameSizes
<1>3. (IF Detailed!End(H, b) \in H.free THEN Detailed!Join(H, b) ELSE H) = next
  BY SameSizes, SameJoin
<1> HIDE DEF prev, next, q
<1>4. (IF prev = {} THEN next ELSE Detailed!Join(next, q)) = all
  BY SameJoin
<1> HIDE DEF all, first
<1>5. Detailed!Push(Detailed!Unlink(all.fl, first), first) = P!Push(P!Unlink(all.fl, first), first)
  BY SameList
<1>6. Detailed!Coalesce(H, b)
        = [all EXCEPT !.fl = Detailed!Push(Detailed!Unlink(all.fl, first), first)]
  BY <1>2, <1>3, <1>4 DEF Detailed!Coalesce, first, q
<1> QED BY <1>1, <1>5, <1>6

(* Extending the heap.                                                     *)
LEMMA SameExtend ==
  ASSUME NEW H, NEW bytes
  PROVE  Detailed!Extend(H, bytes) = P!Extend(H, bytes)
<1> DEFINE G == P!Grown(H, bytes)
<1>1. P!Extend(H, bytes) = P!Coalesce(G, H.brk)
  BY DEF P!Extend, P!Grown
<1>2. Detailed!Extend(H, bytes) = Detailed!Coalesce(G, H.brk)
  BY SameList, SameSizes DEF Detailed!Extend, P!Grown
<1> HIDE DEF G
<1> QED BY <1>1, <1>2, SameCoalesce

(* Splitting.                                                              *)
LEMMA SamePlace ==
  ASSUME NEW H, NEW b, NEW bytes
  PROVE  Detailed!Place(H, b, bytes) = P!Place(H, b, bytes)
BY SameList, SameSizes DEF Detailed!Place, P!Place

(* mm_malloc.                                                              *)
LEMMA SameMalloc ==
  ASSUME NEW H, NEW n
  PROVE  /\ Detailed!OutOfMemory(H, n) <=> P!OutOfMemory(H, n)
         /\ Detailed!Chosen(H, P!BlockSize(n)) = P!Chosen(H, P!BlockSize(n))
         /\ Detailed!Malloc(H, n) = P!Malloc(H, n)
<1> DEFINE bytes == P!BlockSize(n)
           G == P!Room(H, bytes)
           b == P!Chosen(H, bytes)
<1>1. Detailed!BlockSize(n) = bytes /\ Detailed!Fits(H, bytes) = P!Fits(H, bytes)
      /\ Detailed!GrowBy(bytes) = P!GrowBy(bytes)
  BY SameSizes
<1> HIDE DEF bytes
<1>2. Detailed!OutOfMemory(H, n) <=> P!OutOfMemory(H, n)
  BY <1>1 DEF Detailed!OutOfMemory, P!OutOfMemory, bytes
<1>3. Detailed!Room(H, bytes) = G
  BY <1>1, SameExtend DEF Detailed!Room, P!Room
<1>4. Detailed!Chosen(H, bytes) = b
  BY <1>1, <1>3 DEF Detailed!Chosen, P!Chosen, Detailed!FindFit, P!FindFit
<1>5. Detailed!Malloc(H, n)
        = Detailed!Place([G EXCEPT !.fl = Detailed!Unlink(@, b)], b, bytes)
  BY <1>1, <1>3, <1>4 DEF Detailed!Malloc
<1>6. P!Malloc(H, n) = P!Place([G EXCEPT !.fl = P!Unlink(@, b)], b, bytes)
  BY DEF P!Malloc, bytes
<1> HIDE DEF G, b
<1>7. Detailed!Unlink(G.fl, b) = P!Unlink(G.fl, b)
  BY SameList
<1>8. [G EXCEPT !.fl = Detailed!Unlink(@, b)] = [G EXCEPT !.fl = P!Unlink(@, b)]
  BY <1>7
<1>9. Detailed!Malloc(H, n) = P!Malloc(H, n)
  BY <1>5, <1>6, <1>8, SamePlace
<1> QED BY <1>2, <1>4, <1>9 DEF bytes, b

(* mm_free.                                                                *)
LEMMA SameFree ==
  ASSUME NEW H, NEW p
  PROVE  Detailed!Free(H, p) = P!Free(H, p)
<1>1. P!Free(H, p) = P!Coalesce(P!Freed(H, p), p)
  BY DEF P!Free, P!Freed
<1>2. Detailed!Free(H, p) = Detailed!Coalesce(P!Freed(H, p), p)
  BY SameList DEF Detailed!Free, P!Freed
<1> QED BY <1>1, <1>2, SameCoalesce

(* The initial heap.                                                       *)
LEMMA SameInit ==
  Detailed!InitHeap = P!InitHeap
BY SameSizes, SameExtend DEF Detailed!InitHeap, P!InitHeap

(* Whether mm_realloc can take in the block behind.                        *)
LEMMA SameCanGrow ==
  ASSUME NEW H, NEW p, NEW n
  PROVE  Detailed!CanGrow(H, p, n) <=> P!CanGrow(H, p, n)
BY SameSizes DEF Detailed!CanGrow, P!CanGrow

-----------------------------------------------------------------------------
(* The trace's tables.                                                     *)

(* Whom the client holds, and with what sizes: every block in A is held    *)
(* under one id, and has room for what was asked for it.                   *)
Books(B, A, size) ==
  /\ B = [i \in DOMAIN B |-> [p |-> B[i].p, size |-> B[i].size]]
  /\ DOMAIN B \subseteq Ids
  /\ \A i \in DOMAIN B :
       /\ B[i].p \in A /\ B[i].size \in Requests \ {0}
       /\ B[i].size + 8 <= size[B[i].p]
  /\ \A i, j \in DOMAIN B : B[i].p = B[j].p => i = j
  /\ \A p \in A : \E i \in DOMAIN B : B[i].p = p

Put(B, i, p, n) ==
  [j \in DOMAIN B \cup {i} |-> IF j = i THEN [p |-> p, size |-> n] ELSE B[j]]

Drop(B, i) == [j \in DOMAIN B \ {i} |-> B[j]]

(* No block is held.                                                       *)
LEMMA BooksEmpty ==
  ASSUME NEW A, NEW size, Books(NoBlocks, A, size)
  PROVE  A = {}
BY DEF Books, NoBlocks

(* With no block allocated the empty table is right.                       *)
LEMMA EmptyBooks ==
  ASSUME NEW size
  PROVE  Books(NoBlocks, {}, size) /\ DOMAIN NoBlocks = {}
BY DEF Books, NoBlocks

(* A new block is entered.                                                 *)
LEMMA BooksPut ==
  ASSUME NEW B, NEW A, NEW size, Books(B, A, size),
         NEW i \in Ids \ DOMAIN B, NEW p, p \notin A, NEW n \in Requests \ {0},
         NEW room, \A q \in A : room[q] = size[q], n + 8 <= room[p]
  PROVE  Books(Put(B, i, p, n), A \cup {p}, room)
<1> DEFINE C == Put(B, i, p, n)
<1>1. /\ DOMAIN C = DOMAIN B \cup {i}
      /\ C[i] = [p |-> p, size |-> n] /\ C[i].p = p /\ C[i].size = n
      /\ \A j \in DOMAIN B : j # i /\ C[j] = B[j]
  BY DEF Put
<1>2. C = [j \in DOMAIN C |-> C[j]]
  BY DEF Put
<1> HIDE DEF C
<1>3. C = [j \in DOMAIN C |-> [p |-> C[j].p, size |-> C[j].size]]
  <2>1. ASSUME NEW j \in DOMAIN C PROVE C[j] = [p |-> C[j].p, size |-> C[j].size]
    <3>1. CASE j = i
      BY <3>1, <1>1
    <3>2. CASE j \in DOMAIN B
      <4>1. B[j] = [p |-> B[j].p, size |-> B[j].size]
        BY <3>2 DEF Books
      <4> QED BY <4>1, <3>2, <1>1
    <3> QED BY <3>1, <3>2, <1>1
  <2> QED BY <2>1, <1>2
<1>4. ASSUME NEW j \in DOMAIN C
      PROVE  /\ C[j].p \in A \cup {p} /\ C[j].size \in Requests \ {0}
             /\ C[j].size + 8 <= room[C[j].p]
  <2>1. CASE j = i
    BY <2>1, <1>1
  <2>2. CASE j \in DOMAIN B
    BY <2>2, <1>1 DEF Books
  <2> QED BY <2>1, <2>2, <1>1
<1>5. ASSUME NEW j \in DOMAIN C, NEW k \in DOMAIN C, C[j].p = C[k].p
      PROVE  j = k
  <2>1. \A x \in DOMAIN B : B[x].p # p
    BY DEF Books
  <2> QED BY <2>1, <1>1, <1>5 DEF Books
<1>6. ASSUME NEW q \in A \cup {p}
      PROVE  \E j \in DOMAIN C : C[j].p = q
  BY <1>1 DEF Books
<1>7. DOMAIN C \subseteq Ids
  BY <1>1 DEF Books
<1> QED BY <1>3, <1>4, <1>5, <1>6, <1>7 DEF Books, C

(* A block is struck out.                                                  *)
LEMMA BooksDrop ==
  ASSUME NEW B, NEW A, NEW size, Books(B, A, size), NEW i \in DOMAIN B
  PROVE  Books(Drop(B, i), A \ {B[i].p}, size)
<1> DEFINE C == Drop(B, i)
<1>1. /\ DOMAIN C = DOMAIN B \ {i} /\ C = [j \in DOMAIN C |-> C[j]]
      /\ \A j \in DOMAIN C : C[j] = B[j]
  BY DEF Drop
<1> HIDE DEF C
<1>2. \A j \in DOMAIN B : B[j] = [p |-> B[j].p, size |-> B[j].size]
  BY DEF Books
<1>3. C = [j \in DOMAIN C |-> [p |-> C[j].p, size |-> C[j].size]]
  <2>1. ASSUME NEW j \in DOMAIN C PROVE C[j] = [p |-> C[j].p, size |-> C[j].size]
    BY <1>1, <1>2
  <2> QED BY <2>1, <1>1
<1> QED BY <1>1, <1>3 DEF Books, C

(* Room that stays may be measured anew.                                   *)
LEMMA BooksResized ==
  ASSUME NEW B, NEW A, NEW size, Books(B, A, size),
         NEW room, \A q \in A : room[q] = size[q]
  PROVE  Books(B, A, room)
BY DEF Books

(* Entering an id anew is striking it out and entering it.                 *)
LEMMA PutDrop ==
  ASSUME NEW B, NEW i, NEW p, NEW n
  PROVE  Put(Drop(B, i), i, p, n) = Put(B, i, p, n)
<1>1. DOMAIN Drop(B, i) \cup {i} = DOMAIN B \cup {i}
  BY DEF Drop
<1>2. \A j \in DOMAIN B \cup {i} : j # i => Drop(B, i)[j] = B[j]
  BY DEF Drop
<1> QED BY <1>1, <1>2 DEF Put

-----------------------------------------------------------------------------
(* What BlockHeap calls live.                                              *)

(* One more size, and one less.                                            *)
Entered(L, p, n) == [q \in DOMAIN L \cup {p} |-> IF q = p THEN n ELSE L[q]]
Struck(L, p) == [q \in DOMAIN L \ {p} |-> L[q]]

(* The client read back from the table holds the blocks of the table.      *)
LEMMA LiveFacts ==
  ASSUME NEW B, NEW A, NEW size, Books(B, A, size)
  PROVE  /\ DOMAIN LiveOf(B) = A /\ LiveOf(B) = [p \in A |-> LiveOf(B)[p]]
         /\ \A i \in DOMAIN B : LiveOf(B)[B[i].p] = B[i].size
         /\ \A p \in A : LiveOf(B)[p] \in Requests \ {0} /\ LiveOf(B)[p] + 8 <= size[p]
<1>1. {B[i].p : i \in DOMAIN B} = A
  BY DEF Books
<1>2. LiveOf(B) = [p \in A |-> B[CHOOSE i \in DOMAIN B : B[i].p = p].size]
  BY <1>1 DEF LiveOf
<1>3. ASSUME NEW i \in DOMAIN B
      PROVE  LiveOf(B)[B[i].p] = B[i].size
  <2>1. (CHOOSE j \in DOMAIN B : B[j].p = B[i].p) = i
    BY DEF Books
  <2>2. B[i].p \in A
    BY DEF Books
  <2> QED BY <2>1, <2>2, <1>2
<1>4. ASSUME NEW p \in A
      PROVE  LiveOf(B)[p] \in Requests \ {0} /\ LiveOf(B)[p] + 8 <= size[p]
  <2>1. PICK i \in DOMAIN B : B[i].p = p
    BY DEF Books
  <2>2. LiveOf(B)[p] = B[i].size
    BY <2>1, <1>3
  <2> QED BY <2>1, <2>2 DEF Books
<1>5. DOMAIN LiveOf(B) = A /\ LiveOf(B) = [p \in A |-> LiveOf(B)[p]]
  BY <1>2
<1> QED BY <1>3, <1>4, <1>5

(* A block is entered.                                                     *)
LEMMA LivePut ==
  ASSUME NEW B, NEW A, NEW size, Books(B, A, size),
         NEW i \in Ids \ DOMAIN B, NEW p, p \notin A, NEW n \in Requests \ {0}
  PROVE  LiveOf(Put(B, i, p, n)) = Entered(LiveOf(B), p, n)
<1> DEFINE C == Put(B, i, p, n)
           M == LiveOf(C)
           room == [q \in A \cup {p} |-> IF q = p THEN n + 8 ELSE size[q]]
<1>1. Books(C, A \cup {p}, room)
  <2>1. n \in Nat
    BY TraceAssumption
  <2>2. (\A q \in A : room[q] = size[q]) /\ n + 8 <= room[p]
    BY <2>1
  <2> HIDE DEF room
  <2> QED BY <2>2, BooksPut
<1>2. /\ DOMAIN C = DOMAIN B \cup {i} /\ C[i].p = p /\ C[i].size = n
      /\ \A j \in DOMAIN B : j # i /\ C[j] = B[j]
  BY DEF Put
<1> HIDE DEF C
<1>3. /\ M = [q \in A \cup {p} |-> M[q]]
      /\ \A j \in DOMAIN C : M[C[j].p] = C[j].size
  BY <1>1, LiveFacts
<1> HIDE DEF M
<1>4. ASSUME NEW q \in A \cup {p}
      PROVE  M[q] = IF q = p THEN n ELSE LiveOf(B)[q]
  <2>1. CASE q = p
    BY <2>1, <1>2, <1>3
  <2>2. CASE q # p
    <3>1. PICK j \in DOMAIN B : B[j].p = q
      BY <2>2 DEF Books
    <3>2. LiveOf(B)[q] = B[j].size
      BY <3>1, LiveFacts
    <3> QED BY <2>2, <3>1, <3>2, <1>2, <1>3
  <2> QED BY <2>1, <2>2
<1>5. M = [q \in A \cup {p} |-> IF q = p THEN n ELSE LiveOf(B)[q]]
  BY <1>3, <1>4
<1>6. DOMAIN LiveOf(B) = A
  BY LiveFacts
<1> QED BY <1>5, <1>6 DEF M, C, Entered

(* A block is struck out.                                                  *)
LEMMA LiveDrop ==
  ASSUME NEW B, NEW A, NEW size, Books(B, A, size), NEW i \in DOMAIN B
  PROVE  LiveOf(Drop(B, i)) = Struck(LiveOf(B), B[i].p)
<1> DEFINE C == Drop(B, i)
           M == LiveOf(C)
<1>1. Books(C, A \ {B[i].p}, size)
  BY BooksDrop
<1>2. DOMAIN C = DOMAIN B \ {i} /\ \A j \in DOMAIN C : C[j] = B[j]
  BY DEF Drop
<1> HIDE DEF C
<1>3. /\ M = [q \in A \ {B[i].p} |-> M[q]]
      /\ \A j \in DOMAIN C : M[C[j].p] = C[j].size
  BY <1>1, LiveFacts
<1> HIDE DEF M
<1>4. ASSUME NEW q \in A \ {B[i].p}
      PROVE  M[q] = LiveOf(B)[q]
  <2>1. PICK j \in DOMAIN B : B[j].p = q
    BY DEF Books
  <2>2. LiveOf(B)[q] = B[j].size
    BY <2>1, LiveFacts
  <2>3. j \in DOMAIN C /\ C[j] = B[j]
    BY <2>1, <1>2
  <2> QED BY <2>1, <2>2, <2>3, <1>3
<1>5. M = [q \in A \ {B[i].p} |-> LiveOf(B)[q]]
  BY <1>3, <1>4
<1>6. DOMAIN LiveOf(B) = A
  BY LiveFacts
<1> QED BY <1>5, <1>6 DEF M, C, Struck

(* Nothing is held.                                                        *)
LEMMA LiveNone == LiveOf(NoBlocks) = P!NoBlock
BY DEF LiveOf, NoBlocks, P!NoBlock

-----------------------------------------------------------------------------
(* The extents add_range recorded.                                         *)

ExtentsOf(B) == {R!Extent(B[i].p, B[i].size) : i \in DOMAIN B}

(* The list holds the extents of the blocks in the table, each once.       *)
Recorded(list, B) ==
  /\ list \in Seq(R!Extents) /\ P!IsInjective(list)
  /\ P!ToSet(list) = ExtentsOf(B)

(* Before the first request nothing is on record.                          *)
LEMMA NothingRecorded == Recorded(<<>>, NoBlocks)
<1>1. P!ToSet(<<>>) = {} /\ P!IsInjective(<<>>)
  BY DEF P!ToSet, P!IsInjective
<1>2. ExtentsOf(NoBlocks) = {}
  BY DEF ExtentsOf, NoBlocks
<1> QED BY <1>1, <1>2 DEF Recorded

(* remove_range takes out the block's extent.                              *)
LEMMA RecordedDrop ==
  ASSUME NEW B, NEW A, NEW size, Books(B, A, size), NEW i \in DOMAIN B,
         NEW list, Recorded(list, B)
  PROVE  Recorded(R!Removed(list, B[i].p), Drop(B, i))
<1> DEFINE lo == B[i].p
           r == R!Extent(lo, B[i].size)
           First(k) == /\ list[k].lo = lo
                       /\ \A l \in DOMAIN list : list[l].lo = lo => k <= l
           Same(k) == list[k] = r
           t == P!Unlink(list, r)
<1>1. /\ list \in Seq(R!Extents) /\ P!IsInjective(list) /\ P!ToSet(list) = ExtentsOf(B)
      /\ \A k \in DOMAIN list : list[k] \in P!ToSet(list)
      /\ \A e \in P!ToSet(list) : \E k \in DOMAIN list : list[k] = e
      /\ \A k, l \in DOMAIN list : list[k] = list[l] => k = l
      /\ DOMAIN list \subseteq Nat
  BY DEF Recorded, P!ToSet, P!IsInjective
<1>2. r \in ExtentsOf(B) /\ r.lo = lo
  BY DEF ExtentsOf, R!Extent
<1>3. ASSUME NEW e \in ExtentsOf(B), e.lo = lo PROVE e = r
  <2>1. PICK j \in DOMAIN B : e = R!Extent(B[j].p, B[j].size)
    BY DEF ExtentsOf
  <2>2. B[j].p = B[i].p
    BY <1>3, <2>1 DEF R!Extent
  <2>3. j = i
    BY <2>2 DEF Books
  <2> QED BY <2>1, <2>3
<1> HIDE DEF r, lo
<1>4. PICK k \in DOMAIN list : list[k] = r
  BY <1>1, <1>2
<1>5. \A l \in DOMAIN list : list[l].lo = lo => l = k
  BY <1>1, <1>2, <1>3, <1>4
<1>6. (CHOOSE l \in DOMAIN list : First(l)) = k
  <2>1. First(k)
    BY <1>1, <1>2, <1>4, <1>5
  <2>2. \A l \in DOMAIN list : First(l) => l = k
    BY <1>5
  <2> QED BY <2>1, <2>2
<1>7. (CHOOSE l \in DOMAIN list : Same(l)) = k
  BY <1>1, <1>4
<1>8. R!Removed(list, lo) = RemoveAt(list, k)
  <2>1. \E l \in DOMAIN list : list[l].lo = lo
    BY <1>2, <1>4
  <2> QED BY <2>1, <1>6 DEF R!Removed, R!RemoveAt, RemoveAt
<1>9. t = RemoveAt(list, k)
  <2>1. r \in P!ToSet(list)
    BY <1>1, <1>2
  <2> QED BY <2>1, <1>7 DEF P!Unlink, P!RemoveAt, RemoveAt
<1>10. t \in Seq(R!Extents) /\ P!IsInjective(t) /\ P!ToSet(t) = P!ToSet(list) \ {r}
  BY <1>1, BlockAssumptions, P!UnlinkFacts
<1>11. ExtentsOf(Drop(B, i)) = ExtentsOf(B) \ {r}
  <2>1. DOMAIN Drop(B, i) = DOMAIN B \ {i} /\ \A j \in DOMAIN B \ {i} : Drop(B, i)[j] = B[j]
    BY DEF Drop
  <2>2. ASSUME NEW j \in DOMAIN B \ {i} PROVE R!Extent(B[j].p, B[j].size) # r
    <3>1. B[j].p # lo
      BY DEF Books, lo
    <3>2. R!Extent(B[j].p, B[j].size).lo = B[j].p
      BY DEF R!Extent
    <3> QED BY <3>1, <3>2, <1>2
  <2> QED BY <2>1, <2>2 DEF ExtentsOf, r, lo
<1> QED BY <1>1, <1>8, <1>9, <1>10, <1>11 DEF Recorded, lo

(* add_range puts the new extent in front.                                 *)
LEMMA RecordedPut ==
  ASSUME NEW B, NEW A, NEW size, Books(B, A, size),
         NEW list, Recorded(list, B),
         NEW i, i \notin DOMAIN B, NEW p, p \notin A, NEW n,
         R!Extent(p, n) \in R!Extents
  PROVE  Recorded(R!Added(list, p, n), Put(B, i, p, n))
<1> DEFINE r == R!Extent(p, n)
<1>1. R!Added(list, p, n) = P!Push(list, r)
  BY DEF R!Added, P!Push
<1>2. list \in Seq(R!Extents) /\ P!IsInjective(list) /\ P!ToSet(list) = ExtentsOf(B)
  BY DEF Recorded
<1>3. r \notin ExtentsOf(B)
  <2>1. ASSUME NEW j \in DOMAIN B PROVE R!Extent(B[j].p, B[j].size) # r
    <3>1. B[j].p # p
      BY DEF Books
    <3> QED BY <3>1 DEF R!Extent
  <2> QED BY <2>1 DEF ExtentsOf
<1>4. ExtentsOf(Put(B, i, p, n)) = ExtentsOf(B) \cup {r}
  <2> DEFINE C == Put(B, i, p, n)
  <2>1. /\ DOMAIN C = DOMAIN B \cup {i} /\ C[i].p = p /\ C[i].size = n
        /\ \A j \in DOMAIN B : j # i /\ C[j] = B[j]
    BY DEF Put
  <2> HIDE DEF C
  <2>2. ExtentsOf(C) = ExtentsOf(B) \cup {r}
    BY <2>1 DEF ExtentsOf
  <2> QED BY <2>2 DEF C
<1> HIDE DEF r
<1>5. /\ P!Push(list, r) \in Seq(R!Extents) /\ P!IsInjective(P!Push(list, r))
      /\ P!ToSet(P!Push(list, r)) = P!ToSet(list) \cup {r}
  BY <1>2, <1>3, BlockAssumptions, P!PushFacts DEF r
<1> QED BY <1>1, <1>2, <1>4, <1>5 DEF Recorded

(* Where payloads are: aligned, below the break, and apart.                *)
Apart(B, brk) ==
  /\ \A i \in DOMAIN B :
       /\ B[i].p \in Nat /\ B[i].size \in Nat /\ B[i].size > 0
       /\ B[i].p % 8 = 0 /\ B[i].p >= HeapLo /\ B[i].p + B[i].size <= brk
  /\ \A i, j \in DOMAIN B :
       i # j => B[i].p + B[i].size <= B[j].p \/ B[j].p + B[j].size <= B[i].p

(* The payloads in the table are aligned, in the heap and disjoint.        *)
LEMMA BooksApart ==
  ASSUME NEW H, Proper(H), P!Coalesced(H), NEW B, Books(B, P!Allocated(H), H.size)
  PROVE  Apart(B, H.brk)
<1> DEFINE L == LiveOf(B)
<1>1. P!Settled(H)
  BY ProperIsSound DEF P!Settled
<1>2. /\ DOMAIN L = P!Allocated(H) /\ L = [p \in DOMAIN L |-> L[p]]
      /\ \A i \in DOMAIN B : L[B[i].p] = B[i].size
      /\ \A p \in DOMAIN L : L[p] \in Requests \ {0} /\ L[p] + 8 <= H.size[p]
  BY LiveFacts
<1> HIDE DEF L
<1>3. Requests \subseteq Nat
  BY TraceAssumption
<1>4. P!Held(H, L)
  BY <1>2, <1>3 DEF P!Held
<1>5. /\ \A p \in DOMAIN L :
           /\ p \in Nat /\ L[p] \in Nat
           /\ p % 8 = 0 /\ p >= HeapLo /\ p + L[p] <= H.brk
      /\ \A p, q \in DOMAIN L :
           p # q => p + L[p] <= q \/ q + L[q] <= p
  BY <1>1, <1>4, BlockAssumptions, P!PayloadsApart
<1>6. ASSUME NEW i \in DOMAIN B
      PROVE  /\ B[i].p \in DOMAIN L /\ B[i].size \in Requests \ {0}
             /\ L[B[i].p] = B[i].size
  BY <1>2 DEF Books
<1>7. ASSUME NEW i \in DOMAIN B, NEW j \in DOMAIN B, i # j PROVE B[i].p # B[j].p
  BY <1>7 DEF Books
<1> QED BY <1>3, <1>5, <1>6, <1>7 DEF Apart

(* add_range accepts a payload that is aligned, in the heap, and apart     *)
(* from the others.                                                        *)
LEMMA NoComplaint ==
  ASSUME NEW B, NEW i \in DOMAIN B, NEW brk, Apart(B, brk), brk \in Nat, brk <= MaxHeap,
         NEW list, Recorded(list, Drop(B, i))
  PROVE  /\ R!Complaint(list, B[i].p, B[i].size, HeapLo, brk - 1) = "none"
         /\ R!Extent(B[i].p, B[i].size) \in R!Extents
<1> DEFINE p == B[i].p
           n == B[i].size
           r == R!Extent(p, n)
<1>1. /\ p \in Nat /\ n \in Nat /\ n > 0 /\ p % 8 = 0 /\ p >= HeapLo /\ p + n <= brk
  BY DEF Apart
<1> HIDE DEF p, n
<1>2. r.lo = p /\ r.hi = p + n - 1 /\ r = [lo |-> p, hi |-> p + n - 1]
  BY DEF R!Extent
<1> HIDE DEF r
<1>3. HeapLo \in Nat /\ MaxHeap \in Nat
  BY MemAssumption
<1>4. ~R!Misaligned(p) /\ ~R!OutsideHeap(r, HeapLo, brk - 1)
  BY <1>1, <1>2, <1>3 DEF R!Misaligned, R!OutsideHeap
<1>5. ASSUME NEW k \in DOMAIN list PROVE ~R!Overlaps(r, list[k])
  <2>1. list[k] \in ExtentsOf(Drop(B, i))
    BY DEF Recorded, P!ToSet
  <2>2. PICK j \in DOMAIN B \ {i} : list[k] = R!Extent(B[j].p, B[j].size)
    BY <2>1 DEF ExtentsOf, Drop
  <2>3. /\ B[j].p \in Nat /\ B[j].size \in Nat /\ B[j].size > 0
        /\ p + n <= B[j].p \/ B[j].p + B[j].size <= p
    BY DEF Apart, p, n
  <2>4. list[k].lo = B[j].p /\ list[k].hi = B[j].p + B[j].size - 1
    BY <2>2 DEF R!Extent
  <2> QED BY <1>1, <1>2, <2>3, <2>4 DEF R!Overlaps
<1>6. r \in R!Extents
  BY <1>1, <1>2, <1>3 DEF R!Extents
<1>7. R!Complaint(list, p, n, HeapLo, brk - 1) = "none"
  BY <1>4, <1>5 DEF R!Complaint, r
<1> QED BY <1>6, <1>7 DEF r, p, n

-----------------------------------------------------------------------------
(* What the payloads contain.                                              *)

Filled(g, B) ==
  \A i \in DOMAIN B, a \in Arena :
    a >= B[i].p /\ a < B[i].p + B[i].size => Get(g, a) = FillByte(i)

(* A payload the client may write lies inside its block.                   *)
LEMMA InPayload ==
  ASSUME NEW H, Proper(H), NEW B, NEW A \in SUBSET P!Allocated(H), Books(B, A, H.size),
         NEW i \in DOMAIN B, NEW a \in Int, B[i].p <= a, a < B[i].p + B[i].size
  PROVE  B[i].p \in A /\ a \in Payload(H, B[i].p)
<1>1. /\ B[i].p \in A /\ B[i].size \in Requests /\ B[i].size + 8 <= H.size[B[i].p]
  BY DEF Books
<1>2. PICK p \in P!Blocks(H) : p = B[i].p
  BY <1>1 DEF P!Allocated
<1>3. p \in Nat /\ H.size[p] \in Nat /\ P!End(H, p) = p + H.size[p]
  BY BlockFacts DEF Proper
<1>4. PICK n \in Nat : n = B[i].size
  BY <1>1, TraceAssumption
<1>5. a \in Payload(H, p)
  BY <1>1, <1>2, <1>3, <1>4 DEF Payload, DSIZE
<1> QED BY <1>1, <1>2, <1>5

(* What a call leaves untouched is still there.                            *)
LEMMA FilledKept ==
  ASSUME NEW H, Proper(H), NEW B, NEW A \in SUBSET P!Allocated(H), Books(B, A, H.size),
         NEW m, Filled(m, B), NEW g, Untouched(m, g, H, A)
  PROVE  Filled(g, B)
<1> SUFFICES ASSUME NEW i \in DOMAIN B, NEW a \in Arena,
                    a >= B[i].p, a < B[i].p + B[i].size
             PROVE  Get(g, a) = FillByte(i)
  BY DEF Filled
<1>1. a \in Nat
  BY ArenaFacts
<1>2. B[i].p \in P!Blocks(H) /\ P!Blocks(H) \subseteq Nat
  BY DEF Books, P!Allocated, Proper, Fits, P!HeapType
<1>3. B[i].p \in A /\ a \in Payload(H, B[i].p)
  <2>1. B[i].p <= a /\ a \in Int
    BY <1>1, <1>2
  <2>2. a < B[i].p + B[i].size
    OBVIOUS
  <2> QED BY ONLY <2>1, <2>2, InPayload, Proper(H), Books(B, A, H.size),
                  A \in SUBSET P!Allocated(H), i \in DOMAIN B
<1>4. Get(g, a) = Get(m, a)
  BY <1>3 DEF Untouched
<1> QED BY <1>4 DEF Filled

(* Fewer blocks, fewer payloads to keep.                                   *)
LEMMA FilledDrop ==
  ASSUME NEW B, NEW i, NEW m, Filled(m, B)
  PROVE  Filled(m, Drop(B, i))
BY DEF Filled, Drop

(* No block, no payload.                                                   *)
LEMMA FilledNone ==
  ASSUME NEW m
  PROVE  Filled(m, NoBlocks)
BY DEF Filled, NoBlocks

(* memset fills one payload and no other.                                  *)
LEMMA FilledPut ==
  ASSUME NEW B, NEW i \in DOMAIN B, NEW brk, Apart(B, brk),
         NEW m \in Machine, Filled(m, Drop(B, i))
  PROVE  Filled(Fill(m, B[i].p, B[i].size, i), B)
<1> DEFINE g == Fill(m, B[i].p, B[i].size, i)
<1>1. \A a \in Arena : Get(g, a) = IF a >= B[i].p /\ a < B[i].p + B[i].size
                                   THEN FillByte(i) ELSE Get(m, a)
  BY DEF Fill, Get, Machine
<1> HIDE DEF g
<1> SUFFICES ASSUME NEW j \in DOMAIN B, NEW a \in Arena,
                    a >= B[j].p, a < B[j].p + B[j].size
             PROVE  Get(g, a) = FillByte(j)
  BY DEF Filled, g
<1>2. CASE j = i
  BY <1>1, <1>2
<1>3. CASE j # i
  <2>1. PICK p \in Nat, n \in Nat, q \in Nat, k \in Nat :
          /\ p = B[i].p /\ n = B[i].size /\ q = B[j].p /\ k = B[j].size
          /\ p + n <= q \/ q + k <= p
    BY <1>3 DEF Apart
  <2>2. a \in Nat
    BY ArenaFacts
  <2>3. ~(a >= p /\ a < p + n)
    BY <2>1, <2>2
  <2>4. Get(g, a) = Get(m, a)
    BY <1>1, <2>1, <2>3
  <2>5. j \in DOMAIN Drop(B, i) /\ Drop(B, i)[j] = B[j]
    BY <1>3 DEF Drop
  <2> QED BY <2>4, <2>5 DEF Filled
<1> QED BY <1>2, <1>3

(* The allocator does not notice.                                          *)
LEMMA FillWords ==
  ASSUME NEW H, Proper(H), NEW p \in P!Allocated(H), NEW n \in Nat, n + 8 <= H.size[p],
         NEW i \in Ids, NEW m, Holds(m, H, H.fl)
  PROVE  /\ Holds(Fill(m, p, n, i), H, H.fl)
         /\ Fill(m, p, n, i).ok = m.ok /\ Fill(m, p, n, i).brk = m.brk
<1> DEFINE g == Fill(m, p, n, i)
<1>1. p \in P!Blocks(H)
  BY DEF P!Allocated
<1>2. p \in Nat /\ H.size[p] \in Nat /\ P!End(H, p) = p + H.size[p]
  BY <1>1, BlockFacts DEF Proper
<1>3. m \in Machine
  BY DEF Holds
<1>4. FillByte(i) \in Nat
  <2>1. i \in Nat
    BY TraceAssumption
  <2> QED BY <2>1 DEF FillByte
<1>5. g \in Machine /\ g.brk = m.brk /\ g.ok = m.ok /\ g.fl = m.fl
  BY <1>3, <1>4 DEF Fill, Machine
<1>6. SameWords(m, g, Payload(H, p))
  <2> SUFFICES ASSUME NEW a, a \notin Payload(H, p) PROVE Get(g, a) = Get(m, a)
    BY DEF SameWords
  <2>1. CASE a \in Arena
    <3>1. a \in Nat
      BY <2>1, ArenaFacts
    <3>2. ~(a >= p /\ a < p + n)
      BY <3>1, <1>2 DEF Payload, DSIZE
    <3>3. g.mem[a] = m.mem[a]
      BY <3>2, <2>1, <1>3 DEF Fill, Machine
    <3> QED BY <3>3, <2>1 DEF Get
  <2>2. CASE a \notin Arena
    BY <2>2 DEF Get
  <2> QED BY <2>1, <2>2
<1> HIDE DEF g
<1>7. Holds(g, H, H.fl)
  <2>1. Rewritten(m, g, Payload(H, p))
    BY <1>5, <1>6 DEF Rewritten
  <2> QED BY <2>1, <1>5, PayloadWords
<1> QED BY <1>5, <1>7 DEF g

(* Where a word that starts within a payload lies.                         *)
LEMMA WordWithin ==
  ASSUME NEW p \in Nat, NEW s \in Nat, NEW k \in Nat,
         p % 8 = 0, s % 4 = 0, k % 4 = 0, k < s
  PROVE  (p + k) % 4 = 0 /\ k + 4 <= s /\ p + k >= p /\ p + k < p + s
<1>1. PICK x \in Int, y \in Int, z \in Int : p = 8 * x /\ k = 4 * y /\ s = 4 * z
  <2>1. p = 8 * (p \div 8) /\ k = 4 * (k \div 4) /\ s = 4 * (s \div 4)
    OBVIOUS
  <2> QED BY <2>1
<1>2. p + k = 4 * (2 * x + y)
  BY <1>1
<1>3. (p + k) % 4 = 0
  BY <1>2
<1>4. k + 4 <= s
  BY <1>1
<1> QED BY <1>3, <1>4

(* The driver compares the bytes it wrote with plain chars, which agree    *)
(* below 128.                                                              *)
LEMMA PreservedWords ==
  ASSUME NEW B, NEW i \in DOMAIN B, i \in Nat, i % 256 < 128,
         NEW brk \in Nat, Apart(B, brk), brk <= MaxHeap, B[i].size % 4 = 0,
         NEW m, Filled(m, B), NEW g, NEW q, NEW n \in Nat, n <= B[i].size,
         \A k \in 0 .. n - 1 : k % 4 = 0 => Get(g, q + k) = Get(m, B[i].p + k)
  PROVE  Preserved(g, q, n, i)
<1> SUFFICES ASSUME NEW k \in 0 .. n - 1, k % 4 = 0
             PROVE  AsChar(Get(g, q + k)) = FillByte(i)
  BY DEF Preserved, WSIZE
<1>1. PICK p \in Nat, s \in Nat :
        /\ p = B[i].p /\ s = B[i].size /\ p % 8 = 0 /\ p >= HeapLo /\ p + s <= brk
  BY DEF Apart
<1>2. k \in Nat /\ k < n /\ n <= s /\ s % 4 = 0
  BY <1>1
<1>3. p + k \in Arena /\ p + k >= p /\ p + k < p + s
  <2>1. (p + k) % 4 = 0 /\ k + 4 <= s /\ p + k >= p /\ p + k < p + s
    <3>1. k < s
      BY ONLY <1>2, n \in Nat, s \in Nat
    <3>2. p % 8 = 0 /\ k % 4 = 0 /\ s % 4 = 0
      BY ONLY <1>1, <1>2, k % 4 = 0
    <3> QED BY ONLY <3>1, <3>2, <1>2, p \in Nat, s \in Nat, WordWithin
  <2>2. HeapLo \in Nat /\ MaxHeap \in Nat
    BY MemAssumption
  <2>3. p >= HeapLo /\ p + s <= brk
    BY <1>1
  <2>4. p + k \in Int /\ HeapLo <= p + k /\ (p + k) + 4 <= MaxHeap
    BY ONLY <2>1, <2>2, <2>3, <1>2, p \in Nat, s \in Nat, brk \in Nat, brk <= MaxHeap
  <2>5. p + k \in Arena
    BY <2>1, <2>4, WordAddress
  <2> QED BY ONLY <2>5, <2>1
<1>4. Get(m, p + k) = FillByte(i)
  BY <1>1, <1>3 DEF Filled
<1>5. Get(g, q + k) = Get(m, p + k)
  BY <1>1
<1>6. AsChar(FillByte(i)) = FillByte(i)
  BY DEF AsChar, FillByte
<1> QED BY <1>4, <1>5, <1>6

-----------------------------------------------------------------------------
(* The total the util phase keeps.                                         *)

(* what is asked for at address a                                          *)
Asked(L, a) == IF a \in DOMAIN L THEN L[a] ELSE 0

(* S adds up what is asked for below each address, and comes to t.         *)
AddsUp(S, L, t) ==
  /\ S \in [Nat -> Int] /\ S[0] = 0
  /\ \A a \in Nat : S[a + 1] = S[a] + Asked(L, a)
  /\ \E top \in Nat : \A a \in Nat : a >= top => S[a] = t

(* t is the sum of the sizes in L.                                         *)
Tally(L, t) == \E S : AddsUp(S, L, t)

(* Nothing adds up to zero.                                                *)
LEMMA TallyNone == Tally(P!NoBlock, 0)
<1> DEFINE S == [a \in Nat |-> 0]
<1>1. \A a \in Nat : Asked(P!NoBlock, a) = 0
  BY DEF Asked, P!NoBlock
<1>2. S \in [Nat -> Int] /\ S[0] = 0 /\ \A a \in Nat : S[a] = 0 /\ S[a + 1] = 0
  OBVIOUS
<1>3. 0 \in Nat
  OBVIOUS
<1> HIDE DEF S
<1>4. \A a \in Nat : S[a + 1] = S[a] + Asked(P!NoBlock, a)
  BY <1>1, <1>2
<1>5. \E top \in Nat : \A a \in Nat : a >= top => S[a] = 0
  BY <1>2, <1>3
<1> QED BY <1>2, <1>4, <1>5 DEF Tally, AddsUp

(* One size more, or less: from its address on the sums differ by it.      *)
LEMMA TallyMoves ==
  ASSUME NEW L, NEW t \in Int, Tally(L, t), NEW p \in Nat, NEW d \in Int, NEW M,
         \A a \in Nat : Asked(M, a) \in Int /\ Asked(L, a) \in Int,
         \A a \in Nat : Asked(M, a) = IF a = p THEN Asked(L, a) + d ELSE Asked(L, a)
  PROVE  Tally(M, t + d)
<1>1. PICK S : AddsUp(S, L, t)
  BY DEF Tally
<1>2. PICK top \in Nat : \A a \in Nat : a >= top => S[a] = t
  BY <1>1 DEF AddsUp
<1> DEFINE T == [a \in Nat |-> IF a > p THEN S[a] + d ELSE S[a]]
<1>3. S \in [Nat -> Int] /\ S[0] = 0 /\ \A a \in Nat : S[a + 1] = S[a] + Asked(L, a)
  BY <1>1 DEF AddsUp
<1>4. /\ T \in [Nat -> Int]
      /\ \A a \in Nat : T[a] = IF a > p THEN S[a] + d ELSE S[a]
  BY <1>3
<1> HIDE DEF T
<1>5. T[0] = 0
  BY <1>3, <1>4
<1>6. ASSUME NEW a \in Nat PROVE T[a + 1] = T[a] + Asked(M, a)
  <2>1. /\ a + 1 \in Nat /\ S[a] \in Int /\ S[a + 1] = S[a] + Asked(L, a)
        /\ Asked(L, a) \in Int /\ Asked(M, a) \in Int
    BY <1>3
  <2>2. /\ T[a] = IF a > p THEN S[a] + d ELSE S[a]
        /\ T[a + 1] = IF a + 1 > p THEN S[a + 1] + d ELSE S[a + 1]
    BY <2>1, <1>4
  <2>3. CASE a < p
    <3>1. T[a] = S[a] /\ T[a + 1] = S[a + 1] /\ Asked(M, a) = Asked(L, a)
      BY <2>1, <2>2, <2>3
    <3> QED BY <3>1, <2>1
  <2>4. CASE a = p
    <3>1. T[a] = S[a] /\ T[a + 1] = S[a + 1] + d /\ Asked(M, a) = Asked(L, a) + d
      BY <2>1, <2>2, <2>4
    <3> QED BY <3>1, <2>1
  <2>5. CASE a > p
    <3>1. T[a] = S[a] + d /\ T[a + 1] = S[a + 1] + d /\ Asked(M, a) = Asked(L, a)
      BY <2>1, <2>2, <2>5
    <3> QED BY <3>1, <2>1
  <2> QED BY <2>3, <2>4, <2>5
<1>7. \E end \in Nat : \A a \in Nat : a >= end => T[a] = t + d
  <2> DEFINE end == IF top > p THEN top ELSE p + 1
  <2>1. end \in Nat /\ end >= top /\ end > p
    OBVIOUS
  <2> HIDE DEF end
  <2>2. ASSUME NEW a \in Nat, a >= end PROVE T[a] = t + d
    <3>1. a >= top /\ a > p
      BY <2>1, <2>2
    <3> QED BY <3>1, <1>2, <1>4
  <2> QED BY <2>1, <2>2
<1> QED BY <1>4, <1>5, <1>6, <1>7 DEF Tally, AddsUp

(* A new entry adds its size to the sum.                                   *)
LEMMA TallyPut ==
  ASSUME NEW L, DOMAIN L \subseteq Nat, \A q \in DOMAIN L : L[q] \in Nat,
         NEW t \in Int, Tally(L, t), NEW p \in Nat, p \notin DOMAIN L, NEW n \in Nat
  PROVE  Tally(Entered(L, p, n), t + n)
<1> DEFINE M == Entered(L, p, n)
<1>1. \A a \in Nat : Asked(M, a) = IF a = p THEN n ELSE Asked(L, a)
  BY DEF Asked, Entered
<1>2. Asked(L, p) = 0 /\ \A a \in Nat : Asked(L, a) \in Nat
  BY DEF Asked
<1> HIDE DEF M
<1>3. \A a \in Nat : Asked(M, a) = IF a = p THEN Asked(L, a) + n ELSE Asked(L, a)
  BY <1>1, <1>2
<1>4. \A a \in Nat : Asked(M, a) \in Int /\ Asked(L, a) \in Int
  BY <1>1, <1>2
<1>5. Tally(M, t + n)
  BY <1>3, <1>4, TallyMoves
<1> QED BY <1>5 DEF M

(* An entry struck out takes its size off the sum.                         *)
LEMMA TallyDrop ==
  ASSUME NEW L, DOMAIN L \subseteq Nat, \A q \in DOMAIN L : L[q] \in Nat,
         NEW t \in Int, Tally(L, t), NEW p \in DOMAIN L
  PROVE  Tally(Struck(L, p), t - L[p])
<1> DEFINE M == Struck(L, p)
<1>1. \A a \in Nat : Asked(M, a) = IF a = p THEN 0 ELSE Asked(L, a)
  BY DEF Asked, Struck
<1>2. PICK n \in Nat : n = L[p]
  OBVIOUS
<1>3. Asked(L, p) = n /\ \A a \in Nat : Asked(L, a) \in Nat
  BY <1>2 DEF Asked
<1> HIDE DEF M
<1>4. -n \in Int /\ p \in Nat
  OBVIOUS
<1>5. \A a \in Nat : Asked(M, a) = IF a = p THEN Asked(L, a) + (-n) ELSE Asked(L, a)
  BY <1>1, <1>3
<1>6. \A a \in Nat : Asked(M, a) \in Int /\ Asked(L, a) \in Int
  BY <1>1, <1>3
<1>7. Tally(M, t + (-n))
  BY <1>4, <1>5, <1>6, TallyMoves
<1>8. t + (-n) = t - L[p]
  BY <1>2
<1> QED BY <1>7, <1>8 DEF M

(* Payloads that lie apart between the first block and the break cannot    *)
(* add up to more than there is.                                           *)
LEMMA TallyBound ==
  ASSUME NEW L, NEW t \in Int, Tally(L, t), NEW lo \in Nat, NEW brk \in Nat, lo <= brk,
         \A p \in DOMAIN L :
           /\ p \in Nat /\ L[p] \in Nat /\ L[p] > 0 /\ p >= lo /\ p + L[p] <= brk,
         \A p, q \in DOMAIN L : p # q => p + L[p] <= q \/ q + L[q] <= p
  PROVE  t <= brk - lo
<1>1. PICK S : AddsUp(S, L, t)
  BY DEF Tally
<1>2. PICK top \in Nat : \A a \in Nat : a >= top => S[a] = t
  BY <1>1 DEF AddsUp
<1>3. S \in [Nat -> Int] /\ S[0] = 0 /\ \A a \in Nat : S[a + 1] = S[a] + Asked(L, a)
  BY <1>1 DEF AddsUp
<1> DEFINE Below(a) == a <= lo /\ S[a] <= 0
           Outside(a) == a >= lo /\ S[a] <= a - lo /\ S[a] <= brk - lo
           Inside(a) == \E p \in DOMAIN L : p < a /\ a <= p + L[p] /\ S[a] <= p + L[p] - lo
           Good(a) == Below(a) \/ Outside(a) \/ Inside(a)
           bad == {a \in Nat : ~Good(a)}
<1>4. Good(0)
  BY <1>3
<1>5. ASSUME NEW a \in Nat, Good(a) PROVE Good(a + 1)
  <2>1. S[a] \in Int /\ S[a + 1] = S[a] + Asked(L, a) /\ a + 1 \in Nat
    BY <1>3
  <2>2. CASE a \in DOMAIN L
    <3>1. PICK n \in Nat : n = L[a] /\ n > 0 /\ a >= lo /\ a + n <= brk
      BY <2>2
    <3>2. S[a + 1] = S[a] + n
      BY <2>1, <2>2, <3>1 DEF Asked
    <3>3. S[a] <= a - lo
      <4>1. CASE Below(a)
        BY <4>1, <3>1, <2>1
      <4>2. CASE Outside(a)
        BY <4>2
      <4>3. ASSUME NEW p \in DOMAIN L, p < a, a <= p + L[p], S[a] <= p + L[p] - lo
            PROVE  S[a] <= a - lo
        <5>1. PICK k \in Nat : k = L[p]
          OBVIOUS
        <5>2. p \in Nat /\ p # a
          BY <4>3
        <5>3. p + L[p] <= a \/ a + L[a] <= p
          BY <2>2, <5>2
        <5>4. p + k <= a
          BY <5>1, <5>2, <5>3, <3>1, <4>3
        <5> QED BY <5>1, <5>2, <5>4, <4>3, <2>1
      <4> QED BY <4>1, <4>2, <4>3, <1>5
    <3>4. S[a + 1] <= a + n - lo /\ a < a + 1 /\ a + 1 <= a + n
      BY <3>1, <3>2, <3>3, <2>1
    <3>5. Inside(a + 1)
      BY <3>1, <3>4, <2>2
    <3> QED BY <3>5
  <2>3. CASE a \notin DOMAIN L
    <3>1. S[a + 1] = S[a]
      BY <2>1, <2>3 DEF Asked
    <3>2. CASE Below(a)
      <4>1. a + 1 <= lo \/ (a + 1 >= lo /\ S[a] <= a + 1 - lo /\ S[a] <= brk - lo)
        BY <3>2, <2>1
      <4>2. Below(a + 1) \/ Outside(a + 1)
        BY <4>1, <3>1, <3>2, <2>1
      <4> QED BY <4>2
    <3>3. CASE Outside(a)
      <4>1. Outside(a + 1)
        BY <3>1, <3>3, <2>1
      <4> QED BY <4>1
    <3>4. ASSUME NEW p \in DOMAIN L, p < a, a <= p + L[p], S[a] <= p + L[p] - lo
          PROVE  Good(a + 1)
      <4>1. PICK k \in Nat : k = L[p] /\ p + k <= brk /\ p \in Nat /\ p >= lo
        OBVIOUS
      <4>2. CASE a + 1 <= p + k
        <5>1. p < a + 1 /\ a + 1 <= p + L[p] /\ S[a + 1] <= p + L[p] - lo
          BY <4>1, <4>2, <3>1, <3>4
        <5> QED BY <5>1
      <4>3. CASE a + 1 > p + k
        <5>1. Outside(a + 1)
          BY <4>1, <4>3, <3>1, <3>4, <2>1
        <5> QED BY <5>1
      <4> QED BY <4>1, <4>2, <4>3
    <3> QED BY <3>2, <3>3, <3>4, <1>5
  <2> QED BY <2>2, <2>3
<1> HIDE DEF Good
<1>6. \A a \in Nat : Good(a)
  <2> SUFFICES ASSUME bad # {} PROVE FALSE
    OBVIOUS
  <2>1. bad \subseteq Nat
    OBVIOUS
  <2> HIDE DEF bad
  <2>2. PICK a \in bad : \A b \in bad : a <= b
    BY <2>1, BlockAssumptions, P!LeastElement
  <2>3. a \in Nat /\ ~Good(a) /\ a # 0
    BY <1>4, <2>1 DEF bad
  <2>4. a - 1 \in Nat /\ a - 1 < a /\ (a - 1) + 1 = a
    BY <2>3
  <2>5. a - 1 \notin bad
    BY <2>1, <2>2, <2>4
  <2>6. Good(a - 1)
    BY <2>4, <2>5 DEF bad
  <2>7. Good((a - 1) + 1)
    BY <2>4, <2>6, <1>5
  <2> QED BY <2>3, <2>4, <2>7
<1> DEFINE end == IF top > lo THEN top ELSE lo + 1
<1>7. end \in Nat /\ end >= top /\ end > lo
  OBVIOUS
<1> HIDE DEF end
<1>8. S[end] = t /\ Good(end)
  BY <1>2, <1>6, <1>7
<1>9. CASE Outside(end)
  BY <1>8, <1>9
<1>10. ASSUME NEW p \in DOMAIN L, S[end] <= p + L[p] - lo
       PROVE  t <= brk - lo
  <2>1. PICK k \in Nat : k = L[p] /\ p + k <= brk /\ p \in Nat
    OBVIOUS
  <2> QED BY <2>1, <1>8, <1>10
<1>11. ~Below(end)
  BY <1>7
<1> QED BY <1>8, <1>9, <1>10, <1>11 DEF Good

-----------------------------------------------------------------------------
(* The invariant.                                                          *)

(* The machine's words are those of the heap H, whether or not the process *)
(* is still alive.                                                         *)
Sits(g, H) ==
  /\ Proper(H) /\ P!Coalesced(H)
  /\ g \in Machine /\ g.brk = H.brk /\ Tags(g, H) /\ Linked(g, H.fl)

(* Fill bytes that a plain char can hold.                                  *)
SmallIds == \A i \in Ids : i % 256 < 128

Phases == {"valid", "util", "speed"}

Complaints ==
  {"none", "mm_malloc_failed", "mm_realloc_failed", "misaligned",
   "outside_heap", "overlap", "data_lost"}

(* The driver has lost track of a block that moved, and gives up.          *)
Lost(v) == v.what = "data_lost"

(* The table, whether or not it is still right.                            *)
Table(B) ==
  /\ DOMAIN B \subseteq Ids
  /\ \A i \in DOMAIN B : B[i].p \in Arena /\ B[i].size \in Requests

(* What the driver has on record, next to the machine g and the heap H.    *)
OnRecord(g, H, B, list, ph, v) ==
  /\ Table(B) /\ list \in Seq(R!Extents)
  /\ ph \in Phases /\ v \in [what : Complaints, size : Requests \cup {0}]
  /\ Lost(v) => B # NoBlocks /\ ~SmallIds /\ ph = "valid"
  /\ ~Lost(v) => Books(B, P!Allocated(H), H.size)
  /\ ~Lost(v) /\ v # NoError => v.size = 0
  /\ ~Lost(v) /\ ph = "valid" => Filled(g, B)
  /\ v = NoError /\ ph = "valid" => Recorded(list, B)

(* The totals, which only the util phase keeps.                            *)
Totals(H, B, ph, v, t, pk) ==
  /\ t \in Int /\ pk \in Nat /\ pk <= H.brk - HeapLo
  /\ ph = "util" /\ v = NoError => Tally(LiveOf(B), t)
  /\ ph # "util" => t = 0 /\ pk = 0

Mapped == view = [heap |-> HeapOf(h), live |-> LiveOf(block)]

Inv ==
  /\ Mapped
  /\ Sits(h, view.heap)
  /\ OnRecord(h, view.heap, block, ranges, phase, verdict)
  /\ Totals(view.heap, block, phase, verdict, total, peak)
  /\ steps \in 0 .. MaxSteps

(* A machine that sits on H reads back as H.                               *)
LEMMA SitsIsHeap ==
  ASSUME NEW H, NEW g, Sits(g, H)
  PROVE  HeapOf(g) = H
BY HeapOfWords DEF Sits

(* An allocator that is alive holds its heap, and the other way round.     *)
LEMMA SitsIsHolds ==
  ASSUME NEW H, NEW g
  PROVE  /\ Sits(g, H) /\ g.ok => Holds(g, H, H.fl) /\ Proper(H) /\ P!Coalesced(H)
         /\ Holds(g, H, H.fl) /\ Proper(H) /\ P!Coalesced(H) => Sits(g, H) /\ g.ok
BY DEF Sits, Holds

(* A wild access ends the process and changes no word.                     *)
LEMMA DeadSits ==
  ASSUME NEW H, NEW g, Sits(g, H)
  PROVE  /\ Sits(Die(g), H) /\ ~Die(g).ok
         /\ \A B : Filled(g, B) => Filled(Die(g), B)
<1> DEFINE d == Die(g)
<1>1. d \in Machine /\ d.brk = g.brk /\ d.fl = g.fl /\ d.mem = g.mem /\ ~d.ok
  BY DEF Die, Sits, Machine
<1> HIDE DEF d
<1>2. \A a : Get(d, a) = Get(g, a)
  BY <1>1 DEF Get
<1>3. Tags(d, H)
  BY <1>2 DEF Tags, Ends, Tagged, Sits
<1>4. Linked(d, H.fl)
  BY <1>1, <1>2 DEF Linked, Sits
<1>5. \A B : Filled(g, B) => Filled(d, B)
  BY <1>2 DEF Filled
<1> QED BY <1>1, <1>3, <1>4, <1>5 DEF Sits, d

(* Where nothing is allocated the list is empty or starts with the block   *)
(* right behind the prologue.                                              *)
LEMMA EmptyList ==
  ASSUME NEW H, NEW g, Sits(g, H), P!Allocated(H) = {}
  PROVE  g.fl \in {NULL, Base}
<1>1. /\ P!Tiled(H) /\ P!HeapType(H) /\ P!Coalesced(H) /\ ListOver(H.fl, H.free)
      /\ H.free = P!Blocks(H) /\ P!Base = Base
  BY ProperIsSound, BaseFacts DEF Sits, Proper, Fits, P!Allocated, P!HeapType
<1>2. ASSUME NEW c \in H.free PROVE c = Base
  <2> SUFFICES ASSUME c # Base PROVE FALSE
    OBVIOUS
  <2>1. PICK b \in P!Blocks(H) : P!End(H, b) = c
    BY <1>1 DEF P!Tiled
  <2> QED BY <2>1, <1>1 DEF P!Coalesced
<1>3. g.fl = At(H.fl, 1) /\ NULL = 0
  BY DEF Sits, Linked, NULL
<1>4. H.fl \in Seq(H.free)
  BY <1>1 DEF ListOver
<1>5. At(H.fl, 1) = NULL \/ At(H.fl, 1) \in H.free
  BY <1>4 DEF At
<1> QED BY <1>2, <1>3, <1>5

(* mem_reset_brk and mm_init lay out the heap anew.                        *)
LEMMA RebornSits ==
  ASSUME NEW m \in Machine, m.ok, m.fl \in {NULL, Base}
  PROVE  /\ Sits(MMInit(MemResetBrk(m)).h, P!InitHeap)
         /\ MMInit(MemResetBrk(m)).h.ok
<1> DEFINE g == MemResetBrk(m)
<1>1. g \in Machine /\ g.ok /\ g.brk = HeapLo /\ g.fl \in {NULL, Base}
  <2>1. HeapLo \in Nat
    BY MemAssumption
  <2> QED BY <2>1 DEF MemResetBrk, Machine
<1> HIDE DEF g
<1>2. /\ Proper(P!InitHeap) /\ P!Coalesced(P!InitHeap)
      /\ Holds(MMInit(g).h, P!InitHeap, P!InitHeap.fl)
  BY <1>1, InitWords
<1> QED BY <1>2, SitsIsHolds DEF g

(* Nothing is allocated in the initial heap.                               *)
LEMMA InitHeapWords ==
  P!Allocated(P!InitHeap) = {} /\ P!InitHeap.brk \in Nat /\ HeapLo <= P!InitHeap.brk
<1>1. P!Allocated(P!InitHeap) = {} /\ P!InitHeap.brk = P!Base + Chunk
  BY BlockAssumptions, P!InitHeapFacts
<1>2. P!Base = HeapLo + 16 /\ HeapLo \in Nat /\ Chunk \in Nat
  BY BaseFacts, MemAssumption, ChunkAssumption
<1> QED BY <1>1, <1>2

(* A phase starts with nothing on record.                                  *)
LEMMA FreshRecord ==
  ASSUME NEW g, NEW list, list \in Seq(R!Extents), NEW ph \in Phases,
         ph = "valid" => list = <<>>
  PROVE  /\ OnRecord(g, P!InitHeap, NoBlocks, list, ph, NoError)
         /\ Totals(P!InitHeap, NoBlocks, ph, NoError, 0, 0)
<1>1. /\ Books(NoBlocks, P!Allocated(P!InitHeap), P!InitHeap.size)
      /\ DOMAIN NoBlocks = {}
  BY InitHeapWords, EmptyBooks
<1>2. /\ NoError \in [what : Complaints, size : Requests \cup {0}]
      /\ ~Lost(NoError) /\ NoError.size = 0
  BY DEF NoError, Complaints, Lost
<1>3. Table(NoBlocks)
  BY <1>1 DEF Table
<1>4. OnRecord(g, P!InitHeap, NoBlocks, list, ph, NoError)
  BY <1>1, <1>2, <1>3, FilledNone, NothingRecorded DEF OnRecord
<1>5. Tally(LiveOf(NoBlocks), 0)
  BY TallyNone, LiveNone
<1>6. HeapLo \in Nat
  BY MemAssumption
<1>7. Totals(P!InitHeap, NoBlocks, ph, NoError, 0, 0)
  BY <1>5, <1>6, InitHeapWords DEF Totals
<1> QED BY <1>4, <1>7

-----------------------------------------------------------------------------
(* What the driver does with a block it was given.                         *)

(* The words after a request was served, and the extents.                  *)
Served(g, ph, p, n, i) == IF ph = "valid" THEN Fill(g, p, n, i) ELSE g
Noted(list, ph, p, n) == IF ph = "valid" THEN R!Added(list, p, n) ELSE list

(* The package has just allocated p; B has what the client holds besides.  *)
Given(g, G, B, p, n) ==
  /\ Holds(g, G, G.fl) /\ Proper(G) /\ P!Coalesced(G)
  /\ p \in P!Allocated(G) /\ Books(B, P!Allocated(G) \ {p}, G.size)
  /\ n \in Requests \ {0} /\ n + 8 <= G.size[p]

(* The table with the block entered, and without it again.                 *)
LEMMA GivenBooks ==
  ASSUME NEW g, NEW G, NEW B, NEW p, NEW n, Given(g, G, B, p, n), NEW i \in Ids \ DOMAIN B
  PROVE  /\ Books(Put(B, i, p, n), P!Allocated(G), G.size)
         /\ Apart(Put(B, i, p, n), G.brk)
         /\ Drop(Put(B, i, p, n), i) = B
<1> DEFINE C == Put(B, i, p, n)
           A == P!Allocated(G) \ {p}
<1>1. Books(C, A \cup {p}, G.size)
  <2>1. p \notin A /\ Books(B, A, G.size) /\ n \in Requests \ {0} /\ n + 8 <= G.size[p]
    BY DEF Given
  <2> HIDE DEF A
  <2> QED BY <2>1, BooksPut
<1>2. A \cup {p} = P!Allocated(G)
  BY DEF Given
<1>3. Books(C, P!Allocated(G), G.size)
  BY <1>1, <1>2
<1>4. Apart(C, G.brk)
  BY <1>3, BooksApart DEF Given
<1>5. Drop(C, i) = B
  <2>1. DOMAIN C \ {i} = DOMAIN B /\ \A j \in DOMAIN B : C[j] = B[j]
    BY DEF Put
  <2>2. B = [j \in DOMAIN B |-> B[j]]
    BY DEF Given, Books
  <2> HIDE DEF C
  <2> QED BY <2>1, <2>2 DEF Drop
<1> QED BY <1>3, <1>4, <1>5

(* add_range does not complain.                                            *)
LEMMA GivenJudged ==
  ASSUME NEW g, NEW G, NEW B, NEW p, NEW n, Given(g, G, B, p, n), NEW i \in Ids \ DOMAIN B,
         NEW list, Recorded(list, B)
  PROVE  /\ R!Complaint(list, p, n, HeapLo, MemHeapHi(g)) = "none"
         /\ R!Extent(p, n) \in R!Extents
<1> DEFINE C == Put(B, i, p, n)
<1>1. i \in DOMAIN C /\ C[i].p = p /\ C[i].size = n
  BY DEF Put
<1>2. Apart(C, G.brk) /\ Drop(C, i) = B
  BY GivenBooks
<1>3. G.brk \in Nat /\ G.brk <= MaxHeap /\ MemHeapHi(g) = G.brk - 1
  BY DEF Given, Holds, Proper, Fits, P!HeapType, MemHeapHi
<1> HIDE DEF C
<1>4. Recorded(list, Drop(C, i))
  BY <1>2
<1>5. /\ R!Complaint(list, C[i].p, C[i].size, HeapLo, G.brk - 1) = "none"
      /\ R!Extent(C[i].p, C[i].size) \in R!Extents
  BY <1>1, <1>2, <1>3, <1>4, NoComplaint
<1> QED BY <1>1, <1>3, <1>5

(* The payload is filled and entered.                                      *)
LEMMA GivenServed ==
  ASSUME NEW g, NEW G, NEW B, NEW p, NEW n, Given(g, G, B, p, n), NEW i \in Ids \ DOMAIN B,
         NEW ph \in Phases, NEW list, list \in Seq(R!Extents),
         ph = "valid" => Filled(g, B) /\ Recorded(list, B)
  PROVE  /\ Sits(Served(g, ph, p, n, i), G) /\ Served(g, ph, p, n, i).ok
         /\ OnRecord(Served(g, ph, p, n, i), G, Put(B, i, p, n),
                     Noted(list, ph, p, n), ph, NoError)
<1> DEFINE C == Put(B, i, p, n)
           k == Served(g, ph, p, n, i)
           l == Noted(list, ph, p, n)
<1>1. /\ Books(C, P!Allocated(G), G.size) /\ Apart(C, G.brk) /\ Drop(C, i) = B
  BY GivenBooks
<1>2. i \in DOMAIN C /\ C[i].p = p /\ C[i].size = n
  BY DEF Put
<1>3. /\ Holds(g, G, G.fl) /\ Proper(G) /\ P!Coalesced(G) /\ g \in Machine
      /\ p \in P!Allocated(G) /\ n \in Requests \ {0} /\ n + 8 <= G.size[p] /\ n \in Nat
  BY TraceAssumption DEF Given, Holds
<1>4. Holds(k, G, G.fl)
  <2>1. Holds(Fill(g, p, n, i), G, G.fl)
    BY <1>3, FillWords
  <2> QED BY <2>1, <1>3 DEF Served
<1>5. Sits(k, G) /\ k.ok
  BY <1>3, <1>4, SitsIsHolds
<1>6. ph = "valid" => Filled(k, C)
  <2> SUFFICES ASSUME ph = "valid" PROVE Filled(k, C)
    OBVIOUS
  <2>1. Filled(g, Drop(C, i))
    BY <1>1
  <2> HIDE DEF C
  <2>2. Filled(Fill(g, C[i].p, C[i].size, i), C)
    BY <2>1, <1>1, <1>2, <1>3, FilledPut
  <2> QED BY <2>2, <1>2 DEF Served
<1>7. l \in Seq(R!Extents) /\ (ph = "valid" => Recorded(l, C))
  <2>1. CASE ph = "valid"
    <3>1. R!Extent(p, n) \in R!Extents
      BY <2>1, GivenJudged
    <3>2. Books(B, P!Allocated(G) \ {p}, G.size)
      BY DEF Given
    <3>3. p \notin P!Allocated(G) \ {p} /\ i \notin DOMAIN B /\ Recorded(list, B)
      BY <2>1
    <3>4. Recorded(R!Added(list, p, n), C)
      BY <3>1, <3>2, <3>3, RecordedPut
    <3> QED BY <3>4, <2>1 DEF Noted, Recorded
  <2>2. CASE ph # "valid"
    BY <2>2 DEF Noted
  <2> QED BY <2>1, <2>2
<1>8. Table(C)
  <2> HIDE DEF C
  <2>1. ASSUME NEW j \in DOMAIN C
        PROVE  C[j].p \in Arena /\ C[j].size \in Requests
    <3>1. C[j].p \in P!Blocks(G) /\ C[j].size \in Requests
      BY <1>1 DEF Books, P!Allocated
    <3>2. Fits(G)
      BY <1>3 DEF Proper
    <3> QED BY <3>1, <3>2, BlockWords
  <2> QED BY <2>1, <1>1 DEF Table, Books
<1>9. /\ NoError \in [what : Complaints, size : Requests \cup {0}]
      /\ ~Lost(NoError) /\ NoError.size = 0
  BY DEF NoError, Complaints, Lost
<1> HIDE DEF C, k, l
<1>10. OnRecord(k, G, C, l, ph, NoError)
  BY <1>1, <1>6, <1>7, <1>8, <1>9 DEF OnRecord
<1> QED BY <1>5, <1>10 DEF C, k, l

-----------------------------------------------------------------------------
(* The totals of the util phase.                                           *)

(* total_size after a block was entered.                                   *)
LEMMA TotalsPut ==
  ASSUME NEW B, NEW A, NEW size, Books(B, A, size), A \subseteq Nat,
         NEW i \in Ids \ DOMAIN B, NEW p \in Nat, p \notin A, NEW n \in Requests \ {0},
         NEW t \in Int, Tally(LiveOf(B), t)
  PROVE  Tally(LiveOf(Put(B, i, p, n)), t + n)
<1>1. LiveOf(Put(B, i, p, n)) = Entered(LiveOf(B), p, n)
  BY LivePut
<1>2. PICK L : L = LiveOf(B)
  OBVIOUS
<1>3. DOMAIN L = A /\ \A q \in A : L[q] \in Requests \ {0}
  BY <1>2, LiveFacts
<1>4. Requests \subseteq Nat /\ n \in Nat
  BY TraceAssumption
<1>5. DOMAIN L \subseteq Nat /\ p \notin DOMAIN L /\ \A q \in DOMAIN L : L[q] \in Nat
  BY <1>3, <1>4
<1>6. Tally(Entered(L, p, n), t + n)
  BY <1>2, <1>4, <1>5, TallyPut
<1> QED BY <1>1, <1>2, <1>6

(* total_size after a block was struck out.                                *)
LEMMA TotalsDrop ==
  ASSUME NEW B, NEW A, NEW size, Books(B, A, size), A \subseteq Nat,
         NEW i \in DOMAIN B, NEW t \in Int, Tally(LiveOf(B), t)
  PROVE  Tally(LiveOf(Drop(B, i)), t - B[i].size) /\ B[i].size \in Nat
<1>1. LiveOf(Drop(B, i)) = Struck(LiveOf(B), B[i].p)
  BY LiveDrop
<1>2. PICK L, p : L = LiveOf(B) /\ p = B[i].p
  OBVIOUS
<1>3. /\ DOMAIN L = A /\ \A q \in A : L[q] \in Requests \ {0}
      /\ L[p] = B[i].size
  BY <1>2, LiveFacts
<1>4. Requests \subseteq Nat /\ p \in A
  BY <1>2, TraceAssumption DEF Books
<1>5. DOMAIN L \subseteq Nat /\ p \in DOMAIN L /\ \A q \in DOMAIN L : L[q] \in Nat
  BY <1>3, <1>4
<1>6. Tally(Struck(L, p), t - L[p])
  BY <1>2, <1>5, TallyDrop
<1> QED BY <1>1, <1>2, <1>3, <1>5, <1>6

(* The peak stays below the heap size, which does not shrink.              *)
LEMMA TotalsBound ==
  ASSUME NEW G, Proper(G), P!Coalesced(G), NEW B, Books(B, P!Allocated(G), G.size),
         NEW t \in Int, Tally(LiveOf(B), t)
  PROVE  t <= G.brk - HeapLo
<1> DEFINE L == LiveOf(B)
<1>1. Apart(B, G.brk)
  BY BooksApart
<1>2. /\ DOMAIN L = P!Allocated(G)
      /\ \A i \in DOMAIN B : L[B[i].p] = B[i].size
      /\ \A p \in DOMAIN L : \E i \in DOMAIN B : B[i].p = p
  <2>1. /\ DOMAIN LiveOf(B) = P!Allocated(G)
        /\ \A i \in DOMAIN B : LiveOf(B)[B[i].p] = B[i].size
    BY LiveFacts
  <2>2. \A p \in P!Allocated(G) : \E i \in DOMAIN B : B[i].p = p
    BY DEF Books
  <2> QED BY <2>1, <2>2
<1>3. HeapLo \in Nat /\ G.brk \in Nat /\ HeapLo <= G.brk
  BY MemAssumption, BaseFacts DEF Proper, Fits, P!HeapType
<1> HIDE DEF L
<1>4. ASSUME NEW p \in DOMAIN L
      PROVE  /\ p \in Nat /\ L[p] \in Nat /\ L[p] > 0 /\ p >= HeapLo
             /\ p + L[p] <= G.brk
  <2>1. PICK i \in DOMAIN B : B[i].p = p
    BY <1>2
  <2> QED BY <2>1, <1>1, <1>2 DEF Apart
<1>5. ASSUME NEW p \in DOMAIN L, NEW q \in DOMAIN L, p # q
      PROVE  p + L[p] <= q \/ q + L[q] <= p
  <2>1. PICK i \in DOMAIN B, j \in DOMAIN B : B[i].p = p /\ B[j].p = q
    BY <1>2
  <2>2. i # j /\ L[p] = B[i].size /\ L[q] = B[j].size
    BY <2>1, <1>2, <1>5
  <2> QED BY <2>1, <2>2, <1>1 DEF Apart
<1> QED BY <1>3, <1>4, <1>5, TallyBound DEF L

(* eval_mm_util raises its peak to the new total at most.                  *)
LEMMA TotalsServed ==
  ASSUME NEW G, Proper(G), P!Coalesced(G), NEW B, Books(B, P!Allocated(G), G.size),
         NEW t \in Int, Tally(LiveOf(B), t), NEW pk \in Nat, pk <= G.brk - HeapLo
  PROVE  Totals(G, B, "util", NoError, t, Max({pk, t}))
<1>1. t <= G.brk - HeapLo
  BY TotalsBound
<1>2. G.brk \in Nat /\ HeapLo \in Nat
  BY MemAssumption DEF Proper, Fits, P!HeapType
<1>3. Max({pk, t}) \in {pk, t} /\ \A y \in {pk, t} : Max({pk, t}) >= y
  <2> DEFINE m == IF pk >= t THEN pk ELSE t
  <2>1. m \in {pk, t} /\ \A y \in {pk, t} : m >= y
    OBVIOUS
  <2> QED BY <2>1 DEF Max
<1>4. PICK m : m = Max({pk, t})
  OBVIOUS
<1>5. m \in Nat /\ m <= G.brk - HeapLo
  <2>1. (m = pk \/ m = t) /\ m >= pk
    BY <1>3, <1>4
  <2>2. m \in Int
    BY <2>1
  <2> QED BY <2>1, <2>2, <1>1, <1>2
<1> QED BY <1>4, <1>5 DEF Totals

-----------------------------------------------------------------------------
(* A request that allocates.                                               *)

(* mm_malloc gives the driver a block no one holds, and disturbs none.     *)
LEMMA MallocGives ==
  ASSUME NEW H, NEW m, Holds(m, H, H.fl), Proper(H), P!Coalesced(H),
         NEW n \in Requests \ {0}, ~P!OutOfMemory(H, n),
         NEW B, Books(B, P!Allocated(H), H.size)
  PROVE  LET r == MMMalloc(m, n)
             b == P!Chosen(H, P!BlockSize(n))
             M == P!Malloc(H, n)
         IN  /\ Given(r.h, M, B, b, n) /\ r.p = b /\ b # NULL /\ r.h.ok
             /\ b \in Nat /\ b \notin P!Allocated(H)
             /\ Untouched(m, r.h, H, P!Allocated(H))
             /\ M.brk \in Nat /\ H.brk <= M.brk
<1> DEFINE r == MMMalloc(m, n)
           b == P!Chosen(H, P!BlockSize(n))
           M == P!Malloc(H, n)
<1>1. n \in Nat /\ n > 0 /\ n < SizeT \div 2
  BY TraceAssumption
<1>2. /\ Proper(M) /\ P!Coalesced(M) /\ Holds(r.h, M, M.fl)
      /\ r.p = b /\ r.p # NULL /\ SameWords(m, r.h, Idle(H))
  BY <1>1, MallocWords
<1>3. Untouched(m, r.h, H, P!Allocated(H))
  BY <1>2, MallocUntouched
<1>4. P!Settled(H)
  BY ProperIsSound DEF P!Settled
<1>5. /\ b \notin P!Allocated(H) /\ P!Allocated(M) = P!Allocated(H) \cup {b}
      /\ P!SameBut(H, M, {b}) /\ M.size[b] >= P!BlockSize(n)
      /\ M.brk = IF P!Fits(H, P!BlockSize(n)) = {}
                 THEN H.brk + P!GrowBy(P!BlockSize(n)) ELSE H.brk
  BY <1>1, <1>4, BlockAssumptions, P!MallocFacts
<1>6. n + 8 <= P!BlockSize(n) /\ P!BlockSize(n) \in Nat
  BY <1>1, SizeWords
<1>7. P!GrowBy(P!BlockSize(n)) \in Nat /\ H.brk \in Nat
  <2>1. H.brk \in Nat
    BY DEF Proper, Fits, P!HeapType
  <2>2. P!GrowBy(P!BlockSize(n)) \in Nat
    BY <1>1, BlockAssumptions, P!GrowByFacts
  <2> QED BY <2>1, <2>2
<1> HIDE DEF r, b, M
<1>8. b \in P!Allocated(M) /\ b \in P!Blocks(M) /\ P!Allocated(M) \ {b} = P!Allocated(H)
  BY <1>5 DEF P!Allocated
<1>9. b \in Nat /\ M.size[b] \in Nat
  BY <1>2, <1>8, BlockFacts DEF Proper
<1>10. n + 8 <= M.size[b]
  BY <1>1, <1>5, <1>6, <1>9
<1>11. Books(B, P!Allocated(M) \ {b}, M.size)
  <2>1. \A q \in P!Allocated(H) : M.size[q] = H.size[q]
    BY <1>5 DEF P!SameBut
  <2> QED BY <2>1, <1>8, BooksResized
<1>12. Given(r.h, M, B, b, n)
  BY <1>2, <1>8, <1>10, <1>11 DEF Given
<1>13. r.h.ok
  BY <1>2 DEF Holds
<1>14. M.brk \in Nat /\ H.brk <= M.brk
  BY <1>5, <1>7
<1> QED BY <1>2, <1>3, <1>5, <1>9, <1>12, <1>13, <1>14 DEF r, b, M

(* What a step leaves as blocks and list is a state of BlockHeap.          *)
Refines == [Detailed!Next]_(Detailed!vars)

(* The step as a whole, from what it leaves.                               *)
LEMMA InvAfter ==
  ASSUME NEW H, Sits(h', H),
         OnRecord(h', H, block', ranges', phase', verdict'),
         Totals(H, block', phase', verdict', total', peak'),
         view' = [heap |-> HeapOf(h'), live |-> LiveOf(block')],
         steps' \in 0 .. MaxSteps
  PROVE  Inv' /\ view'.heap = H /\ view'.live = LiveOf(block')
<1>1. HeapOf(h') = H
  BY SitsIsHeap
<1>2. view'.heap = H /\ view'.live = LiveOf(block')
  BY <1>1
<1> QED BY <1>1, <1>2 DEF Inv, Mapped

(* What the invariant says of a process that is alive and has no error.    *)
LEMMA InvNow ==
  ASSUME Inv, h.ok
  PROVE  LET H == view.heap
         IN  /\ Holds(h, H, H.fl) /\ Proper(H) /\ P!Coalesced(H) /\ Sits(h, H)
             /\ h \in Machine /\ view.live = LiveOf(block)
             /\ Table(block) /\ ranges \in Seq(R!Extents) /\ phase \in Phases
             /\ total \in Int /\ peak \in Nat
             /\ verdict = NoError =>
                  /\ ~Lost(verdict) /\ Books(block, P!Allocated(H), H.size)
                  /\ phase = "valid" => Filled(h, block) /\ Recorded(ranges, block)
                  /\ phase = "util" => Tally(LiveOf(block), total)
<1>1. ~Lost(NoError)
  BY DEF Lost, NoError
<1>2. Sits(h, view.heap) /\ view.live = LiveOf(block)
  BY DEF Inv, Mapped
<1>3. /\ Holds(h, view.heap, view.heap.fl) /\ Proper(view.heap) /\ P!Coalesced(view.heap)
      /\ h \in Machine
  BY <1>2, SitsIsHolds DEF Sits
<1> QED BY <1>1, <1>2, <1>3 DEF Inv, OnRecord, Totals

(* The process dies with everything in place.                              *)
LEMMA CrashStep ==
  ASSUME Inv, h.ok, Crash, steps' \in 0 .. MaxSteps,
         view' = [heap |-> HeapOf(h'), live |-> LiveOf(block')]
  PROVE  /\ Inv' /\ ~h'.ok
         /\ view'.heap = view.heap /\ view'.live = view.live
<1>1. PICK H : H = view.heap
  OBVIOUS
<1>2. /\ h' = Die(h) /\ block' = block /\ ranges' = ranges /\ phase' = phase
      /\ verdict' = verdict /\ total' = total /\ peak' = peak
  BY DEF Crash
<1>3. Sits(h, H) /\ view.live = LiveOf(block)
  BY <1>1 DEF Inv, Mapped
<1>4. Sits(h', H) /\ ~h'.ok /\ (Filled(h, block) => Filled(h', block))
  BY <1>2, <1>3, DeadSits
<1>5. OnRecord(h', H, block', ranges', phase', verdict')
  <2>1. OnRecord(h, H, block, ranges, phase, verdict)
    BY <1>1 DEF Inv
  <2> QED BY <2>1, <1>2, <1>4 DEF OnRecord
<1>6. Totals(H, block', phase', verdict', total', peak')
  BY <1>1, <1>2 DEF Inv
<1>7. Inv' /\ view'.heap = H /\ view'.live = LiveOf(block')
  BY <1>4, <1>5, <1>6, InvAfter
<1> QED BY <1>1, <1>2, <1>3, <1>4, <1>7

(* A request the driver was right to refuse to believe in.                 *)
LEMMA ComplainStep ==
  ASSUME Inv, h.ok, NEW H, Sits(h', H), H.brk >= view.heap.brk,
         verdict' \in [what : Complaints, size : {0}], verdict' # NoError, ~Lost(verdict'),
         Books(block', P!Allocated(H), H.size), Table(block'),
         phase = "valid" => Filled(h', block'),
         phase' = phase, total' = total, peak' = peak, ranges' = ranges,
         steps' \in 0 .. MaxSteps,
         view' = [heap |-> HeapOf(h'), live |-> LiveOf(block')]
  PROVE  Inv' /\ view'.heap = H /\ view'.live = LiveOf(block')
<1>1. /\ ranges \in Seq(R!Extents) /\ phase \in Phases
  BY InvNow
<1>2. OnRecord(h', H, block', ranges', phase', verdict')
  <2>1. verdict'.size = 0 /\ verdict' \in [what : Complaints, size : Requests \cup {0}]
    OBVIOUS
  <2> QED BY <1>1, <2>1 DEF OnRecord
<1>3. Totals(H, block', phase', verdict', total', peak')
  <2>1. /\ total \in Int /\ peak \in Nat /\ peak <= view.heap.brk - HeapLo
        /\ phase # "util" => total = 0 /\ peak = 0
    BY DEF Inv, Totals
  <2>2. view.heap.brk \in Nat /\ H.brk \in Nat /\ HeapLo \in Nat
    BY MemAssumption DEF Inv, Sits, Proper, Fits, P!HeapType
  <2>3. peak <= H.brk - HeapLo
    BY <2>1, <2>2
  <2> QED BY <2>1, <2>3 DEF Totals
<1> QED BY <1>2, <1>3, InvAfter

-----------------------------------------------------------------------------
(* The steps of BlockHeap that a request can amount to.                    *)

(* Nothing BlockHeap knows of has changed.                                 *)
LEMMA RefinesStutter ==
  ASSUME view'.heap = view.heap, view'.live = view.live, h'.ok = h.ok
  PROVE  Refines
BY DEF Refines, Detailed!vars

(* mm_malloc served a request.                                             *)
LEMMA RefinesMalloc ==
  ASSUME NEW n \in Requests, n > 0, h.ok, h'.ok, ~P!OutOfMemory(view.heap, n),
         view'.heap = P!Malloc(view.heap, n),
         view'.live = Entered(view.live, P!Chosen(view.heap, P!BlockSize(n)), n)
  PROVE  Refines
<1>1. /\ ~Detailed!OutOfMemory(view.heap, n)
      /\ view'.heap = Detailed!Malloc(view.heap, n)
      /\ Detailed!BlockSize(n) = P!BlockSize(n)
      /\ P!Chosen(view.heap, P!BlockSize(n)) = Detailed!Chosen(view.heap, P!BlockSize(n))
  BY SameMalloc, SameSizes
<1>2. view'.live = Detailed!With(Detailed!Chosen(view.heap, Detailed!BlockSize(n)), n)
  BY <1>1 DEF Detailed!With, Entered
<1>3. Detailed!MallocCall(n)
  BY <1>1, <1>2 DEF Detailed!MallocCall
<1>4. Detailed!Next
  BY <1>3 DEF Detailed!Next
<1> QED BY <1>4 DEF Refines

(* mm_malloc crashed.                                                      *)
LEMMA RefinesMallocCrash ==
  ASSUME NEW n \in Requests, n > 0, h.ok, ~h'.ok, P!OutOfMemory(view.heap, n),
         view'.heap = view.heap, view'.live = view.live
  PROVE  Refines
<1>1. Detailed!OutOfMemory(view.heap, n)
  BY SameMalloc
<1>2. Detailed!MallocCrash(n)
  BY <1>1 DEF Detailed!MallocCrash
<1>3. Detailed!Next
  BY <1>2 DEF Detailed!Next
<1> QED BY <1>3 DEF Refines

-----------------------------------------------------------------------------
(* The driver accepts the block p it was given for i; B are the blocks it  *)
(* holds besides, t their sizes' sum.                                      *)
LEMMA ServedStep ==
  ASSUME Inv, h.ok, verdict = NoError,
         NEW g, NEW G, NEW B, NEW p, NEW n, Given(g, G, B, p, n),
         p \in Nat, NEW i \in Ids \ DOMAIN B, G.brk >= view.heap.brk,
         NEW list, list \in Seq(R!Extents),
         phase = "valid" => Filled(g, B) /\ Recorded(list, B),
         phase # "valid" => list = ranges,
         NEW t \in Int, phase = "util" => Tally(LiveOf(B), t),
         NEW d \in Int, total + d = t + n,
         Accept(g, list, i, p, n), Account(d), block' = Put(B, i, p, n),
         steps' \in 0 .. MaxSteps,
         view' = [heap |-> HeapOf(h'), live |-> LiveOf(block')]
  PROVE  /\ Inv' /\ h'.ok /\ view'.heap = G
         /\ view'.live = Entered(LiveOf(B), p, n)
<1> DEFINE C == Put(B, i, p, n)
<1>1. /\ h' = Served(g, phase, p, n, i) /\ ranges' = Noted(list, phase, p, n)
      /\ phase' = phase /\ verdict' = NoError /\ block' = C
  BY DEF Accept, Served, Noted
<1>2. /\ phase \in Phases /\ total \in Int /\ peak \in Nat
      /\ peak <= view.heap.brk - HeapLo
      /\ phase # "util" => total = 0 /\ peak = 0
  BY DEF Inv, OnRecord, Totals
<1>3. /\ Proper(G) /\ P!Coalesced(G) /\ n \in Requests \ {0} /\ n \in Nat
      /\ Books(B, P!Allocated(G) \ {p}, G.size)
  BY TraceAssumption DEF Given
<1>4. Books(C, P!Allocated(G), G.size)
  BY GivenBooks
<1>5. peak <= G.brk - HeapLo
  <2>1. view.heap.brk \in Nat /\ G.brk \in Nat /\ HeapLo \in Nat
    BY <1>3, MemAssumption DEF Inv, Sits, Proper, Fits, P!HeapType
  <2> QED BY <2>1, <1>2
<1>6. P!Allocated(G) \ {p} \subseteq Nat
  BY <1>3, BlockFacts DEF Proper, P!Allocated
<1> HIDE DEF C
<1>7. /\ Sits(h', G) /\ h'.ok
      /\ OnRecord(h', G, C, ranges', phase, NoError)
  BY <1>1, <1>2, GivenServed DEF C
<1>8. Totals(G, C, phase, NoError, total', peak')
  <2>1. CASE phase = "util"
    <3>1. Tally(LiveOf(C), t + n)
      BY <2>1, <1>3, <1>6, TotalsPut DEF C
    <3>2. total' = t + n /\ peak' = Max({peak, t + n})
      <4>1. total' = total + d /\ peak' = Max({peak, total + d})
        BY <2>1 DEF Account
      <4> QED BY <4>1
    <3>3. t + n \in Int
      BY <1>3
    <3> QED BY <3>1, <3>2, <3>3, <2>1, <1>2, <1>3, <1>4, <1>5, TotalsServed
  <2>2. CASE phase # "util"
    <3>1. total' = total /\ peak' = peak
      BY <2>2 DEF Account
    <3> QED BY <3>1, <2>2, <1>2, <1>5 DEF Totals
  <2> QED BY <2>1, <2>2
<1>9. Inv' /\ view'.heap = G /\ view'.live = LiveOf(C)
  BY <1>1, <1>7, <1>8, InvAfter
<1>10. LiveOf(C) = Entered(LiveOf(B), p, n)
  <2>1. PICK A : A = P!Allocated(G) \ {p}
    OBVIOUS
  <2>2. p \notin A /\ Books(B, A, G.size)
    BY <2>1, <1>3
  <2> QED BY <2>2, <1>3, LivePut DEF C
<1> QED BY <1>7, <1>9, <1>10

-----------------------------------------------------------------------------
(* A request of a trace for a new block.                                   *)
LEMMA AllocStep ==
  ASSUME Inv, h.ok, NEW i \in Ids \ DOMAIN block, NEW n \in Requests, Alloc(i, n),
         steps' \in 0 .. MaxSteps,
         view' = [heap |-> HeapOf(h'), live |-> LiveOf(block')]
  PROVE  Inv' /\ Refines
<1>1. PICK H : H = view.heap
  OBVIOUS
<1>2. /\ Holds(h, H, H.fl) /\ Proper(H) /\ P!Coalesced(H) /\ Sits(h, H)
      /\ view.live = LiveOf(block) /\ Table(block) /\ ranges \in Seq(R!Extents)
      /\ phase \in Phases /\ total \in Int /\ peak \in Nat
      /\ verdict = NoError /\ Books(block, P!Allocated(H), H.size)
      /\ phase = "valid" => Filled(h, block) /\ Recorded(ranges, block)
      /\ phase = "util" => Tally(LiveOf(block), total)
  BY <1>1, InvNow DEF Alloc
<1>3. PICK r : r = MMMalloc(h, n)
  OBVIOUS
<1>4. \/ ~r.h.ok /\ Crash
      \/ /\ r.h.ok /\ Judge(ranges, r.h, r.p, n, "mm_malloc_failed") = "none"
         /\ Accept(r.h, ranges, i, r.p, n) /\ Account(n)
      \/ /\ r.h.ok /\ Judge(ranges, r.h, r.p, n, "mm_malloc_failed") # "none"
         /\ Complain(r.h, Judge(ranges, r.h, r.p, n, "mm_malloc_failed"), n)
         /\ UNCHANGED <<block, ranges>>
  BY <1>3 DEF Alloc
<1>5. n \in Nat /\ n < SizeT \div 2
  BY TraceAssumption
<1>6. CASE n = 0
  <2>1. r = [h |-> h, p |-> NULL]
    BY <1>3, <1>6 DEF MMMalloc
  <2>2. Judge(ranges, r.h, r.p, n, "mm_malloc_failed") = "mm_malloc_failed"
    BY <2>1 DEF Judge
  <2>3. Complain(h, "mm_malloc_failed", 0) /\ UNCHANGED <<block, ranges>>
    BY <2>1, <2>2, <1>4, <1>6
  <2>4. /\ h' = h /\ verdict' = [what |-> "mm_malloc_failed", size |-> 0]
        /\ phase' = phase /\ total' = total /\ peak' = peak
        /\ block' = block /\ ranges' = ranges
    BY <2>3 DEF Complain
  <2>5. /\ verdict' \in [what : Complaints, size : {0}] /\ verdict' # NoError
        /\ ~Lost(verdict')
    BY <2>4 DEF Complaints, NoError, Lost
  <2>6. Sits(h', H) /\ H.brk >= view.heap.brk
    BY <2>4, <1>1, <1>2 DEF Proper, Fits, P!HeapType
  <2>7. Inv' /\ view'.heap = H /\ view'.live = LiveOf(block')
    BY <2>4, <2>5, <2>6, <1>2, ComplainStep
  <2> QED BY <2>7, <2>4, <1>1, <1>2, RefinesStutter
<1>7. CASE n > 0 /\ P!OutOfMemory(H, n)
  <2>1. r = [h |-> Die(h), p |-> NULL]
    BY <1>2, <1>3, <1>5, <1>7, MallocWords
  <2>2. ~r.h.ok
    BY <2>1, <1>2, DeadSits
  <2>3. Crash
    BY <2>2, <1>4
  <2>4. Inv' /\ ~h'.ok /\ view'.heap = view.heap /\ view'.live = view.live
    BY <2>3, CrashStep
  <2> QED BY <2>4, <1>1, <1>7, RefinesMallocCrash
<1>8. CASE n > 0 /\ ~P!OutOfMemory(H, n)
  <2>1. PICK b, M : b = P!Chosen(H, P!BlockSize(n)) /\ M = P!Malloc(H, n)
    OBVIOUS
  <2>2. n \in Requests \ {0}
    BY <1>8
  <2>3. /\ Given(r.h, M, block, b, n) /\ r.p = b /\ b # NULL /\ r.h.ok
        /\ b \in Nat /\ b \notin P!Allocated(H)
        /\ Untouched(h, r.h, H, P!Allocated(H))
        /\ M.brk \in Nat /\ H.brk <= M.brk
    BY <2>1, <2>2, <1>2, <1>3, <1>8, MallocGives
  <2>4. phase = "valid" => Filled(r.h, block)
    <3>1. P!Allocated(H) \in SUBSET P!Allocated(H)
      OBVIOUS
    <3> QED BY <3>1, <2>3, <1>2, FilledKept
  <2>5. Judge(ranges, r.h, r.p, n, "mm_malloc_failed") = "none"
    BY <2>3, <1>2, GivenJudged DEF Judge
  <2>6. Accept(r.h, ranges, i, b, n) /\ Account(n)
    BY <2>3, <2>5, <1>4
  <2>7. block' = Put(block, i, b, n)
    BY <2>6 DEF Accept, Remember, Put
  <2>8. M.brk >= view.heap.brk
    <3>1. H.brk \in Nat
      BY <1>2 DEF Proper, Fits, P!HeapType
    <3> QED BY <3>1, <2>3, <1>1
  <2>9. /\ Inv' /\ h'.ok /\ view'.heap = M
        /\ view'.live = Entered(LiveOf(block), b, n)
    <3>1. PICK g, l, B, t : g = r.h /\ l = ranges /\ B = block /\ t = total
      OBVIOUS
    <3>2. t \in Int /\ total + n = t + n /\ n \in Int
      BY <3>1, <1>2, <1>5
    <3>3. Given(g, M, B, b, n) /\ b \in Nat /\ i \in Ids \ DOMAIN B
      BY <3>1, <2>3
    <3>4. /\ l \in Seq(R!Extents)
          /\ phase = "valid" => Filled(g, B) /\ Recorded(l, B)
          /\ phase # "valid" => l = ranges
          /\ phase = "util" => Tally(LiveOf(B), t)
      BY <3>1, <2>4, <1>2
    <3>5. /\ verdict = NoError /\ M.brk >= view.heap.brk
          /\ Accept(g, l, i, b, n) /\ Account(n) /\ block' = Put(B, i, b, n)
      BY <3>1, <2>6, <2>7, <2>8, <1>2
    <3>6. view'.live = Entered(LiveOf(B), b, n) /\ Inv' /\ h'.ok /\ view'.heap = M
      BY <3>2, <3>3, <3>4, <3>5, ServedStep
    <3> QED BY <3>1, <3>6
  <2> QED BY <2>1, <2>9, <1>1, <1>2, <1>8, RefinesMalloc
<1> QED BY <1>5, <1>6, <1>7, <1>8

-----------------------------------------------------------------------------
(* The block of a trace's id, and the others.                              *)
LEMMA HeldFacts ==
  ASSUME Inv, h.ok, verdict = NoError, NEW i \in DOMAIN block
  PROVE  LET H == view.heap
             p == block[i].p
             B == Drop(block, i)
         IN  /\ p \in P!Allocated(H) /\ p \in Nat /\ i \in Ids \ DOMAIN B
             /\ block[i].size \in Requests \ {0} /\ block[i].size + 8 <= H.size[p]
             /\ block[i].size \in Nat /\ block[i].size % 4 = 0
             /\ Books(B, P!Allocated(H) \ {p}, H.size)
             /\ LiveOf(B) = Struck(view.live, p) /\ p \in DOMAIN view.live
             /\ phase = "valid" => Filled(h, B) /\ Recorded(R!Removed(ranges, p), B)
             /\ phase = "util" => Tally(LiveOf(B), total - block[i].size)
<1>1. PICK H, p, s : H = view.heap /\ p = block[i].p /\ s = block[i].size
  OBVIOUS
<1>2. /\ Proper(H) /\ Books(block, P!Allocated(H), H.size) /\ total \in Int
      /\ view.live = LiveOf(block)
      /\ phase = "valid" => Filled(h, block) /\ Recorded(ranges, block)
      /\ phase = "util" => Tally(LiveOf(block), total)
  BY <1>1, InvNow
<1>3. /\ p \in P!Allocated(H) /\ s \in Requests \ {0} /\ s + 8 <= H.size[p]
      /\ i \in Ids
  BY <1>1, <1>2 DEF Books
<1>4. P!Allocated(H) \subseteq Nat
  BY <1>2, BlockFacts DEF Proper, P!Allocated
<1>5. s \in Nat /\ s % 4 = 0
  BY <1>3, TraceAssumption DEF WSIZE
<1>6. i \notin DOMAIN Drop(block, i)
  BY DEF Drop
<1>7. Books(Drop(block, i), P!Allocated(H) \ {p}, H.size)
  BY <1>1, <1>2, BooksDrop
<1>8. LiveOf(Drop(block, i)) = Struck(view.live, p)
  BY <1>1, <1>2, LiveDrop
<1>9. p \in DOMAIN view.live
  <2>1. DOMAIN LiveOf(block) = P!Allocated(H)
    BY <1>2, LiveFacts
  <2> QED BY <2>1, <1>2, <1>3
<1>10. phase = "valid" =>
         Filled(h, Drop(block, i)) /\ Recorded(R!Removed(ranges, p), Drop(block, i))
  <2>1. phase = "valid" => Filled(h, Drop(block, i))
    BY <1>2, FilledDrop
  <2>2. phase = "valid" => Recorded(R!Removed(ranges, p), Drop(block, i))
    BY <1>1, <1>2, RecordedDrop
  <2> QED BY <2>1, <2>2
<1>11. phase = "util" => Tally(LiveOf(Drop(block, i)), total - s)
  <2>1. PICK A : A = P!Allocated(H)
    OBVIOUS
  <2>2. Books(block, A, H.size) /\ A \subseteq Nat
    BY <2>1, <1>2, <1>4
  <2> QED BY <2>2, <1>1, <1>2, TotalsDrop
<1> QED BY <1>1, <1>3, <1>4, <1>5, <1>6, <1>7, <1>8, <1>9, <1>10, <1>11

(* mm_free, or mm_realloc to zero bytes.                                   *)
LEMMA RefinesFree ==
  ASSUME NEW p \in DOMAIN view.live, h.ok, h'.ok,
         view'.heap = P!Free(view.heap, p), view'.live = Struck(view.live, p)
  PROVE  Refines
<1>1. view'.heap = Detailed!Free(view.heap, p)
  BY SameFree
<1>2. view'.live = Detailed!Without(p)
  BY DEF Detailed!Without, Struck
<1>3. Detailed!FreeCall(p)
  BY <1>1, <1>2 DEF Detailed!FreeCall
<1>4. Detailed!Next
  BY <1>3 DEF Detailed!Next
<1> QED BY <1>4 DEF Refines

(* mm_realloc left the block where it is.                                  *)
LEMMA RefinesFits ==
  ASSUME NEW p \in DOMAIN view.live, NEW n \in Requests, n > 0, h.ok, h'.ok,
         P!BlockSize(n) <= view.heap.size[p], view'.heap = view.heap,
         view'.live = Entered(Struck(view.live, p), p, n)
  PROVE  Refines
<1>1. Detailed!BlockSize(n) = P!BlockSize(n)
  BY SameSizes
<1>2. view'.live = Detailed!With(p, n)
  <2>1. DOMAIN Struck(view.live, p) = DOMAIN view.live \ {p}
    BY DEF Struck
  <2>2. \A q \in DOMAIN view.live \ {p} : Struck(view.live, p)[q] = view.live[q]
    BY DEF Struck
  <2> QED BY <2>1, <2>2 DEF Detailed!With, Entered
<1>3. Detailed!ReallocFits(p, n)
  BY <1>1, <1>2 DEF Detailed!ReallocFits
<1>4. Detailed!Next
  BY <1>3 DEF Detailed!Next
<1> QED BY <1>4 DEF Refines

(* mm_realloc took in the free block behind.                               *)
LEMMA RefinesGrows ==
  ASSUME NEW p \in DOMAIN view.live, NEW n \in Requests, h.ok, h'.ok,
         P!BlockSize(n) > view.heap.size[p], P!CanGrow(view.heap, p, n),
         view'.heap = P!Place(P!Join(view.heap, p), p, P!BlockSize(n)),
         view'.live = Entered(Struck(view.live, p), p, n)
  PROVE  Refines
<1>1. Detailed!BlockSize(n) = P!BlockSize(n) /\ Detailed!CanGrow(view.heap, p, n)
  BY SameSizes, SameCanGrow
<1>2. view'.heap = Detailed!Place(Detailed!Join(view.heap, p), p, P!BlockSize(n))
  BY SamePlace, SameJoin
<1>3. view'.live = Detailed!With(p, n)
  <2>1. DOMAIN Struck(view.live, p) = DOMAIN view.live \ {p}
    BY DEF Struck
  <2>2. \A q \in DOMAIN view.live \ {p} : Struck(view.live, p)[q] = view.live[q]
    BY DEF Struck
  <2> QED BY <2>1, <2>2 DEF Detailed!With, Entered
<1>4. Detailed!ReallocGrows(p, n)
  BY <1>1, <1>2, <1>3 DEF Detailed!ReallocGrows
<1>5. Detailed!Next
  BY <1>4 DEF Detailed!Next
<1> QED BY <1>5 DEF Refines

(* mm_realloc moved the block.                                             *)
LEMMA RefinesMoves ==
  ASSUME NEW p \in DOMAIN view.live, NEW n \in Requests, h.ok, h'.ok,
         P!BlockSize(n) > view.heap.size[p], ~P!CanGrow(view.heap, p, n),
         ~P!OutOfMemory(view.heap, n),
         view'.heap = P!Free(P!Malloc(view.heap, n), p),
         view'.live = Entered(Struck(view.live, p), P!Chosen(view.heap, P!BlockSize(n)), n)
  PROVE  Refines
<1>1. /\ Detailed!BlockSize(n) = P!BlockSize(n) /\ ~Detailed!CanGrow(view.heap, p, n)
      /\ ~Detailed!OutOfMemory(view.heap, n)
      /\ P!Chosen(view.heap, P!BlockSize(n)) = Detailed!Chosen(view.heap, P!BlockSize(n))
  BY SameSizes, SameCanGrow, SameMalloc
<1>2. view'.heap = Detailed!Free(Detailed!Malloc(view.heap, n), p)
  BY SameMalloc, SameFree
<1>3. PICK q : q = Detailed!Chosen(view.heap, P!BlockSize(n))
  OBVIOUS
<1>4. view'.live = [r \in (DOMAIN view.live \ {p}) \cup {q} |->
                      IF r = q THEN n ELSE view.live[r]]
  <2>1. DOMAIN Struck(view.live, p) = DOMAIN view.live \ {p}
    BY DEF Struck
  <2>2. \A x \in DOMAIN view.live \ {p} : Struck(view.live, p)[x] = view.live[x]
    BY DEF Struck
  <2>3. view'.live = Entered(Struck(view.live, p), q, n)
    BY <1>1, <1>3
  <2> QED BY <2>1, <2>2, <2>3 DEF Entered
<1>5. Detailed!ReallocMoves(p, n)
  BY <1>1, <1>2, <1>3, <1>4 DEF Detailed!ReallocMoves
<1>6. Detailed!Next
  BY <1>5 DEF Detailed!Next
<1> QED BY <1>6 DEF Refines

(* mm_realloc crashed in the mm_malloc it calls.                           *)
LEMMA RefinesReallocCrash ==
  ASSUME NEW p \in DOMAIN view.live, NEW n \in Requests, h.ok, ~h'.ok,
         P!BlockSize(n) > view.heap.size[p], ~P!CanGrow(view.heap, p, n),
         P!OutOfMemory(view.heap, n),
         view'.heap = view.heap, view'.live = view.live
  PROVE  Refines
<1>1. /\ Detailed!BlockSize(n) = P!BlockSize(n) /\ ~Detailed!CanGrow(view.heap, p, n)
      /\ Detailed!OutOfMemory(view.heap, n)
  BY SameSizes, SameCanGrow, SameMalloc
<1>2. Detailed!ReallocCrash(p, n)
  BY <1>1 DEF Detailed!ReallocCrash
<1>3. Detailed!Next
  BY <1>2 DEF Detailed!Next
<1> QED BY <1>3 DEF Refines

-----------------------------------------------------------------------------
(* Resizing.                                                               *)

(* A block that is given is one of the heap.                               *)
LEMMA GivenFacts ==
  ASSUME NEW g, NEW G, NEW B, NEW q, NEW n, Given(g, G, B, q, n)
  PROVE  /\ q \in Nat /\ q # NULL /\ q \in Arena
         /\ g.ok /\ Proper(G) /\ P!Coalesced(G) /\ Sits(g, G)
<1>1. /\ Holds(g, G, G.fl) /\ Proper(G) /\ P!Coalesced(G) /\ q \in P!Blocks(G)
  BY DEF Given, P!Allocated
<1>2. q \in Cells /\ q \in Arena
  BY <1>1, BlockWords DEF Proper
<1>3. q \in Nat /\ q # NULL
  BY <1>2, CellFacts
<1>4. g.ok /\ Sits(g, G)
  BY <1>1, SitsIsHolds
<1> QED BY <1>1, <1>2, <1>3, <1>4

(* mm_realloc kept the contents: then the driver reads them back, unless   *)
(* a plain char cannot hold the fill byte.                                 *)
LEMMA ContentsRead ==
  ASSUME Inv, h.ok, verdict = NoError, phase = "valid", SmallIds, NEW i \in DOMAIN block,
         NEW g, NEW q, NEW n \in Nat,
         Carried(h, g, block[i].p, q, n, block[i].size)
  PROVE  Preserved(g, q, Min({n, block[i].size}), i)
<1>1. PICK H : H = view.heap
  OBVIOUS
<1>2. /\ Proper(H) /\ P!Coalesced(H) /\ Books(block, P!Allocated(H), H.size)
      /\ Filled(h, block)
  BY <1>1, InvNow
<1>3. Apart(block, H.brk)
  BY <1>2, BooksApart
<1>4. H.brk \in Nat /\ H.brk <= MaxHeap
  BY <1>2 DEF Proper, Fits, P!HeapType
<1>5. block[i].size \in Nat /\ block[i].size % 4 = 0 /\ i \in Ids
  BY HeldFacts, <1>2 DEF Books
<1>6. i \in Nat /\ i % 256 < 128
  BY <1>5, TraceAssumption DEF SmallIds
<1>7. PICK l : l = Min({n, block[i].size})
  OBVIOUS
<1>8. l \in Nat /\ l <= n /\ l <= block[i].size
  <2>1. PICK s : s = block[i].size
    OBVIOUS
  <2> DEFINE m == IF n <= s THEN n ELSE s
  <2>2. m \in {n, s} /\ \A y \in {n, s} : m <= y
    BY <1>5, <2>1
  <2>3. l \in {n, s} /\ \A y \in {n, s} : l <= y
    BY <2>1, <2>2, <1>7 DEF Min
  <2> QED BY <2>1, <2>3, <1>5
<1>9. \A k \in 0 .. l - 1 : k % 4 = 0 => Get(g, q + k) = Get(h, block[i].p + k)
  <2> SUFFICES ASSUME NEW k \in 0 .. l - 1, k % 4 = 0
               PROVE  Get(g, q + k) = Get(h, block[i].p + k)
    OBVIOUS
  <2>1. k \in 0 .. n - 1 /\ k < block[i].size
    BY <1>5, <1>8
  <2> QED BY <2>1 DEF Carried
<1>10. Preserved(g, q, l, i)
  BY <1>2, <1>3, <1>4, <1>5, <1>6, <1>8, <1>9, PreservedWords
<1> QED BY <1>7, <1>10

(* The driver gives up a trace whose data it believes lost.                *)
LEMMA LostStep ==
  ASSUME Inv, h.ok, phase = "valid", ~SmallIds, NEW i \in DOMAIN block,
         NEW G, Sits(h', G), G.brk >= view.heap.brk, NEW n \in Requests,
         verdict' = [what |-> "data_lost", size |-> n],
         phase' = phase, total' = total, peak' = peak, block' = block,
         ranges' \in Seq(R!Extents), steps' \in 0 .. MaxSteps,
         view' = [heap |-> HeapOf(h'), live |-> LiveOf(block')]
  PROVE  Inv'
<1>1. Lost(verdict') /\ verdict' \in [what : Complaints, size : Requests \cup {0}]
  BY DEF Lost, Complaints
<1>2. verdict' # NoError
  BY DEF NoError
<1>3. block # NoBlocks
  BY DEF NoBlocks
<1>4. Table(block) /\ phase \in Phases
  BY InvNow
<1>5. OnRecord(h', G, block', ranges', phase', verdict')
  BY <1>1, <1>2, <1>3, <1>4 DEF OnRecord
<1>6. Totals(G, block', phase', verdict', total', peak')
  <2>1. /\ total \in Int /\ peak \in Nat /\ peak <= view.heap.brk - HeapLo
        /\ total = 0 /\ peak = 0
    BY DEF Inv, Totals
  <2>2. view.heap.brk \in Nat /\ G.brk \in Nat /\ HeapLo \in Nat
    BY MemAssumption DEF Inv, Sits, Proper, Fits, P!HeapType
  <2>3. peak <= G.brk - HeapLo
    BY <2>1, <2>2
  <2> QED BY <2>1, <2>3, <1>2 DEF Totals
<1> QED BY <1>5, <1>6, InvAfter

(* mm_realloc gave q for the block of i, with its contents.                *)
LEMMA ReallocServed ==
  ASSUME Inv, h.ok, NEW i \in DOMAIN block, NEW n \in Requests \ {0}, Realloc(i, n),
         steps' \in 0 .. MaxSteps,
         view' = [heap |-> HeapOf(h'), live |-> LiveOf(block')],
         NEW g, NEW G, NEW q, MMRealloc(h, block[i].p, n) = [h |-> g, p |-> q],
         Given(g, G, Drop(block, i), q, n), G.brk >= view.heap.brk,
         Untouched(h, g, view.heap, P!Allocated(view.heap) \ {block[i].p}),
         Carried(h, g, block[i].p, q, n, block[i].size)
  PROVE  /\ Inv'
         /\ SmallIds => /\ h'.ok /\ view'.heap = G
                        /\ view'.live = Entered(Struck(view.live, block[i].p), q, n)
<1>1. PICK H, p, s, B : H = view.heap /\ p = block[i].p /\ s = block[i].size /\ B = Drop(block, i)
  OBVIOUS
<1>2. verdict = NoError
  BY DEF Realloc
<1>3. /\ p \in P!Allocated(H) /\ i \in Ids \ DOMAIN B /\ s \in Nat
      /\ Books(B, P!Allocated(H) \ {p}, H.size)
      /\ LiveOf(B) = Struck(view.live, p)
      /\ phase = "valid" => Filled(h, B) /\ Recorded(R!Removed(ranges, p), B)
      /\ phase = "util" => Tally(LiveOf(B), total - s)
  BY <1>1, <1>2, HeldFacts
<1>4. q \in Nat /\ q # NULL /\ g.ok /\ Sits(g, G)
  BY GivenFacts
<1>5. /\ Proper(H) /\ ranges \in Seq(R!Extents) /\ total \in Int /\ phase \in Phases
  BY <1>1, InvNow
<1>6. n \in Nat /\ n \in Requests /\ n # 0
  BY TraceAssumption
<1>7. PICK l : l = IF phase = "valid" THEN R!Removed(ranges, p) ELSE ranges
  OBVIOUS
<1>8. /\ l \in Seq(R!Extents) /\ (phase # "valid" => l = ranges)
      /\ phase = "valid" => Recorded(l, B)
  BY <1>3, <1>5, <1>7 DEF Recorded
<1>9. phase = "valid" => Filled(g, B)
  <2>1. P!Allocated(H) \ {p} \in SUBSET P!Allocated(H)
    OBVIOUS
  <2>2. Untouched(h, g, H, P!Allocated(H) \ {p})
    BY <1>1
  <2> QED BY <2>1, <2>2, <1>3, <1>5, FilledKept
<1>10. Judge(l, g, q, n, "mm_realloc_failed") = "none"
  <2>1. Given(g, G, B, q, n)
    BY <1>1
  <2> QED BY <2>1, <1>3, <1>4, <1>8, GivenJudged DEF Judge
<1>11. PICK lost \in BOOLEAN :
         lost <=> phase = "valid" /\ ~Preserved(g, q, Min({n, s}), i)
  OBVIOUS
<1>12. \/ ~lost /\ Accept(g, l, i, q, n) /\ Account(n - s)
       \/ /\ lost /\ Complain(g, "data_lost", n) /\ block' = block
          /\ ranges' = R!Added(l, q, n)
  <2>1. PICK old, r :
          /\ old = block[i] /\ r = MMRealloc(h, block[i].p, n)
          /\ LET rest == IF phase = "valid" THEN R!Removed(ranges, old.p) ELSE ranges
                 seen == Judge(rest, r.h, r.p, n, "mm_realloc_failed")
                 los == phase = "valid" /\ ~Preserved(r.h, r.p, Min({n, old.size}), i)
                 fault == IF seen = "none" /\ los THEN "data_lost" ELSE seen
             IN
             \/ ~r.h.ok /\ Crash
             \/ /\ r.h.ok /\ fault = "none"
                /\ Accept(r.h, rest, i, r.p, n)
                /\ Account(n - old.size)
             \/ /\ r.h.ok /\ fault # "none"
                /\ Complain(r.h, fault, n)
                /\ IF n = 0 THEN Forget(i) ELSE UNCHANGED block
                /\ ranges' = IF r.p = NULL THEN ranges
                             ELSE IF seen = "none" THEN R!Added(rest, r.p, n) ELSE rest
    BY DEF Realloc
  <2>2. r.h = g /\ r.p = q /\ old.p = p /\ old.size = s
    BY <2>1, <1>1
  <2>3. r.h.ok /\ n # 0 /\ r.p # NULL
    BY <2>2, <1>4, <1>6
  <2>4. (IF phase = "valid" THEN R!Removed(ranges, old.p) ELSE ranges) = l
    BY <2>2, <1>7
  <2>5. Judge(l, r.h, r.p, n, "mm_realloc_failed") = "none"
    BY <2>2, <1>10
  <2>6. lost <=> phase = "valid" /\ ~Preserved(r.h, r.p, Min({n, old.size}), i)
    BY <2>2, <1>11
  <2>7. \/ ~lost /\ Accept(r.h, l, i, r.p, n) /\ Account(n - old.size)
        \/ /\ lost /\ Complain(r.h, "data_lost", n) /\ block' = block
           /\ ranges' = R!Added(l, r.p, n)
    BY <2>1, <2>3, <2>4, <2>5, <2>6
  <2> QED BY <2>2, <2>7
<1>13. CASE ~lost
  <2>1. Accept(g, l, i, q, n) /\ Account(n - s)
    BY <1>12, <1>13
  <2>2. block' = Put(block, i, q, n)
    BY <2>1 DEF Accept, Remember, Put
  <2>3. block' = Put(B, i, q, n)
    BY <2>2, <1>1, PutDrop
  <2>4. PICK t, d : t = total - s /\ d = n - s
    OBVIOUS
  <2>5. t \in Int /\ d \in Int /\ total + d = t + n
    BY <2>4, <1>3, <1>5, <1>6
  <2>6. /\ Given(g, G, B, q, n) /\ Account(d)
        /\ phase = "util" => Tally(LiveOf(B), t)
        /\ phase = "valid" => Filled(g, B) /\ Recorded(l, B)
    BY <2>1, <2>4, <1>1, <1>3, <1>8, <1>9
  <2>7. /\ Inv' /\ h'.ok /\ view'.heap = G
        /\ view'.live = Entered(LiveOf(B), q, n)
    BY <2>1, <2>3, <2>5, <2>6, <1>2, <1>3, <1>4, <1>8, ServedStep
  <2> QED BY <2>7, <1>1, <1>3
<1>14. CASE lost
  <2>1. /\ Complain(g, "data_lost", n) /\ block' = block
        /\ ranges' = R!Added(l, q, n)
    BY <1>12, <1>14
  <2>2. /\ h' = g /\ verdict' = [what |-> "data_lost", size |-> n]
        /\ phase' = phase /\ total' = total /\ peak' = peak
    BY <2>1 DEF Complain
  <2>3. phase = "valid" /\ ~Preserved(g, q, Min({n, s}), i)
    BY <1>11, <1>14
  <2>4. ~SmallIds
    BY <2>3, <1>1, <1>2, <1>6, ContentsRead
  <2>5. ranges' \in Seq(R!Extents)
    <3>1. Given(g, G, B, q, n)
      BY <1>1
    <3>2. R!Extent(q, n) \in R!Extents
      BY <3>1, <2>3, <1>3, <1>8, GivenJudged
    <3> QED BY <3>2, <2>1, <1>8 DEF R!Added
  <2>6. Sits(h', G)
    BY <2>2, <1>4
  <2>7. Inv'
    BY <2>1, <2>2, <2>3, <2>4, <2>5, <2>6, <1>6, LostStep
  <2> QED BY <2>4, <2>7
<1> QED BY <1>13, <1>14

(* mm_realloc to zero bytes frees the block and returns NULL.              *)
LEMMA ReallocFreed ==
  ASSUME Inv, h.ok, NEW i \in DOMAIN block, NEW n \in Requests, n = 0, Realloc(i, n),
         steps' \in 0 .. MaxSteps,
         view' = [heap |-> HeapOf(h'), live |-> LiveOf(block')]
  PROVE  Inv' /\ Refines
<1>1. PICK H, p, B : H = view.heap /\ p = block[i].p /\ B = Drop(block, i)
  OBVIOUS
<1>2. verdict = NoError
  BY DEF Realloc
<1>3. /\ p \in P!Allocated(H) /\ p \in DOMAIN view.live
      /\ Books(B, P!Allocated(H) \ {p}, H.size)
      /\ LiveOf(B) = Struck(view.live, p)
      /\ phase = "valid" => Filled(h, B)
  BY <1>1, <1>2, HeldFacts
<1>4. /\ Proper(H) /\ P!Coalesced(H) /\ Holds(h, H, H.fl) /\ Table(block)
      /\ H.brk \in Nat
  BY <1>1, InvNow DEF Proper, Fits, P!HeapType
<1>5. PICK g, F : g = MMFree(h, p) /\ F = P!Free(H, p)
  OBVIOUS
<1>6. /\ Proper(F) /\ P!Coalesced(F) /\ Holds(g, F, F.fl)
      /\ SameWords(h, g, Zones(H, H.free \cup {p}))
  BY <1>3, <1>4, <1>5, FreeWords
<1>7. Untouched(h, g, H, P!Allocated(H) \ {p})
  BY <1>3, <1>4, <1>6, FreeUntouched
<1>8. /\ F.brk = H.brk /\ P!Allocated(F) = P!Allocated(H) \ {p} /\ P!SameBut(H, F, {p})
  <2>1. P!Settled(H)
    BY <1>4, ProperIsSound DEF P!Settled
  <2> QED BY <2>1, <1>3, <1>5, BlockAssumptions, P!FreeFacts
<1>9. Sits(g, F) /\ g.ok
  BY <1>6, SitsIsHolds
<1>10. MMRealloc(h, p, n) = [h |-> g, p |-> NULL]
  BY <1>5 DEF MMRealloc
<1>11. Complain(g, "mm_realloc_failed", n) /\ Forget(i) /\ ranges' = ranges
  <2>1. PICK old, r :
          /\ old = block[i] /\ r = MMRealloc(h, block[i].p, n)
          /\ LET rest == IF phase = "valid" THEN R!Removed(ranges, old.p) ELSE ranges
                 lost == phase = "valid" /\ ~Preserved(r.h, r.p, Min({n, old.size}), i)
                 seen == Judge(rest, r.h, r.p, n, "mm_realloc_failed")
                 fault == IF seen = "none" /\ lost THEN "data_lost" ELSE seen
             IN
             \/ ~r.h.ok /\ Crash
             \/ /\ r.h.ok /\ fault = "none"
                /\ Accept(r.h, rest, i, r.p, n)
                /\ Account(n - old.size)
             \/ /\ r.h.ok /\ fault # "none"
                /\ Complain(r.h, fault, n)
                /\ IF n = 0 THEN Forget(i) ELSE UNCHANGED block
                /\ ranges' = IF r.p = NULL THEN ranges
                             ELSE IF seen = "none" THEN R!Added(rest, r.p, n) ELSE rest
    BY DEF Realloc
  <2>2. r.h = g /\ r.p = NULL /\ r.h.ok
    BY <2>1, <1>1, <1>9, <1>10
  <2>3. \A list : Judge(list, r.h, r.p, n, "mm_realloc_failed") = "mm_realloc_failed"
    BY <2>2 DEF Judge
  <2> QED BY <2>1, <2>2, <2>3
<1>12. /\ h' = g /\ verdict' = [what |-> "mm_realloc_failed", size |-> 0]
       /\ phase' = phase /\ total' = total /\ peak' = peak /\ block' = B
  BY <1>1, <1>11 DEF Complain, Forget, Drop
<1>13. /\ verdict' \in [what : Complaints, size : {0}] /\ verdict' # NoError
       /\ ~Lost(verdict')
  BY <1>12 DEF Complaints, NoError, Lost
<1>14. Books(B, P!Allocated(F), F.size)
  <2>1. PICK A : A = P!Allocated(H) \ {p}
    OBVIOUS
  <2>2. \A q \in A : F.size[q] = H.size[q]
    BY <2>1, <1>8 DEF P!SameBut
  <2>3. Books(B, A, H.size)
    BY <2>1, <1>3
  <2>4. Books(B, A, F.size)
    BY <2>2, <2>3, BooksResized
  <2> QED BY <2>1, <2>4, <1>8
<1>15. Table(B)
  BY <1>1, <1>4 DEF Table, Drop
<1>16. phase = "valid" => Filled(g, B)
  <2>1. P!Allocated(H) \ {p} \in SUBSET P!Allocated(H)
    OBVIOUS
  <2> QED BY <2>1, <1>3, <1>4, <1>7, FilledKept
<1>17. F.brk >= view.heap.brk
  BY <1>1, <1>4, <1>8
<1>18. Inv' /\ view'.heap = F /\ view'.live = LiveOf(block')
  BY <1>9, <1>11, <1>12, <1>13, <1>14, <1>15, <1>16, <1>17, ComplainStep
<1>19. Refines
  BY <1>1, <1>3, <1>5, <1>9, <1>12, <1>18, RefinesFree
<1> QED BY <1>18, <1>19

(* A request of a trace for another size.                                  *)
LEMMA ReallocStep ==
  ASSUME Inv, h.ok, NEW i \in DOMAIN block, NEW n \in Requests, Realloc(i, n),
         steps' \in 0 .. MaxSteps,
         view' = [heap |-> HeapOf(h'), live |-> LiveOf(block')]
  PROVE  Inv' /\ (SmallIds => Refines)
<1>1. PICK H, p, s, B : H = view.heap /\ p = block[i].p /\ s = block[i].size /\ B = Drop(block, i)
  OBVIOUS
<1>2. verdict = NoError
  BY DEF Realloc
<1>3. /\ p \in P!Allocated(H) /\ p \in DOMAIN view.live /\ p \in Nat
      /\ s \in Nat /\ s % 4 = 0 /\ s + 8 <= H.size[p]
      /\ Books(B, P!Allocated(H) \ {p}, H.size)
  BY <1>1, <1>2, HeldFacts
<1>4. /\ Proper(H) /\ P!Coalesced(H) /\ Holds(h, H, H.fl) /\ H.brk \in Nat /\ P!Settled(H)
      /\ Sits(h, H)
  BY <1>1, InvNow, ProperIsSound DEF Proper, Fits, P!HeapType, P!Settled
<1>5. n \in Nat /\ n < SizeT \div 2 /\ n % 4 = 0
  BY TraceAssumption DEF WSIZE
<1>6. n + 8 <= P!BlockSize(n) /\ P!BlockSize(n) \in Nat
  BY <1>5, SizeWords
<1>7. H.size[p] \in Nat /\ P!End(H, p) = p + H.size[p]
  BY <1>3, <1>4, BlockFacts DEF Proper, P!Allocated
<1>8. CASE n = 0
  BY <1>8, ReallocFreed
<1>9. CASE n > 0 /\ P!BlockSize(n) <= H.size[p]
  <2>1. n \in Requests \ {0}
    BY <1>9
  <2>2. MMRealloc(h, p, n) = [h |-> h, p |-> p]
    BY <1>3, <1>4, <1>5, <1>9, ReallocCases
  <2>3. Given(h, H, B, p, n)
    BY <2>1, <1>3, <1>4, <1>5, <1>6, <1>7, <1>9 DEF Given
  <2>4. Untouched(h, h, H, P!Allocated(H) \ {p})
    BY DEF Untouched
  <2>5. H.brk >= view.heap.brk
    BY <1>1, <1>4
  <2>6. Carried(h, h, p, p, n, s)
    BY DEF Carried
  <2>7. /\ Inv'
        /\ SmallIds => /\ h'.ok /\ view'.heap = H
                       /\ view'.live = Entered(Struck(view.live, p), p, n)
    BY <2>1, <2>2, <2>3, <2>4, <2>5, <2>6, <1>1, ReallocServed
  <2>8. SmallIds => Refines
    BY <2>7, <1>1, <1>3, <1>9, RefinesFits
  <2> QED BY <2>7, <2>8
<1>10. CASE n > 0 /\ P!BlockSize(n) > H.size[p] /\ P!CanGrow(H, p, n)
  <2>1. n \in Requests \ {0}
    BY <1>10
  <2>2. PICK g, G :
          /\ g = Place(Tag(RemoveFromFreeList(h, P!End(H, p)), p,
                           Word(H.size[p] + H.size[P!End(H, p)], 1)), p, P!BlockSize(n))
          /\ G = P!Place(P!Join(H, p), p, P!BlockSize(n))
    OBVIOUS
  <2>3. MMRealloc(h, p, n) = [h |-> g, p |-> p]
    BY <2>2, <1>3, <1>4, <1>5, <1>10, ReallocCases
  <2>4. /\ Proper(G) /\ P!Coalesced(G) /\ Holds(g, G, G.fl)
        /\ Untouched(h, g, H, P!Allocated(H) \ {p})
        /\ Carried(h, g, p, p, n, H.size[p] - 8)
    <3>1. LET g0 == Place(Tag(RemoveFromFreeList(h, P!End(H, p)), p,
                              Word(H.size[p] + H.size[P!End(H, p)], 1)), p, P!BlockSize(n))
              G0 == P!Place(P!Join(H, p), p, P!BlockSize(n))
          IN  /\ Proper(G0) /\ P!Coalesced(G0) /\ Holds(g0, G0, G0.fl)
              /\ Untouched(h, g0, H, P!Allocated(H) \ {p})
              /\ Carried(h, g0, p, p, n, H.size[p] - 8)
      <4>1. /\ Proper(H) /\ P!Coalesced(H) /\ p \in P!Allocated(H) /\ n \in Nat /\ n > 0
            /\ n < SizeT \div 2 /\ Holds(h, H, H.fl) /\ P!CanGrow(H, p, n)
        BY <1>3, <1>4, <1>5, <1>10
      <4> QED BY ONLY <4>1, GrowWords
    <3> QED BY <3>1, <2>2
  <2>5. /\ G.brk = H.brk /\ P!Allocated(G) = P!Allocated(H) /\ P!SameBut(H, G, {p})
        /\ G.size[p] >= P!BlockSize(n)
    BY <2>2, <1>3, <1>4, <1>5, <1>10, BlockAssumptions, P!GrowFacts
  <2>6. Given(g, G, B, p, n)
    <3>1. p \in P!Allocated(G) /\ P!Allocated(G) \ {p} = P!Allocated(H) \ {p}
      BY <2>5, <1>3
    <3>2. G.size[p] \in Nat
      BY <3>1, <2>4, BlockFacts DEF Proper, P!Allocated
    <3>3. n + 8 <= G.size[p]
      BY <3>2, <2>5, <1>5, <1>6
    <3>4. PICK A : A = P!Allocated(H) \ {p}
      OBVIOUS
    <3>5. \A q \in A : G.size[q] = H.size[q]
      BY <3>4, <2>5 DEF P!SameBut
    <3>6. Books(B, A, G.size)
      BY <3>4, <3>5, <1>3, BooksResized
    <3> QED BY <3>1, <3>3, <3>4, <3>6, <2>1, <2>4 DEF Given
  <2>7. Carried(h, g, p, p, n, s)
    <3>1. \A k \in 0 .. n - 1 : k < s => k < H.size[p] - 8
      BY <1>3, <1>5, <1>7
    <3> QED BY <3>1, <2>4 DEF Carried
  <2>8. G.brk >= view.heap.brk
    BY <2>5, <1>1, <1>4
  <2>9. /\ Inv'
        /\ SmallIds => /\ h'.ok /\ view'.heap = G
                       /\ view'.live = Entered(Struck(view.live, p), p, n)
    BY <2>1, <2>3, <2>4, <2>6, <2>7, <2>8, <1>1, ReallocServed
  <2>10. SmallIds => Refines
    BY <2>2, <2>9, <1>1, <1>3, <1>10, RefinesGrows
  <2> QED BY <2>9, <2>10
<1>11. CASE n > 0 /\ P!BlockSize(n) > H.size[p] /\ ~P!CanGrow(H, p, n)
  <2>1. n \in Requests \ {0}
    BY <1>11
  <2>2. PICK r, G, q : /\ r = Moved(MMMalloc(h, n), p, H.size[p], n)
                       /\ G = P!Free(P!Malloc(H, n), p)
                       /\ q = P!Chosen(H, P!BlockSize(n))
    OBVIOUS
  <2>3. MMRealloc(h, p, n) = r
    BY <2>2, <1>3, <1>4, <1>5, <1>11, ReallocCases
  <2>4. /\ P!OutOfMemory(H, n) => r = [h |-> Die(h), p |-> NULL]
        /\ ~P!OutOfMemory(H, n) =>
             /\ Proper(G) /\ P!Coalesced(G) /\ Holds(r.h, G, G.fl) /\ r.p = q
             /\ Untouched(h, r.h, H, P!Allocated(H) \ {p})
             /\ Carried(h, r.h, p, q, n, s)
    <3>1. LET r0 == Moved(MMMalloc(h, n), p, H.size[p], n)
              G0 == P!Free(P!Malloc(H, n), p)
              q0 == P!Chosen(H, P!BlockSize(n))
          IN  /\ P!OutOfMemory(H, n) => r0 = [h |-> Die(h), p |-> NULL]
              /\ ~P!OutOfMemory(H, n) =>
                   /\ Proper(G0) /\ P!Coalesced(G0) /\ Holds(r0.h, G0, G0.fl) /\ r0.p = q0
                   /\ Untouched(h, r0.h, H, P!Allocated(H) \ {p})
                   /\ Carried(h, r0.h, p, q0, n, s)
      <4>1. /\ Proper(H) /\ P!Coalesced(H) /\ p \in P!Allocated(H) /\ n \in Nat /\ n > 0
            /\ n % 4 = 0 /\ n < SizeT \div 2 /\ Holds(h, H, H.fl)
            /\ s \in Nat /\ s % 4 = 0 /\ s + 8 <= H.size[p]
            /\ ~P!CanGrow(H, p, n)
        BY <1>3, <1>4, <1>5, <1>11
      <4> QED BY ONLY <4>1, MoveWords
    <3> QED BY <3>1, <2>2
  <2>5. CASE P!OutOfMemory(H, n)
    <3>1. ~r.h.ok
      <4>1. r.h = Die(h)
        BY <2>4, <2>5
      <4> QED BY <4>1, <1>4, DeadSits
    <3>2. Crash
      BY <3>1, <2>3, <1>1 DEF Realloc
    <3>3. Inv' /\ ~h'.ok /\ view'.heap = view.heap /\ view'.live = view.live
      BY <3>2, CrashStep
    <3> QED BY <3>3, <2>5, <1>1, <1>3, <1>11, RefinesReallocCrash
  <2>6. CASE ~P!OutOfMemory(H, n)
    <3>1. PICK g : g = r.h
      OBVIOUS
    <3>2. MMRealloc(h, p, n) = [h |-> g, p |-> q]
      <4>1. r = [h |-> r.h, p |-> r.p]
        BY <2>2, <2>4, <2>6 DEF Moved, MMMalloc, Taken
      <4> QED BY <4>1, <3>1, <2>3, <2>4, <2>6
    <3>3. PICK M : M = P!Malloc(H, n)
      OBVIOUS
    <3>4. /\ P!Settled(M) /\ q \notin P!Allocated(H)
          /\ P!Allocated(M) = P!Allocated(H) \cup {q}
          /\ P!SameBut(H, M, {q}) /\ M.size[q] >= P!BlockSize(n)
          /\ M.brk = IF P!Fits(H, P!BlockSize(n)) = {}
                     THEN H.brk + P!GrowBy(P!BlockSize(n)) ELSE H.brk
      BY <3>3, <2>2, <1>4, <1>5, <1>11, BlockAssumptions, P!MallocFacts
    <3>5. p \in P!Allocated(M)
      BY <3>4, <1>3
    <3>6. /\ G.brk = M.brk /\ P!Allocated(G) = P!Allocated(M) \ {p}
          /\ P!SameBut(M, G, {p})
      BY <3>3, <3>4, <3>5, <2>2, BlockAssumptions, P!FreeFacts
    <3>7. G.brk >= view.heap.brk
      <4>1. P!GrowBy(P!BlockSize(n)) \in Nat
        BY <1>5, BlockAssumptions, P!GrowByFacts
      <4> QED BY <4>1, <3>4, <3>6, <1>1, <1>4
    <3>8. Given(g, G, B, q, n)
      <4>1. q \in P!Allocated(G) /\ P!Allocated(G) \ {q} = P!Allocated(H) \ {p}
        BY <3>4, <3>6, <1>3
      <4>2. G.size[q] = M.size[q]
        BY <3>4, <3>6, <4>1 DEF P!SameBut
      <4>3. G.size[q] \in Nat
        BY <4>1, <2>4, <2>6, BlockFacts DEF Proper, P!Allocated
      <4>4. n + 8 <= G.size[q]
        BY <4>2, <4>3, <3>4, <1>5, <1>6
      <4>5. PICK A : A = P!Allocated(H) \ {p}
        OBVIOUS
      <4>6. \A x \in A : G.size[x] = H.size[x]
        <5> SUFFICES ASSUME NEW x \in A PROVE G.size[x] = H.size[x]
          OBVIOUS
        <5>1. x \in P!Allocated(H) /\ x # p /\ x # q /\ x \in P!Allocated(M)
          BY <4>5, <3>4
        <5>2. M.size[x] = H.size[x]
          BY <5>1, <3>4 DEF P!SameBut
        <5>3. G.size[x] = M.size[x]
          BY <5>1, <3>6 DEF P!SameBut
        <5> QED BY <5>2, <5>3
      <4>7. Books(B, A, G.size)
        BY <4>5, <4>6, <1>3, BooksResized
      <4>8. Proper(G) /\ P!Coalesced(G) /\ Holds(g, G, G.fl)
        BY <3>1, <2>4, <2>6
      <4> QED BY <4>1, <4>4, <4>5, <4>7, <4>8, <2>1 DEF Given
    <3>9. /\ Untouched(h, g, H, P!Allocated(H) \ {p})
          /\ Carried(h, g, p, q, n, s)
      BY <3>1, <2>4, <2>6
    <3>10. /\ Inv'
           /\ SmallIds => /\ h'.ok /\ view'.heap = G
                          /\ view'.live = Entered(Struck(view.live, p), q, n)
      BY <3>2, <3>7, <3>8, <3>9, <2>1, <1>1, ReallocServed
    <3>11. SmallIds => Refines
      BY <3>10, <2>2, <2>6, <1>1, <1>3, <1>11, RefinesMoves
    <3> QED BY <3>10, <3>11
  <2> QED BY <2>5, <2>6
<1> QED BY <1>5, <1>6, <1>7, <1>8, <1>9, <1>10, <1>11

-----------------------------------------------------------------------------
(* A request of a trace to free.                                           *)
LEMMA FreeStep ==
  ASSUME Inv, h.ok, NEW i \in DOMAIN block, Free(i), steps' \in 0 .. MaxSteps,
         view' = [heap |-> HeapOf(h'), live |-> LiveOf(block')]
  PROVE  Inv' /\ Refines
<1>1. PICK H, p, s, B : H = view.heap /\ p = block[i].p /\ s = block[i].size /\ B = Drop(block, i)
  OBVIOUS
<1>2. verdict = NoError
  BY DEF Free
<1>3. /\ p \in P!Allocated(H) /\ p \in DOMAIN view.live /\ s \in Nat
      /\ Books(B, P!Allocated(H) \ {p}, H.size)
      /\ LiveOf(B) = Struck(view.live, p)
      /\ phase = "valid" => Filled(h, B) /\ Recorded(R!Removed(ranges, p), B)
      /\ phase = "util" => Tally(LiveOf(B), total - s)
  BY <1>1, <1>2, HeldFacts
<1>4. /\ Proper(H) /\ P!Coalesced(H) /\ Holds(h, H, H.fl) /\ Table(block)
      /\ H.brk \in Nat /\ ranges \in Seq(R!Extents) /\ phase \in Phases
      /\ total \in Int /\ peak \in Nat
  BY <1>1, InvNow DEF Proper, Fits, P!HeapType
<1>5. PICK g, F : g = MMFree(h, p) /\ F = P!Free(H, p)
  OBVIOUS
<1>6. /\ Proper(F) /\ P!Coalesced(F) /\ Holds(g, F, F.fl)
      /\ SameWords(h, g, Zones(H, H.free \cup {p}))
  BY <1>3, <1>4, <1>5, FreeWords
<1>7. Untouched(h, g, H, P!Allocated(H) \ {p})
  BY <1>3, <1>4, <1>6, FreeUntouched
<1>8. /\ F.brk = H.brk /\ P!Allocated(F) = P!Allocated(H) \ {p} /\ P!SameBut(H, F, {p})
  <2>1. P!Settled(H)
    BY <1>4, ProperIsSound DEF P!Settled
  <2> QED BY <2>1, <1>3, <1>5, BlockAssumptions, P!FreeFacts
<1>9. Sits(g, F) /\ g.ok
  BY <1>6, SitsIsHolds
<1>10. /\ h' = g /\ block' = B /\ phase' = phase /\ verdict' = NoError /\ peak' = peak
       /\ ranges' = IF phase = "valid" THEN R!Removed(ranges, p) ELSE ranges
       /\ total' = IF phase = "util" THEN total - s ELSE total
  BY <1>1, <1>2, <1>5 DEF Free, Forget, Drop
<1>11. Books(B, P!Allocated(F), F.size)
  <2>1. PICK A : A = P!Allocated(H) \ {p}
    OBVIOUS
  <2>2. \A q \in A : F.size[q] = H.size[q]
    BY <2>1, <1>8 DEF P!SameBut
  <2>3. Books(B, A, H.size)
    BY <2>1, <1>3
  <2>4. Books(B, A, F.size)
    BY <2>2, <2>3, BooksResized
  <2> QED BY <2>1, <2>4, <1>8
<1>12. Table(B)
  BY <1>1, <1>4 DEF Table, Drop
<1>13. phase = "valid" => Filled(g, B)
  <2>1. P!Allocated(H) \ {p} \in SUBSET P!Allocated(H)
    OBVIOUS
  <2> QED BY <2>1, <1>3, <1>4, <1>7, FilledKept
<1>14. OnRecord(h', F, block', ranges', phase', verdict')
  <2>1. /\ ranges' \in Seq(R!Extents)
        /\ phase = "valid" => Recorded(ranges', B)
    BY <1>3, <1>4, <1>10 DEF Recorded
  <2>2. /\ NoError \in [what : Complaints, size : Requests \cup {0}]
        /\ ~Lost(NoError) /\ NoError.size = 0
    BY DEF NoError, Complaints, Lost
  <2> QED BY <2>1, <2>2, <1>4, <1>10, <1>11, <1>12, <1>13 DEF OnRecord
<1>15. Totals(F, block', phase', verdict', total', peak')
  <2>1. /\ peak <= H.brk - HeapLo
        /\ phase # "util" => total = 0 /\ peak = 0
    BY <1>1 DEF Inv, Totals
  <2>2. total - s \in Int /\ total' \in Int
    BY <1>3, <1>4, <1>10
  <2>3. phase = "util" => Tally(LiveOf(B), total')
    BY <1>3, <1>10
  <2>4. phase # "util" => total' = 0 /\ peak = 0
    BY <2>1, <1>10
  <2>5. peak <= F.brk - HeapLo
    BY <2>1, <1>8
  <2>6. Totals(F, B, phase, NoError, total', peak)
    <3>1. PICK t : t = total'
      OBVIOUS
    <3> QED BY <3>1, <2>2, <2>3, <2>4, <2>5, <1>4 DEF Totals
  <2> QED BY <2>6, <1>10
<1>16. Inv' /\ view'.heap = F /\ view'.live = LiveOf(block')
  BY <1>9, <1>10, <1>14, <1>15, InvAfter
<1>17. Refines
  BY <1>1, <1>3, <1>5, <1>9, <1>10, <1>16, RefinesFree
<1> QED BY <1>16, <1>17

(* A phase starts on a rewound heap.  The trace before it has freed all    *)
(* it held, or mm_init would meet a free_list that leads into memory it    *)
(* is about to lay out anew.                                               *)
LEMMA RestartStep ==
  ASSUME Balanced, Inv, h.ok, NEW next \in Phases, Restart(next),
         ranges' \in Seq(R!Extents), next = "valid" => ranges' = <<>>,
         steps' \in 0 .. MaxSteps,
         view' = [heap |-> HeapOf(h'), live |-> LiveOf(block')]
  PROVE  Inv' /\ Refines
<1>1. PICK H : H = view.heap
  OBVIOUS
<1>2. Sits(h, H) /\ block = NoBlocks /\ OnRecord(h, H, block, ranges, phase, verdict)
  BY <1>1 DEF Inv, Restart
<1>3. Books(NoBlocks, P!Allocated(H), H.size)
  BY <1>2 DEF OnRecord
<1>4. P!Allocated(H) = {}
  BY <1>3, BooksEmpty
<1>5. h \in Machine /\ h.fl \in {NULL, Base}
  BY <1>2, <1>4, EmptyList DEF Sits
<1>6. Sits(Reborn, P!InitHeap) /\ Reborn.ok
  BY <1>5, RebornSits DEF Reborn
<1>7. /\ h' = Reborn /\ block' = NoBlocks /\ phase' = next /\ verdict' = NoError
      /\ total' = 0 /\ peak' = 0
  BY DEF Restart
<1>8. /\ OnRecord(h', P!InitHeap, NoBlocks, ranges', next, NoError)
      /\ Totals(P!InitHeap, NoBlocks, next, NoError, 0, 0)
  <2>1. PICK g, list : g = h' /\ list = ranges'
    OBVIOUS
  <2> QED BY <2>1, FreshRecord
<1>9. Inv' /\ view'.heap = P!InitHeap /\ view'.live = LiveOf(block')
  BY <1>6, <1>7, <1>8, InvAfter
<1>10. /\ view'.heap = Detailed!InitHeap /\ view'.live = Detailed!NoBlock
       /\ h'.ok
  BY <1>6, <1>7, <1>9, SameInit, LiveNone, SameSizes
<1>11. Detailed!Restart
  BY <1>10 DEF Detailed!Restart
<1>12. Detailed!Next
  BY <1>11 DEF Detailed!Next
<1> QED BY <1>9, <1>12 DEF Refines

-----------------------------------------------------------------------------
(* The invariant holds in the beginning and every step keeps it.           *)

(* A fresh process.                                                        *)
LEMMA InitInv ==
  ASSUME Init
  PROVE  Inv /\ Detailed!Init
<1>1. MemInit \in Machine /\ MemInit.ok /\ MemInit.fl \in {NULL, Base}
  BY MemAssumption DEF MemInit, Machine, NULL
<1>2. Sits(h, P!InitHeap) /\ h.ok
  BY <1>1, RebornSits DEF Init
<1>3. /\ block = NoBlocks /\ ranges = <<>> /\ phase = "valid" /\ verdict = NoError
      /\ total = 0 /\ peak = 0 /\ steps = 0
      /\ view = [heap |-> HeapOf(h), live |-> LiveOf(block)]
  BY DEF Init
<1>4. /\ OnRecord(h, P!InitHeap, block, ranges, phase, verdict)
      /\ Totals(P!InitHeap, block, phase, verdict, total, peak)
  <2>1. <<>> \in Seq(R!Extents) /\ "valid" \in Phases
    BY DEF Phases
  <2> QED BY <2>1, <1>3, FreshRecord
<1>5. view.heap = P!InitHeap /\ view.live = LiveOf(block)
  BY <1>2, <1>3, SitsIsHeap
<1>6. Inv
  <2>1. steps \in 0 .. MaxSteps
    BY <1>3, TraceAssumption
  <2> QED BY <2>1, <1>2, <1>3, <1>4, <1>5 DEF Inv, Mapped
<1>7. Detailed!Init
  BY <1>2, <1>3, <1>5, SameInit, LiveNone, SameSizes DEF Detailed!Init
<1> QED BY <1>6, <1>7

(* A step of the driver.                                                   *)
LEMMA NextInv ==
  ASSUME Balanced, Inv, Next
  PROVE  Inv' /\ (SmallIds => Refines)
<1>1. /\ h.ok /\ steps' \in 0 .. MaxSteps
      /\ view' = [heap |-> HeapOf(h'), live |-> LiveOf(block')]
  <2>1. steps \in 0 .. MaxSteps /\ MaxSteps \in Nat
    BY TraceAssumption DEF Inv
  <2>2. steps < MaxSteps /\ steps' = steps + 1
    BY DEF Next
  <2>3. steps' \in 0 .. MaxSteps
    BY <2>1, <2>2
  <2> QED BY <2>3 DEF Next
<1>2. ASSUME NEW i \in Ids \ DOMAIN block, NEW n \in Requests, Alloc(i, n)
      PROVE  Inv' /\ Refines
  BY <1>1, <1>2, AllocStep
<1>3. ASSUME NEW i \in DOMAIN block, NEW n \in Requests, Realloc(i, n)
      PROVE  Inv' /\ (SmallIds => Refines)
  BY <1>1, <1>3, ReallocStep
<1>4. ASSUME NEW i \in DOMAIN block, Free(i)
      PROVE  Inv' /\ Refines
  BY <1>1, <1>4, FreeStep
<1>5. ranges \in Seq(R!Extents)
  BY DEF Inv, OnRecord
<1>6. CASE EvalMMValid
  <2>1. /\ Restart("valid") /\ ranges' = <<>> /\ "valid" \in Phases
        /\ ranges' \in Seq(R!Extents)
    BY <1>6 DEF EvalMMValid, Phases
  <2> QED BY <2>1, <1>1, RestartStep
<1>7. CASE EvalMMUtil
  <2>1. Restart("util") /\ ranges' \in Seq(R!Extents) /\ "util" \in Phases
    BY <1>5, <1>7 DEF EvalMMUtil, Phases
  <2> QED BY <2>1, <1>1, RestartStep
<1>8. CASE EvalMMSpeed
  <2>1. Restart("speed") /\ ranges' \in Seq(R!Extents) /\ "speed" \in Phases
    BY <1>5, <1>8 DEF EvalMMSpeed, Phases
  <2> QED BY <2>1, <1>1, RestartStep
<1> QED BY <1>2, <1>3, <1>4, <1>6, <1>7, <1>8 DEF Next

(* Nothing happens.                                                        *)
LEMMA StutterInv ==
  ASSUME Inv, UNCHANGED vars
  PROVE  Inv' /\ Refines
<1>1. Inv'
  BY DEF Inv, Mapped, vars
<1>2. view'.heap = view.heap /\ view'.live = view.live /\ h'.ok = h.ok
  BY DEF vars
<1> QED BY <1>1, <1>2, RefinesStutter

-----------------------------------------------------------------------------
(* What the invariant says of the words.                                   *)

(* The walk along the list words, and what it finds.                       *)
LEMMA ListRead ==
  ASSUME NEW H, NEW g, Sits(g, H), NEW k \in 0 .. Steps, Walk(g)[k] # NULL
  PROVE  /\ Walk(g)[k] \in H.free /\ k + 1 \in 1 .. Len(H.fl) /\ Walk(g)[k] = H.fl[k + 1]
         /\ NextFree(g, Walk(g)[k]) = At(H.fl, k + 2)
         /\ PrevFree(g, Walk(g)[k]) = At(H.fl, k)
         /\ k > 0 => Walk(g)[k - 1] = At(H.fl, k)
<1>1. /\ Fits(H) /\ ListOver(H.fl, H.free) /\ H.free \subseteq P!Blocks(H)
      /\ Linked(g, H.fl)
  BY ProperIsSound DEF Sits, Proper, Fits, P!HeapType
<1>2. PICK s : s = H.fl
  OBVIOUS
<1>3. s \in Seq(H.free) /\ s \in Seq(Cells)
  <2>1. H.free \subseteq Cells
    BY <1>1, BlockWords
  <2> QED BY <2>1, <1>1, <1>2 DEF ListOver
<1>4. \A j \in 0 .. Steps : Walk(g)[j] = At(s, j + 1)
  BY <1>1, <1>2, <1>3, WalkFacts
<1>5. k + 1 \in 1 .. Len(s) /\ Walk(g)[k] = s[k + 1]
  BY <1>4 DEF At
<1>6. /\ Get(g, s[k + 1]) = At(s, k + 2)
      /\ Get(g, s[k + 1] + 4) = At(s, k)
  <2>1. PICK j \in 1 .. Len(s) : j = k + 1
    BY <1>5
  <2>2. Get(g, s[j]) = At(s, j + 1) /\ Get(g, s[j] + WSIZE) = At(s, j - 1)
    BY <1>1, <1>2 DEF Linked
  <2>3. j + 1 = k + 2 /\ j - 1 = k
    BY <2>1
  <2> QED BY <2>1, <2>2, <2>3 DEF WSIZE
<1>7. k > 0 => Walk(g)[k - 1] = At(s, k)
  <2> SUFFICES ASSUME k > 0 PROVE Walk(g)[k - 1] = At(s, k)
    OBVIOUS
  <2>1. k - 1 \in 0 .. Steps /\ (k - 1) + 1 = k
    BY StepsType
  <2> QED BY <2>1, <1>4
<1>8. s[k + 1] \in H.free
  BY <1>3, <1>5
<1> QED BY <1>2, <1>5, <1>6, <1>7, <1>8 DEF NextFree, PrevFree, WSIZE

(* A set with at most one element.                                         *)
LEMMA AtMostOne ==
  ASSUME NEW S, NEW x, \A y \in S : y = x
  PROVE  ~(Cardinality(S) > 1)
<1>1. CASE S = {}
  BY <1>1, FS_EmptySet
<1>2. CASE S # {}
  <2>1. S = {x}
    BY <1>2
  <2> QED BY <2>1, FS_Singleton
<1> QED BY <1>1, <1>2

(* mm_check walks the list and is content.                                 *)
LEMMA CheckRead ==
  ASSUME NEW H, NEW g, Sits(g, H)
  PROVE  MMCheck(g) = 0
<1> DEFINE nth == Walk(g)
           listed == {k \in 0 .. Steps : nth[k] # NULL}
           outside(p) == p # NULL /\ (p < HeapLo \/ p > MemHeapHi(g))
<1>1. /\ Fits(H) /\ ListOver(H.fl, H.free) /\ H.free \subseteq P!Blocks(H)
      /\ Linked(g, H.fl) /\ Tags(g, H) /\ g.brk = H.brk /\ H.fl \in Seq(H.free)
      /\ Len(H.fl) \in Nat
  BY ProperIsSound DEF Sits, Proper, Fits, P!HeapType, ListOver
<1>2. ASSUME NEW b \in H.free PROVE b \in Nat /\ b # NULL /\ ~outside(b)
  <2>1. b \in P!Blocks(H)
    BY <1>1
  <2>2. /\ b \in Nat /\ b >= Base /\ P!End(H, b) = b + H.size[b]
        /\ H.size[b] \in Nat /\ H.size[b] >= 16 /\ P!End(H, b) <= H.brk /\ H.brk \in Nat
    BY <2>1, <1>1, BlockFacts
  <2>3. Base = HeapLo + 16 /\ HeapLo \in Nat
    BY MemAssumption DEF Base, WSIZE
  <2> QED BY <2>2, <2>3, <1>1 DEF MemHeapHi, NULL
<1>3. \A i \in Int : ~outside(At(H.fl, i))
  <2> TAKE i \in Int
  <2>1. CASE i \in 1 .. Len(H.fl)
    <3>1. At(H.fl, i) \in H.free
      BY <2>1, <1>1 DEF At
    <3> QED BY <3>1, <1>2
  <2>2. CASE i \notin 1 .. Len(H.fl)
    BY <2>2 DEF At
  <2> QED BY <2>1, <2>2
<1>4. ASSUME NEW k \in listed
      PROVE  /\ ~IsAllocated(g, Header(nth[k]))
             /\ ~outside(NextFree(g, nth[k])) /\ ~outside(PrevFree(g, nth[k]))
             /\ PrevFree(g, nth[k]) = NULL => k = 0
             /\ NextFree(g, nth[k]) = NULL => k = Len(H.fl) - 1
  <2>1. k \in 0 .. Steps /\ k \in Int /\ Steps \in Nat
    BY StepsType
  <2>2. /\ nth[k] \in H.free /\ k + 1 \in 1 .. Len(H.fl)
        /\ NextFree(g, nth[k]) = At(H.fl, k + 2)
        /\ PrevFree(g, nth[k]) = At(H.fl, k)
    BY <2>1, ListRead
  <2> HIDE DEF nth, outside
  <2>3. ~IsAllocated(g, Header(nth[k]))
    BY <2>2, <1>1, ReadBlock
  <2>4. ~outside(At(H.fl, k + 2)) /\ ~outside(At(H.fl, k))
    BY <2>1, <1>3
  <2>5. k # 0 => At(H.fl, k) # NULL
    <3>1. k # 0 => k \in 1 .. Len(H.fl)
      BY <2>1, <2>2, <1>1
    <3> QED BY <3>1, <1>1, <1>2 DEF At
  <2>6. k # Len(H.fl) - 1 => At(H.fl, k + 2) # NULL
    <3>1. k # Len(H.fl) - 1 => k + 2 \in 1 .. Len(H.fl)
      BY <2>1, <2>2, <1>1
    <3> QED BY <3>1, <1>1, <1>2 DEF At
  <2> QED BY <2>2, <2>3, <2>4, <2>5, <2>6
<1>5. ~(g.fl # NULL /\ PrevFree(g, g.fl) # NULL)
  <2> SUFFICES ASSUME g.fl # NULL PROVE PrevFree(g, g.fl) = NULL
    OBVIOUS
  <2>1. g.fl = At(H.fl, 1)
    BY <1>1 DEF Linked
  <2>2. 1 \in 1 .. Len(H.fl) /\ g.fl = H.fl[1]
    BY <2>1 DEF At
  <2>3. Get(g, H.fl[1] + WSIZE) = At(H.fl, 1 - 1)
    BY <2>2, <1>1 DEF Linked
  <2>4. At(H.fl, 1 - 1) = NULL
    BY DEF At
  <2> QED BY <2>2, <2>3, <2>4 DEF PrevFree
<1>6. ~(Cardinality({k \in listed : PrevFree(g, nth[k]) = NULL}) > 1)
  <2>1. \A y \in {k \in listed : PrevFree(g, nth[k]) = NULL} : y = 0
    BY <1>4
  <2> QED BY <2>1, AtMostOne
<1>7. ~(Cardinality({k \in listed : NextFree(g, nth[k]) = NULL}) > 1)
  <2>1. \A y \in {k \in listed : NextFree(g, nth[k]) = NULL} : y = Len(H.fl) - 1
    BY <1>4
  <2> QED BY <2>1, AtMostOne
<1> QED BY <1>4, <1>5, <1>6, <1>7 DEF MMCheck

(* Tags and list of a machine that sits on a heap.                         *)
LEMMA TagsRead ==
  ASSUME NEW H, NEW g, Sits(g, H)
  PROVE  /\ Get(g, Base - 12) = Word(DSIZE, 1) /\ Get(g, Base - 8) = Word(DSIZE, 1)
         /\ Get(g, g.brk - WSIZE) = Word(0, 1)
         /\ \A b \in BlocksOf(g) : Get(g, Header(b)) = Get(g, Footer(g, b))
<1>1. Fits(H) /\ Tags(g, H) /\ g.brk = H.brk
  BY DEF Sits, Proper
<1>2. ASSUME NEW b \in BlocksOf(g) PROVE Get(g, Header(b)) = Get(g, Footer(g, b))
  <2>1. b \in P!Blocks(H)
    BY <1>1, BlocksOfWords
  <2>2. Footer(g, b) = P!End(H, b) - 8 /\ P!End(H, b) = b + H.size[b]
        /\ b \in Nat /\ H.size[b] \in Nat
    BY <2>1, <1>1, ReadBlock, BlockFacts
  <2>3. Tagged(g, b, H.size[b], Bit(H, b))
    BY <2>1, <1>1 DEF Tags
  <2>4. (b + H.size[b]) - 8 = b + H.size[b] - 8
    BY <2>2
  <2>5. Get(g, b - 4) = Get(g, b + H.size[b] - 8)
    BY <2>3 DEF Tagged, WSIZE, DSIZE
  <2> QED BY <2>2, <2>4, <2>5 DEF Header, WSIZE
<1> QED BY <1>1, <1>2 DEF Tags, Ends

-----------------------------------------------------------------------------
(* The theorems.                                                           *)

(* The words are always those of a heap of BlockHeap, and the driver's     *)
(* tables and totals those of the blocks allocated there, provided every   *)
(* trace frees what it allocated before the next phase rewinds the heap.   *)
THEOREM InductiveInvariant ==
  ASSUME Balanced
  PROVE  Spec => []Inv
<1>1. Init => Inv
  BY InitInv
<1>2. Inv /\ [Next]_vars => Inv'
  BY NextInv, StutterInv
<1> QED BY <1>1, <1>2, PTL DEF Spec

(* Every variable keeps its type: the machine's registers and words, the   *)
(* table, the list of extents, the phase, the verdict and the totals.      *)
THEOREM TypeCorrect ==
  ASSUME Balanced
  PROVE  Spec => []TypeOK
<1>1. Inv => TypeOK
  BY DEF Inv, Sits, Machine, OnRecord, Table, Totals, Phases, Complaints, TypeOK, R!TypeOK
<1> QED BY <1>1, InductiveInvariant, PTL

(* Whatever the client asked for, header and footer of every block agree,  *)
(* and prologue and epilogue are intact.                                   *)
THEOREM TagsAgree ==
  ASSUME Balanced
  PROVE  Spec => []BoundaryTags
<1>1. Inv => BoundaryTags
  BY TagsRead DEF Inv, BoundaryTags
<1> QED BY <1>1, InductiveInvariant, PTL

(* The words in the payloads of the free blocks link them in both          *)
(* directions.                                                             *)
THEOREM LinksAgree ==
  ASSUME Balanced
  PROVE  Spec => []ListDoublyLinked
<1>1. Inv => ListDoublyLinked
  <2> SUFFICES ASSUME Inv, NEW k \in 0 .. Steps, Walk(h)[k] # NULL
               PROVE  PrevFree(h, Walk(h)[k]) = (IF k = 0 THEN NULL ELSE Walk(h)[k - 1])
    BY DEF ListDoublyLinked
  <2>1. Sits(h, view.heap)
    BY DEF Inv
  <2>2. /\ PrevFree(h, Walk(h)[k]) = At(view.heap.fl, k)
        /\ k > 0 => Walk(h)[k - 1] = At(view.heap.fl, k)
    BY <2>1, ListRead
  <2>3. k = 0 => At(view.heap.fl, k) = NULL
    BY DEF At
  <2>4. k = 0 \/ k > 0
    BY StepsType
  <2> QED BY <2>2, <2>3, <2>4
<1> QED BY <1>1, InductiveInvariant, PTL

(* mm_check would never report a thing.                                    *)
THEOREM CheckerNeverReports ==
  ASSUME Balanced
  PROVE  Spec => []CheckerSilent
<1>1. Inv => CheckerSilent
  BY CheckRead DEF Inv, CheckerSilent
<1> QED BY <1>1, InductiveInvariant, PTL

(* The utilization eval_mm_util computes is at most one.                   *)
THEOREM UtilizationBounded ==
  ASSUME Balanced
  PROVE  Spec => []UtilAtMostOne
<1>1. Inv => UtilAtMostOne
  BY DEF Inv, Totals, Sits, UtilAtMostOne, MemHeapSize
<1> QED BY <1>1, InductiveInvariant, PTL

(* While the first phase has met no error, the extents on record are those *)
(* of the payloads the trace holds.                                        *)
THEOREM RangesAreBlocks ==
  ASSUME Balanced
  PROVE  Spec => []RangesMatchBlocks
<1>1. Inv => RangesMatchBlocks
  <2> SUFFICES ASSUME Inv, phase = "valid", verdict = NoError
               PROVE  ToSet(ranges) = {R!Extent(block[i].p, block[i].size) : i \in DOMAIN block}
    BY DEF RangesMatchBlocks
  <2>1. Recorded(ranges, block)
    BY DEF Inv, OnRecord
  <2>2. P!ToSet(ranges) = ToSet(ranges)
    BY DEF P!ToSet, ToSet
  <2> QED BY <2>1, <2>2 DEF Recorded, ExtentsOf
<1> QED BY <1>1, InductiveInvariant, PTL

(* mm_init forgets the past, if the trace before freed all it allocated.   *)
THEOREM BalancedInitForgets ==
  ASSUME Balanced
  PROVE  Spec => InitForgetsThePast
<1>1. ASSUME Inv, Next, NEW next \in Phases, Restart(next)
      PROVE  HeapOf(h') = Detailed!InitHeap
  <2>1. PICK H : H = view.heap
    OBVIOUS
  <2>2. Sits(h, H) /\ OnRecord(h, H, block, ranges, phase, verdict) /\ h.ok
    BY <1>1, <2>1 DEF Inv, Next
  <2>3. block = NoBlocks /\ h' = Reborn
    BY <1>1 DEF Restart
  <2>4. P!Allocated(H) = {}
    BY <2>2, <2>3, BooksEmpty DEF OnRecord
  <2>5. h \in Machine /\ h.fl \in {NULL, Base}
    BY <2>2, <2>4, EmptyList DEF Sits
  <2>6. Sits(h', P!InitHeap)
    BY <2>2, <2>3, <2>5, RebornSits DEF Reborn
  <2> QED BY <2>6, SitsIsHeap, SameInit
<1>2. Inv /\ [Next]_vars =>
        [(\E next \in {"valid", "util", "speed"} : Restart(next)) =>
           HeapOf(h') = Detailed!InitHeap]_vars
  BY <1>1 DEF Phases
<1> QED BY <1>2, InductiveInvariant, PTL DEF Spec, InitForgetsThePast

(* Where a plain char holds every fill byte, no call writes into a payload *)
(* the client holds, and a block that moves takes its contents along.      *)
THEOREM PayloadsStayIntact ==
  ASSUME Balanced, SmallIds
  PROVE  Spec => []PayloadsIntact
<1>1. Inv => PayloadsIntact
  <2> SUFFICES ASSUME Inv, phase = "valid" PROVE Filled(h, block)
    BY DEF PayloadsIntact, Filled
  <2>1. ~Lost(verdict)
    BY DEF Inv, OnRecord
  <2> QED BY <2>1 DEF Inv, OnRecord
<1> QED BY <1>1, InductiveInvariant, PTL

(* And the driver never finds fault with the package but for the NULL that *)
(* answers a request for zero bytes.                                       *)
THEOREM DriverIsSatisfied ==
  ASSUME Balanced, SmallIds
  PROVE  Spec => []DriverSatisfied
<1>1. Inv => DriverSatisfied
  <2> SUFFICES ASSUME Inv, verdict # NoError PROVE verdict.size = 0
    BY DEF DriverSatisfied
  <2>1. ~Lost(verdict)
    BY DEF Inv, OnRecord
  <2> QED BY <2>1 DEF Inv, OnRecord
<1> QED BY <1>1, InductiveInvariant, PTL

(* The words implement the blocks: every step of the driver over the words *)
(* is a step of BlockHeap on the heap and client read back from them, or   *)
(* changes neither.                                                        *)
THEOREM WordsImplementBlocks ==
  ASSUME Balanced, SmallIds
  PROVE  Spec => ImplementsBlocks
<1>1. Init => Detailed!Init
  BY InitInv
<1>2. Inv /\ [Next]_vars => [Detailed!Next]_(Detailed!vars)
  BY NextInv, StutterInv DEF Refines
<1> QED BY <1>1, <1>2, InductiveInvariant, PTL DEF Spec, ImplementsBlocks, Detailed!Spec

-----------------------------------------------------------------------------
(* What is proved of BlockHeap, of the heap and client read back.  The     *)
(* theorems come with an instance of their own, whose operators are those  *)
(* of Detailed: both are those of P.                                       *)

Proved == INSTANCE BlockHeapProofs WITH
  heap <- view.heap, live <- view.live, crashed <- ~h.ok

(* What BlockHeap assumes.                                                 *)
LEMMA ProvedAssumptions ==
  /\ Chunk \in Nat /\ Chunk % 8 = 0 /\ Chunk >= 16
  /\ HeapLo \in Nat /\ HeapLo % 8 = 0
  /\ MaxHeap \in Nat /\ HeapLo + 16 + Chunk <= MaxHeap
  /\ Requests \subseteq Nat
BY MemAssumption, ChunkAssumption, TraceAssumption

(* The free list.                                                          *)
LEMMA ProvedList ==
  ASSUME NEW s, NEW b
  PROVE  Proved!Push(s, b) = P!Push(s, b) /\ Proved!Unlink(s, b) = P!Unlink(s, b)
<1>1. Proved!Push(s, b) = P!Push(s, b)
  BY DEF Proved!Push, P!Push
<1>2. Proved!Unlink(s, b) = P!Unlink(s, b)
  BY DEF Proved!Unlink, P!Unlink, Proved!ToSet, P!ToSet, Proved!RemoveAt, P!RemoveAt
<1> QED BY <1>1, <1>2

(* Sizes and ends of blocks.                                               *)
LEMMA ProvedSizes ==
  ASSUME NEW H, NEW b, NEW n
  PROVE  /\ Proved!BlockSize(n) = P!BlockSize(n) /\ Proved!MinBlock = P!MinBlock
         /\ Proved!Base = P!Base /\ Proved!NoBlock = P!NoBlock
         /\ Proved!End(H, b) = P!End(H, b) /\ Proved!Blocks(H) = P!Blocks(H)
         /\ Proved!GrowBy(n) = P!GrowBy(n) /\ Proved!Fits(H, n) = P!Fits(H, n)
<1>1. Proved!BlockSize(n) = P!BlockSize(n) /\ Proved!MinBlock = P!MinBlock
  BY DEF Proved!BlockSize, P!BlockSize, Proved!MinBlock, P!MinBlock, Proved!Align, P!Align
<1>2. Proved!Base = P!Base /\ Proved!NoBlock = P!NoBlock
  BY DEF Proved!Base, P!Base, Proved!NoBlock, P!NoBlock
<1>3. Proved!End(H, b) = P!End(H, b) /\ Proved!Blocks(H) = P!Blocks(H)
  BY DEF Proved!End, P!End, Proved!Blocks, P!Blocks
<1>4. Proved!GrowBy(n) = P!GrowBy(n)
  BY DEF Proved!GrowBy, P!GrowBy
<1>5. Proved!Fits(H, n) = P!Fits(H, n)
  BY DEF Proved!Fits, P!Fits
<1> QED BY <1>1, <1>2, <1>3, <1>4, <1>5

(* Joining.                                                                *)
LEMMA ProvedJoin ==
  ASSUME NEW H, NEW b
  PROVE  Proved!Join(H, b) = P!Join(H, b)
<1>1. Proved!Unlink(H.fl, P!End(H, b)) = P!Unlink(H.fl, P!End(H, b))
  BY ProvedList
<1>2. Proved!End(H, b) = P!End(H, b) /\ Proved!Blocks(H) = P!Blocks(H)
  BY ProvedSizes
<1> QED BY <1>1, <1>2 DEF Proved!Join, P!Join

(* Coalescing.                                                             *)
LEMMA ProvedCoalesce ==
  ASSUME NEW H, NEW b
  PROVE  Proved!Coalesce(H, b) = P!Coalesce(H, b)
<1> DEFINE prev == {p \in H.free : P!End(H, p) = b}
           next == IF P!End(H, b) \in H.free THEN P!Join(H, b) ELSE H
           q == CHOOSE p \in prev : TRUE
           all == IF prev = {} THEN next ELSE P!Join(next, q)
           first == IF prev = {} THEN b ELSE q
<1>1. P!Coalesce(H, b) = [all EXCEPT !.fl = P!Push(P!Unlink(all.fl, first), first)]
  BY DEF P!Coalesce
<1>2. {p \in H.free : Proved!End(H, p) = b} = prev
  BY ProvedSizes
<1>3. (IF Proved!End(H, b) \in H.free THEN Proved!Join(H, b) ELSE H) = next
  BY ProvedSizes, ProvedJoin
<1> HIDE DEF prev, next, q
<1>4. (IF prev = {} THEN next ELSE Proved!Join(next, q)) = all
  BY ProvedJoin
<1> HIDE DEF all, first
<1>5. Proved!Push(Proved!Unlink(all.fl, first), first) = P!Push(P!Unlink(all.fl, first), first)
  BY ProvedList
<1>6. Proved!Coalesce(H, b)
        = [all EXCEPT !.fl = Proved!Push(Proved!Unlink(all.fl, first), first)]
  BY <1>2, <1>3, <1>4 DEF Proved!Coalesce, first, q
<1> QED BY <1>1, <1>5, <1>6

(* Extending the heap.                                                     *)
LEMMA ProvedExtend ==
  ASSUME NEW H, NEW bytes
  PROVE  Proved!Extend(H, bytes) = P!Extend(H, bytes)
<1> DEFINE G == P!Grown(H, bytes)
<1>1. P!Extend(H, bytes) = P!Coalesce(G, H.brk)
  BY DEF P!Extend, P!Grown
<1>2. Proved!Extend(H, bytes) = Proved!Coalesce(G, H.brk)
  BY ProvedList, ProvedSizes DEF Proved!Extend, P!Grown
<1> HIDE DEF G
<1> QED BY <1>1, <1>2, ProvedCoalesce

(* Splitting.                                                              *)
LEMMA ProvedPlace ==
  ASSUME NEW H, NEW b, NEW bytes
  PROVE  Proved!Place(H, b, bytes) = P!Place(H, b, bytes)
BY ProvedList, ProvedSizes DEF Proved!Place, P!Place

(* mm_malloc.                                                              *)
LEMMA ProvedMalloc ==
  ASSUME NEW H, NEW n
  PROVE  /\ Proved!OutOfMemory(H, n) <=> P!OutOfMemory(H, n)
         /\ Proved!Chosen(H, P!BlockSize(n)) = P!Chosen(H, P!BlockSize(n))
         /\ Proved!Malloc(H, n) = P!Malloc(H, n)
<1> DEFINE bytes == P!BlockSize(n)
           G == P!Room(H, bytes)
           b == P!Chosen(H, bytes)
<1>1. Proved!BlockSize(n) = bytes /\ Proved!Fits(H, bytes) = P!Fits(H, bytes)
      /\ Proved!GrowBy(bytes) = P!GrowBy(bytes)
  BY ProvedSizes
<1> HIDE DEF bytes
<1>2. Proved!OutOfMemory(H, n) <=> P!OutOfMemory(H, n)
  BY <1>1 DEF Proved!OutOfMemory, P!OutOfMemory, bytes
<1>3. Proved!Room(H, bytes) = G
  BY <1>1, ProvedExtend DEF Proved!Room, P!Room
<1>4. Proved!Chosen(H, bytes) = b
  BY <1>1, <1>3 DEF Proved!Chosen, P!Chosen, Proved!FindFit, P!FindFit
<1>5. Proved!Malloc(H, n)
        = Proved!Place([G EXCEPT !.fl = Proved!Unlink(@, b)], b, bytes)
  BY <1>1, <1>3, <1>4 DEF Proved!Malloc
<1>6. P!Malloc(H, n) = P!Place([G EXCEPT !.fl = P!Unlink(@, b)], b, bytes)
  BY DEF P!Malloc, bytes
<1> HIDE DEF G, b
<1>7. Proved!Unlink(G.fl, b) = P!Unlink(G.fl, b)
  BY ProvedList
<1>8. [G EXCEPT !.fl = Proved!Unlink(@, b)] = [G EXCEPT !.fl = P!Unlink(@, b)]
  BY <1>7
<1>9. Proved!Malloc(H, n) = P!Malloc(H, n)
  BY <1>5, <1>6, <1>8, ProvedPlace
<1> QED BY <1>2, <1>4, <1>9 DEF bytes, b

(* mm_free.                                                                *)
LEMMA ProvedFree ==
  ASSUME NEW H, NEW p
  PROVE  Proved!Free(H, p) = P!Free(H, p)
<1>1. P!Free(H, p) = P!Coalesce(P!Freed(H, p), p)
  BY DEF P!Free, P!Freed
<1>2. Proved!Free(H, p) = Proved!Coalesce(P!Freed(H, p), p)
  BY ProvedList DEF Proved!Free, P!Freed
<1> QED BY <1>1, <1>2, ProvedCoalesce

(* The initial heap.                                                       *)
LEMMA ProvedInit ==
  Proved!InitHeap = P!InitHeap
BY ProvedSizes, ProvedExtend DEF Proved!InitHeap, P!InitHeap

(* Whether mm_realloc can take in the block behind.                        *)
LEMMA ProvedCanGrow ==
  ASSUME NEW H, NEW p, NEW n
  PROVE  Proved!CanGrow(H, p, n) <=> P!CanGrow(H, p, n)
BY ProvedSizes DEF Proved!CanGrow, P!CanGrow

(* The calls are the same under both.                                      *)
LEMMA SameCalls ==
  ASSUME NEW p, NEW n
  PROVE  /\ Detailed!MallocCall(n) <=> Proved!MallocCall(n)
         /\ Detailed!MallocCrash(n) <=> Proved!MallocCrash(n)
         /\ Detailed!FreeCall(p) <=> Proved!FreeCall(p)
         /\ Detailed!ReallocFits(p, n) <=> Proved!ReallocFits(p, n)
         /\ Detailed!ReallocGrows(p, n) <=> Proved!ReallocGrows(p, n)
         /\ Detailed!ReallocMoves(p, n) <=> Proved!ReallocMoves(p, n)
         /\ Detailed!ReallocCrash(p, n) <=> Proved!ReallocCrash(p, n)
<1> DEFINE H == view.heap
           bytes == P!BlockSize(n)
<1>1. /\ Detailed!BlockSize(n) = bytes /\ Proved!BlockSize(n) = bytes
      /\ Detailed!OutOfMemory(H, n) <=> Proved!OutOfMemory(H, n)
      /\ Detailed!Chosen(H, bytes) = Proved!Chosen(H, bytes)
      /\ Detailed!Malloc(H, n) = Proved!Malloc(H, n)
      /\ Detailed!CanGrow(H, p, n) <=> Proved!CanGrow(H, p, n)
      /\ Detailed!Free(H, p) = Proved!Free(H, p)
  BY SameSizes, ProvedSizes, SameMalloc, ProvedMalloc, SameCanGrow, ProvedCanGrow,
     SameFree, ProvedFree
<1>2. Detailed!Free(Detailed!Malloc(H, n), p) = Proved!Free(Proved!Malloc(H, n), p)
  BY <1>1, SameFree, ProvedFree
<1>3. Detailed!Place(Detailed!Join(H, p), p, bytes) = Proved!Place(Proved!Join(H, p), p, bytes)
  BY SamePlace, ProvedPlace, SameJoin, ProvedJoin
<1> HIDE DEF bytes
<1>4. Detailed!MallocCall(n) <=> Proved!MallocCall(n)
  BY <1>1 DEF Detailed!MallocCall, Proved!MallocCall, Detailed!With, Proved!With
<1>5. Detailed!MallocCrash(n) <=> Proved!MallocCrash(n)
  BY <1>1 DEF Detailed!MallocCrash, Proved!MallocCrash
<1>6. Detailed!FreeCall(p) <=> Proved!FreeCall(p)
  BY <1>1 DEF Detailed!FreeCall, Proved!FreeCall, Detailed!Without, Proved!Without
<1>7. Detailed!ReallocFits(p, n) <=> Proved!ReallocFits(p, n)
  BY <1>1 DEF Detailed!ReallocFits, Proved!ReallocFits, Detailed!With, Proved!With
<1>8. Detailed!ReallocGrows(p, n) <=> Proved!ReallocGrows(p, n)
  BY <1>1, <1>3 DEF Detailed!ReallocGrows, Proved!ReallocGrows, Detailed!With, Proved!With
<1>9. Detailed!ReallocMoves(p, n) <=> Proved!ReallocMoves(p, n)
  BY <1>1, <1>2 DEF Detailed!ReallocMoves, Proved!ReallocMoves
<1>10. Detailed!ReallocCrash(p, n) <=> Proved!ReallocCrash(p, n)
  BY <1>1 DEF Detailed!ReallocCrash, Proved!ReallocCrash
<1> QED BY <1>4, <1>5, <1>6, <1>7, <1>8, <1>9, <1>10

(* So are the behaviours.                                                  *)
LEMMA SameSpec == Detailed!Spec <=> Proved!Spec
<1>1. Detailed!Init <=> Proved!Init
  BY SameInit, ProvedInit DEF Detailed!Init, Proved!Init, Detailed!NoBlock, Proved!NoBlock
<1>2. Detailed!Restart <=> Proved!Restart
  BY SameInit, ProvedInit DEF Detailed!Restart, Proved!Restart, Detailed!NoBlock, Proved!NoBlock
<1>3. Detailed!Next <=> Proved!Next
  BY <1>2, SameCalls DEF Detailed!Next, Proved!Next
<1>4. [Detailed!Next]_(Detailed!vars) <=> [Proved!Next]_(Proved!vars)
  BY <1>3 DEF Detailed!vars, Proved!vars
<1> QED BY <1>1, <1>4, PTL DEF Detailed!Spec, Proved!Spec

(* And so is what MallocSpec demands of them.                              *)
LEMMA SamePromise == Proved!KeepsPromise <=> Detailed!KeepsPromise
<1>1. Proved!Promise!Start <=> Detailed!Promise!Start
  BY DEF Proved!Promise!Start, Detailed!Promise!Start, Proved!Promise!None,
       Detailed!Promise!None
<1>2. [Proved!Promise!Step]_(Proved!Promise!pvars) <=>
     [Detailed!Promise!Step]_(Detailed!Promise!pvars)
  BY DEF Proved!Promise!Start, Detailed!Promise!Start, Proved!Promise!Step,
       Detailed!Promise!Step, Proved!Promise!pvars, Detailed!Promise!pvars,
       Proved!Promise!None, Detailed!Promise!None, Proved!Promise!Obtain,
       Detailed!Promise!Obtain, Proved!Promise!Release, Detailed!Promise!Release,
       Proved!Promise!Resize, Detailed!Promise!Resize, Proved!Promise!GiveUp,
       Detailed!Promise!GiveUp, Proved!Promise!Reset, Detailed!Promise!Reset,
       Proved!Promise!Grow, Detailed!Promise!Grow, Proved!Promise!Legal,
       Detailed!Promise!Legal, Proved!Promise!Except, Detailed!Promise!Except
<1> QED BY <1>1, <1>2, PTL DEF Proved!KeepsPromise, Detailed!KeepsPromise,
     Proved!Promise!PSpec, Detailed!Promise!PSpec

(* The words keep MallocSpec's promise: whatever the trace, every pointer  *)
(* mm.c computes from its tags and list words is aligned, its payload lies *)
(* within the heap and meets no payload held, and mm.c dies only when less *)
(* than the request, a chunk and 16 bytes are left.                        *)
THEOREM WordsKeepPromise ==
  ASSUME Balanced, SmallIds
  PROVE  Spec => Detailed!KeepsPromise
<1>1. Proved!Spec => Proved!KeepsPromise
  BY ProvedAssumptions, Proved!Refinement
<1> QED BY <1>1, WordsImplementBlocks, SameSpec, SamePromise, PTL DEF ImplementsBlocks

(* Headers and list words read back are always a well-formed heap: the     *)
(* blocks tile it, the list holds exactly the free ones, and no two free   *)
(* blocks are neighbours.                                                  *)
THEOREM WordsWellFormed ==
  ASSUME Balanced, SmallIds
  PROVE  Spec => []Detailed!WellFormed
<1>1. Proved!Spec => []Proved!WellFormed
  BY ProvedAssumptions, Proved!HeapWellFormed
<1>2. Proved!WellFormed => Detailed!WellFormed
  BY DEF Proved!WellFormed, Detailed!WellFormed, Proved!Tiled, Detailed!Tiled,
         Proved!Aligned, Detailed!Aligned, Proved!Base, Detailed!Base,
         Proved!Blocks, Detailed!Blocks, Proved!End, Detailed!End,
         Proved!MinBlock, Detailed!MinBlock, Proved!BlockSize, Detailed!BlockSize,
         Proved!Align, Detailed!Align, Proved!FreeListExact, Detailed!FreeListExact,
         Proved!IsInjective, Detailed!IsInjective, Proved!ToSet, Detailed!ToSet,
         Proved!Coalesced, Detailed!Coalesced
<1> QED BY <1>1, <1>2, WordsImplementBlocks, SameSpec, PTL DEF ImplementsBlocks

(* mem_sbrk is called only for a request that no block on the list of the  *)
(* words could hold.                                                       *)
THEOREM WordsGrowWhenFull ==
  ASSUME Balanced, SmallIds
  PROVE  Spec => Detailed!GrowsOnlyWhenFull
<1>1. Proved!Spec => Proved!GrowsOnlyWhenFull
  BY ProvedAssumptions, Proved!GrowthIsNeeded
<1>2. \A n : Proved!BlockSize(n) = Detailed!BlockSize(n)
  BY DEF Proved!BlockSize, Detailed!BlockSize, Proved!Align, Detailed!Align
<1>3. [view.heap'.brk > view.heap.brk =>
         \E q \in DOMAIN view.live' \ DOMAIN view.live :
           \A f \in view.heap.free :
             view.heap.size[f] < Proved!BlockSize(view.live'[q])]_(Proved!vars)
      => [view.heap'.brk > view.heap.brk =>
            \E q \in DOMAIN view.live' \ DOMAIN view.live :
              \A f \in view.heap.free :
                view.heap.size[f] < Detailed!BlockSize(view.live'[q])]_(Detailed!vars)
  BY <1>2 DEF Proved!vars, Detailed!vars
<1>4. Proved!GrowsOnlyWhenFull => Detailed!GrowsOnlyWhenFull
  BY <1>3, PTL DEF Proved!GrowsOnlyWhenFull, Detailed!GrowsOnlyWhenFull
<1> QED BY <1>1, <1>4, WordsImplementBlocks, SameSpec, PTL DEF ImplementsBlocks

=============================================================================
