-------------------------- MODULE BlockHeapProofs --------------------------
(***************************************************************************)
(* Proofs about BlockHeap, for every arena, chunk size and request set the *)
(* assumptions of that module admit.                                       *)
(***************************************************************************)
EXTENDS BlockHeap, WellFoundedInduction, TLAPS

-----------------------------------------------------------------------------
(* The free list.                                                          *)

(* A sequence whose elements all lie in T is a sequence over T.            *)
LEMMA SeqOverRange ==
  ASSUME NEW S, NEW T, NEW s \in Seq(S), ToSet(s) \subseteq T
  PROVE  s \in Seq(T)
<1>1. \A i \in 1 .. Len(s) : s[i] \in T
  BY DEF ToSet
<1>2. s = [i \in 1 .. Len(s) |-> s[i]] /\ Len(s) \in Nat
  OBVIOUS
<1> QED BY <1>1, <1>2

(* add_to_free_list puts a block that is not on the list at its head.      *)
LEMMA PushFacts ==
  ASSUME NEW S, NEW s \in Seq(S), NEW b \in S, IsInjective(s), b \notin ToSet(s)
  PROVE  /\ Push(s, b) \in Seq(S)
         /\ IsInjective(Push(s, b))
         /\ ToSet(Push(s, b)) = ToSet(s) \cup {b}
         /\ Push(s, b) # <<>> /\ Head(Push(s, b)) = b
<1> DEFINE t == Push(s, b)
<1>1. t \in Seq(S) /\ Len(t) = Len(s) + 1 /\ DOMAIN t = 1 .. Len(s) + 1
  BY DEF Push
<1>2. t[1] = b
  BY DEF Push
<1>3. \A i \in 1 .. Len(s) : t[i + 1] = s[i]
  BY DEF Push
<1>4. DOMAIN s = 1 .. Len(s) /\ Len(s) \in Nat
  OBVIOUS
<1> HIDE DEF t
<1>5. ToSet(t) = ToSet(s) \cup {b}
  <2>1. ASSUME NEW x \in ToSet(t) PROVE x \in ToSet(s) \cup {b}
    <3>1. PICK i \in 1 .. Len(s) + 1 : x = t[i]
      BY <2>1, <1>1 DEF ToSet
    <3>2. CASE i = 1
      BY <3>1, <3>2, <1>2
    <3>3. CASE i # 1
      <4>1. i - 1 \in 1 .. Len(s) /\ (i - 1) + 1 = i
        BY <3>3, <1>4
      <4> QED BY <4>1, <3>1, <1>3, <1>4 DEF ToSet
    <3> QED BY <3>2, <3>3
  <2>2. ASSUME NEW x \in ToSet(s) PROVE x \in ToSet(t)
    <3>1. PICK i \in 1 .. Len(s) : x = s[i]
      BY <2>2, <1>4 DEF ToSet
    <3>2. i + 1 \in 1 .. Len(s) + 1
      BY <1>4
    <3> QED BY <3>1, <3>2, <1>1, <1>3 DEF ToSet
  <2>3. b \in ToSet(t)
    <3>1. 1 \in DOMAIN t
      BY <1>1, <1>4
    <3> QED BY <3>1, <1>2 DEF ToSet
  <2> QED BY <2>1, <2>2, <2>3
<1>6. IsInjective(t)
  <2> SUFFICES ASSUME NEW i \in DOMAIN t, NEW j \in DOMAIN t, t[i] = t[j], i < j
               PROVE  FALSE
    BY <1>1, <1>4 DEF IsInjective
  <2>1. j - 1 \in 1 .. Len(s) /\ t[j] = s[j - 1]
    BY <1>1, <1>3, <1>4
  <2>2. CASE i = 1
    BY <2>1, <2>2, <1>2, <1>4 DEF ToSet
  <2>3. CASE i # 1
    <3>1. i - 1 \in 1 .. Len(s) /\ t[i] = s[i - 1]
      BY <2>3, <1>1, <1>3, <1>4
    <3>2. s[i - 1] = s[j - 1]
      BY <3>1, <2>1
    <3>3. i - 1 = j - 1
      BY <3>1, <3>2, <2>1, <1>4 DEF IsInjective
    <3> QED BY <3>3, <1>1, <1>4
  <2> QED BY <2>2, <2>3
<1>7. t # <<>> /\ Head(t) = b
  BY <1>1, <1>2
<1> QED BY <1>1, <1>5, <1>6, <1>7 DEF t

(* Removing one element shifts those after it down by one.                 *)
LEMMA RemoveAtFacts ==
  ASSUME NEW S, NEW s \in Seq(S), NEW i \in 1 .. Len(s)
  PROVE  /\ RemoveAt(s, i) \in Seq(S)
         /\ Len(RemoveAt(s, i)) = Len(s) - 1
         /\ \A j \in 1 .. Len(s) - 1 :
              RemoveAt(s, i)[j] = IF j < i THEN s[j] ELSE s[j + 1]
<1> DEFINE u == SubSeq(s, 1, i - 1)
           v == SubSeq(s, i + 1, Len(s))
<1>1. u \in Seq(S) /\ Len(u) = i - 1 /\ \A j \in 1 .. i - 1 : u[j] = s[j]
  OBVIOUS
<1>2. v \in Seq(S) /\ Len(v) = Len(s) - i /\ \A j \in 1 .. Len(s) - i : v[j] = s[i + j]
  OBVIOUS
<1> HIDE DEF u, v
<1>3. u \o v \in Seq(S) /\ Len(u \o v) = Len(u) + Len(v)
  <2>1. u \in Seq(S) /\ v \in Seq(S)
    BY <1>1, <1>2
  <2> QED BY <2>1
<1>4. \A j \in 1 .. Len(u) + Len(v) :
        (u \o v)[j] = IF j <= Len(u) THEN u[j] ELSE v[j - Len(u)]
  BY <1>1, <1>2
<1>5. RemoveAt(s, i) = u \o v
  BY DEF RemoveAt, u, v
<1>6. ASSUME NEW j \in 1 .. Len(s) - 1
      PROVE  (u \o v)[j] = IF j < i THEN s[j] ELSE s[j + 1]
  <2>1. j \in 1 .. Len(u) + Len(v)
    BY <1>1, <1>2
  <2>2. CASE j < i
    BY <2>1, <2>2, <1>1, <1>4
  <2>3. CASE ~(j < i)
    <3>1. j - (i - 1) \in 1 .. Len(s) - i /\ i + (j - (i - 1)) = j + 1
      BY <2>3
    <3>2. v[j - (i - 1)] = s[j + 1]
      BY <3>1, <1>2
    <3> QED BY <2>1, <2>3, <3>2, <1>1, <1>4
  <2> QED BY <2>2, <2>3
<1>7. Len(u) + Len(v) = Len(s) - 1
  BY <1>1, <1>2
<1> QED BY <1>3, <1>5, <1>6, <1>7

(* remove_from_free_list takes out the block it is given and no other, and *)
(* leaves the rest in order.                                               *)
LEMMA UnlinkFacts ==
  ASSUME NEW S, NEW s \in Seq(S), NEW b, IsInjective(s)
  PROVE  /\ Unlink(s, b) \in Seq(S)
         /\ IsInjective(Unlink(s, b))
         /\ ToSet(Unlink(s, b)) = ToSet(s) \ {b}
<1>1. CASE b \notin ToSet(s)
  BY <1>1 DEF Unlink
<1>2. CASE b \in ToSet(s)
  <2> DEFINE k == CHOOSE i \in DOMAIN s : s[i] = b
             t == RemoveAt(s, k)
  <2>1. k \in 1 .. Len(s) /\ s[k] = b /\ Len(s) \in Nat /\ DOMAIN s = 1 .. Len(s)
    BY <1>2 DEF ToSet
  <2>2. Unlink(s, b) = t
    BY <1>2 DEF Unlink
  <2> HIDE DEF k
  <2>3. /\ t \in Seq(S)
        /\ Len(t) = Len(s) - 1
        /\ \A j \in 1 .. Len(s) - 1 : t[j] = IF j < k THEN s[j] ELSE s[j + 1]
    BY <2>1, RemoveAtFacts
  <2> HIDE DEF t
  <2>4. DOMAIN t = 1 .. Len(s) - 1
    BY <2>3
  (* the position in s of the j-th element of t *)
  <2> DEFINE from(j) == IF j < k THEN j ELSE j + 1
  <2>5. \A j \in 1 .. Len(s) - 1 : from(j) \in 1 .. Len(s) /\ from(j) # k /\ t[j] = s[from(j)]
    BY <2>1, <2>3
  <2>6. IsInjective(t)
    <3> SUFFICES ASSUME NEW i \in 1 .. Len(s) - 1, NEW j \in 1 .. Len(s) - 1, t[i] = t[j]
                 PROVE  i = j
      BY <2>4 DEF IsInjective
    <3>1. from(i) = from(j)
      BY <2>1, <2>5 DEF IsInjective
    <3> QED BY <3>1, <2>1
  <2>7. ASSUME NEW x \in ToSet(t) PROVE x \in ToSet(s) \ {b}
    <3>1. PICK j \in 1 .. Len(s) - 1 : x = t[j]
      BY <2>4, <2>7 DEF ToSet
    <3>2. x = s[from(j)] /\ from(j) \in DOMAIN s /\ from(j) # k
      BY <3>1, <2>1, <2>5
    <3>3. x # b
      BY <3>2, <2>1 DEF IsInjective
    <3> QED BY <3>2, <3>3 DEF ToSet
  <2>8. ASSUME NEW x \in ToSet(s), x # b PROVE x \in ToSet(t)
    <3>1. PICK i \in 1 .. Len(s) : x = s[i]
      BY <2>1, <2>8 DEF ToSet
    <3>2. i # k
      BY <3>1, <2>1, <2>8
    <3>3. CASE i < k
      <4>1. i \in 1 .. Len(s) - 1 /\ t[i] = s[i]
        BY <3>3, <2>1, <2>3
      <4> QED BY <4>1, <3>1, <2>4 DEF ToSet
    <3>4. CASE i > k
      <4>1. i - 1 \in 1 .. Len(s) - 1 /\ (i - 1) + 1 = i /\ ~(i - 1 < k)
        BY <3>4, <2>1
      <4>2. t[i - 1] = s[i]
        BY <4>1, <2>3
      <4> QED BY <4>1, <4>2, <3>1, <2>4 DEF ToSet
    <3> QED BY <3>2, <3>3, <3>4, <2>1
  <2> QED BY <2>2, <2>3, <2>6, <2>7, <2>8
<1> QED BY <1>1, <1>2

-----------------------------------------------------------------------------
(* Sizes.                                                                  *)

(* A block has room for its request, and wastes less than a double word.   *)
LEMMA BlockSizeFacts ==
  ASSUME NEW n \in Nat
  PROVE  /\ BlockSize(n) \in Nat
         /\ BlockSize(n) % 8 = 0
         /\ n + 8 <= BlockSize(n) /\ BlockSize(n) <= n + 15
         /\ n > 0 => BlockSize(n) >= 16
BY DEF BlockSize, Align

(* The constants of the layout.                                            *)
LEMMA SizeFacts ==
  /\ Base \in Nat /\ Base % 8 = 0
  /\ MinBlock = 16
<1>1. Base \in Nat /\ Base % 8 = 0
  BY ArenaAssumption DEF Base
<1>2. MinBlock = 16
  BY DEF MinBlock, BlockSize, Align
<1> QED BY <1>1, <1>2

(* Cutting y bytes off the front of a block of z bytes at b.               *)
LEMMA CutFacts ==
  ASSUME NEW b \in Nat, NEW y \in Nat, NEW z \in Nat,
         b % 8 = 0, y % 8 = 0, z % 8 = 0, y <= z
  PROVE  /\ (b + y) % 8 = 0 /\ (z - y) % 8 = 0 /\ z - y \in Nat
         /\ (b + y) + (z - y) = b + z
         /\ z - y >= 16 => b + y < b + z
         /\ y >= 16 => b < b + y
OBVIOUS

-----------------------------------------------------------------------------
(* Heap surgery.  A sound heap is one whose blocks tile it and whose free  *)
(* list is exact; between two calls it is also coalesced.                  *)

Sound(H) == HeapType(H) /\ Tiled(H) /\ FreeListExact(H)

Allocated(H) == Blocks(H) \ H.free

(* H and G hand out the same blocks, but for those in A, at the same sizes *)
SameBut(H, G, A) ==
  /\ Allocated(H) \ A = Allocated(G) \ A
  /\ \A p \in Allocated(H) \ A : G.size[p] = H.size[p]

(* Merging a block with the free block after it.                           *)
LEMMA JoinFacts ==
  ASSUME NEW H, Sound(H), NEW b \in Blocks(H), End(H, b) \in H.free
  PROVE  LET J == Join(H, b)
             n == End(H, b)
         IN  /\ Sound(J)
             /\ J.brk = H.brk
             /\ J.free = H.free \ {n}
             /\ Blocks(J) = Blocks(H) \ {n}
             /\ n # b /\ b \in Blocks(J)
             /\ J.size[b] = H.size[b] + H.size[n]
             /\ End(J, b) = End(H, n)
             /\ \A c \in Blocks(J) \ {b} : J.size[c] = H.size[c] /\ End(J, c) = End(H, c)
<1> DEFINE J == Join(H, b)
           n == End(H, b)
<1>1. /\ HeapType(H) /\ Tiled(H) /\ FreeListExact(H)
      /\ n \in Blocks(H) /\ b \in Nat /\ n \in Nat
      /\ H.size[b] \in Nat /\ H.size[n] \in Nat
  BY DEF Sound, HeapType
<1>2. n = b + H.size[b] /\ H.size[b] >= 16 /\ n > b
  BY <1>1, SizeFacts DEF End, Tiled, Aligned
<1>3. J = [brk  |-> H.brk,
           size |-> [c \in Blocks(H) \ {n} |->
                       IF c = b THEN H.size[b] + H.size[n] ELSE H.size[c]],
           free |-> H.free \ {n},
           fl   |-> Unlink(H.fl, n)]
  BY DEF Join
<1> HIDE DEF J, n
<1>4. /\ J.brk = H.brk
      /\ J.free = H.free \ {n}
      /\ J.fl = Unlink(H.fl, n)
      /\ Blocks(J) = Blocks(H) \ {n}
      /\ b \in Blocks(J)
      /\ J.size[b] = H.size[b] + H.size[n]
      /\ \A c \in Blocks(J) \ {b} : J.size[c] = H.size[c]
  BY <1>1, <1>2, <1>3 DEF Blocks
<1>5. /\ End(J, b) = End(H, n)
      /\ \A c \in Blocks(J) \ {b} : End(J, c) = End(H, c)
  BY <1>1, <1>2, <1>4 DEF End
<1>6. FreeListExact(J) /\ J.fl \in Seq(Blocks(J))
  <2>1. /\ Unlink(H.fl, n) \in Seq(Blocks(H))
        /\ IsInjective(Unlink(H.fl, n))
        /\ ToSet(Unlink(H.fl, n)) = ToSet(H.fl) \ {n}
    BY <1>1, UnlinkFacts DEF HeapType, FreeListExact
  <2>2. ToSet(Unlink(H.fl, n)) = J.free /\ J.free \subseteq Blocks(J)
    BY <2>1, <1>1, <1>4 DEF FreeListExact, HeapType
  <2> QED BY <2>1, <2>2, <1>4, SeqOverRange DEF FreeListExact
<1>7. HeapType(J)
  <2>1. J = [brk |-> J.brk, size |-> J.size, free |-> J.free, fl |-> J.fl]
    BY <1>3
  <2>2. J.size \in [Blocks(J) -> Nat]
    BY <1>1, <1>3, <1>4 DEF HeapType
  <2> QED BY <2>1, <2>2, <1>1, <1>4, <1>6 DEF HeapType
<1>8. Tiled(J)
  <2>1. J.brk % 8 = 0 /\ Base \in Blocks(J) \cup {J.brk}
    BY <1>1, <1>2, <1>4 DEF Tiled, Aligned
  <2>2. Aligned(J)
    <3>1. H.size[b] % 8 = 0 /\ H.size[n] % 8 = 0 /\ H.size[n] >= 16
      BY <1>1, SizeFacts DEF Tiled, Aligned
    <3>2. (H.size[b] + H.size[n]) % 8 = 0 /\ H.size[b] + H.size[n] >= 16
      BY <3>1, <1>1, <1>2
    <3>3. ASSUME NEW c \in Blocks(J)
          PROVE  c >= Base /\ c % 8 = 0 /\ J.size[c] % 8 = 0 /\ J.size[c] >= 16
      BY <1>1, <1>4, <3>2, SizeFacts DEF Tiled, Aligned
    <3> QED BY <3>3, SizeFacts DEF Aligned
  <2>3. \A c \in Blocks(J) : End(J, c) \in Blocks(J) \cup {J.brk}
    <3> TAKE c \in Blocks(J)
    <3>1. CASE c = b
      <4>1. End(H, n) \in Blocks(H) \cup {H.brk} /\ End(H, n) > n
        BY <1>1, SizeFacts DEF Tiled, Aligned, End
      <4> QED BY <3>1, <4>1, <1>1, <1>4, <1>5
    <3>2. CASE c # b
      <4>1. End(H, c) \in Blocks(H) \cup {H.brk}
        BY <1>1, <1>4 DEF Tiled
      <4>2. End(H, c) # n
        (* two blocks would end where n begins *)
        <5>1. c \in Nat /\ b \in Nat /\ H.size[c] \in Nat /\ H.size[c] >= 16
          BY <1>1, <1>4, SizeFacts DEF HeapType, Tiled, Aligned
        <5>2. (c < b => End(H, c) <= b) /\ (b < c => n <= c)
          BY <1>1, <1>4 DEF Tiled, n
        <5> QED BY <5>1, <5>2, <1>2, <3>2 DEF End
      <4> QED BY <3>2, <4>1, <4>2, <1>4, <1>5
    <3> QED BY <3>1, <3>2
  <2>4. \A c, d \in Blocks(J) : c < d => End(J, c) <= d
    <3> TAKE c, d \in Blocks(J)
    <3> HAVE c < d
    <3>1. c \in Blocks(H) /\ d \in Blocks(H) /\ d # n /\ c \in Nat /\ d \in Nat
      BY <1>1, <1>4 DEF HeapType
    <3>2. End(H, c) <= d
      BY <1>1, <3>1 DEF Tiled
    <3>3. CASE c = b
      <4>1. n < d
        BY <3>1, <3>2, <3>3, <1>1 DEF n
      <4>2. End(H, n) <= d
        BY <4>1, <1>1, <3>1 DEF Tiled
      <4> QED BY <4>2, <3>3, <1>5
    <3>4. CASE c # b
      BY <3>2, <3>4, <1>5
    <3> QED BY <3>3, <3>4
  <2>5. ASSUME NEW d \in (Blocks(J) \cup {J.brk}) \ {Base}
        PROVE  \E c \in Blocks(J) : End(J, c) = d
    <3>1. PICK c \in Blocks(H) : End(H, c) = d
      BY <1>1, <1>4 DEF Tiled
    <3>2. CASE c = n
      BY <3>1, <3>2, <1>4, <1>5
    <3>3. CASE c # n
      <4>1. c # b
        <5>1. n < H.brk
          BY <1>1 DEF Tiled
        <5>2. d # n
          BY <5>1, <1>1, <1>4
        <5> QED BY <5>2, <3>1 DEF n
      <4> QED BY <4>1, <3>1, <3>3, <1>4, <1>5
    <3> QED BY <3>2, <3>3
  <2>6. \A c \in Blocks(J) : c < J.brk
    BY <1>1, <1>4 DEF Tiled
  <2> QED BY <2>1, <2>2, <2>3, <2>4, <2>5, <2>6 DEF Tiled
<1> QED BY <1>2, <1>4, <1>5, <1>6, <1>7, <1>8 DEF Sound, J, n

(* coalesce, called for a free block b whose neighbours may be free while  *)
(* nothing else needs merging: the result is coalesced, the block it comes *)
(* to is first on the list and at least as long, and no allocated block is *)
(* touched.                                                                *)
LEMMA CoalesceFacts ==
  ASSUME NEW H, Sound(H), NEW b \in H.free,
         \A p \in H.free : End(H, p) \in H.free => p = b \/ End(H, p) = b
  PROVE  LET C == Coalesce(H, b)
         IN  /\ Sound(C) /\ Coalesced(C)
             /\ C.brk = H.brk
             /\ SameBut(H, C, {})
             /\ C.fl # <<>> /\ Head(C.fl) \in C.free
             /\ C.size[Head(C.fl)] >= H.size[b]
<1> DEFINE N == IF End(H, b) \in H.free THEN Join(H, b) ELSE H
           Prev == {p \in H.free : End(H, p) = b}
           q == CHOOSE p \in Prev : TRUE
           A == IF Prev = {} THEN N ELSE Join(N, q)
           a == IF Prev = {} THEN b ELSE q
           C == Coalesce(H, b)
<1>1. C = [A EXCEPT !.fl = Push(Unlink(A.fl, a), a)]
  BY DEF Coalesce
<1>2. H.free \subseteq Blocks(H) /\ b \in Blocks(H) /\ Blocks(H) \subseteq Nat
      /\ \A c \in Blocks(H) : H.size[c] \in Nat /\ H.size[c] >= 16
  BY SizeFacts DEF Sound, HeapType, Tiled, Aligned
<1>3. /\ Sound(N) /\ N.brk = H.brk
      /\ b \in N.free /\ N.free \subseteq H.free
      /\ Allocated(N) = Allocated(H)
      /\ \A c \in Blocks(N) : c # b => N.size[c] = H.size[c] /\ End(N, c) = End(H, c)
      /\ N.size[b] \in Nat /\ N.size[b] >= H.size[b]
      /\ Blocks(N) \subseteq Blocks(H)
      /\ \A p \in H.free : End(H, p) = b => p \in N.free
      /\ End(N, b) \notin N.free
      /\ \A p \in N.free : End(N, p) \in N.free => End(N, p) = b
  <2>1. CASE End(H, b) \in H.free
    <3> DEFINE n == End(H, b)
    <3>1. /\ Sound(N) /\ N.brk = H.brk
          /\ N.free = H.free \ {n}
          /\ Blocks(N) = Blocks(H) \ {n}
          /\ n # b
          /\ N.size[b] = H.size[b] + H.size[n]
          /\ End(N, b) = End(H, n)
          /\ \A c \in Blocks(N) \ {b} : N.size[c] = H.size[c] /\ End(N, c) = End(H, c)
      BY <2>1, <1>2, JoinFacts
    <3>2. n > b /\ End(H, n) > n /\ n \in Blocks(H) /\ n \in Nat /\ b \in Nat
      BY <2>1, <1>2 DEF End
    <3>3. Allocated(N) = Allocated(H)
      BY <3>1, <2>1 DEF Allocated
    <3>4. End(N, b) \notin N.free
      BY <3>1, <3>2, <2>1
    <3>5. ASSUME NEW p \in N.free, End(N, p) \in N.free PROVE End(N, p) = b
      <4>1. p # b
        BY <3>4, <3>5
      <4>2. End(N, p) = End(H, p) /\ p \in H.free /\ End(H, p) \in H.free
        BY <4>1, <3>1, <3>5, <1>2
      <4> QED BY <4>1, <4>2
    <3>6. ASSUME NEW p \in H.free, End(H, p) = b PROVE p \in N.free
      <4>1. p # n
        BY <3>2, <3>6, <1>2
      <4> QED BY <4>1, <3>1
    <3>7. N.size[b] \in Nat /\ N.size[b] >= H.size[b]
      BY <3>1, <3>2, <1>2
    <3> QED BY <3>1, <3>3, <3>4, <3>5, <3>6, <3>7
  <2>2. CASE End(H, b) \notin H.free
    <3>1. N = H
      BY <2>2
    <3>2. ASSUME NEW p \in H.free, End(H, p) \in H.free PROVE End(H, p) = b
      BY <2>2, <3>2
    <3> QED BY <2>2, <3>1, <3>2, <1>2
  <2> QED BY <2>1, <2>2
<1> HIDE DEF N, C
<1>4. /\ Sound(A) /\ A.brk = H.brk
      /\ Allocated(A) = Allocated(H)
      /\ a \in A.free
      /\ A.size[a] >= H.size[b]
      /\ \A c \in Allocated(H) : A.size[c] = H.size[c]
      /\ Coalesced(A)
  <2>1. CASE Prev = {}
    <3>1. A = N /\ a = b
      BY <2>1
    <3>2. ASSUME NEW p \in N.free, End(N, p) \in N.free PROVE FALSE
      <4>1. End(N, p) = b
        BY <3>2, <1>3
      <4>2. p # b
        BY <3>2, <1>3
      <4>3. p \in Blocks(N) /\ p \in H.free
        BY <3>2, <1>3 DEF Sound, HeapType
      <4>4. End(H, p) = b
        BY <4>1, <4>2, <4>3, <1>3
      <4> QED BY <4>3, <4>4, <2>1
    <3> QED BY <3>1, <3>2, <1>3 DEF Coalesced, Allocated
  <2>2. CASE Prev # {}
    <3>1. q \in H.free /\ End(H, q) = b
      BY <2>2
    <3> HIDE DEF q
    <3>2. q \in N.free /\ q # b /\ End(N, q) = b /\ q \in Blocks(N)
      <4>1. q # b
        BY <3>1, <1>2 DEF End
      <4> QED BY <4>1, <3>1, <1>3 DEF Sound, HeapType
    <3> DEFINE J == Join(N, q)
    <3>3. /\ Sound(J) /\ J.brk = N.brk
          /\ J.free = N.free \ {b}
          /\ Blocks(J) = Blocks(N) \ {b}
          /\ J.size[q] = N.size[q] + N.size[b]
          /\ End(J, q) = End(N, b)
          /\ \A c \in Blocks(J) \ {q} : J.size[c] = N.size[c] /\ End(J, c) = End(N, c)
      BY <3>2, <1>3, JoinFacts
    <3> HIDE DEF J
    <3>4. A = J /\ a = q
      BY <2>2 DEF J
    <3>5. Allocated(J) = Allocated(H)
      BY <3>3, <1>3 DEF Allocated
    <3>6. J.size[q] >= H.size[b]
      BY <3>1, <3>2, <3>3, <1>2, <1>3
    <3>7. ASSUME NEW c \in Allocated(H) PROVE J.size[c] = H.size[c]
      <4>1. c \in Blocks(J) /\ c # q /\ c # b /\ c \in Blocks(N)
        BY <3>1, <3>3, <3>5, <3>7, <1>2 DEF Allocated
      <4> QED BY <4>1, <3>3, <1>3
    <3>8. ASSUME NEW p \in J.free, End(J, p) \in J.free PROVE FALSE
      <4>1. CASE p = q
        BY <4>1, <3>3, <3>8, <1>3
      <4>2. CASE p # q
        <5>1. p \in N.free /\ p \in Blocks(J) \ {q} /\ End(N, p) = End(J, p)
          BY <4>2, <3>3, <3>8 DEF Sound, HeapType
        <5>2. End(N, p) = b
          BY <5>1, <3>3, <3>8, <1>3
        <5> QED BY <5>1, <5>2, <3>3, <3>8
      <4> QED BY <4>1, <4>2
    <3> QED BY <3>2, <3>3, <3>4, <3>5, <3>6, <3>7, <3>8, <1>3 DEF Coalesced
  <2> QED BY <2>1, <2>2
<1> HIDE DEF A, a
<1>5. /\ HeapType(A) /\ Tiled(A) /\ FreeListExact(A) /\ a \in Blocks(A)
      /\ A.fl \in Seq(Blocks(A)) /\ IsInjective(A.fl) /\ ToSet(A.fl) = A.free
  BY <1>4 DEF Sound, HeapType, FreeListExact
<1> DEFINE u == Unlink(A.fl, a)
<1>6. u \in Seq(Blocks(A)) /\ IsInjective(u) /\ ToSet(u) = A.free \ {a}
  BY <1>5, UnlinkFacts
<1> HIDE DEF u
<1>7. /\ Push(u, a) \in Seq(Blocks(A)) /\ IsInjective(Push(u, a))
      /\ ToSet(Push(u, a)) = A.free
      /\ Push(u, a) # <<>> /\ Head(Push(u, a)) = a
  <2>1. a \notin ToSet(u) /\ a \in A.free
    BY <1>4, <1>6
  <2>2. /\ Push(u, a) \in Seq(Blocks(A)) /\ IsInjective(Push(u, a))
        /\ ToSet(Push(u, a)) = ToSet(u) \cup {a}
        /\ Push(u, a) # <<>> /\ Head(Push(u, a)) = a
    BY <2>1, <1>5, <1>6, PushFacts
  <2> QED BY <2>1, <2>2, <1>6
<1>8. C = [brk |-> A.brk, size |-> A.size, free |-> A.free, fl |-> Push(u, a)]
  BY <1>1, <1>5 DEF HeapType, u
<1>9. /\ C.brk = A.brk /\ C.size = A.size /\ C.free = A.free /\ C.fl = Push(u, a)
      /\ Blocks(C) = Blocks(A)
      /\ \A p : End(C, p) = End(A, p)
  BY <1>8 DEF Blocks, End
<1>10. HeapType(C)
  BY <1>5, <1>7, <1>8, <1>9 DEF HeapType
<1>11. Tiled(C)
  BY <1>5, <1>9 DEF Tiled, Aligned
<1>12. FreeListExact(C) /\ Coalesced(C)
  BY <1>4, <1>7, <1>9 DEF FreeListExact, Coalesced
<1>13. SameBut(H, C, {})
  BY <1>4, <1>9 DEF SameBut, Allocated
<1> QED BY <1>4, <1>7, <1>9, <1>10, <1>11, <1>12, <1>13 DEF Sound, C

(* what extend_heap hands to coalesce                                      *)
Grown(H, bytes) ==
  [brk  |-> H.brk + bytes,
   size |-> [c \in Blocks(H) \cup {H.brk} |->
               IF c = H.brk THEN bytes ELSE H.size[c]],
   free |-> H.free \cup {H.brk},
   fl   |-> Push(H.fl, H.brk)]

(* The old epilogue becomes the header of a block that ends at the new one.*)
LEMMA GrownFacts ==
  ASSUME NEW H, Sound(H), Coalesced(H),
         NEW bytes \in Nat, bytes % 8 = 0, bytes >= 16
  PROVE  LET G == Grown(H, bytes)
         IN  /\ Sound(G) /\ H.brk \in G.free
             /\ G.brk = H.brk + bytes /\ G.free = H.free \cup {H.brk}
             /\ G.fl = Push(H.fl, H.brk) /\ Blocks(G) = Blocks(H) \cup {H.brk}
             /\ G.size[H.brk] = bytes /\ End(G, H.brk) = G.brk
             /\ \A c \in Blocks(H) : G.size[c] = H.size[c] /\ End(G, c) = End(H, c)
             /\ \A p \in G.free : End(G, p) \in G.free => p = H.brk \/ End(G, p) = H.brk
             /\ Allocated(G) = Allocated(H)
<1> DEFINE top == H.brk
           G == Grown(H, bytes)
<1>1. /\ HeapType(H) /\ Tiled(H) /\ FreeListExact(H)
      /\ top \in Nat /\ top % 8 = 0 /\ top \notin Blocks(H) /\ top >= Base
      /\ H.free \subseteq Blocks(H) /\ Blocks(H) \subseteq Nat
      /\ \A c \in Blocks(H) : H.size[c] \in Nat
  BY SizeFacts DEF Sound, HeapType, Tiled, Aligned
<1>3. G.brk = top + bytes /\ G.free = H.free \cup {top} /\ G.fl = Push(H.fl, top)
      /\ Blocks(G) = Blocks(H) \cup {top}
      /\ G.size[top] = bytes /\ End(G, top) = G.brk
      /\ \A c \in Blocks(H) : G.size[c] = H.size[c] /\ End(G, c) = End(H, c)
  BY <1>1 DEF Blocks, End, Grown
<1>4. G = [brk |-> G.brk, size |-> G.size, free |-> G.free, fl |-> G.fl]
      /\ G.size \in [Blocks(G) -> Nat]
  BY <1>1 DEF Blocks, Grown
<1> HIDE DEF G, top
<1>5. FreeListExact(G) /\ G.fl \in Seq(Blocks(G))
  <2>1. /\ H.fl \in Seq(Blocks(H)) /\ ToSet(H.fl) = H.free /\ IsInjective(H.fl)
    BY <1>1 DEF HeapType, FreeListExact
  <2>2. H.fl \in Seq(Blocks(G))
    BY <2>1, <1>1, <1>3, SeqOverRange
  <2>3. top \in Blocks(G) /\ top \notin ToSet(H.fl)
    BY <2>1, <1>1, <1>3
  <2>4. Push(H.fl, top) \in Seq(Blocks(G)) /\ IsInjective(Push(H.fl, top))
        /\ ToSet(Push(H.fl, top)) = ToSet(H.fl) \cup {top}
    BY <2>1, <2>2, <2>3, PushFacts
  <2> QED BY <2>1, <2>4, <1>3 DEF FreeListExact
<1>6. HeapType(G)
  BY <1>1, <1>3, <1>4, <1>5 DEF HeapType
<1>7. Tiled(G)
  <2>1. G.brk % 8 = 0 /\ G.brk > top
    BY <1>1, <1>3
  <2>2. Aligned(G)
    BY <1>1, <1>3, SizeFacts DEF Tiled, Aligned
  <2>3. Base \in Blocks(G) \cup {G.brk}
    BY <1>1, <1>3 DEF Tiled, top
  <2>4. \A c \in Blocks(G) : End(G, c) \in Blocks(G) \cup {G.brk}
    BY <1>1, <1>3 DEF Tiled, top
  <2>5. \A c, d \in Blocks(G) : c < d => End(G, c) <= d
    <3> TAKE c, d \in Blocks(G)
    <3> HAVE c < d
    <3>1. c # top /\ c \in Blocks(H)
      BY <1>1, <1>3 DEF Tiled, top
    <3>2. CASE d = top
      <4>1. End(H, c) \in Blocks(H) \cup {top}
        BY <3>1, <1>1 DEF Tiled, top
      <4>2. End(H, c) <= top
        BY <4>1, <1>1 DEF Tiled, top
      <4> QED BY <3>1, <3>2, <4>2, <1>3
    <3>3. CASE d # top
      BY <3>1, <3>3, <1>1, <1>3 DEF Tiled
    <3> QED BY <3>2, <3>3
  <2>6. ASSUME NEW d \in (Blocks(G) \cup {G.brk}) \ {Base}
        PROVE  \E c \in Blocks(G) : End(G, c) = d
    <3>1. CASE d = G.brk
      BY <3>1, <1>3
    <3>2. CASE d # G.brk
      <4>1. d \in (Blocks(H) \cup {H.brk}) \ {Base}
        BY <3>2, <1>3 DEF top
      <4>2. PICK c \in Blocks(H) : End(H, c) = d
        BY <4>1, <1>1 DEF Tiled
      <4> QED BY <4>2, <1>3
    <3> QED BY <3>1, <3>2
  <2>7. \A c \in Blocks(G) : c < G.brk
    BY <2>1, <1>1, <1>3 DEF Tiled, top
  <2> QED BY <2>1, <2>2, <2>3, <2>4, <2>5, <2>6, <2>7 DEF Tiled
<1>8. ASSUME NEW p \in G.free, End(G, p) \in G.free PROVE p = top \/ End(G, p) = top
  BY <1>1, <1>3, <1>8 DEF Coalesced
<1>9. Sound(G) /\ top \in G.free
  BY <1>3, <1>5, <1>6, <1>7 DEF Sound
<1>10. Allocated(G) = Allocated(H)
  BY <1>1, <1>3 DEF Allocated
<1> QED BY <1>3, <1>8, <1>9, <1>10 DEF top, G

(* extend_heap on a sound, coalesced heap (also on the empty one).         *)
LEMMA ExtendFacts ==
  ASSUME NEW H, Sound(H), Coalesced(H),
         NEW bytes \in Nat, bytes % 8 = 0, bytes >= 16
  PROVE  LET E == Extend(H, bytes)
         IN  /\ Sound(E) /\ Coalesced(E)
             /\ E.brk = H.brk + bytes
             /\ SameBut(H, E, {})
             /\ E.fl # <<>> /\ Head(E.fl) \in E.free
             /\ E.size[Head(E.fl)] >= bytes
<1> DEFINE G == Grown(H, bytes)
           E == Coalesce(G, H.brk)
<1>1. Extend(H, bytes) = E
  BY DEF Extend, Grown
<1>2. /\ Sound(G) /\ H.brk \in G.free /\ G.brk = H.brk + bytes /\ G.size[H.brk] = bytes
      /\ \A c \in Blocks(H) : G.size[c] = H.size[c]
      /\ \A p \in G.free : End(G, p) \in G.free => p = H.brk \/ End(G, p) = H.brk
      /\ Allocated(G) = Allocated(H)
  BY GrownFacts
<1> HIDE DEF G
<1>3. /\ Sound(E) /\ Coalesced(E) /\ E.brk = G.brk /\ SameBut(G, E, {})
      /\ E.fl # <<>> /\ Head(E.fl) \in E.free
      /\ E.size[Head(E.fl)] >= G.size[H.brk]
  BY <1>2, CoalesceFacts
<1>4. SameBut(H, E, {})
  BY <1>2, <1>3 DEF SameBut, Allocated
<1> QED BY <1>1, <1>2, <1>3, <1>4

(* place, on a block that has just left the free list, or was never on it. *)
LEMMA PlaceFacts ==
  ASSUME NEW G, HeapType(G), Tiled(G), Coalesced(G),
         NEW b \in Blocks(G), End(G, b) \notin G.free,
         IsInjective(G.fl), ToSet(G.fl) = G.free \ {b},
         NEW bytes \in Nat, bytes % 8 = 0, bytes >= 16, bytes <= G.size[b]
  PROVE  LET P == Place(G, b, bytes)
         IN  /\ Sound(P) /\ Coalesced(P)
             /\ P.brk = G.brk
             /\ Allocated(P) = Allocated(G) \cup {b}
             /\ SameBut(G, P, {b})
             /\ P.size[b] >= bytes
<1> DEFINE P == Place(G, b, bytes)
           c == b + bytes
           rest == G.size[b] - bytes
<1>1. /\ G.free \subseteq Blocks(G) /\ Blocks(G) \subseteq Nat
      /\ b \in Nat /\ b % 8 = 0 /\ b >= Base
      /\ G.size[b] \in Nat /\ G.size[b] % 8 = 0
      /\ \A d \in Blocks(G) : G.size[d] \in Nat /\ G.size[d] >= 16
      /\ G.brk \in Nat /\ G.fl \in Seq(Blocks(G))
  BY SizeFacts DEF HeapType, Tiled, Aligned
<1>a. ASSUME NEW d \in Blocks(G)
      PROVE  d \in Nat /\ End(G, d) \in Nat /\ d < End(G, d)
  <2>1. d \in Nat /\ G.size[d] \in Nat /\ G.size[d] >= 16
    BY <1>1
  <2> QED BY <2>1 DEF End
<1>2. CASE rest >= MinBlock
  <2>1. P = [brk  |-> G.brk,
             size |-> [d \in Blocks(G) \cup {c} |->
                         IF d = b THEN bytes ELSE IF d = c THEN rest ELSE G.size[d]],
             free |-> (G.free \ {b}) \cup {c},
             fl   |-> Push(G.fl, c)]
    BY <1>2 DEF Place
  <2> HIDE DEF P
  <2>2. /\ c \in Nat /\ c > b /\ c % 8 = 0 /\ rest \in Nat /\ rest % 8 = 0 /\ rest >= 16
        /\ c + rest = End(G, b) /\ c < End(G, b)
    <3>1. rest >= 16
      BY <1>2, SizeFacts
    <3>2. b \in Nat /\ G.size[b] \in Nat /\ b % 8 = 0 /\ G.size[b] % 8 = 0
      BY <1>1
    <3>3. /\ c % 8 = 0 /\ rest % 8 = 0 /\ rest \in Nat
          /\ c + rest = b + G.size[b] /\ c < b + G.size[b] /\ b < c
      BY <3>1, <3>2, CutFacts
    <3>4. c \in Nat
      BY <3>2
    <3> QED BY <3>1, <3>3, <3>4 DEF End
  <2>3. c \notin Blocks(G)
    <3>1. \A d \in Blocks(G) : b < d => End(G, b) <= d
      BY DEF Tiled
    <3> QED BY <3>1, <2>2, <1>1, SMTT(30)
  <2> HIDE DEF c, rest
  <2>4. /\ P.brk = G.brk
        /\ P.free = (G.free \ {b}) \cup {c}
        /\ P.fl = Push(G.fl, c)
        /\ Blocks(P) = Blocks(G) \cup {c}
        /\ P.size[b] = bytes /\ P.size[c] = rest
        /\ \A d \in Blocks(G) : d # b => P.size[d] = G.size[d] /\ End(P, d) = End(G, d)
    BY <2>1, <2>2, <2>3 DEF Blocks, End
  <2>5. End(P, b) = c /\ End(P, c) = End(G, b)
    BY <2>2, <2>4 DEF End, c
  <2>6. FreeListExact(P) /\ P.fl \in Seq(Blocks(P))
    <3>1. ToSet(G.fl) \subseteq Blocks(P) /\ c \in Blocks(P) /\ c \notin ToSet(G.fl)
      BY <1>1, <2>3, <2>4
    <3>2. G.fl \in Seq(Blocks(P))
      BY <3>1, <1>1, SeqOverRange
    <3>3. Push(G.fl, c) \in Seq(Blocks(P)) /\ IsInjective(Push(G.fl, c))
          /\ ToSet(Push(G.fl, c)) = ToSet(G.fl) \cup {c}
      BY <3>1, <3>2, PushFacts
    <3> QED BY <3>3, <2>4 DEF FreeListExact
  <2>7. HeapType(P)
    <3>1. P = [brk |-> P.brk, size |-> P.size, free |-> P.free, fl |-> P.fl]
      BY <2>1
    <3>2. P.size \in [Blocks(P) -> Nat]
      BY <2>1, <2>2, <2>4, <1>1
    <3> QED BY <3>1, <3>2, <1>1, <2>2, <2>4, <2>6 DEF HeapType
  <2>8. Tiled(P)
    <3>1. P.brk % 8 = 0 /\ Base \in Blocks(P) \cup {P.brk}
      BY <2>4 DEF Tiled
    <3>2. Aligned(P)
      <4>1. ASSUME NEW d \in Blocks(P)
            PROVE  d >= Base /\ d % 8 = 0 /\ P.size[d] % 8 = 0 /\ P.size[d] >= 16
        <5>1. CASE d = c
          BY <5>1, <1>1, <2>2, <2>4, <1>2, SizeFacts
        <5>2. CASE d = b
          BY <5>2, <1>1, <2>4
        <5>3. CASE d # c /\ d # b
          BY <5>3, <2>4, SizeFacts DEF Tiled, Aligned
        <5> QED BY <5>1, <5>2, <5>3
      <4> QED BY <4>1, SizeFacts DEF Aligned
    <3>3. ASSUME NEW d \in Blocks(P) PROVE End(P, d) \in Blocks(P) \cup {P.brk}
      <4>1. End(G, b) \in Blocks(G) \cup {G.brk}
        BY DEF Tiled
      <4>2. CASE d = b
        BY <4>2, <2>4, <2>5
      <4>3. CASE d = c
        BY <4>1, <4>3, <2>4, <2>5
      <4>4. CASE d # b /\ d # c
        BY <4>4, <2>4 DEF Tiled
      <4> QED BY <4>2, <4>3, <4>4
    <3>4. ASSUME NEW d \in Blocks(P), NEW e \in Blocks(P), d < e PROVE End(P, d) <= e
      <4>1. \A x, y \in Blocks(G) : x < y => End(G, x) <= y
        BY DEF Tiled
      <4>2. CASE d = b
        <5>1. CASE e = c
          BY <4>2, <5>1, <2>2, <2>5
        <5>2. CASE e # c
          BY <4>1, <4>2, <5>2, <3>4, <1>1, <2>2, <2>4, <2>5 DEF End
        <5> QED BY <5>1, <5>2
      <4>3. CASE d = c
        <5>1. e \in Blocks(G) /\ b < e
          BY <4>3, <3>4, <1>1, <2>2, <2>4
        <5> QED BY <5>1, <4>1, <4>3, <2>5
      <4>4. CASE d # b /\ d # c
        <5>1. d \in Blocks(G) /\ End(P, d) = End(G, d)
          BY <4>4, <2>4
        <5>2. CASE e = c
          <6>1. d < b
            <7>1. d > b => End(G, b) <= d
              BY <4>1, <5>1
            <7> QED BY <7>1, <4>4, <5>1, <5>2, <3>4, <1>1, <2>2 DEF End
          <6>2. End(G, d) <= b
            BY <6>1, <4>1, <5>1
          <6>3. End(G, d) \in Nat /\ b \in Nat /\ c \in Nat /\ b < c
            BY <5>1, <1>a, <2>2
          <6>4. End(G, d) <= c
            BY <6>2, <6>3
          <6> QED BY <6>4, <5>1, <5>2
        <5>3. CASE e # c
          BY <5>1, <5>3, <4>1, <3>4, <2>4
        <5> QED BY <5>2, <5>3
      <4> QED BY <4>2, <4>3, <4>4
    <3>5. ASSUME NEW d \in (Blocks(P) \cup {P.brk}) \ {Base}
          PROVE  \E e \in Blocks(P) : End(P, e) = d
      <4>1. CASE d = c
        BY <4>1, <2>4, <2>5
      <4>2. CASE d # c
        <5>1. PICK e \in Blocks(G) : End(G, e) = d
          BY <4>2, <2>4 DEF Tiled
        <5>2. CASE e = b
          BY <5>1, <5>2, <2>4, <2>5
        <5>3. CASE e # b
          BY <5>1, <5>3, <2>4
        <5> QED BY <5>2, <5>3
      <4> QED BY <4>1, <4>2
    <3>6. ASSUME NEW d \in Blocks(P) PROVE d < P.brk
      <4>1. \A e \in Blocks(G) : e < G.brk
        BY DEF Tiled
      <4>2. End(G, b) \in Blocks(G) \cup {G.brk}
        BY DEF Tiled
      <4>3. End(G, b) <= G.brk
        BY <4>1, <4>2, <1>1
      <4>4. G.brk \in Nat
        BY <1>1
      <4> QED BY <4>1, <4>3, <4>4, <1>a, <2>2, <2>4
    <3> QED BY <3>1, <3>2, <3>3, <3>4, <3>5, <3>6 DEF Tiled
  <2>9. Coalesced(P)
    <3> SUFFICES ASSUME NEW p \in P.free, End(P, p) \in P.free PROVE FALSE
      BY DEF Coalesced
    <3>1. CASE p = c
      <4>1. End(G, b) # c
        BY <2>2, <1>1 DEF End
      <4> QED BY <4>1, <3>1, <2>4, <2>5
    <3>2. CASE p # c
      <4>1. p \in G.free /\ p # b /\ p \in Blocks(G) /\ End(P, p) = End(G, p)
        BY <3>2, <1>1, <2>4
      <4>2. End(G, p) # c
        <5>1. (p < b => End(G, p) <= b) /\ (b < p => End(G, b) <= p)
          BY <4>1 DEF Tiled
        <5> QED BY <5>1, <4>1, <1>a, <2>2
      <4>3. End(G, p) \in G.free
        BY <4>1, <4>2, <2>4
      <4> QED BY <4>1, <4>3 DEF Coalesced
    <3> QED BY <3>1, <3>2
  <2>10. Allocated(P) = Allocated(G) \cup {b}
    BY <1>1, <2>2, <2>3, <2>4 DEF Allocated
  <2>11. SameBut(G, P, {b})
    BY <2>4, <2>10 DEF SameBut, Allocated
  <2>12. P.size[b] >= bytes
    BY <2>4
  <2> QED BY <2>4, <2>6, <2>7, <2>8, <2>9, <2>10, <2>11, <2>12 DEF Sound, P
<1>3. CASE ~(rest >= MinBlock)
  <2>1. P = [brk |-> G.brk, size |-> G.size, free |-> G.free \ {b}, fl |-> G.fl]
    BY <1>3 DEF Place, HeapType
  <2> HIDE DEF P
  <2>2. /\ P.brk = G.brk /\ P.size = G.size /\ P.free = G.free \ {b} /\ P.fl = G.fl
        /\ Blocks(P) = Blocks(G) /\ \A d : End(P, d) = End(G, d)
    BY <2>1 DEF Blocks, End
  <2>3. HeapType(P)
    BY <2>1, <2>2 DEF HeapType
  <2>4. Tiled(P)
    BY <2>2 DEF Tiled, Aligned
  <2>5. FreeListExact(P) /\ Coalesced(P)
    BY <2>2 DEF FreeListExact, Coalesced
  <2>6. Allocated(P) = Allocated(G) \cup {b} /\ SameBut(G, P, {b})
    BY <2>2, <1>1 DEF Allocated, SameBut
  <2> QED BY <2>2, <2>3, <2>4, <2>5, <2>6 DEF Sound, P
<1> QED BY <1>2, <1>3

-----------------------------------------------------------------------------
(* mm_malloc, mm_free, mm_realloc and mm_init on a whole heap.             *)

(* Replacing the free list leaves the rest of the heap alone.              *)
LEMMA FreeListReplaced ==
  ASSUME NEW H, NEW s,
         H = [brk |-> H.brk, size |-> H.size, free |-> H.free, fl |-> H.fl]
  PROVE  [H EXCEPT !.fl = s] = [brk |-> H.brk, size |-> H.size, free |-> H.free, fl |-> s]
OBVIOUS

(* The least number of a set, where find_fit stops.                        *)
LEMMA LeastElement ==
  ASSUME NEW T, T \subseteq Nat, T # {}
  PROVE  \E x \in T : \A y \in T : x <= y
<1>1. PICK x \in T : \A y \in T : <<y, x>> \notin OpToRel(<, Nat)
  BY NatLessThanWellFounded, WFMin
<1>2. \A y \in T : ~(y < x)
  BY <1>1 DEF OpToRel
<1> QED BY <1>2

(* Between two calls the heap is sound and coalesced.                      *)
Settled(H) == Sound(H) /\ Coalesced(H)

(* find_fit, where a block fits, finds a free block that does.             *)
LEMMA FindFitFacts ==
  ASSUME NEW H, Sound(H), NEW bytes \in Nat, Fits(H, bytes) # {}
  PROVE  FindFit(H, bytes) \in H.free /\ H.size[FindFit(H, bytes)] >= bytes
<1>1. Fits(H, bytes) \subseteq Nat
  BY DEF Fits, Sound, HeapType
<1>2. PICK k \in Fits(H, bytes) : \A j \in Fits(H, bytes) : k <= j
  BY <1>1, LeastElement
<1> DEFINE i == CHOOSE m \in Fits(H, bytes) : \A j \in Fits(H, bytes) : m <= j
<1>3. i \in Fits(H, bytes)
  BY <1>2
<1>4. FindFit(H, bytes) = H.fl[i]
  BY DEF FindFit
<1> HIDE DEF i
<1>5. i \in DOMAIN H.fl /\ H.size[H.fl[i]] >= bytes
  BY <1>3 DEF Fits
<1>6. H.fl[i] \in ToSet(H.fl)
  BY <1>5 DEF ToSet
<1> QED BY <1>4, <1>5, <1>6 DEF Sound, FreeListExact

(* If nothing on the list fits, no free block does: the list is complete.  *)
LEMMA NoFitFacts ==
  ASSUME NEW H, Sound(H), NEW bytes \in Nat, Fits(H, bytes) = {}, NEW f \in H.free
  PROVE  H.size[f] < bytes
<1>1. PICK i \in DOMAIN H.fl : H.fl[i] = f
  BY DEF Sound, FreeListExact, ToSet
<1>2. ~(H.size[f] >= bytes)
  BY <1>1 DEF Fits
<1>3. H.size[f] \in Nat
  BY DEF Sound, HeapType
<1> QED BY <1>2, <1>3

(* What extend_heap is asked for holds the block it is asked for.          *)
LEMMA GrowByFacts ==
  ASSUME NEW n \in Nat
  PROVE  LET g == GrowBy(BlockSize(n))
         IN  /\ g \in Nat /\ g % 8 = 0 /\ g >= 16 /\ g >= BlockSize(n)
             /\ g <= n + 15 \/ g <= Chunk
<1>1. BlockSize(n) \in Nat /\ BlockSize(n) % 8 = 0 /\ BlockSize(n) <= n + 15
  BY BlockSizeFacts
<1>2. CASE BlockSize(n) >= Chunk
  BY <1>1, <1>2, ChunkAssumption DEF GrowBy
<1>3. CASE ~(BlockSize(n) >= Chunk)
  BY <1>1, <1>3, ChunkAssumption DEF GrowBy
<1> QED BY <1>2, <1>3

(* There is room for the request in the block chosen for it.               *)
LEMMA RoomFacts ==
  ASSUME NEW H, Settled(H), NEW n \in Nat, n > 0
  PROVE  LET bytes == BlockSize(n)
             G == Room(H, bytes)
             b == Chosen(H, bytes)
         IN  /\ Sound(G) /\ Coalesced(G)
             /\ b \in G.free /\ G.size[b] >= bytes
             /\ SameBut(H, G, {})
             /\ G.brk = IF Fits(H, bytes) = {} THEN H.brk + GrowBy(bytes) ELSE H.brk
<1> DEFINE bytes == BlockSize(n)
           G == Room(H, bytes)
           b == Chosen(H, bytes)
<1>1. bytes \in Nat /\ bytes % 8 = 0 /\ bytes >= 16
  BY BlockSizeFacts
<1> HIDE DEF bytes
<1>3. /\ Sound(G) /\ Coalesced(G)
      /\ b \in G.free /\ G.size[b] >= bytes
      /\ SameBut(H, G, {})
      /\ G.brk = IF Fits(H, bytes) = {} THEN H.brk + GrowBy(bytes) ELSE H.brk
  <2>1. CASE Fits(H, bytes) # {}
    <3>1. G = H /\ b = FindFit(H, bytes)
      BY <2>1 DEF Room, Chosen
    <3>2. SameBut(H, H, {})
      BY DEF SameBut
    <3> QED BY <2>1, <3>1, <3>2, <1>1, FindFitFacts DEF Settled
  <2>2. CASE Fits(H, bytes) = {}
    <3>1. G = Extend(H, GrowBy(bytes)) /\ b = Head(G.fl)
      BY <2>2 DEF Room, Chosen
    <3>2. GrowBy(bytes) \in Nat /\ GrowBy(bytes) % 8 = 0 /\ GrowBy(bytes) >= 16
          /\ GrowBy(bytes) >= bytes
      BY GrowByFacts DEF bytes
    <3> HIDE DEF b
    <3>3. /\ Sound(G) /\ Coalesced(G)
          /\ G.brk = H.brk + GrowBy(bytes)
          /\ SameBut(H, G, {})
          /\ Head(G.fl) \in G.free
          /\ G.size[Head(G.fl)] >= GrowBy(bytes)
      BY <3>1, <3>2, ExtendFacts DEF Settled
    <3>4. G.size[b] \in Nat
      BY <3>1, <3>3 DEF Sound, HeapType
    <3> QED BY <2>2, <3>1, <3>2, <3>3, <3>4, <1>1
  <2> QED BY <2>1, <2>2
<1> QED BY <1>3 DEF bytes

(* what mm_malloc hands to place                                           *)
Taken(G, b) == [G EXCEPT !.fl = Unlink(@, b)]

(* The block found has left the list and nothing else has changed.         *)
LEMMA TakenFacts ==
  ASSUME NEW G, Sound(G), Coalesced(G), NEW b \in G.free
  PROVE  LET U == Taken(G, b)
         IN  /\ U.brk = G.brk /\ U.size = G.size /\ U.free = G.free /\ U.fl = Unlink(G.fl, b)
             /\ Blocks(U) = Blocks(G) /\ \A d : End(U, d) = End(G, d)
             /\ HeapType(U) /\ Tiled(U) /\ Coalesced(U)
             /\ b \in Blocks(U) /\ End(U, b) \notin U.free
             /\ U.fl \in Seq(Blocks(U)) /\ IsInjective(U.fl) /\ ToSet(U.fl) = U.free \ {b}
<1> DEFINE U == Taken(G, b)
<1>4. /\ U.brk = G.brk /\ U.size = G.size /\ U.free = G.free /\ U.fl = Unlink(G.fl, b)
      /\ U = [brk |-> U.brk, size |-> U.size, free |-> U.free, fl |-> U.fl]
      /\ Blocks(U) = Blocks(G) /\ \A d : End(U, d) = End(G, d)
  <2>1. G = [brk |-> G.brk, size |-> G.size, free |-> G.free, fl |-> G.fl]
    BY DEF Sound, HeapType
  <2>2. U = [brk |-> G.brk, size |-> G.size, free |-> G.free, fl |-> Unlink(G.fl, b)]
    BY <2>1, FreeListReplaced DEF Taken
  <2> HIDE DEF U
  <2>3. /\ U.brk = G.brk /\ U.size = G.size /\ U.free = G.free
        /\ U.fl = Unlink(G.fl, b)
    BY <2>2
  <2> QED BY <2>2, <2>3 DEF Blocks, End
<1> HIDE DEF U
<1>5. /\ U.fl \in Seq(Blocks(U)) /\ IsInjective(U.fl) /\ ToSet(U.fl) = U.free \ {b}
  BY <1>4, UnlinkFacts DEF Sound, HeapType, FreeListExact
<1>6. HeapType(U) /\ Tiled(U) /\ Coalesced(U)
  BY <1>4, <1>5 DEF Sound, HeapType, Tiled, Aligned, Coalesced
<1>7. b \in Blocks(U) /\ End(U, b) \notin U.free
  BY <1>4 DEF Coalesced, Sound, HeapType
<1> QED BY <1>4, <1>5, <1>6, <1>7 DEF U

(* mm_malloc adds one block to those held, and changes no other.           *)
LEMMA MallocFacts ==
  ASSUME NEW H, Settled(H), NEW n \in Nat, n > 0
  PROVE  LET M == Malloc(H, n)
             b == Chosen(H, BlockSize(n))
         IN  /\ Settled(M)
             /\ b \notin Allocated(H)
             /\ Allocated(M) = Allocated(H) \cup {b}
             /\ SameBut(H, M, {b})
             /\ M.size[b] >= BlockSize(n)
             /\ M.brk = IF Fits(H, BlockSize(n)) = {}
                        THEN H.brk + GrowBy(BlockSize(n)) ELSE H.brk
<1> DEFINE bytes == BlockSize(n)
           G == Room(H, bytes)
           b == Chosen(H, bytes)
           U == Taken(G, b)
           M == Malloc(H, n)
<1>1. bytes \in Nat /\ bytes % 8 = 0 /\ bytes >= 16
  BY BlockSizeFacts
<1>2. M = Place(U, b, bytes)
  BY DEF Malloc, Taken
<1>3. /\ Sound(G) /\ Coalesced(G)
      /\ b \in G.free /\ G.size[b] >= bytes
      /\ SameBut(H, G, {})
      /\ G.brk = IF Fits(H, bytes) = {} THEN H.brk + GrowBy(bytes) ELSE H.brk
  BY RoomFacts
<1> HIDE DEF bytes, M, G, b
<1>4. /\ U.brk = G.brk /\ U.size = G.size /\ U.free = G.free
      /\ Blocks(U) = Blocks(G)
      /\ HeapType(U) /\ Tiled(U) /\ Coalesced(U)
      /\ b \in Blocks(U) /\ End(U, b) \notin U.free
      /\ IsInjective(U.fl) /\ ToSet(U.fl) = U.free \ {b}
  BY <1>3, TakenFacts
<1> HIDE DEF U
<1>5. bytes <= U.size[b]
  <2>1. G.size[b] \in Nat
    BY <1>3 DEF Sound, HeapType
  <2> QED BY <2>1, <1>1, <1>3, <1>4
<1>6. /\ Sound(M) /\ Coalesced(M)
      /\ M.brk = U.brk
      /\ Allocated(M) = Allocated(U) \cup {b}
      /\ SameBut(U, M, {b})
      /\ M.size[b] >= bytes
  BY <1>1, <1>2, <1>4, <1>5, PlaceFacts
<1>7. Allocated(U) = Allocated(G) /\ b \notin Allocated(G)
  BY <1>3, <1>4 DEF Allocated
<1>8. Allocated(G) = Allocated(H) /\ \A p \in Allocated(H) : G.size[p] = H.size[p]
  BY <1>3 DEF SameBut
<1>9. SameBut(H, M, {b})
  BY <1>4, <1>6, <1>7, <1>8 DEF SameBut
<1> QED BY <1>3, <1>4, <1>6, <1>7, <1>8, <1>9 DEF Settled, bytes, b, G, M

(* what mm_free hands to coalesce                                          *)
Freed(H, p) ==
  [brk |-> H.brk, size |-> H.size, free |-> H.free \cup {p}, fl |-> Push(H.fl, p)]

(* The freed block is on the list, and no other has a free neighbour.      *)
LEMMA FreedFacts ==
  ASSUME NEW H, Settled(H), NEW p \in Allocated(H)
  PROVE  LET G == Freed(H, p)
         IN  /\ Sound(G) /\ p \in G.free
             /\ G.brk = H.brk /\ G.size = H.size /\ G.free = H.free \cup {p}
             /\ G.fl = Push(H.fl, p)
             /\ \A q \in G.free : End(G, q) \in G.free => q = p \/ End(G, q) = p
             /\ Allocated(G) = Allocated(H) \ {p}
<1> DEFINE G == Freed(H, p)
<1>1. HeapType(H) /\ Tiled(H) /\ FreeListExact(H) /\ Coalesced(H)
      /\ p \in Blocks(H) /\ p \notin H.free
  BY DEF Settled, Sound, Allocated
<1>2. G = [brk |-> H.brk, size |-> H.size, free |-> H.free \cup {p},
           fl |-> Push(H.fl, p)]
  BY DEF Freed
<1> HIDE DEF G
<1>4. /\ G.brk = H.brk /\ G.size = H.size /\ G.free = H.free \cup {p}
      /\ G.fl = Push(H.fl, p)
      /\ Blocks(G) = Blocks(H) /\ \A d : End(G, d) = End(H, d)
  BY <1>2 DEF Blocks, End
<1>5. G.fl \in Seq(Blocks(G)) /\ IsInjective(G.fl) /\ ToSet(G.fl) = G.free
  <2>1. H.fl \in Seq(Blocks(H)) /\ IsInjective(H.fl) /\ ToSet(H.fl) = H.free
    BY <1>1 DEF HeapType, FreeListExact
  <2>2. p \in Blocks(H) /\ p \notin ToSet(H.fl)
    BY <2>1, <1>1
  <2>3. Push(H.fl, p) \in Seq(Blocks(H)) /\ IsInjective(Push(H.fl, p))
        /\ ToSet(Push(H.fl, p)) = ToSet(H.fl) \cup {p}
    BY <2>1, <2>2, PushFacts
  <2> QED BY <2>1, <2>3, <1>4
<1>6. Sound(G)
  <2>1. G = [brk |-> G.brk, size |-> G.size, free |-> G.free, fl |-> G.fl]
    BY <1>2
  <2>2. HeapType(G)
    BY <2>1, <1>1, <1>4, <1>5 DEF HeapType
  <2>3. Tiled(G)
    BY <1>1, <1>4 DEF Tiled, Aligned
  <2> QED BY <2>2, <2>3, <1>5 DEF Sound, FreeListExact
<1>7. ASSUME NEW q \in G.free, End(G, q) \in G.free PROVE q = p \/ End(G, q) = p
  BY <1>1, <1>4, <1>7 DEF Coalesced
<1>8. p \in G.free
  BY <1>4
<1>9. Allocated(G) = Allocated(H) \ {p}
  BY <1>4 DEF Allocated
<1> QED BY <1>4, <1>6, <1>7, <1>8, <1>9 DEF G

(* mm_free takes one block from those held, and changes no other.          *)
LEMMA FreeFacts ==
  ASSUME NEW H, Settled(H), NEW p \in Allocated(H)
  PROVE  LET F == Free(H, p)
         IN  /\ Settled(F)
             /\ F.brk = H.brk
             /\ Allocated(F) = Allocated(H) \ {p}
             /\ SameBut(H, F, {p})
<1> DEFINE G == Freed(H, p)
           F == Free(H, p)
<1>1. F = Coalesce(G, p)
  BY DEF Free, Freed
<1>2. /\ Sound(G) /\ p \in G.free /\ G.brk = H.brk /\ G.size = H.size
      /\ \A q \in G.free : End(G, q) \in G.free => q = p \/ End(G, q) = p
      /\ Allocated(G) = Allocated(H) \ {p}
  BY FreedFacts
<1> HIDE DEF G, F
<1>3. Sound(F) /\ Coalesced(F) /\ F.brk = G.brk /\ SameBut(G, F, {})
  BY <1>1, <1>2, CoalesceFacts
<1>4. Allocated(F) = Allocated(H) \ {p} /\ SameBut(H, F, {p})
  BY <1>2, <1>3 DEF SameBut
<1> QED BY <1>2, <1>3, <1>4 DEF Settled, F

(* what mm_realloc hands to place when the block behind is absorbed        *)
LEMMA AbsorbedFacts ==
  ASSUME NEW H, Settled(H), NEW p \in Allocated(H), NEW n \in Nat, n > 0,
         CanGrow(H, p, n)
  PROVE  LET J == Join(H, p)
             m == End(H, p)
         IN  /\ Sound(J) /\ Coalesced(J) /\ J.brk = H.brk
             /\ J.free = H.free \ {m} /\ Blocks(J) = Blocks(H) \ {m}
             /\ p \in Blocks(J) \ J.free /\ J.size[p] = H.size[p] + H.size[m]
             /\ \A c \in Blocks(J) \ {p} : J.size[c] = H.size[c] /\ End(J, c) = End(H, c)
             /\ End(J, p) = End(H, m) /\ End(J, p) \notin J.free
             /\ IsInjective(J.fl) /\ ToSet(J.fl) = J.free \ {p}
             /\ BlockSize(n) <= J.size[p]
<1> DEFINE J == Join(H, p)
           m == End(H, p)
<1>1. BlockSize(n) \in Nat /\ BlockSize(n) % 8 = 0 /\ BlockSize(n) >= 16
  BY BlockSizeFacts
<1>2. /\ Sound(H) /\ Coalesced(H) /\ p \in Blocks(H) /\ p \notin H.free
      /\ m \in H.free /\ H.size[p] + H.size[m] >= BlockSize(n)
  BY DEF Settled, Allocated, CanGrow
<1>3. /\ Sound(J) /\ J.brk = H.brk
      /\ J.free = H.free \ {m}
      /\ Blocks(J) = Blocks(H) \ {m}
      /\ p \in Blocks(J)
      /\ J.size[p] = H.size[p] + H.size[m]
      /\ End(J, p) = End(H, m)
      /\ \A c \in Blocks(J) \ {p} : J.size[c] = H.size[c] /\ End(J, c) = End(H, c)
  BY <1>2, JoinFacts
<1> HIDE DEF J, m
<1>4. HeapType(J) /\ Tiled(J) /\ IsInjective(J.fl) /\ ToSet(J.fl) = J.free \ {p}
  BY <1>2, <1>3 DEF Sound, FreeListExact
<1>5. End(J, p) \notin J.free
  BY <1>2, <1>3 DEF Coalesced
<1>6. Coalesced(J)
  <2> SUFFICES ASSUME NEW q \in J.free, End(J, q) \in J.free PROVE FALSE
    BY DEF Coalesced
  <2>1. q # p /\ q \in H.free /\ q \in Blocks(J)
    BY <1>2, <1>3 DEF Sound, HeapType
  <2>2. End(J, q) = End(H, q)
    BY <2>1, <1>3
  <2> QED BY <2>1, <2>2, <1>2, <1>3 DEF Coalesced
<1>7. J.size[p] \in Nat /\ BlockSize(n) <= J.size[p]
  <2>1. J.size[p] \in Nat
    BY <1>3 DEF Sound, HeapType
  <2> QED BY <2>1, <1>1, <1>2, <1>3
<1> QED BY <1>2, <1>3, <1>4, <1>5, <1>6, <1>7 DEF J, m

(* mm_realloc growing into the free block that follows.                    *)
LEMMA GrowFacts ==
  ASSUME NEW H, Settled(H), NEW p \in Allocated(H), NEW n \in Nat, n > 0,
         CanGrow(H, p, n)
  PROVE  LET P == Place(Join(H, p), p, BlockSize(n))
         IN  /\ Settled(P)
             /\ P.brk = H.brk
             /\ Allocated(P) = Allocated(H)
             /\ SameBut(H, P, {p})
             /\ P.size[p] >= BlockSize(n)
<1> DEFINE J == Join(H, p)
           m == End(H, p)
           P == Place(J, p, BlockSize(n))
<1>1. BlockSize(n) \in Nat /\ BlockSize(n) % 8 = 0 /\ BlockSize(n) >= 16
  BY BlockSizeFacts
<1>2. /\ Sound(J) /\ Coalesced(J) /\ J.brk = H.brk
      /\ J.free = H.free \ {m} /\ Blocks(J) = Blocks(H) \ {m} /\ p \in Blocks(J)
      /\ \A c \in Blocks(J) \ {p} : J.size[c] = H.size[c]
      /\ End(J, p) \notin J.free
      /\ IsInjective(J.fl) /\ ToSet(J.fl) = J.free \ {p}
      /\ BlockSize(n) <= J.size[p]
  BY AbsorbedFacts
<1>3. p \in Blocks(H) /\ p \notin H.free /\ m \in H.free
  BY DEF Allocated, CanGrow
<1> HIDE DEF J, m, P
<1>4. HeapType(J) /\ Tiled(J)
  BY <1>2 DEF Sound
<1>8. /\ Sound(P) /\ Coalesced(P) /\ P.brk = J.brk
      /\ Allocated(P) = Allocated(J) \cup {p}
      /\ SameBut(J, P, {p})
      /\ P.size[p] >= BlockSize(n)
  BY <1>1, <1>2, <1>4, PlaceFacts, ZenonT(60) DEF P
<1>9. Allocated(J) = Allocated(H) /\ \A c \in Allocated(H) \ {p} : J.size[c] = H.size[c]
  BY <1>2, <1>3 DEF Allocated
<1>10. Allocated(P) = Allocated(H) /\ SameBut(H, P, {p})
  BY <1>8, <1>9 DEF SameBut
<1> QED BY <1>2, <1>8, <1>10 DEF Settled, P, J

(* mm_init leaves one free block of a chunk.                               *)
LEMMA InitHeapFacts ==
  /\ Settled(InitHeap)
  /\ InitHeap.brk = Base + Chunk
  /\ Allocated(InitHeap) = {}
<1> DEFINE E == [brk |-> Base, size |-> NoBlock, free |-> {}, fl |-> <<>>]
<1>1. E.brk = Base /\ E.free = {} /\ E.fl = <<>> /\ Blocks(E) = {}
      /\ E.size \in [Blocks(E) -> Nat]
      /\ E = [brk |-> E.brk, size |-> E.size, free |-> E.free, fl |-> E.fl]
  BY DEF Blocks, NoBlock
<1> HIDE DEF E
<1>2. HeapType(E)
  BY <1>1, SizeFacts DEF HeapType
<1>3. Tiled(E)
  BY <1>1, SizeFacts DEF Tiled, Aligned
<1>4. FreeListExact(E) /\ Coalesced(E)
  BY <1>1 DEF FreeListExact, Coalesced, IsInjective, ToSet
<1>5. InitHeap = Extend(E, Chunk)
  BY DEF InitHeap, E
<1>6. /\ Sound(InitHeap) /\ Coalesced(InitHeap)
      /\ InitHeap.brk = E.brk + Chunk
      /\ SameBut(E, InitHeap, {})
  BY <1>2, <1>3, <1>4, <1>5, ChunkAssumption, ExtendFacts DEF Sound
<1>7. Allocated(InitHeap) = {}
  BY <1>1, <1>6 DEF SameBut, Allocated
<1> QED BY <1>1, <1>6, <1>7 DEF Settled

-----------------------------------------------------------------------------
(* The inductive invariant.  Between calls the heap is settled, at least   *)
(* as long as mm_init made it, and its blocks that are not free are the    *)
(* client's, each with room for the request and its header and footer.     *)

Held(H, L) ==
  /\ Allocated(H) = DOMAIN L
  /\ L \in [DOMAIN L -> Nat]
  /\ \A p \in DOMAIN L : L[p] + 8 <= H.size[p]

Inv ==
  /\ Settled(heap)
  /\ Base + Chunk <= heap.brk /\ heap.brk <= MaxHeap
  /\ Held(heap, live)
  /\ crashed \in BOOLEAN

(* What the invariant says of numbers.                                     *)
LEMMA InvNumbers ==
  ASSUME Inv
  PROVE  /\ heap.brk \in Nat /\ Base \in Nat /\ MaxHeap \in Nat /\ Chunk \in Nat
         /\ \A p \in DOMAIN live : p \in Nat /\ live[p] \in Nat /\ heap.size[p] \in Nat
BY SizeFacts, ArenaAssumption, ChunkAssumption
   DEF Inv, Settled, Sound, HeapType, Held, Allocated

(* A malloc that returns: its block is new, no other is disturbed, and the *)
(* break moves only if no free block would do.                             *)
LEMMA MallocStep ==
  ASSUME Inv, NEW n \in Requests, MallocCall(n)
  PROVE  LET b == Chosen(heap, BlockSize(n))
         IN  /\ Inv'
             /\ b \notin DOMAIN live /\ DOMAIN live' = DOMAIN live \cup {b} /\ live'[b] = n
             /\ \A p \in DOMAIN live : live'[p] = live[p] /\ heap'.size[p] = heap.size[p]
             /\ heap.brk <= heap'.brk
             /\ heap'.brk > heap.brk => \A f \in heap.free : heap.size[f] < BlockSize(n)
<1> DEFINE b == Chosen(heap, BlockSize(n))
<1>1. /\ n \in Nat /\ n > 0 /\ ~OutOfMemory(heap, n)
      /\ heap' = Malloc(heap, n) /\ live' = With(b, n) /\ crashed' = crashed
  BY RequestAssumption DEF MallocCall
<1>2. /\ Settled(heap')
      /\ b \notin Allocated(heap)
      /\ Allocated(heap') = Allocated(heap) \cup {b}
      /\ SameBut(heap, heap', {b})
      /\ heap'.size[b] >= BlockSize(n)
      /\ heap'.brk = IF Fits(heap, BlockSize(n)) = {}
                     THEN heap.brk + GrowBy(BlockSize(n)) ELSE heap.brk
  BY <1>1, MallocFacts DEF Inv
<1>3. /\ BlockSize(n) \in Nat /\ n + 8 <= BlockSize(n)
      /\ GrowBy(BlockSize(n)) \in Nat
  BY <1>1, BlockSizeFacts, GrowByFacts
<1> HIDE DEF b
<1>4. /\ b \notin DOMAIN live /\ DOMAIN live' = DOMAIN live \cup {b} /\ live'[b] = n
      /\ \A p \in DOMAIN live : live'[p] = live[p]
      /\ live' \in [DOMAIN live' -> Nat]
  BY <1>1, <1>2 DEF With, Inv, Held
<1>5. \A p \in DOMAIN live : heap'.size[p] = heap.size[p]
  BY <1>2, <1>4 DEF SameBut, Inv, Held
<1>6. heap.brk <= heap'.brk /\ heap'.brk <= MaxHeap /\ Base + Chunk <= heap'.brk
  BY <1>1, <1>2, <1>3, InvNumbers DEF OutOfMemory, Inv
<1>7. Held(heap', live')
  <2>1. heap'.size[b] \in Nat
    BY <1>2 DEF Settled, Sound, HeapType, Allocated
  <2>2. live'[b] + 8 <= heap'.size[b]
    BY <2>1, <1>1, <1>2, <1>3, <1>4
  <2>3. \A p \in DOMAIN live : live'[p] + 8 <= heap'.size[p]
    BY <1>4, <1>5 DEF Inv, Held
  <2> QED BY <2>2, <2>3, <1>2, <1>4 DEF Inv, Held
<1>8. Inv'
  BY <1>1, <1>2, <1>6, <1>7 DEF Inv
<1>9. ASSUME heap'.brk > heap.brk, NEW f \in heap.free
      PROVE  heap.size[f] < BlockSize(n)
  <2>1. Fits(heap, BlockSize(n)) = {}
    BY <1>9, <1>2, InvNumbers
  <2> QED BY <2>1, <1>3, NoFitFacts DEF Inv, Settled
<1> QED BY <1>4, <1>5, <1>6, <1>8, <1>9 DEF b

(* A free: the pointer is gone, the rest is as it was.                     *)
LEMMA FreeStep ==
  ASSUME Inv, NEW p \in DOMAIN live, FreeCall(p)
  PROVE  /\ Inv'
         /\ heap'.brk = heap.brk
         /\ DOMAIN live' = DOMAIN live \ {p}
         /\ \A q \in DOMAIN live' : live'[q] = live[q] /\ heap'.size[q] = heap.size[q]
<1>1. heap' = Free(heap, p) /\ live' = Without(p) /\ crashed' = crashed
  BY DEF FreeCall
<1>2. p \in Allocated(heap)
  BY DEF Inv, Held
<1>3. /\ Settled(heap') /\ heap'.brk = heap.brk
      /\ Allocated(heap') = Allocated(heap) \ {p}
      /\ SameBut(heap, heap', {p})
  BY <1>1, <1>2, FreeFacts DEF Inv
<1>4. /\ DOMAIN live' = DOMAIN live \ {p} /\ live' \in [DOMAIN live' -> Nat]
      /\ \A q \in DOMAIN live' : live'[q] = live[q]
  BY <1>1 DEF Without, Inv, Held
<1>5. \A q \in DOMAIN live' : heap'.size[q] = heap.size[q]
  BY <1>3, <1>4 DEF SameBut, Inv, Held
<1>6. Held(heap', live')
  BY <1>3, <1>4, <1>5 DEF Inv, Held
<1> QED BY <1>1, <1>3, <1>4, <1>5, <1>6 DEF Inv

(* A realloc in place, into slack or into the free block that follows.     *)
LEMMA ReallocFitsStep ==
  ASSUME Inv, NEW p \in DOMAIN live, NEW n \in Requests, ReallocFits(p, n)
  PROVE  /\ Inv'
         /\ heap' = heap
         /\ DOMAIN live' = DOMAIN live /\ live'[p] = n
         /\ \A q \in DOMAIN live \ {p} : live'[q] = live[q]
<1>1. /\ n \in Nat /\ BlockSize(n) <= heap.size[p]
      /\ live' = With(p, n) /\ heap' = heap /\ crashed' = crashed
  BY RequestAssumption DEF ReallocFits
<1>2. /\ DOMAIN live' = DOMAIN live /\ live'[p] = n
      /\ \A q \in DOMAIN live \ {p} : live'[q] = live[q]
      /\ live' \in [DOMAIN live' -> Nat]
  BY <1>1 DEF With, Inv, Held
<1>3. live'[p] + 8 <= heap.size[p]
  BY <1>1, <1>2, BlockSizeFacts, InvNumbers
<1>4. Held(heap, live')
  BY <1>2, <1>3 DEF Inv, Held
<1> QED BY <1>1, <1>2, <1>4 DEF Inv

(* A realloc that takes in the free block behind keeps its place.          *)
LEMMA ReallocGrowsStep ==
  ASSUME Inv, NEW p \in DOMAIN live, NEW n \in Requests, ReallocGrows(p, n)
  PROVE  /\ Inv'
         /\ heap'.brk = heap.brk
         /\ DOMAIN live' = DOMAIN live /\ live'[p] = n
         /\ \A q \in DOMAIN live \ {p} : live'[q] = live[q] /\ heap'.size[q] = heap.size[q]
<1>1. /\ n \in Nat /\ BlockSize(n) > heap.size[p] /\ CanGrow(heap, p, n)
      /\ heap' = Place(Join(heap, p), p, BlockSize(n))
      /\ live' = With(p, n) /\ crashed' = crashed
  BY RequestAssumption DEF ReallocGrows
<1>2. p \in Allocated(heap)
  BY DEF Inv, Held
<1>3. n > 0
  <2>1. heap.size[p] >= 16 /\ heap.size[p] \in Nat
    BY <1>2, SizeFacts DEF Inv, Settled, Sound, HeapType, Tiled, Aligned, Allocated
  <2>2. BlockSize(0) = 8
    BY DEF BlockSize, Align
  <2> QED BY <2>1, <2>2, <1>1
<1>4. /\ Settled(heap') /\ heap'.brk = heap.brk
      /\ Allocated(heap') = Allocated(heap)
      /\ SameBut(heap, heap', {p})
      /\ heap'.size[p] >= BlockSize(n)
  BY <1>1, <1>2, <1>3, GrowFacts DEF Inv
<1>5. /\ DOMAIN live' = DOMAIN live /\ live'[p] = n
      /\ \A q \in DOMAIN live \ {p} : live'[q] = live[q]
      /\ live' \in [DOMAIN live' -> Nat]
  BY <1>1 DEF With, Inv, Held
<1>6. \A q \in DOMAIN live \ {p} : heap'.size[q] = heap.size[q]
  BY <1>4 DEF SameBut, Inv, Held
<1>7. live'[p] + 8 <= heap'.size[p]
  <2>1. heap'.size[p] \in Nat
    BY <1>2, <1>4 DEF Settled, Sound, HeapType, Allocated
  <2> QED BY <2>1, <1>1, <1>4, <1>5, BlockSizeFacts
<1>8. Held(heap', live')
  BY <1>4, <1>5, <1>6, <1>7 DEF Inv, Held
<1> QED BY <1>1, <1>4, <1>5, <1>6, <1>8 DEF Inv

(* A realloc that moves: mm_malloc first, then mm_free of the old block,   *)
(* so the new block is not the old one.                                    *)
LEMMA ReallocMovesStep ==
  ASSUME Inv, NEW p \in DOMAIN live, NEW n \in Requests, ReallocMoves(p, n)
  PROVE  LET b == Chosen(heap, BlockSize(n))
         IN  /\ Inv'
             /\ b \notin DOMAIN live
             /\ DOMAIN live' = (DOMAIN live \ {p}) \cup {b} /\ live'[b] = n
             /\ \A q \in DOMAIN live \ {p} :
                  live'[q] = live[q] /\ heap'.size[q] = heap.size[q]
             /\ heap.brk <= heap'.brk
             /\ heap'.brk > heap.brk => \A f \in heap.free : heap.size[f] < BlockSize(n)
<1> DEFINE b == Chosen(heap, BlockSize(n))
           M == Malloc(heap, n)
<1>1. /\ n \in Nat /\ BlockSize(n) > heap.size[p] /\ ~OutOfMemory(heap, n)
      /\ heap' = Free(M, p)
      /\ live' = [r \in (DOMAIN live \ {p}) \cup {b} |-> IF r = b THEN n ELSE live[r]]
      /\ crashed' = crashed
  BY RequestAssumption DEF ReallocMoves
<1>2. p \in Allocated(heap)
  BY DEF Inv, Held
<1>3. n > 0
  <2>1. heap.size[p] >= 16 /\ heap.size[p] \in Nat
    BY <1>2, SizeFacts DEF Inv, Settled, Sound, HeapType, Tiled, Aligned, Allocated
  <2>2. BlockSize(0) = 8
    BY DEF BlockSize, Align
  <2> QED BY <2>1, <2>2, <1>1
<1>4. /\ Settled(M)
      /\ b \notin Allocated(heap)
      /\ Allocated(M) = Allocated(heap) \cup {b}
      /\ SameBut(heap, M, {b})
      /\ M.size[b] >= BlockSize(n)
      /\ M.brk = IF Fits(heap, BlockSize(n)) = {}
                 THEN heap.brk + GrowBy(BlockSize(n)) ELSE heap.brk
  BY <1>1, <1>3, MallocFacts DEF Inv
<1>5. /\ BlockSize(n) \in Nat /\ n + 8 <= BlockSize(n)
      /\ GrowBy(BlockSize(n)) \in Nat
  BY <1>1, BlockSizeFacts, GrowByFacts
<1> HIDE DEF b, M
<1>6. p \in Allocated(M) /\ p # b
  BY <1>2, <1>4
<1>7. /\ Settled(heap') /\ heap'.brk = M.brk
      /\ Allocated(heap') = Allocated(M) \ {p}
      /\ SameBut(M, heap', {p})
  BY <1>1, <1>4, <1>6, FreeFacts
<1>8. /\ b \notin DOMAIN live
      /\ DOMAIN live' = (DOMAIN live \ {p}) \cup {b} /\ live'[b] = n
      /\ \A q \in DOMAIN live \ {p} : live'[q] = live[q]
      /\ live' \in [DOMAIN live' -> Nat]
  BY <1>1, <1>4 DEF Inv, Held
<1>9. \A q \in DOMAIN live \ {p} : heap'.size[q] = heap.size[q]
  <2> SUFFICES ASSUME NEW q \in DOMAIN live \ {p} PROVE heap'.size[q] = heap.size[q]
    OBVIOUS
  <2>1. q \in Allocated(heap) \ {b} /\ q \in Allocated(M) \ {p}
    BY <1>4, <1>8 DEF Inv, Held
  <2> QED BY <2>1, <1>4, <1>7 DEF SameBut
<1>10. heap.brk <= heap'.brk /\ heap'.brk <= MaxHeap /\ Base + Chunk <= heap'.brk
  BY <1>1, <1>4, <1>5, <1>7, InvNumbers DEF OutOfMemory, Inv
<1>11. Held(heap', live')
  <2>1. heap'.size[b] = M.size[b] /\ b \in Allocated(heap')
    BY <1>4, <1>6, <1>7 DEF SameBut
  <2>2. heap'.size[b] \in Nat
    BY <2>1, <1>7 DEF Settled, Sound, HeapType, Allocated
  <2>3. live'[b] + 8 <= heap'.size[b]
    BY <2>1, <2>2, <1>1, <1>4, <1>5, <1>8
  <2>4. \A q \in DOMAIN live \ {p} : live'[q] + 8 <= heap'.size[q]
    BY <1>8, <1>9 DEF Inv, Held
  <2>5. Allocated(heap') = DOMAIN live'
    BY <1>4, <1>6, <1>7, <1>8 DEF Inv, Held
  <2> QED BY <2>3, <2>4, <2>5, <1>8 DEF Held
<1>12. Inv'
  BY <1>1, <1>7, <1>10, <1>11 DEF Inv
<1>13. ASSUME heap'.brk > heap.brk, NEW f \in heap.free
       PROVE  heap.size[f] < BlockSize(n)
  <2>1. Fits(heap, BlockSize(n)) = {}
    BY <1>13, <1>4, <1>7, InvNumbers
  <2> QED BY <2>1, <1>5, NoFitFacts DEF Inv, Settled
<1> QED BY <1>8, <1>9, <1>10, <1>12, <1>13 DEF b

(* mm_init, at the start and after every rewind of the break.              *)
LEMMA InitInv ==
  /\ Settled(InitHeap) /\ Held(InitHeap, NoBlock)
  /\ Base + Chunk <= InitHeap.brk /\ InitHeap.brk <= MaxHeap
<1>1. Settled(InitHeap) /\ InitHeap.brk = Base + Chunk /\ Allocated(InitHeap) = {}
  BY InitHeapFacts
<1>2. Held(InitHeap, NoBlock)
  BY <1>1 DEF Held, NoBlock
<1>3. Base + Chunk \in Nat /\ Base + Chunk <= MaxHeap
  BY SizeFacts, ArenaAssumption, ChunkAssumption DEF Base
<1> QED BY <1>1, <1>2, <1>3

(* A new trace starts from the heap mm_init lays out.                      *)
LEMMA RestartStep ==
  ASSUME Inv, Restart
  PROVE  Inv' /\ heap'.brk <= heap.brk /\ live' = NoBlock
<1>1. heap' = InitHeap /\ live' = NoBlock /\ crashed' = crashed
  BY DEF Restart
<1>2. heap'.brk = Base + Chunk
  BY <1>1, InitHeapFacts
<1> QED BY <1>1, <1>2, InitInv DEF Inv

(* The steps that change no block: crashes, and steps of other components. *)
LEMMA IdleStep ==
  ASSUME Inv, heap' = heap, live' = live, crashed' \in BOOLEAN
  PROVE  Inv'
BY DEF Inv

(* The strengthening all theorems below rest on is inductive.              *)
LEMMA InductiveInvariant == Spec => []Inv
<1>1. Init => Inv
  BY InitInv DEF Init, Inv
<1>2. Inv /\ [Next]_vars => Inv'
  <2> SUFFICES ASSUME Inv, [Next]_vars PROVE Inv'
    OBVIOUS
  <2>1. ASSUME NEW n \in Requests, MallocCall(n) PROVE Inv'
    BY <2>1, MallocStep
  <2>2. ASSUME NEW n \in Requests, MallocCrash(n) PROVE Inv'
    BY <2>2, IdleStep DEF MallocCrash
  <2>3. ASSUME NEW p \in DOMAIN live, FreeCall(p) PROVE Inv'
    BY <2>3, FreeStep
  <2>4. ASSUME NEW p \in DOMAIN live, NEW n \in Requests, ReallocFits(p, n) PROVE Inv'
    BY <2>4, ReallocFitsStep
  <2>5. ASSUME NEW p \in DOMAIN live, NEW n \in Requests, ReallocGrows(p, n) PROVE Inv'
    BY <2>5, ReallocGrowsStep
  <2>6. ASSUME NEW p \in DOMAIN live, NEW n \in Requests, ReallocMoves(p, n) PROVE Inv'
    BY <2>6, ReallocMovesStep
  <2>7. ASSUME NEW p \in DOMAIN live, NEW n \in Requests, ReallocCrash(p, n) PROVE Inv'
    BY <2>7, IdleStep DEF ReallocCrash
  <2>8. CASE Restart
    BY <2>8, RestartStep
  <2>9. CASE UNCHANGED vars
    BY <2>9, IdleStep DEF vars, Inv
  <2> QED BY <2>1, <2>2, <2>3, <2>4, <2>5, <2>6, <2>7, <2>8, <2>9 DEF Next
<1> QED BY <1>1, <1>2, PTL DEF Spec

-----------------------------------------------------------------------------
(* The theorems.                                                           *)

(* Every variable keeps its type.                                          *)
THEOREM TypeCorrect == Spec => []TypeOK
<1>1. Inv => TypeOK
  BY DEF Inv, TypeOK, Held, Settled, Sound, HeapType, Allocated
<1> QED BY <1>1, InductiveInvariant, PTL

(* After every call of mm_malloc, mm_free or mm_realloc the blocks tile    *)
(* the heap, the free list holds exactly the free blocks, once each, and   *)
(* no two free blocks are neighbours.                                      *)
THEOREM HeapWellFormed == Spec => []WellFormed
<1>1. Inv => WellFormed
  BY InvNumbers, ChunkAssumption DEF Inv, WellFormed, Settled, Sound
<1> QED BY <1>1, InductiveInvariant, PTL

(* No block leaks: each is on the free list or held by the client, never   *)
(* both, and a held one has room for the request and its overhead.         *)
THEOREM BlocksAccounted == Spec => []Accounted
<1>1. Inv => Accounted
  BY DEF Inv, Accounted, Held, Settled, Sound, HeapType, Allocated
<1> QED BY <1>1, InductiveInvariant, PTL

(* When the client has freed everything, in whatever order, coalesce has   *)
(* left a single block from the prologue to the epilogue.                  *)
THEOREM EmptyHeapIsOneBlock == Spec => []EmptyIsOneBlock
<1>1. ASSUME Inv, live = NoBlock PROVE Blocks(heap) = {Base}
  <2>1. Blocks(heap) = heap.free
    BY <1>1 DEF Inv, Held, Allocated, NoBlock, Settled, Sound, HeapType
  <2>2. ASSUME NEW c \in Blocks(heap), c # Base PROVE FALSE
    <3>1. PICK d \in Blocks(heap) : End(heap, d) = c
      BY <1>1, <2>2 DEF Inv, Settled, Sound, Tiled
    <3> QED BY <3>1, <2>1, <2>2, <1>1 DEF Inv, Settled, Coalesced
  <2>3. Base # heap.brk
    BY <1>1, InvNumbers, ChunkAssumption DEF Inv
  <2>4. Base \in Blocks(heap)
    BY <1>1, <2>3 DEF Inv, Settled, Sound, Tiled
  <2> QED BY <2>2, <2>4
<1>2. Inv => EmptyIsOneBlock
  BY <1>1 DEF EmptyIsOneBlock
<1> QED BY <1>2, InductiveInvariant, PTL

(* extend_heap is called only when find_fit failed, and the free list is   *)
(* complete: no free block could have held the request.                    *)
THEOREM GrowthIsNeeded == Spec => GrowsOnlyWhenFull
<1> DEFINE Needed ==
      heap'.brk > heap.brk =>
        \E q \in DOMAIN live' \ DOMAIN live :
          \A f \in heap.free : heap.size[f] < BlockSize(live'[q])
<1>1. Inv /\ [Next]_vars => Needed
  <2> SUFFICES ASSUME Inv, [Next]_vars, heap'.brk > heap.brk
               PROVE  \E q \in DOMAIN live' \ DOMAIN live :
                        \A f \in heap.free : heap.size[f] < BlockSize(live'[q])
    OBVIOUS
  <2>1. ASSUME heap'.brk <= heap.brk, heap'.brk \in Nat PROVE FALSE
    BY <2>1, InvNumbers
  <2>2. ASSUME heap'.brk = heap.brk PROVE FALSE
    BY <2>1, <2>2, InvNumbers
  <2>3. ASSUME NEW n \in Requests, MallocCall(n)
        PROVE  \E q \in DOMAIN live' \ DOMAIN live :
                 \A f \in heap.free : heap.size[f] < BlockSize(live'[q])
    BY <2>3, MallocStep
  <2>4. ASSUME NEW p \in DOMAIN live, NEW n \in Requests, ReallocMoves(p, n)
        PROVE  \E q \in DOMAIN live' \ DOMAIN live :
                 \A f \in heap.free : heap.size[f] < BlockSize(live'[q])
    BY <2>4, ReallocMovesStep
  <2>5. ASSUME NEW p \in DOMAIN live, FreeCall(p) PROVE FALSE
    BY <2>2, <2>5, FreeStep
  <2>6. ASSUME NEW p \in DOMAIN live, NEW n \in Requests, ReallocFits(p, n) PROVE FALSE
    BY <2>2, <2>6, ReallocFitsStep
  <2>7. ASSUME NEW p \in DOMAIN live, NEW n \in Requests, ReallocGrows(p, n) PROVE FALSE
    BY <2>2, <2>7, ReallocGrowsStep
  <2>8. ASSUME NEW n \in Requests, MallocCrash(n) PROVE FALSE
    BY <2>2, <2>8 DEF MallocCrash
  <2>9. ASSUME NEW p \in DOMAIN live, NEW n \in Requests, ReallocCrash(p, n) PROVE FALSE
    BY <2>2, <2>9 DEF ReallocCrash
  <2>10. ASSUME Restart PROVE FALSE
    <3>1. heap' = InitHeap /\ heap'.brk <= heap.brk
      BY <2>10, RestartStep DEF Restart
    <3>2. heap'.brk \in Nat
      BY <3>1, InitInv DEF Settled, Sound, HeapType
    <3> QED BY <3>1, <3>2, <2>1
  <2>11. ASSUME UNCHANGED vars PROVE FALSE
    BY <2>2, <2>11 DEF vars
  <2> QED BY <2>3, <2>4, <2>5, <2>6, <2>7, <2>8, <2>9, <2>10, <2>11 DEF Next
<1> QED BY <1>1, InductiveInvariant, PTL DEF Spec, GrowsOnlyWhenFull

(* A block whose size is a multiple of 8 and that has room for n bytes and *)
(* the overhead is as large as the block n bytes would be given.           *)
LEMMA RoomIsEnough ==
  ASSUME NEW n \in Nat, NEW s \in Nat, s % 8 = 0, n + 8 <= s
  PROVE  BlockSize(n) <= s
BY DEF BlockSize, Align

(* A call changes the size of no block but the one it was called with: not *)
(* by splitting, joining or coalescing around it.                          *)
THEOREM OthersKeepTheirBlocks == Spec => OthersUntouched
<1> DEFINE Kept ==
      \A p \in DOMAIN live \cap DOMAIN live' :
        live'[p] = live[p] => heap'.size[p] = heap.size[p]
<1>1. Inv /\ [Next]_vars => Kept
  <2> SUFFICES ASSUME Inv, [Next]_vars PROVE Kept
    OBVIOUS
  <2>1. ASSUME heap' = heap PROVE Kept
    BY <2>1
  <2>2. ASSUME NEW n \in Requests, MallocCall(n) PROVE Kept
    BY <2>2, MallocStep
  <2>3. ASSUME NEW p \in DOMAIN live, FreeCall(p) PROVE Kept
    BY <2>3, FreeStep
  <2>4. ASSUME NEW p \in DOMAIN live, NEW n \in Requests, ReallocGrows(p, n) PROVE Kept
    <3>1. /\ DOMAIN live' = DOMAIN live /\ live'[p] = n
          /\ \A q \in DOMAIN live \ {p} : heap'.size[q] = heap.size[q]
      BY <2>4, ReallocGrowsStep
    <3>2. live'[p] # live[p]
      <4>1. /\ heap.size[p] \in Nat /\ heap.size[p] % 8 = 0 /\ n \in Nat
            /\ live[p] + 8 <= heap.size[p]
        BY RequestAssumption
           DEF Inv, Held, Settled, Sound, HeapType, Tiled, Aligned, Allocated
      <4>2. BlockSize(n) > heap.size[p]
        BY <2>4 DEF ReallocGrows
      <4>3. live[p] # n
        <5> SUFFICES ASSUME live[p] = n PROVE FALSE
          OBVIOUS
        <5>1. BlockSize(n) <= heap.size[p]
          BY <4>1, RoomIsEnough
        <5>2. BlockSize(n) \in Nat
          BY <4>1, BlockSizeFacts
        <5> QED BY <5>1, <5>2, <4>1, <4>2
      <4> QED BY <4>3, <3>1
    <3> QED BY <3>1, <3>2
  <2>5. ASSUME NEW p \in DOMAIN live, NEW n \in Requests, ReallocMoves(p, n) PROVE Kept
    <3>1. p \notin DOMAIN live'
      BY <2>5, ReallocMovesStep, ZenonT(60)
    <3> QED BY <3>1, <2>5, ReallocMovesStep
  <2>6. ASSUME Restart PROVE Kept
    BY <2>6, RestartStep DEF NoBlock
  <2> QED BY <2>1, <2>2, <2>3, <2>4, <2>5, <2>6
          DEF Next, vars, ReallocFits, MallocCrash, ReallocCrash
<1> QED BY <1>1, InductiveInvariant, PTL DEF Spec, OthersUntouched

-----------------------------------------------------------------------------
(* The refinement.                                                         *)

(* What a sound heap says of two payloads, in whichever order they lie.    *)
LEMMA PayloadsApart ==
  ASSUME NEW H, NEW L, Settled(H), Held(H, L)
  PROVE  /\ \A p \in DOMAIN L :
              /\ p \in Nat /\ L[p] \in Nat
              /\ p % 8 = 0 /\ p >= HeapLo /\ p + L[p] <= H.brk
         /\ \A p, q \in DOMAIN L :
              p # q => p + L[p] <= q \/ q + L[q] <= p
<1>1. /\ Tiled(H) /\ DOMAIN L \subseteq Blocks(H) /\ H.brk \in Nat
      /\ Blocks(H) \subseteq Nat /\ H.size \in [Blocks(H) -> Nat]
  BY DEF Settled, Sound, Held, Allocated, HeapType
<1>2. ASSUME NEW p \in DOMAIN L
      PROVE  /\ p \in Nat /\ L[p] \in Nat /\ H.size[p] \in Nat
             /\ L[p] + 8 <= H.size[p] /\ End(H, p) = p + H.size[p]
  BY <1>1 DEF End, Held
<1>3. ASSUME NEW p \in DOMAIN L
      PROVE  End(H, p) <= H.brk
  <2>1. End(H, p) \in Blocks(H) \cup {H.brk}
    BY <1>1 DEF Tiled
  <2>2. \A b \in Blocks(H) : b < H.brk /\ b \in Nat
    BY <1>1 DEF Tiled
  <2> QED BY <2>1, <2>2, <1>1
<1>4. ASSUME NEW p \in DOMAIN L
      PROVE  p % 8 = 0 /\ p >= HeapLo /\ p + L[p] <= H.brk
  <2>1. p % 8 = 0 /\ p >= Base
    BY <1>1 DEF Tiled, Aligned
  <2>2. HeapLo \in Nat /\ Base = HeapLo + 16
    BY ArenaAssumption DEF Base
  <2> QED BY <2>1, <2>2, <1>1, <1>2, <1>3
<1>5. ASSUME NEW p \in DOMAIN L, NEW q \in DOMAIN L, p < q
      PROVE  p + L[p] <= q
  <2>1. End(H, p) <= q
    BY <1>1, <1>5 DEF Tiled
  <2> QED BY <2>1, <1>2
<1>6. ASSUME NEW p \in DOMAIN L, NEW q \in DOMAIN L, p # q
      PROVE  p + L[p] <= q \/ q + L[q] <= p
  <2>1. p < q \/ q < p
    BY <1>2, <1>6
  <2> QED BY <2>1, <1>5
<1> QED BY <1>2, <1>4, <1>6

(* The pointer a call returns is one the client may be given: the new      *)
(* payload is aligned, in the heap and clear of the payloads of the others.*)
LEMMA LegalAfter ==
  ASSUME Inv, Inv', NEW b \in DOMAIN live', NEW n, live'[b] = n,
         NEW R \in SUBSET DOMAIN live, b \notin R, R \subseteq DOMAIN live',
         \A q \in R : live'[q] = live[q]
  PROVE  Promise!Legal(b, n, R) /\ b \in HeapLo .. MaxHeap
<1>1. Settled(heap') /\ Held(heap', live') /\ heap'.brk <= MaxHeap /\ heap'.brk \in Nat
  BY DEF Inv, Settled, Sound, HeapType
<1>2. /\ \A p \in DOMAIN live' :
           /\ p \in Nat /\ live'[p] \in Nat
           /\ p % 8 = 0 /\ p >= HeapLo /\ p + live'[p] <= heap'.brk
      /\ \A p, q \in DOMAIN live' :
           p # q => p + live'[p] <= q \/ q + live'[q] <= p
  BY <1>1, PayloadsApart
<1>3. HeapLo \in Nat /\ MaxHeap \in Nat
  BY ArenaAssumption
<1>4. /\ b % 8 = 0 /\ b >= HeapLo /\ b <= MaxHeap /\ b + n <= heap'.brk
      /\ b \in Nat
  BY <1>1, <1>2, <1>3
<1>5. ASSUME NEW q \in R PROVE q + live[q] <= b \/ b + n <= q
  <2>1. q # b /\ q \in DOMAIN live' /\ live'[q] = live[q]
    OBVIOUS
  <2> QED BY <2>1, <1>2
<1> QED BY <1>3, <1>4, <1>5 DEF Promise!Legal

(* A request is refused only when the arena cannot hold it and the waste a *)
(* package may make of it: a chunk, or the overhead and padding of a block.*)
LEMMA RefusalIsLegal ==
  ASSUME Inv, NEW n \in Nat, OutOfMemory(heap, n)
  PROVE  heap.brk + n + (Chunk + 16) > MaxHeap
<1>1. heap.brk + GrowBy(BlockSize(n)) > MaxHeap
  BY DEF OutOfMemory
<1>2. /\ GrowBy(BlockSize(n)) \in Nat
      /\ GrowBy(BlockSize(n)) <= n + 15 \/ GrowBy(BlockSize(n)) <= Chunk
  BY GrowByFacts
<1> QED BY <1>1, <1>2, InvNumbers

(* mm.c keeps the promise of MallocSpec: each call is one step of the      *)
(* client's view, whatever happens to blocks and lists underneath.         *)
THEOREM Refinement == Spec => KeepsPromise
<1>1. Init => Promise!Start
  <2> SUFFICES ASSUME Init PROVE Promise!Start
    OBVIOUS
  <2>1. heap.brk = Base + Chunk /\ live = NoBlock /\ crashed = FALSE
    BY InitHeapFacts DEF Init
  <2>2. Base + Chunk \in HeapLo .. MaxHeap
    BY ArenaAssumption, ChunkAssumption DEF Base
  <2> QED BY <2>1, <2>2 DEF Promise!Start, Promise!None, NoBlock
<1>2. Inv /\ Inv' /\ [Next]_vars => [Promise!Step]_(Promise!pvars)
  <2> SUFFICES ASSUME Inv, Inv', [Next]_vars
               PROVE  Promise!Step \/ UNCHANGED Promise!pvars
    OBVIOUS
  <2>1. heap'.brk \in Nat /\ heap'.brk <= MaxHeap
    BY DEF Inv, Settled, Sound, HeapType
  <2>2. ASSUME ~crashed, NEW n \in Requests, MallocCall(n) PROVE Promise!Step
    <3> DEFINE b == Chosen(heap, BlockSize(n))
    <3>1. /\ b \notin DOMAIN live /\ DOMAIN live' = DOMAIN live \cup {b} /\ live'[b] = n
          /\ \A p \in DOMAIN live : live'[p] = live[p]
          /\ heap.brk <= heap'.brk
      BY <2>2, MallocStep
    <3>2. /\ n > 0 /\ crashed' = crashed
          /\ live' = [q \in DOMAIN live \cup {b} |-> IF q = b THEN n ELSE live[q]]
      BY <2>2 DEF MallocCall, With
    <3> HIDE DEF b
    <3>3. Promise!Legal(b, n, DOMAIN live) /\ b \in HeapLo .. MaxHeap
      BY <3>1, LegalAfter
    <3>4. Promise!Obtain(n)
      BY <3>1, <3>2, <3>3, <2>1 DEF Promise!Obtain, Promise!Grow
    <3> QED BY <3>4, <2>2 DEF Promise!Step
  <2>3. ASSUME ~crashed, NEW p \in DOMAIN live, FreeCall(p) PROVE Promise!Step
    <3>1. heap'.brk = heap.brk /\ live' = Without(p) /\ crashed' = crashed
      BY <2>3, FreeStep DEF FreeCall
    <3>2. Promise!Release(p)
      BY <3>1 DEF Promise!Release, Promise!Except, Without
    <3> QED BY <3>2, <2>3 DEF Promise!Step
  <2>4. ASSUME NEW p \in DOMAIN live, NEW n \in Requests, NEW b,
               ~crashed, crashed' = crashed,
               n > 0, heap.brk <= heap'.brk,
               b \notin DOMAIN live \ {p},
               live' = [r \in (DOMAIN live \ {p}) \cup {b} |->
                          IF r = b THEN n ELSE live[r]]
        PROVE  Promise!Step
    <3>1. /\ DOMAIN live' = (DOMAIN live \ {p}) \cup {b} /\ live'[b] = n
          /\ \A q \in DOMAIN live \ {p} : live'[q] = live[q]
      BY <2>4
    <3>2. Promise!Legal(b, n, DOMAIN live \ {p}) /\ b \in HeapLo .. MaxHeap
      BY <2>4, <3>1, LegalAfter
    <3>3. Promise!Resize(p, n)
      BY <2>1, <2>4, <3>2 DEF Promise!Resize, Promise!Grow, Promise!Except
    <3> QED BY <3>3, <2>4 DEF Promise!Step
  <2>5. ASSUME NEW p \in DOMAIN live, NEW n \in Requests, BlockSize(n) > heap.size[p]
        PROVE  n > 0
    <3>1. heap.size[p] >= 16 /\ heap.size[p] \in Nat
      BY SizeFacts DEF Inv, Held, Settled, Sound, HeapType, Tiled, Aligned, Allocated
    <3>2. n \in Nat
      BY RequestAssumption
    <3>3. BlockSize(0) = 8
      BY DEF BlockSize, Align
    <3>4. n # 0
      <4> SUFFICES ASSUME n = 0 PROVE FALSE
        OBVIOUS
      <4> QED BY <2>5, <3>1, <3>3
    <3> QED BY <3>2, <3>4
  <2>6. ASSUME NEW p \in DOMAIN live, NEW n
        PROVE  With(p, n) = [r \in (DOMAIN live \ {p}) \cup {p} |->
                               IF r = p THEN n ELSE live[r]]
    BY DEF With
  <2>7. ASSUME ~crashed, NEW p \in DOMAIN live, NEW n \in Requests, ReallocFits(p, n)
        PROVE  Promise!Step
    <3>1. n > 0 /\ live' = With(p, n) /\ heap' = heap /\ crashed' = crashed
      BY <2>7 DEF ReallocFits
    <3>2. heap.brk <= heap'.brk
      BY <3>1, InvNumbers
    <3>3. live' = [r \in (DOMAIN live \ {p}) \cup {p} |-> IF r = p THEN n ELSE live[r]]
      BY <3>1, <2>6
    <3> QED BY <3>1, <3>2, <3>3, <2>4, <2>7
  <2>8. ASSUME ~crashed, NEW p \in DOMAIN live, NEW n \in Requests, ReallocGrows(p, n)
        PROVE  Promise!Step
    <3>1. live' = With(p, n) /\ crashed' = crashed /\ n > 0
      BY <2>8, <2>5 DEF ReallocGrows
    <3>2. heap.brk <= heap'.brk
      BY <2>8, ReallocGrowsStep, InvNumbers
    <3>3. live' = [r \in (DOMAIN live \ {p}) \cup {p} |-> IF r = p THEN n ELSE live[r]]
      BY <3>1, <2>6
    <3> QED BY <3>1, <3>2, <3>3, <2>4, <2>8
  <2>9. ASSUME ~crashed, NEW p \in DOMAIN live, NEW n \in Requests, ReallocMoves(p, n)
        PROVE  Promise!Step
    <3> DEFINE b == Chosen(heap, BlockSize(n))
    <3>1. /\ crashed' = crashed /\ n > 0
          /\ live' = [r \in (DOMAIN live \ {p}) \cup {b} |-> IF r = b THEN n ELSE live[r]]
      BY <2>9, <2>5 DEF ReallocMoves
    <3>2. heap.brk <= heap'.brk /\ b \notin DOMAIN live
      BY <2>9, ReallocMovesStep
    <3> HIDE DEF b
    <3> QED BY <3>1, <3>2, <2>4, <2>9
  <2>10. ASSUME ~crashed, NEW n \in Requests, OutOfMemory(heap, n),
                crashed' = TRUE, UNCHANGED <<heap, live>>
         PROVE  Promise!Step
    <3>1. heap.brk + n + (Chunk + 16) > MaxHeap
      BY <2>10, RefusalIsLegal, RequestAssumption
    <3>2. Promise!GiveUp(n)
      BY <3>1, <2>10 DEF Promise!GiveUp
    <3> QED BY <3>2, <2>10 DEF Promise!Step
  <2>11. ASSUME ~crashed, Restart PROVE Promise!Step
    <3>1. live' = NoBlock /\ crashed' = crashed /\ heap'.brk = Base + Chunk
      BY <2>11, InitHeapFacts DEF Restart
    <3>2. Base + Chunk \in HeapLo .. MaxHeap
      BY ArenaAssumption, ChunkAssumption DEF Base
    <3>3. Promise!Reset
      BY <3>1, <3>2 DEF Promise!Reset, Promise!None, NoBlock
    <3> QED BY <3>3, <2>11 DEF Promise!Step
  <2>12. CASE UNCHANGED vars
    BY <2>12 DEF vars, Promise!pvars
  <2>13. ASSUME ~crashed, NEW n \in Requests, MallocCrash(n) PROVE Promise!Step
    BY <2>10, <2>13 DEF MallocCrash
  <2>14. ASSUME ~crashed, NEW p \in DOMAIN live, NEW n \in Requests, ReallocCrash(p, n)
         PROVE  Promise!Step
    BY <2>10, <2>14 DEF ReallocCrash
  <2> QED BY <2>2, <2>3, <2>7, <2>8, <2>9, <2>11, <2>12, <2>13, <2>14 DEF Next
<1> QED BY <1>1, <1>2, InductiveInvariant, PTL DEF Spec, KeepsPromise, Promise!PSpec

=============================================================================
