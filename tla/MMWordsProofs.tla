--------------------------- MODULE MMWordsProofs ----------------------------
(***************************************************************************)
(* mm.c on words implements the blocks of BlockHeap: every function of     *)
(* MMWords, run on words that hold a heap H, leaves words that hold what the *)
(* operator of the same name in BlockHeap makes of H, and writes nowhere   *)
(* else.  The words hold H if the boundary tags are those of its blocks    *)
(* (Tags) and the next and previous words thread its free list (Linked).   *)
(***************************************************************************)
EXTENDS MMWords, FiniteSetTheorems, TLAPS

P == INSTANCE BlockHeapProofs WITH
  heap <- 0, live <- 0, crashed <- FALSE, Requests <- {}

(* What BlockHeap assumes of its constants follows from what is assumed    *)
(* here.                                                                   *)
LEMMA BlockAssumptions ==
  /\ Chunk \in Nat /\ Chunk % 8 = 0 /\ Chunk >= 16
  /\ HeapLo \in Nat /\ HeapLo % 8 = 0
  /\ MaxHeap \in Nat /\ HeapLo + 16 + Chunk <= MaxHeap
  /\ {} \subseteq Nat
BY MemAssumption, ChunkAssumption

-----------------------------------------------------------------------------
(* Words.                                                                  *)

Machine == [mem : [Arena -> Nat], brk : Nat, fl : Nat, ok : BOOLEAN]

(* The words a list of these blocks is threaded through.                   *)
ListWords(S) == S \cup {b + WSIZE : b \in S}

(* g has the words of m, but for those in A.                               *)
SameWords(m, g, A) == \A a : a \notin A => Get(g, a) = Get(m, a)

(* g is m with other words in A, and perhaps another free_list.            *)
Rewritten(m, g, A) ==
  /\ g \in Machine /\ g.brk = m.brk /\ g.ok = m.ok
  /\ SameWords(m, g, A)

(* An aligned address between the bounds is that of a word.                *)
LEMMA WordAddress ==
  ASSUME NEW a \in Int, a % 4 = 0, HeapLo <= a, a + 4 <= MaxHeap
  PROVE  a \in Arena
<1>1. PICK k \in Int : a = HeapLo + 4 * k
  <2>1. HeapLo % 4 = 0 /\ HeapLo \in Nat
    BY MemAssumption
  <2>2. a = HeapLo + 4 * ((a - HeapLo) \div 4)
    BY <2>1
  <2> QED BY <2>1, <2>2
<1>2. k \in 0 .. (MaxHeap - HeapLo) \div 4 - 1
  BY <1>1, MemAssumption
<1> QED BY <1>1, <1>2 DEF Arena, WSIZE

(* Every word has an aligned address within the arena.                     *)
LEMMA ArenaFacts ==
  ASSUME NEW a \in Arena
  PROVE  a \in Nat /\ a % 4 = 0 /\ HeapLo <= a /\ a + 4 <= MaxHeap
<1>1. PICK k \in 0 .. (MaxHeap - HeapLo) \div 4 - 1 : a = HeapLo + 4 * k
  BY DEF Arena, WSIZE
<1> QED BY <1>1, MemAssumption

(* g is m with v at a.                                                     *)
Written(m, g, a, v) ==
  /\ g \in Machine /\ g.brk = m.brk /\ g.ok = m.ok /\ g.fl = m.fl
  /\ \A x : Get(g, x) = IF x = a THEN v ELSE Get(m, x)

(* set_val writes one word.                                                *)
LEMMA SetFacts ==
  ASSUME NEW m \in Machine, NEW a \in Arena, NEW v \in Nat
  PROVE  Written(m, Set(m, a, v), a, v)
<1> DEFINE g == Set(m, a, v)
<1>1. g = [m EXCEPT !.mem = [m.mem EXCEPT ![a] = v]]
  BY DEF Set, Machine
<1>2. m.mem \in [Arena -> Nat]
  BY DEF Machine
<1>3. [m.mem EXCEPT ![a] = v] \in [Arena -> Nat]
  BY <1>2
<1>4. /\ g \in Machine /\ g.mem = [m.mem EXCEPT ![a] = v]
      /\ g.brk = m.brk /\ g.ok = m.ok /\ g.fl = m.fl
  BY <1>1, <1>3 DEF Machine
<1> HIDE DEF g
<1>5. ASSUME NEW x PROVE Get(g, x) = IF x = a THEN v ELSE Get(m, x)
  BY <1>2, <1>4 DEF Get
<1>6. Written(m, g, a, v)
  BY <1>4, <1>5 DEF Written
<1> QED BY <1>6 DEF g

(* The assignment to free_list writes no word.                             *)
LEMMA FlFacts ==
  ASSUME NEW m \in Machine, NEW v \in Nat
  PROVE  /\ Rewritten(m, [m EXCEPT !.fl = v], {})
         /\ [m EXCEPT !.fl = v].fl = v
BY DEF Machine, Get, Rewritten, SameWords

(* What is read is a number.                                               *)
LEMMA GetType ==
  ASSUME NEW m \in Machine, NEW a
  PROVE  Get(m, a) \in Nat
BY DEF Machine, Get

-----------------------------------------------------------------------------
(* The list in the words.                                                  *)

(* the blocks a list may be threaded through                               *)
Cells == {b \in Nat \ {0} : b % 8 = 0 /\ b \in Arena /\ b + WSIZE \in Arena}

At(s, i) == IF i \in 1 .. Len(s) THEN s[i] ELSE NULL

Linked(m, s) ==
  /\ m.fl = At(s, 1)
  /\ \A i \in 1 .. Len(s) :
       Get(m, s[i]) = At(s, i + 1) /\ Get(m, s[i] + WSIZE) = At(s, i - 1)

(* The words of two blocks differ.                                         *)
LEMMA CellFacts ==
  ASSUME NEW b \in Cells
  PROVE  /\ b \in Nat /\ b # 0 /\ b # NULL /\ b \in Arena /\ b + 4 \in Arena
         /\ \A c \in Cells : b # c + 4 /\ (b + 4 = c + 4 => b = c)
BY DEF Cells, NULL, WSIZE

(* add_to_free_list is Push.                                               *)
LEMMA PushWords ==
  ASSUME NEW m \in Machine, NEW s \in Seq(Cells), NEW b \in Cells,
         P!IsInjective(s), b \notin P!ToSet(s), Linked(m, s)
  PROVE  LET g == AddToFreeList(m, b)
         IN  /\ Rewritten(m, g, ListWords(P!ToSet(s) \cup {b}))
             /\ Linked(g, P!Push(s, b))
<1> DEFINE g == AddToFreeList(m, b)
           t == P!Push(s, b)
           m1 == Set(m, b, m.fl)
           m2 == IF m.fl = NULL THEN m1 ELSE Set(m1, m.fl + 4, b)
           m3 == Set(m2, b + 4, NULL)
<1>1. Len(s) \in Nat /\ \A i \in 1 .. Len(s) : s[i] \in Cells /\ s[i] # b
  BY DEF P!ToSet
<1>2. m.fl \in Nat /\ m.fl = At(s, 1)
  BY DEF Machine, Linked
<1>3. b \in Nat /\ b # 0 /\ b # NULL /\ b \in Arena /\ b + 4 \in Arena /\ NULL \in Nat
  BY CellFacts DEF NULL
<1>4. g = [m3 EXCEPT !.fl = b]
  BY <1>3 DEF AddToFreeList, SetNext, SetPrev, WSIZE
<1>5. Written(m, m1, b, m.fl)
  BY <1>2, <1>3, SetFacts
<1> HIDE DEF m1
<1>6. m.fl # NULL => m.fl \in Cells /\ m.fl + 4 \in Arena /\ m.fl = s[1] /\ 1 \in 1 .. Len(s)
  BY <1>1, <1>2, CellFacts DEF At
<1>7. m.fl # NULL => Written(m1, m2, m.fl + 4, b)
  <2>1. m1 \in Machine
    BY <1>5 DEF Written
  <2> QED BY <2>1, <1>3, <1>6, SetFacts
<1>8. m.fl = NULL => m2 = m1
  OBVIOUS
<1> HIDE DEF m2
<1>9. Written(m2, m3, b + 4, NULL)
  <2>1. m2 \in Machine
    BY <1>5, <1>7, <1>8 DEF Written
  <2> QED BY <2>1, <1>3, SetFacts
<1> HIDE DEF m3
<1>9a. Rewritten(m3, g, {}) /\ g.fl = b
  <2>1. m3 \in Machine
    BY <1>9 DEF Written
  <2> QED BY <2>1, <1>4, <1>3, FlFacts
<1> HIDE DEF g
<1>9b. g \in Machine /\ g.brk = m.brk /\ g.ok = m.ok
  BY <1>5, <1>7, <1>8, <1>9, <1>9a DEF Written, Rewritten
<1>10. \A x : Get(g, x) = IF x = b + 4 THEN NULL
                          ELSE IF m.fl # NULL /\ x = m.fl + 4 THEN b
                          ELSE IF x = b THEN m.fl
                          ELSE Get(m, x)
  BY <1>5, <1>7, <1>8, <1>9, <1>9a DEF Written, Rewritten, SameWords
<1>11. SameWords(m, g, ListWords(P!ToSet(s) \cup {b}))
  <2>1. m.fl # NULL => m.fl \in P!ToSet(s)
    BY <1>6 DEF P!ToSet
  <2> QED BY <2>1, <1>10 DEF SameWords, ListWords, WSIZE
<1>12. Len(t) = Len(s) + 1 /\ t[1] = b /\ \A i \in 1 .. Len(s) : t[i + 1] = s[i]
  BY DEF P!Push
<1> HIDE DEF t
<1>13. At(t, 1) = b /\ \A i \in 1 .. Len(s) + 1 : At(t, i + 1) = At(s, i)
  BY <1>1, <1>12 DEF At
<1>14. ASSUME NEW i \in 1 .. Len(t)
       PROVE  Get(g, t[i]) = At(t, i + 1) /\ Get(g, t[i] + WSIZE) = At(t, i - 1)
  <2>1. CASE i = 1
    <3>1. m.fl # NULL => m.fl + 4 # b
      BY <1>6, CellFacts
    <3>2. Get(g, b) = m.fl /\ Get(g, b + 4) = NULL
      BY <3>1, <1>10, <1>3
    <3>3. At(t, 2) = m.fl /\ At(t, 0) = NULL
      BY <1>1, <1>2, <1>13 DEF At
    <3> QED BY <2>1, <3>2, <3>3, <1>12 DEF WSIZE
  <2>2. CASE i # 1
    <3>1. PICK j \in 1 .. Len(s) : i = j + 1
      BY <2>2, <1>1, <1>12
    <3>2. t[i] = s[j] /\ s[j] \in Cells /\ s[j] # b
      BY <3>1, <1>1, <1>12
    <3>3. /\ s[j] # b + 4 /\ s[j] + 4 # b /\ s[j] + 4 # b + 4
          /\ m.fl # NULL => s[j] # m.fl + 4 /\ (s[j] + 4 = m.fl + 4 => s[j] = m.fl)
      BY <3>2, <1>6, CellFacts
    <3>4. Get(m, s[j]) = At(s, j + 1) /\ Get(m, s[j] + 4) = At(s, j - 1)
      BY DEF Linked, WSIZE
    <3>5. Get(g, s[j]) = At(s, j + 1)
      BY <3>2, <3>3, <3>4, <1>10
    <3>6. Get(g, s[j] + 4) = IF m.fl # NULL /\ s[j] = m.fl THEN b ELSE At(s, j - 1)
      BY <3>3, <3>4, <1>10
    <3>7. At(t, i + 1) = At(s, j + 1)
      BY <3>1, <1>1, <1>13, <1>12 DEF At
    <3>8. CASE j = 1
      BY <3>2, <3>5, <3>6, <3>7, <3>8, <3>1, <1>6, <1>2, <1>3, <1>13, CellFacts DEF WSIZE, At
    <3>9. CASE j # 1
      <4>1. At(t, i - 1) = At(s, j - 1) /\ At(s, j - 1) = s[j - 1]
        BY <3>1, <3>9, <1>1, <1>12 DEF At
      <4>2. ~(m.fl # NULL /\ s[j] = m.fl)
        BY <3>9, <1>6, <1>1 DEF P!IsInjective
      <4> QED BY <4>1, <4>2, <3>2, <3>5, <3>6, <3>7 DEF WSIZE
    <3> QED BY <3>8, <3>9
  <2> QED BY <2>1, <2>2
<1> QED BY <1>9a, <1>9b, <1>11, <1>13, <1>14 DEF Rewritten, Linked, g, t

(* Taking the k-th block of a list out of it.                              *)
LEMMA UnlinkAt ==
  ASSUME NEW S, NEW s \in Seq(S), P!IsInjective(s), NEW k \in 1 .. Len(s)
  PROVE  /\ P!Unlink(s, s[k]) \in Seq(S)
         /\ Len(P!Unlink(s, s[k])) = Len(s) - 1
         /\ \A i \in 1 .. Len(s) - 1 :
              P!Unlink(s, s[k])[i] = IF i < k THEN s[i] ELSE s[i + 1]
<1>1. s[k] \in P!ToSet(s)
  BY DEF P!ToSet
<1>2. (CHOOSE i \in DOMAIN s : s[i] = s[k]) = k
  BY DEF P!IsInjective
<1>3. P!Unlink(s, s[k]) = P!RemoveAt(s, k)
  BY <1>1, <1>2 DEF P!Unlink
<1>4. /\ P!RemoveAt(s, k) \in Seq(S)
      /\ Len(P!RemoveAt(s, k)) = Len(s) - 1
      /\ \A i \in 1 .. Len(s) - 1 :
           P!RemoveAt(s, k)[i] = IF i < k THEN s[i] ELSE s[i + 1]
  BY BlockAssumptions, P!RemoveAtFacts
<1> QED BY <1>3, <1>4

(* remove_from_free_list is Unlink.                                        *)
LEMMA UnlinkWords ==
  ASSUME NEW m \in Machine, NEW s \in Seq(Cells), NEW b \in P!ToSet(s),
         P!IsInjective(s), Linked(m, s)
  PROVE  LET g == RemoveFromFreeList(m, b)
         IN  /\ Rewritten(m, g, ListWords(P!ToSet(s)))
             /\ Linked(g, P!Unlink(s, b))
<1> DEFINE g == RemoveFromFreeList(m, b)
           t == P!Unlink(s, b)
           prev == PrevFree(m, b)
           next == NextFree(m, b)
           first == IF prev = NULL THEN m ELSE Set(m, prev, next)
           second == IF next = NULL THEN first ELSE Set(first, next + 4, prev)
<1>1. PICK k \in 1 .. Len(s) : b = s[k]
  BY DEF P!ToSet
<1>2. /\ Len(s) \in Nat /\ \A i \in 1 .. Len(s) : s[i] \in Cells
      /\ \A i, j \in 1 .. Len(s) : s[i] = s[j] => i = j
  BY DEF P!IsInjective
<1>3. b \in Cells /\ b \in Arena /\ b # NULL
  BY <1>1, <1>2, CellFacts
<1>4. next = At(s, k + 1) /\ prev = At(s, k - 1) /\ NULL = 0
  BY <1>1 DEF Linked, NextFree, PrevFree, NULL
<1>5. g = IF prev # NULL THEN second ELSE [second EXCEPT !.fl = next]
  BY <1>3 DEF RemoveFromFreeList, SetNext, SetPrev, WSIZE
<1>6. /\ next # NULL => next \in Cells /\ next \in Arena /\ next + 4 \in Arena
                        /\ k + 1 \in 1 .. Len(s) /\ next = s[k + 1]
      /\ prev # NULL => prev \in Cells /\ prev \in Arena /\ k - 1 \in 1 .. Len(s)
                        /\ prev = s[k - 1]
      /\ next \in Nat /\ prev \in Nat
      /\ prev = NULL => k = 1
  <2>1. k \in 1 .. Len(s) /\ Len(s) \in Nat /\ (k - 1 \in 1 .. Len(s) \/ k = 1)
    BY <1>1, <1>2
  <2>2. \A i \in 1 .. Len(s) : /\ s[i] \in Cells /\ s[i] \in Arena /\ s[i] + 4 \in Arena
                              /\ s[i] \in Nat /\ s[i] # NULL
    BY <1>2, CellFacts
  <2>3. /\ k + 1 \in 1 .. Len(s) => next = s[k + 1]
        /\ k + 1 \notin 1 .. Len(s) => next = NULL
        /\ k - 1 \in 1 .. Len(s) => prev = s[k - 1]
        /\ k - 1 \notin 1 .. Len(s) => prev = NULL
    BY <1>4 DEF At
  <2> HIDE DEF prev, next
  <2>4. next # NULL => /\ next \in Cells /\ next \in Arena /\ next + 4 \in Arena
                       /\ k + 1 \in 1 .. Len(s) /\ next = s[k + 1]
    BY <2>2, <2>3
  <2>5. /\ prev # NULL => /\ prev \in Cells /\ prev \in Arena /\ k - 1 \in 1 .. Len(s)
                          /\ prev = s[k - 1]
        /\ prev = NULL => k = 1
    BY <2>1, <2>2, <2>3
  <2>6. next \in Nat /\ prev \in Nat
    <3>1. NULL \in Nat
      BY DEF NULL
    <3> QED BY <3>1, <2>2, <2>4, <2>5
  <2> QED BY <2>4, <2>5, <2>6
<1> HIDE DEF prev, next
<1>7. prev # NULL => Written(m, first, prev, next)
  BY <1>6, SetFacts
<1>8. prev = NULL => first = m
  OBVIOUS
<1> HIDE DEF first
<1>9. first \in Machine
  BY <1>7, <1>8 DEF Written
<1>10. next # NULL => Written(first, second, next + 4, prev)
  BY <1>6, <1>9, SetFacts
<1>11. next = NULL => second = first
  OBVIOUS
<1> HIDE DEF second
<1>12. second \in Machine
  BY <1>9, <1>10, <1>11 DEF Written
<1>13. /\ prev # NULL => g = second
       /\ prev = NULL => Rewritten(second, g, {}) /\ g.fl = next
  BY <1>5, <1>6, <1>12, FlFacts
<1> HIDE DEF g
<1>14. g \in Machine /\ g.brk = m.brk /\ g.ok = m.ok
  BY <1>7, <1>8, <1>10, <1>11, <1>12, <1>13 DEF Written, Rewritten
<1>15. \A x : Get(g, x) = IF next # NULL /\ x = next + 4 THEN prev
                          ELSE IF prev # NULL /\ x = prev THEN next
                          ELSE Get(m, x)
  BY <1>7, <1>8, <1>10, <1>11, <1>13 DEF Written, Rewritten, SameWords
<1>16. SameWords(m, g, ListWords(P!ToSet(s)))
  <2>1. /\ next # NULL => next \in P!ToSet(s)
        /\ prev # NULL => prev \in P!ToSet(s)
    BY <1>6 DEF P!ToSet
  <2> QED BY <2>1, <1>15 DEF SameWords, ListWords, WSIZE
<1>17. /\ Len(t) = Len(s) - 1
       /\ \A i \in 1 .. Len(s) - 1 : t[i] = IF i < k THEN s[i] ELSE s[i + 1]
  BY <1>1, UnlinkAt
<1> HIDE DEF t
<1>18. /\ \A i \in Int : i < k => At(t, i) = IF i <= Len(s) - 1 THEN At(s, i) ELSE NULL
       /\ \A i \in Int : i >= k => At(t, i) = At(s, i + 1)
  BY <1>1, <1>2, <1>17 DEF At
<1>19. g.fl = At(t, 1)
  <2>1. CASE prev = NULL
    <3>1. k = 1 /\ g.fl = next
      BY <2>1, <1>6, <1>13
    <3>2. At(t, 1) = At(s, 1 + 1)
      BY <3>1, <1>18
    <3> QED BY <3>1, <3>2, <1>4
  <2>2. CASE prev # NULL
    <3>1. g.fl = m.fl
      BY <2>2, <1>7, <1>10, <1>11, <1>13 DEF Written
    <3>2. m.fl = At(s, 1) /\ k > 1 /\ 1 <= Len(s) - 1
      BY <2>2, <1>1, <1>2, <1>6 DEF Linked
    <3> QED BY <3>1, <3>2, <1>18
  <2> QED BY <2>1, <2>2
<1>20. ASSUME NEW j \in 1 .. Len(s), j # k
       PROVE  /\ Get(g, s[j]) = IF j = k - 1 THEN At(s, k + 1) ELSE At(s, j + 1)
              /\ Get(g, s[j] + 4) = IF j = k + 1 THEN At(s, k - 1) ELSE At(s, j - 1)
  <2>1. s[j] \in Cells
    BY <1>2
  <2>2. Get(m, s[j]) = At(s, j + 1) /\ Get(m, s[j] + 4) = At(s, j - 1)
    BY DEF Linked, WSIZE
  <2>3. /\ next # NULL => s[j] # next + 4 /\ (s[j] + 4 = next + 4 <=> s[j] = next)
        /\ prev # NULL => s[j] + 4 # prev
    BY <2>1, <1>6, CellFacts
  <2>4. /\ next # NULL /\ s[j] = next <=> j = k + 1
        /\ prev # NULL /\ s[j] = prev <=> j = k - 1
    <3>1. j = k + 1 => next = s[j] /\ next # NULL
      BY <1>1, <1>4, <2>1, CellFacts DEF At
    <3>2. j = k - 1 => prev = s[j] /\ prev # NULL
      BY <1>1, <1>4, <2>1, CellFacts DEF At
    <3>3. next # NULL /\ s[j] = next => j = k + 1
      BY <1>2, <1>6
    <3>4. prev # NULL /\ s[j] = prev => j = k - 1
      BY <1>2, <1>6
    <3> QED BY <3>1, <3>2, <3>3, <3>4
  <2>5. Get(g, s[j]) = IF prev # NULL /\ s[j] = prev THEN next ELSE At(s, j + 1)
    BY <2>2, <2>3, <1>15
  <2>6. Get(g, s[j] + 4) = IF next # NULL /\ s[j] = next THEN prev ELSE At(s, j - 1)
    BY <2>2, <2>3, <1>15
  <2> QED BY <2>4, <2>5, <2>6, <1>4
<1>21. ASSUME NEW i \in 1 .. Len(t)
       PROVE  Get(g, t[i]) = At(t, i + 1) /\ Get(g, t[i] + WSIZE) = At(t, i - 1)
  <2>1. CASE i < k
    <3>1. t[i] = s[i] /\ i \in 1 .. Len(s) /\ i # k
      BY <2>1, <1>2, <1>17
    <3>2. i # k + 1 /\ At(t, i - 1) = At(s, i - 1)
      BY <2>1, <1>1, <1>2, <1>17, <1>18
    <3>3. At(t, i + 1) = IF i = k - 1 THEN At(s, k + 1) ELSE At(s, i + 1)
      <4>1. CASE i = k - 1
        BY <4>1, <1>1, <1>18
      <4>2. CASE i # k - 1
        <5>1. i + 1 < k /\ i + 1 <= Len(s) - 1
          BY <4>2, <2>1, <1>1, <1>2
        <5> QED BY <5>1, <4>2, <1>18
      <4> QED BY <4>1, <4>2
    <3> QED BY <3>1, <3>2, <3>3, <1>20 DEF WSIZE
  <2>2. CASE i >= k
    <3>1. t[i] = s[i + 1] /\ i + 1 \in 1 .. Len(s) /\ i + 1 # k /\ i + 1 # k - 1
      BY <2>2, <1>1, <1>2, <1>17
    <3>2. At(t, i + 1) = At(s, (i + 1) + 1)
      BY <2>2, <1>1, <1>18
    <3>3. At(t, i - 1) = IF i + 1 = k + 1 THEN At(s, k - 1) ELSE At(s, (i + 1) - 1)
      <4>1. CASE i = k
        <5>1. i - 1 < k /\ i - 1 <= Len(s) - 1
          BY <4>1, <1>1, <1>2
        <5> QED BY <5>1, <4>1, <1>1, <1>18
      <4>2. CASE i # k
        <5>1. i - 1 >= k
          BY <4>2, <2>2, <1>1
        <5>2. At(t, i - 1) = At(s, (i - 1) + 1)
          BY <5>1, <1>18
        <5> QED BY <5>2, <4>2
      <4> QED BY <4>1, <4>2
    <3> QED BY <3>1, <3>2, <3>3, <1>20 DEF WSIZE
  <2> QED BY <2>1, <2>2, <1>1
<1> QED BY <1>14, <1>16, <1>19, <1>21 DEF Rewritten, Linked, g, t

(* The order in which blocks are taken out of a list does not matter.      *)
LEMMA UnlinkCommutes ==
  ASSUME NEW S, NEW s \in Seq(S), P!IsInjective(s), NEW b, NEW c
  PROVE  P!Unlink(P!Unlink(s, b), c) = P!Unlink(P!Unlink(s, c), b)
<1>1. ASSUME NEW x, x \notin P!ToSet(s)
      PROVE  P!Unlink(s, x) = s
  BY <1>1 DEF P!Unlink
<1>2. ASSUME NEW x
      PROVE  /\ P!Unlink(s, x) \in Seq(S) /\ P!IsInjective(P!Unlink(s, x))
             /\ P!ToSet(P!Unlink(s, x)) = P!ToSet(s) \ {x}
  BY BlockAssumptions, P!UnlinkFacts
<1>3. CASE b \notin P!ToSet(s)
  <2>1. b \notin P!ToSet(P!Unlink(s, c))
    BY <1>2, <1>3
  <2> QED BY <2>1, <1>1, <1>3 DEF P!Unlink
<1>4. CASE c \notin P!ToSet(s)
  <2>1. c \notin P!ToSet(P!Unlink(s, b))
    BY <1>2, <1>4
  <2> QED BY <2>1, <1>1, <1>4 DEF P!Unlink
<1>5. CASE b = c
  BY <1>5
<1>6. CASE b \in P!ToSet(s) /\ c \in P!ToSet(s) /\ b # c
  <2>1. ASSUME NEW i \in 1 .. Len(s), NEW j \in 1 .. Len(s), i < j
        PROVE  /\ P!Unlink(P!Unlink(s, s[i]), s[j]) = P!Unlink(P!Unlink(s, s[j]), s[i])
    <3> DEFINE u == P!Unlink(s, s[i])
               v == P!Unlink(s, s[j])
    <3>1. /\ u \in Seq(S) /\ Len(u) = Len(s) - 1
          /\ \A k \in 1 .. Len(s) - 1 : u[k] = IF k < i THEN s[k] ELSE s[k + 1]
      BY UnlinkAt
    <3>2. /\ v \in Seq(S) /\ Len(v) = Len(s) - 1
          /\ \A k \in 1 .. Len(s) - 1 : v[k] = IF k < j THEN s[k] ELSE s[k + 1]
      BY UnlinkAt
    <3>3. P!IsInjective(u) /\ P!IsInjective(v)
      BY <1>2
    <3> HIDE DEF u, v
    <3>4. Len(s) \in Nat /\ j - 1 \in 1 .. Len(u) /\ u[j - 1] = s[j]
          /\ i \in 1 .. Len(v) /\ v[i] = s[i]
      BY <2>1, <3>1, <3>2
    <3>5. /\ P!Unlink(u, s[j]) \in Seq(S) /\ Len(P!Unlink(u, s[j])) = Len(u) - 1
          /\ \A k \in 1 .. Len(u) - 1 :
               P!Unlink(u, s[j])[k] = IF k < j - 1 THEN u[k] ELSE u[k + 1]
      <4>1. PICK e \in 1 .. Len(u) : e = j - 1 /\ u[e] = s[j]
        BY <3>4
      <4>2. /\ P!Unlink(u, u[e]) \in Seq(S) /\ Len(P!Unlink(u, u[e])) = Len(u) - 1
            /\ \A k \in 1 .. Len(u) - 1 :
                 P!Unlink(u, u[e])[k] = IF k < e THEN u[k] ELSE u[k + 1]
        BY <3>1, <3>3, UnlinkAt
      <4> QED BY <4>1, <4>2
    <3>6. /\ P!Unlink(v, s[i]) \in Seq(S) /\ Len(P!Unlink(v, s[i])) = Len(v) - 1
          /\ \A k \in 1 .. Len(v) - 1 :
               P!Unlink(v, s[i])[k] = IF k < i THEN v[k] ELSE v[k + 1]
      <4>1. PICK e \in 1 .. Len(v) : e = i /\ v[e] = s[i]
        BY <3>4
      <4>2. /\ P!Unlink(v, v[e]) \in Seq(S) /\ Len(P!Unlink(v, v[e])) = Len(v) - 1
            /\ \A k \in 1 .. Len(v) - 1 :
                 P!Unlink(v, v[e])[k] = IF k < e THEN v[k] ELSE v[k + 1]
        BY <3>2, <3>3, UnlinkAt
      <4> QED BY <4>1, <4>2
    <3>7. ASSUME NEW k \in 1 .. Len(s) - 2
          PROVE  P!Unlink(u, s[j])[k] = P!Unlink(v, s[i])[k]
      <4>1. k \in 1 .. Len(u) - 1 /\ k \in 1 .. Len(v) - 1 /\ k \in 1 .. Len(s) - 1
            /\ k + 1 \in 1 .. Len(s) - 1
        BY <3>1, <3>2, <3>4
      <4>2. P!Unlink(u, s[j])[k] = IF k < j - 1 THEN (IF k < i THEN s[k] ELSE s[k + 1])
                                   ELSE (IF k + 1 < i THEN s[k + 1] ELSE s[k + 2])
        BY <4>1, <3>1, <3>5
      <4>3. P!Unlink(v, s[i])[k] = IF k < i THEN (IF k < j THEN s[k] ELSE s[k + 1])
                                   ELSE (IF k + 1 < j THEN s[k + 1] ELSE s[k + 2])
        <5>1. P!Unlink(v, s[i])[k] = IF k < i THEN v[k] ELSE v[k + 1]
          BY <4>1, <3>6
        <5>2. v[k] = IF k < j THEN s[k] ELSE s[k + 1]
          BY <4>1, <3>2
        <5>3. v[k + 1] = IF k + 1 < j THEN s[k + 1] ELSE s[(k + 1) + 1]
          BY <4>1, <3>2
        <5> QED BY <5>1, <5>2, <5>3
      <4> QED BY <4>2, <4>3, <2>1
    <3>8. \A p, q \in Seq(S) : Len(p) = Len(q) /\ (\A k \in 1 .. Len(p) : p[k] = q[k]) => p = q
      OBVIOUS
    <3>9. P!Unlink(u, s[j]) = P!Unlink(v, s[i])
      <4>1. Len(P!Unlink(u, s[j])) = Len(s) - 2 /\ Len(P!Unlink(v, s[i])) = Len(s) - 2
        BY <3>1, <3>2, <3>4, <3>5, <3>6
      <4> QED BY <4>1, <3>5, <3>6, <3>7, <3>8
    <3> QED BY <3>9 DEF u, v
  <2>2. PICK i \in 1 .. Len(s), j \in 1 .. Len(s) : b = s[i] /\ c = s[j]
    BY <1>6 DEF P!ToSet
  <2>3. i < j \/ j < i
    BY <2>2, <1>6
  <2> QED BY <2>1, <2>2, <2>3
<1> QED BY <1>3, <1>4, <1>5, <1>6

-----------------------------------------------------------------------------
(* Boundary tags.                                                          *)

(* A heap within the arena, whose blocks tile it.                          *)
Fits(H) ==
  /\ P!HeapType(H) /\ P!Tiled(H)
  /\ Base <= H.brk /\ H.brk <= MaxHeap

Bit(H, b) == IF b \in H.free THEN 0 ELSE 1

Tagged(m, b, size, bit) ==
  /\ Get(m, b - WSIZE) = Word(size, bit)
  /\ Get(m, b + size - DSIZE) = Word(size, bit)

Ends(m, brk) ==
  /\ Get(m, Base - 12) = Word(DSIZE, 1)
  /\ Get(m, Base - 8) = Word(DSIZE, 1)
  /\ Get(m, brk - WSIZE) = Word(0, 1)

Tags(m, H) ==
  /\ Ends(m, H.brk)
  /\ \A b \in P!Blocks(H) : Tagged(m, b, H.size[b], Bit(H, b))

(* the same, but for the blocks in D                                       *)
TagsBut(m, H, D) ==
  /\ Ends(m, H.brk)
  /\ \A b \in P!Blocks(H) \ D : Tagged(m, b, H.size[b], Bit(H, b))

(* from header to footer, the words of these blocks                        *)
Zones(H, D) ==
  {a \in Int : \E d \in D : d - WSIZE <= a /\ a < P!End(H, d) - WSIZE}

(* Both levels start the heap behind the prologue.                         *)
LEMMA BaseFacts ==
  P!Base = Base /\ Base = HeapLo + 16 /\ Base \in Nat /\ Base % 8 = 0 /\ P!MinBlock = 16
BY P!SizeFacts, BlockAssumptions DEF P!Base, Base, WSIZE

(* Where a block's words are.                                              *)
LEMMA BlockFacts ==
  ASSUME NEW H, Fits(H), NEW b \in P!Blocks(H)
  PROVE  /\ b \in Nat /\ b % 8 = 0 /\ b >= Base
         /\ H.size[b] \in Nat /\ H.size[b] % 8 = 0 /\ H.size[b] >= 16
         /\ P!End(H, b) = b + H.size[b] /\ P!End(H, b) \in Nat
         /\ P!End(H, b) % 8 = 0 /\ P!End(H, b) <= H.brk
         /\ P!End(H, b) \in P!Blocks(H) \cup {H.brk}
         /\ H.brk \in Nat /\ H.brk % 8 = 0
<1>1. /\ b \in Nat /\ H.size[b] \in Nat /\ H.brk \in Nat
      /\ \A c \in P!Blocks(H) : c \in Nat
  BY DEF Fits, P!HeapType
<1>2. b % 8 = 0 /\ b >= Base /\ H.size[b] % 8 = 0 /\ H.size[b] >= 16 /\ H.brk % 8 = 0
  BY BaseFacts DEF Fits, P!Tiled, P!Aligned
<1>3. P!End(H, b) \in P!Blocks(H) \cup {H.brk} /\ \A c \in P!Blocks(H) : c < H.brk
  BY DEF Fits, P!Tiled
<1>4. P!End(H, b) = b + H.size[b]
  BY DEF P!End
<1>5. (b + H.size[b]) % 8 = 0 /\ b + H.size[b] \in Nat
  BY <1>1, <1>2
<1>6. P!End(H, b) <= H.brk
  <2>1. PICK e : e = P!End(H, b)
    OBVIOUS
  <2>2. PICK B : B = P!Blocks(H)
    OBVIOUS
  <2>3. /\ e \in B \cup {H.brk} /\ H.brk \in Nat
        /\ \A c \in B : c \in Nat /\ c < H.brk
    BY <1>1, <1>3, <2>1, <2>2
  <2>4. e <= H.brk
    BY ONLY <2>3
  <2> QED BY <2>1, <2>4
<1> QED BY <1>1, <1>2, <1>3, <1>4, <1>5, <1>6

(* They are in the arena.                                                  *)
LEMMA BlockWords ==
  ASSUME NEW H, Fits(H), NEW b \in P!Blocks(H)
  PROVE  /\ b - 4 \in Arena /\ b \in Arena /\ b + 4 \in Arena
         /\ b + H.size[b] - 8 \in Arena /\ b + H.size[b] - 4 \in Arena
         /\ b \in Cells
<1>1. /\ b \in Nat /\ b % 8 = 0 /\ b >= HeapLo + 16
      /\ H.size[b] \in Nat /\ H.size[b] % 8 = 0 /\ H.size[b] >= 16
      /\ b + H.size[b] <= MaxHeap
  BY BlockFacts, BaseFacts, MemAssumption DEF Fits
<1>2. HeapLo \in Nat /\ MaxHeap \in Nat
  BY MemAssumption
<1>3. PICK s \in Nat : s = H.size[b]
  BY <1>1
<1>4. /\ (b - 4) % 4 = 0 /\ b % 4 = 0 /\ (b + 4) % 4 = 0
      /\ (b + s - 8) % 4 = 0 /\ (b + s - 4) % 4 = 0
  BY <1>1, <1>3
<1>5. b - 4 \in Arena /\ b \in Arena /\ b + 4 \in Arena
  BY <1>1, <1>2, <1>3, <1>4, WordAddress
<1>6. b + s - 8 \in Arena /\ b + s - 4 \in Arena
  BY <1>1, <1>2, <1>3, <1>4, WordAddress
<1> QED BY <1>1, <1>3, <1>5, <1>6, <1>2 DEF Cells, WSIZE

(* Two blocks share no word.                                               *)
LEMMA BlocksApart ==
  ASSUME NEW H, Fits(H), NEW b \in P!Blocks(H), NEW c \in P!Blocks(H), b # c
  PROVE  P!End(H, b) <= c \/ P!End(H, c) <= b
<1>1. b \in Nat /\ c \in Nat
  BY BlockFacts
<1>2. b < c \/ c < b
  BY <1>1
<1> QED BY <1>2 DEF Fits, P!Tiled

(* The block that ends where another begins is the only one.               *)
LEMMA OnePredecessor ==
  ASSUME NEW H, Fits(H), NEW b \in P!Blocks(H), NEW c \in P!Blocks(H),
         P!End(H, b) = P!End(H, c)
  PROVE  b = c
<1> SUFFICES ASSUME b # c PROVE FALSE
  OBVIOUS
<1>1. P!End(H, b) <= c \/ P!End(H, c) <= b
  BY BlocksApart
<1>2. /\ b \in Nat /\ c \in Nat /\ P!End(H, b) > b /\ P!End(H, c) > c
      /\ P!End(H, b) \in Nat
  BY BlockFacts
<1> QED BY <1>1, <1>2

(* A word of one block is no word of the others, nor a tag of them, nor of *)
(* the prologue or the epilogue.                                           *)
LEMMA OutsideZones ==
  ASSUME NEW H, Fits(H), NEW D \in SUBSET P!Blocks(H)
  PROVE  /\ \A c \in P!Blocks(H) \ D : \A a \in Int :
              c - 4 <= a /\ a < P!End(H, c) - 4 => a \notin Zones(H, D)
         /\ Base - 12 \notin Zones(H, D) /\ Base - 8 \notin Zones(H, D)
         /\ \A a \in Int : a >= H.brk - 4 => a \notin Zones(H, D)
<1>1. ASSUME NEW c \in P!Blocks(H) \ D, NEW a \in Int, c - 4 <= a, a < P!End(H, c) - 4,
             NEW d \in D, d - 4 <= a, a < P!End(H, d) - 4
      PROVE  FALSE
  <2>1. /\ c \in Nat /\ d \in Nat /\ P!End(H, c) \in Nat /\ P!End(H, d) \in Nat
    BY BlockFacts
  <2>2. P!End(H, c) <= d \/ P!End(H, d) <= c
    BY BlocksApart
  <2> QED BY <1>1, <2>1, <2>2
<1>2. ASSUME NEW d \in D
      PROVE  /\ d \in Nat /\ d >= Base /\ P!End(H, d) <= H.brk
             /\ P!End(H, d) \in Nat /\ H.brk \in Nat
  BY BlockFacts
<1> QED BY <1>1, <1>2, BaseFacts DEF Zones, WSIZE

(* Tags survive what is written to other blocks.                           *)
LEMMA TagsElsewhere ==
  ASSUME NEW H, Fits(H), NEW D \in SUBSET P!Blocks(H), NEW m, NEW g,
         TagsBut(m, H, D), SameWords(m, g, Zones(H, D))
  PROVE  TagsBut(g, H, D)
<1>1. H.brk - 4 \in Int /\ H.brk - 4 >= H.brk - 4
  BY DEF Fits, P!HeapType
<1>2. Ends(g, H.brk)
  BY <1>1, OutsideZones DEF TagsBut, Ends, SameWords, WSIZE
<1>3. ASSUME NEW c \in P!Blocks(H) \ D
      PROVE  Tagged(g, c, H.size[c], Bit(H, c))
  <2>1. /\ c \in Nat /\ H.size[c] \in Nat /\ H.size[c] >= 16
        /\ P!End(H, c) = c + H.size[c]
    BY BlockFacts
  <2>2. c - 4 \notin Zones(H, D) /\ c + H.size[c] - 8 \notin Zones(H, D)
    BY <2>1, OutsideZones
  <2>3. Get(g, c - 4) = Get(m, c - 4) /\ Get(g, c + H.size[c] - 8) = Get(m, c + H.size[c] - 8)
    BY <2>2 DEF SameWords
  <2> QED BY <2>3 DEF TagsBut, Tagged, WSIZE, DSIZE
<1> QED BY <1>2, <1>3 DEF TagsBut

(* So they do what is written to list words.                               *)
LEMMA TagsApartFromList ==
  ASSUME NEW H, Fits(H), NEW m, NEW g, Tags(m, H),
         SameWords(m, g, ListWords(P!Blocks(H)))
  PROVE  Tags(g, H)
<1>1. ASSUME NEW a \in Int, a % 8 = 4, a \in ListWords(P!Blocks(H))
      PROVE  \E b \in P!Blocks(H) : a = b + 4
  BY <1>1, BlockFacts DEF ListWords, WSIZE
<1>2. ASSUME NEW c \in P!Blocks(H)
      PROVE  /\ c - 4 \notin ListWords(P!Blocks(H))
             /\ c + H.size[c] - 8 \notin ListWords(P!Blocks(H))
  <2>1. /\ c \in Nat /\ c % 8 = 0 /\ H.size[c] \in Nat /\ H.size[c] >= 16
        /\ H.size[c] % 8 = 0 /\ P!End(H, c) = c + H.size[c]
    BY BlockFacts
  <2>2. ASSUME NEW b \in P!Blocks(H)
        PROVE  c - 4 # b /\ c - 4 # b + 4 /\ c + H.size[c] - 8 # b
               /\ c + H.size[c] - 8 # b + 4
    <3>1. /\ b \in Nat /\ b % 8 = 0 /\ H.size[b] \in Nat /\ H.size[b] >= 16
          /\ P!End(H, b) = b + H.size[b]
      BY BlockFacts
    <3>2. CASE b = c
      BY <3>1, <3>2, <2>1
    <3>3. CASE b # c
      BY <3>1, <3>3, <2>1, BlocksApart
    <3> QED BY <3>2, <3>3
  <2> QED BY <2>2 DEF ListWords, WSIZE
<1>3. /\ Base - 12 \notin ListWords(P!Blocks(H)) /\ Base - 8 \notin ListWords(P!Blocks(H))
      /\ H.brk - 4 \notin ListWords(P!Blocks(H))
  <2>1. Base \in Nat /\ H.brk \in Nat
    BY BaseFacts DEF Fits, P!HeapType
  <2>2. ASSUME NEW b \in P!Blocks(H)
        PROVE  b \in Nat /\ b >= Base /\ b + 16 <= H.brk
    <3>1. /\ b \in Nat /\ b >= Base /\ H.size[b] \in Nat /\ H.size[b] >= 16
          /\ P!End(H, b) = b + H.size[b] /\ P!End(H, b) <= H.brk
      BY BlockFacts
    <3> QED BY <3>1, <2>1
  <2> QED BY <2>1, <2>2 DEF ListWords, WSIZE
<1> QED BY <1>2, <1>3 DEF Tags, Ends, Tagged, SameWords, WSIZE, DSIZE

(* A list survives what is written elsewhere.                              *)
LEMMA ListElsewhere ==
  ASSUME NEW m, NEW g, NEW s, g.fl = m.fl, Linked(m, s), NEW A,
         SameWords(m, g, A), \A i \in 1 .. Len(s) : s[i] \notin A /\ s[i] + 4 \notin A
  PROVE  Linked(g, s)
BY DEF Linked, SameWords, WSIZE

-----------------------------------------------------------------------------
(* Reading tags.                                                           *)

(* What make_header packs, get_size and is_allocated unpack.               *)
LEMMA WordFacts ==
  ASSUME NEW size \in Nat, size % 8 = 0, NEW bit \in {0, 1}
  PROVE  /\ Word(size, bit) \in Nat
         /\ (Word(size, bit) \div 8) * 8 = size
         /\ Word(size, bit) % 2 = 1 <=> bit = 1
BY DEF Word

(* The block's own tags.                                                   *)
LEMMA ReadBlock ==
  ASSUME NEW H, Fits(H), NEW m, Tags(m, H), NEW b \in P!Blocks(H)
  PROVE  /\ SizeOf(m, b) = H.size[b]
         /\ NextBlock(m, b) = P!End(H, b)
         /\ Footer(m, b) = P!End(H, b) - 8
         /\ IsAllocated(m, Header(b)) <=> b \notin H.free
         /\ GetSize(m, P!End(H, b) - 8) = H.size[b]
         /\ IsAllocated(m, P!End(H, b) - 8) <=> b \notin H.free
<1>1. /\ b \in Nat /\ H.size[b] \in Nat /\ H.size[b] % 8 = 0
      /\ P!End(H, b) = b + H.size[b]
  BY BlockFacts
<1>2. /\ Get(m, b - 4) = Word(H.size[b], Bit(H, b))
      /\ Get(m, b + H.size[b] - 8) = Word(H.size[b], Bit(H, b))
  BY DEF Tags, Tagged, WSIZE, DSIZE
<1>3. Bit(H, b) \in {0, 1} /\ (Bit(H, b) = 1 <=> b \notin H.free)
  BY DEF Bit
<1>4. /\ (Word(H.size[b], Bit(H, b)) \div 8) * 8 = H.size[b]
      /\ Word(H.size[b], Bit(H, b)) % 2 = 1 <=> Bit(H, b) = 1
  BY <1>1, <1>3, WordFacts
<1>5. SizeOf(m, b) = H.size[b]
  BY <1>2, <1>4 DEF SizeOf, GetSize, Header, WSIZE
<1>6. NextBlock(m, b) = P!End(H, b) /\ Footer(m, b) = P!End(H, b) - 8
  BY <1>1, <1>5 DEF NextBlock, Footer, DSIZE
<1>7. IsAllocated(m, Header(b)) <=> b \notin H.free
  BY <1>2, <1>3, <1>4 DEF IsAllocated, Header, WSIZE
<1>8. /\ GetSize(m, P!End(H, b) - 8) = H.size[b]
      /\ IsAllocated(m, P!End(H, b) - 8) <=> b \notin H.free
  BY <1>1, <1>2, <1>3, <1>4 DEF GetSize, IsAllocated
<1> QED BY <1>5, <1>6, <1>7, <1>8

(* The header behind it: a block's, or the epilogue.                       *)
LEMMA ReadNext ==
  ASSUME NEW H, Fits(H), NEW m, Tags(m, H), NEW b \in P!Blocks(H) \cup {H.brk}
  PROVE  IsAllocated(m, Header(b)) <=> b \notin H.free
<1>1. CASE b \in P!Blocks(H)
  BY <1>1, ReadBlock
<1>2. CASE b = H.brk
  <2>1. H.brk \notin H.free
    BY DEF Fits, P!Tiled, P!HeapType
  <2>2. Get(m, b - 4) = Word(0, 1)
    BY <1>2 DEF Tags, Ends, WSIZE
  <2> QED BY <1>2, <2>1, <2>2, WordFacts DEF IsAllocated, Header, WSIZE
<1> QED BY <1>1, <1>2

(* The footer before it: a block's, or the prologue.                       *)
LEMMA ReadPrevious ==
  ASSUME NEW H, Fits(H), NEW m, Tags(m, H), NEW b \in P!Blocks(H)
  PROVE  /\ b = Base => IsAllocated(m, Footer(m, PrevBlock(m, b)))
         /\ \A p \in P!Blocks(H) :
              P!End(H, p) = b =>
                /\ PrevBlock(m, b) = p
                /\ IsAllocated(m, Footer(m, PrevBlock(m, b))) <=> p \notin H.free
<1>1. ASSUME b = Base PROVE IsAllocated(m, Footer(m, PrevBlock(m, b)))
  <2>1. Get(m, b - 8) = Word(8, 1) /\ Get(m, (b - 8) - 4) = Word(8, 1) /\ b \in Nat
    <3>1. (b - 8) - 4 = Base - 12 /\ b - 8 = Base - 8 /\ b \in Nat
      BY <1>1, BaseFacts
    <3> QED BY <3>1 DEF Tags, Ends, DSIZE
  <2>2. (Word(8, 1) \div 8) * 8 = 8 /\ Word(8, 1) % 2 = 1
    BY WordFacts
  <2>3. PrevBlock(m, b) = b - 8
    BY <2>1, <2>2 DEF PrevBlock, GetSize, DSIZE
  <2>4. Footer(m, b - 8) = b - 8
    BY <2>1, <2>2 DEF Footer, NextBlock, SizeOf, GetSize, Header, WSIZE, DSIZE
  <2> QED BY <2>1, <2>2, <2>3, <2>4 DEF IsAllocated
<1>2. ASSUME NEW p \in P!Blocks(H), P!End(H, p) = b
      PROVE  /\ PrevBlock(m, b) = p
             /\ IsAllocated(m, Footer(m, PrevBlock(m, b))) <=> p \notin H.free
  <2>1. GetSize(m, b - 8) = H.size[p] /\ Footer(m, p) = b - 8
        /\ (IsAllocated(m, b - 8) <=> p \notin H.free)
    BY <1>2, ReadBlock
  <2>2. b = p + H.size[p] /\ p \in Nat /\ H.size[p] \in Nat
    BY <1>2, BlockFacts
  <2>3. PrevBlock(m, b) = p
    BY <2>1, <2>2 DEF PrevBlock, DSIZE
  <2> QED BY <2>1, <2>3
<1> QED BY <1>1, <1>2

(* Tags written.                                                           *)
LEMMA TagFacts ==
  ASSUME NEW m \in Machine, NEW b \in Int, NEW w \in Nat, b - 4 \in Arena
  PROVE  Written(m, Tag(m, b, w), b - 4, w)
BY SetFacts DEF Tag, Header, WSIZE

(* Tagging a block writes its header and footer.                           *)
LEMMA TagBothFacts ==
  ASSUME NEW m \in Machine, NEW b \in Int, NEW size \in Nat, size % 8 = 0, size >= 16,
         NEW bit \in {0, 1}, b - 4 \in Arena, b + size - 8 \in Arena
  PROVE  LET g == TagBoth(m, b, Word(size, bit))
         IN  /\ Rewritten(m, g, {b - 4, b + size - 8}) /\ g.fl = m.fl
             /\ Tagged(g, b, size, bit)
<1> DEFINE w == Word(size, bit)
           m1 == Tag(m, b, w)
           g == TagBoth(m, b, w)
<1>1. w \in Nat /\ (w \div 8) * 8 = size
  BY WordFacts
<1>2. g = Set(m1, Footer(m1, b), w)
  BY DEF TagBoth, TagFooter
<1> HIDE DEF w
<1>3. Written(m, m1, b - 4, w)
  BY <1>1, TagFacts
<1> HIDE DEF m1
<1>4. Footer(m1, b) = b + size - 8
  BY <1>1, <1>3 DEF Written, Footer, NextBlock, SizeOf, GetSize, Header, WSIZE, DSIZE
<1> HIDE DEF g
<1>5. Written(m1, g, b + size - 8, w)
  BY <1>1, <1>2, <1>3, <1>4, SetFacts DEF Written
<1>6. Rewritten(m, g, {b - 4, b + size - 8}) /\ g.fl = m.fl
  BY <1>3, <1>5 DEF Written, Rewritten, SameWords
<1>7. Get(g, b - 4) = w /\ Get(g, b + size - 8) = w
  BY <1>3, <1>5 DEF Written
<1>8. Tagged(g, b, size, bit)
  BY <1>7 DEF Tagged, w, WSIZE, DSIZE
<1> QED BY <1>6, <1>8 DEF g, w

-----------------------------------------------------------------------------
(* A machine whose words are those of the heap H, but with the list s.     *)

Holds(m, H, s) ==
  /\ m \in Machine /\ m.ok /\ m.brk = H.brk
  /\ Tags(m, H) /\ Linked(m, s)

(* the same, but for the tags of the blocks in D                           *)
HoldsBut(m, H, s, D) ==
  /\ m \in Machine /\ m.ok /\ m.brk = H.brk
  /\ TagsBut(m, H, D) /\ Linked(m, s)

(* A list of some of the blocks in F, each once.                           *)
ListOver(s, F) == s \in Seq(F) /\ P!IsInjective(s)

(* What is left alone stays left alone.                                    *)
LEMMA SameWordsFacts ==
  ASSUME NEW A, NEW B
  PROVE  /\ \A m : SameWords(m, m, A)
         /\ \A m, g : A \subseteq B /\ SameWords(m, g, A) => SameWords(m, g, B)
         /\ \A m, g, k : SameWords(m, g, A) /\ SameWords(g, k, A) => SameWords(m, k, A)
BY DEF SameWords

(* List words are words of their blocks.                                   *)
LEMMA ListWordsInZones ==
  ASSUME NEW H, Fits(H), NEW D \in SUBSET P!Blocks(H)
  PROVE  ListWords(D) \subseteq Zones(H, D)
<1> SUFFICES ASSUME NEW d \in D PROVE d \in Zones(H, D) /\ d + 4 \in Zones(H, D)
  BY DEF ListWords, WSIZE
<1>1. /\ d \in Nat /\ H.size[d] \in Nat /\ H.size[d] >= 16 /\ P!End(H, d) = d + H.size[d]
  BY BlockFacts
<1> QED BY <1>1 DEF Zones, WSIZE

(* remove_from_free_list, on a heap.                                       *)
LEMMA Unlisted ==
  ASSUME NEW H, Fits(H), NEW s, ListOver(s, H.free), NEW m, Holds(m, H, s),
         NEW b \in P!ToSet(s)
  PROVE  LET g == RemoveFromFreeList(m, b)
             t == P!Unlink(s, b)
         IN  /\ Holds(g, H, t) /\ SameWords(m, g, Zones(H, H.free))
             /\ ListOver(t, H.free) /\ P!ToSet(t) = P!ToSet(s) \ {b}
<1> DEFINE g == RemoveFromFreeList(m, b)
           t == P!Unlink(s, b)
<1>1. H.free \subseteq P!Blocks(H)
  BY DEF Fits, P!HeapType
<1>2. \A c \in H.free : c \in Cells
  BY <1>1, BlockWords
<1>3. s \in Seq(Cells) /\ P!ToSet(s) \subseteq H.free
  BY <1>2 DEF ListOver, P!ToSet
<1>4. Rewritten(m, g, ListWords(P!ToSet(s))) /\ Linked(g, t)
  BY <1>3, UnlinkWords DEF Holds, ListOver
<1> HIDE DEF g
<1>5. /\ ListWords(P!ToSet(s)) \subseteq ListWords(P!Blocks(H))
      /\ ListWords(P!ToSet(s)) \subseteq Zones(H, H.free)
  BY <1>1, <1>3, ListWordsInZones DEF ListWords
<1>6. SameWords(m, g, ListWords(P!Blocks(H))) /\ SameWords(m, g, Zones(H, H.free))
  BY <1>4, <1>5, SameWordsFacts DEF Rewritten
<1>7. Tags(g, H)
  BY <1>6, TagsApartFromList DEF Holds
<1>8. Holds(g, H, t)
  BY <1>4, <1>7 DEF Holds, Rewritten
<1>9. ListOver(t, H.free) /\ P!ToSet(t) = P!ToSet(s) \ {b}
  BY BlockAssumptions, P!UnlinkFacts DEF ListOver
<1> QED BY <1>6, <1>8, <1>9 DEF g

(* add_to_free_list, on a heap.                                            *)
LEMMA Listed ==
  ASSUME NEW H, Fits(H), NEW s, ListOver(s, H.free), NEW m, Holds(m, H, s),
         NEW b \in H.free, b \notin P!ToSet(s)
  PROVE  LET g == AddToFreeList(m, b)
             t == P!Push(s, b)
         IN  /\ Holds(g, H, t) /\ SameWords(m, g, Zones(H, H.free))
             /\ ListOver(t, H.free) /\ P!ToSet(t) = P!ToSet(s) \cup {b}
<1> DEFINE g == AddToFreeList(m, b)
           t == P!Push(s, b)
<1>1. H.free \subseteq P!Blocks(H)
  BY DEF Fits, P!HeapType
<1>2. \A c \in H.free : c \in Cells
  BY <1>1, BlockWords
<1>3. s \in Seq(Cells) /\ P!ToSet(s) \cup {b} \subseteq H.free /\ b \in Cells
  BY <1>2 DEF ListOver, P!ToSet
<1>4. Rewritten(m, g, ListWords(P!ToSet(s) \cup {b})) /\ Linked(g, t)
  BY <1>3, PushWords DEF Holds, ListOver
<1> HIDE DEF g
<1>5. /\ ListWords(P!ToSet(s) \cup {b}) \subseteq ListWords(P!Blocks(H))
      /\ ListWords(P!ToSet(s) \cup {b}) \subseteq Zones(H, H.free)
  BY <1>1, <1>3, ListWordsInZones DEF ListWords
<1>6. SameWords(m, g, ListWords(P!Blocks(H))) /\ SameWords(m, g, Zones(H, H.free))
  BY <1>4, <1>5, SameWordsFacts DEF Rewritten
<1>7. Tags(g, H)
  BY <1>6, TagsApartFromList DEF Holds
<1>8. Holds(g, H, t)
  BY <1>4, <1>7 DEF Holds, Rewritten
<1>9. ListOver(t, H.free) /\ P!ToSet(t) = P!ToSet(s) \cup {b}
  BY BlockAssumptions, P!PushFacts DEF ListOver
<1> QED BY <1>6, <1>8, <1>9 DEF g

-----------------------------------------------------------------------------
(* Blocks cut and joined.                                                  *)

(* J is H with the blocks in D replaced by those in N.                     *)
Replaced(H, J, D, N) ==
  /\ J.brk = H.brk
  /\ P!Blocks(J) = (P!Blocks(H) \ D) \cup N
  /\ \A c \in P!Blocks(H) \ D :
       c \notin N => J.size[c] = H.size[c] /\ (c \in J.free <=> c \in H.free)

(* Once the new blocks are tagged, the tags are those of the new heap.     *)
LEMMA ReplacedTags ==
  ASSUME NEW H, Fits(H), NEW J, NEW D \in SUBSET P!Blocks(H), NEW N,
         Replaced(H, J, D, N), NEW m, NEW g,
         TagsBut(m, H, D), SameWords(m, g, Zones(H, D)),
         \A c \in N : Tagged(g, c, J.size[c], Bit(J, c))
  PROVE  Tags(g, J)
<1>1. TagsBut(g, H, D)
  BY TagsElsewhere
<1>2. ASSUME NEW c \in P!Blocks(J)
      PROVE  Tagged(g, c, J.size[c], Bit(J, c))
  BY <1>1 DEF Replaced, Bit, TagsBut
<1> QED BY <1>1, <1>2 DEF Tags, TagsBut, Replaced

(* The list is not disturbed if the blocks replaced are not on it.         *)
LEMMA ListApart ==
  ASSUME NEW H, Fits(H), NEW s, ListOver(s, H.free), NEW D \in SUBSET P!Blocks(H),
         D \cap P!ToSet(s) = {}, NEW m, NEW g, g.fl = m.fl,
         Linked(m, s), SameWords(m, g, Zones(H, D))
  PROVE  Linked(g, s)
<1>1. ASSUME NEW i \in 1 .. Len(s)
      PROVE  s[i] \notin Zones(H, D) /\ s[i] + 4 \notin Zones(H, D)
  <2>1. s[i] \in P!Blocks(H) \ D
    BY DEF ListOver, P!ToSet, Fits, P!HeapType
  <2>2. PICK c \in P!Blocks(H) \ D : c = s[i]
    BY <2>1
  <2>3. /\ c \in Nat /\ H.size[c] \in Nat /\ H.size[c] >= 16 /\ P!End(H, c) = c + H.size[c]
    BY BlockFacts
  <2> QED BY <2>2, <2>3, OutsideZones
<1> QED BY <1>1, ListElsewhere

(* The header and the footer of a block are among its words.               *)
LEMMA TagsInZone ==
  ASSUME NEW H, Fits(H), NEW D \in SUBSET P!Blocks(H), NEW d \in D
  PROVE  d - 4 \in Zones(H, D) /\ d + H.size[d] - 8 \in Zones(H, D)
<1>1. /\ d \in Nat /\ H.size[d] \in Nat /\ H.size[d] >= 16 /\ P!End(H, d) = d + H.size[d]
  BY BlockFacts
<1> QED BY <1>1 DEF Zones, WSIZE

Proper(H) == Fits(H) /\ P!FreeListExact(H)

(* What BlockHeapProofs calls a sound heap.                                *)
LEMMA ProperIsSound ==
  ASSUME NEW H, Proper(H)
  PROVE  P!Sound(H) /\ ListOver(H.fl, H.free) /\ P!ToSet(H.fl) = H.free
<1>1. P!HeapType(H) /\ P!Tiled(H) /\ P!IsInjective(H.fl) /\ P!ToSet(H.fl) = H.free
  BY DEF Proper, Fits, P!FreeListExact
<1>2. H.fl \in Seq(P!Blocks(H))
  BY <1>1 DEF P!HeapType
<1>3. H.fl \in Seq(H.free)
  BY <1>1, <1>2, BlockAssumptions, P!SeqOverRange
<1> QED BY <1>1, <1>3 DEF P!Sound, P!FreeListExact, ListOver

(* Two words written.                                                      *)
LEMMA TwoTags ==
  ASSUME NEW m \in Machine, NEW a \in Arena, NEW c \in Arena, NEW w \in Nat
  PROVE  LET g == Set(Set(m, a, w), c, w)
         IN  /\ Rewritten(m, g, {a, c}) /\ g.fl = m.fl
             /\ Get(g, a) = w /\ Get(g, c) = w
<1> DEFINE m1 == Set(m, a, w)
           g == Set(m1, c, w)
<1>1. Written(m, m1, a, w)
  BY SetFacts
<1> HIDE DEF m1
<1>2. Written(m1, g, c, w)
  BY <1>1, SetFacts DEF Written
<1> HIDE DEF g
<1>3. Rewritten(m, g, {a, c}) /\ g.fl = m.fl /\ Get(g, a) = w /\ Get(g, c) = w
  BY <1>1, <1>2 DEF Written, Rewritten, SameWords
<1> QED BY <1>3 DEF g, m1

(* Tags written for the blocks that replace some free ones.                *)
LEMMA ReplacedHolds ==
  ASSUME NEW H, Fits(H), NEW J, NEW D \in SUBSET P!Blocks(H), NEW N,
         Replaced(H, J, D, N), NEW s, ListOver(s, H.free), D \cap P!ToSet(s) = {},
         NEW m, HoldsBut(m, H, s, D), NEW g,
         Rewritten(m, g, Zones(H, D)), g.fl = m.fl,
         \A c \in N : Tagged(g, c, J.size[c], Bit(J, c))
  PROVE  Holds(g, J, s)
<1>1. SameWords(m, g, Zones(H, D))
  BY DEF Rewritten
<1>2. Tags(g, J)
  BY <1>1, ReplacedTags DEF HoldsBut
<1>3. Linked(g, s)
  BY <1>1, ListApart DEF HoldsBut
<1> QED BY <1>1, <1>2, <1>3 DEF Holds, HoldsBut, Rewritten, Replaced

(* The case of coalesce in which the block behind is free.                 *)
LEMMA JoinNextWords ==
  ASSUME NEW H, Proper(H), NEW b \in H.free, P!End(H, b) \in H.free,
         NEW s, ListOver(s, H.free), b \notin P!ToSet(s), P!End(H, b) \notin P!ToSet(s),
         NEW m, Holds(m, H, s)
  PROVE  LET g == JoinNext(m, b, P!End(H, b), H.size[b])
             J == P!Join(H, b)
         IN  /\ Proper(J) /\ b \in J.free
             /\ Holds(g, J, s) /\ SameWords(m, g, Zones(H, H.free))
<1> DEFINE n == P!End(H, b)
           J == P!Join(H, b)
           g == JoinNext(m, b, n, H.size[b])
           D == {b, n}
<1>0. Fits(H) /\ P!Sound(H)
  BY ProperIsSound DEF Proper
<1>1. H.free \subseteq P!Blocks(H)
  BY <1>0 DEF Fits, P!HeapType
<1>2. b \in P!Blocks(H) /\ n \in P!Blocks(H)
  BY <1>1
<1>3. /\ P!Sound(J) /\ J.brk = H.brk /\ J.free = H.free \ {n}
      /\ P!Blocks(J) = P!Blocks(H) \ {n} /\ n # b
      /\ J.size[b] = H.size[b] + H.size[n]
      /\ \A c \in P!Blocks(J) \ {b} : J.size[c] = H.size[c]
  BY <1>0, <1>2, BlockAssumptions, P!JoinFacts
<1> HIDE DEF J
<1>4. Replaced(H, J, D, {b}) /\ Bit(J, b) = 0 /\ b \in J.free
  BY <1>2, <1>3 DEF Replaced, Bit
<1>5. Proper(J)
  BY <1>0, <1>3 DEF Proper, Fits, P!Sound
<1>6. /\ b \in Nat /\ H.size[b] \in Nat /\ H.size[b] % 8 = 0 /\ H.size[b] >= 16
      /\ n = b + H.size[b]
      /\ H.size[n] \in Nat /\ H.size[n] % 8 = 0 /\ H.size[n] >= 16
  BY <1>0, <1>2, BlockFacts
<1>7. /\ J.size[b] \in Nat /\ J.size[b] % 8 = 0 /\ J.size[b] >= 16
      /\ b + J.size[b] - 8 = n + H.size[n] - 8
  <2>1. PICK x, y \in Nat : x = H.size[b] /\ y = H.size[n]
    BY <1>6
  <2> QED BY <2>1, <1>3, <1>6
<1>8. b - 4 \in Arena /\ n + H.size[n] - 8 \in Arena
  BY <1>0, <1>2, BlockWords
<1>9. g = TagBoth(m, b, Word(J.size[b], 0))
  BY <1>0, <1>2, <1>3, ReadBlock DEF JoinNext, Holds
<1>10. /\ Rewritten(m, g, {b - 4, b + J.size[b] - 8}) /\ g.fl = m.fl
       /\ Tagged(g, b, J.size[b], 0)
  <2>1. PICK z \in Nat : z = J.size[b]
    BY <1>7
  <2>2. m \in Machine
    BY DEF Holds
  <2>3. z \in Nat /\ z % 8 = 0 /\ z >= 16 /\ b \in Int /\ b + z - 8 \in Arena
    BY <2>1, <1>6, <1>7, <1>8
  <2>4. /\ Rewritten(m, TagBoth(m, b, Word(z, 0)), {b - 4, b + z - 8})
        /\ TagBoth(m, b, Word(z, 0)).fl = m.fl
        /\ Tagged(TagBoth(m, b, Word(z, 0)), b, z, 0)
    BY <2>2, <2>3, <1>8, TagBothFacts
  <2> QED BY <2>1, <2>4, <1>9
<1> HIDE DEF g
<1>11. {b - 4, b + J.size[b] - 8} \subseteq Zones(H, D)
  BY <1>0, <1>2, <1>7, TagsInZone
<1>12. Rewritten(m, g, Zones(H, D))
  BY <1>10, <1>11, SameWordsFacts DEF Rewritten
<1>13. Holds(g, J, s)
  <2>1. D \in SUBSET P!Blocks(H) /\ D \cap P!ToSet(s) = {}
    BY <1>2
  <2>2. \A c \in {b} : Tagged(g, c, J.size[c], Bit(J, c))
    BY <1>4, <1>10
  <2> HIDE DEF D
  <2>3. HoldsBut(m, H, s, D)
    BY DEF Holds, HoldsBut, Tags, TagsBut
  <2> QED BY <1>0, <2>3, <1>4, <1>10, <1>12, <2>1, <2>2, ReplacedHolds
<1>14. SameWords(m, g, Zones(H, H.free))
  <2>1. Zones(H, D) \subseteq Zones(H, H.free)
    BY DEF Zones
  <2> QED BY <2>1, <1>12, SameWordsFacts DEF Rewritten
<1> QED BY <1>4, <1>5, <1>13, <1>14 DEF g, J

(* The case in which the block in front is free.                           *)
LEMMA JoinPrevWords ==
  ASSUME NEW H, Proper(H), NEW p \in H.free, P!End(H, p) \in H.free,
         NEW s, ListOver(s, H.free), p \notin P!ToSet(s), P!End(H, p) \notin P!ToSet(s),
         NEW m, Holds(m, H, s)
  PROVE  LET b == P!End(H, p)
             g == JoinPrev(m, b, p, H.size[b])
             J == P!Join(H, p)
         IN  /\ Proper(J) /\ p \in J.free
             /\ Holds(g, J, s) /\ SameWords(m, g, Zones(H, H.free))
<1> DEFINE b == P!End(H, p)
           J == P!Join(H, p)
           g == JoinPrev(m, b, p, H.size[b])
           D == {p, b}
<1>0. Fits(H) /\ P!Sound(H)
  BY ProperIsSound DEF Proper
<1>1. H.free \subseteq P!Blocks(H)
  BY <1>0 DEF Fits, P!HeapType
<1>2. p \in P!Blocks(H) /\ b \in P!Blocks(H)
  BY <1>1
<1>3. /\ P!Sound(J) /\ J.brk = H.brk /\ J.free = H.free \ {b}
      /\ P!Blocks(J) = P!Blocks(H) \ {b} /\ b # p
      /\ J.size[p] = H.size[p] + H.size[b]
      /\ \A c \in P!Blocks(J) \ {p} : J.size[c] = H.size[c]
  BY <1>0, <1>2, BlockAssumptions, P!JoinFacts
<1> HIDE DEF J
<1>4. Replaced(H, J, D, {p}) /\ Bit(J, p) = 0 /\ p \in J.free
  BY <1>2, <1>3 DEF Replaced, Bit
<1>5. Proper(J)
  BY <1>0, <1>3 DEF Proper, Fits, P!Sound
<1>6. /\ p \in Nat /\ H.size[p] \in Nat /\ H.size[p] % 8 = 0 /\ H.size[p] >= 16
      /\ b = p + H.size[p]
      /\ H.size[b] \in Nat /\ H.size[b] % 8 = 0 /\ H.size[b] >= 16
      /\ P!End(H, b) = b + H.size[b]
  BY <1>0, <1>2, BlockFacts
<1>7. /\ J.size[p] \in Nat /\ J.size[p] % 8 = 0
      /\ p + J.size[p] - 8 = b + H.size[b] - 8
  <2>1. PICK x, y \in Nat : x = H.size[p] /\ y = H.size[b]
    BY <1>6
  <2> QED BY <2>1, <1>3, <1>6
<1>8. p - 4 \in Arena /\ b + H.size[b] - 8 \in Arena
  BY <1>0, <1>2, BlockWords
<1> DEFINE w == Word(J.size[p], 0)
<1>9. w \in Nat /\ Word(H.size[b] + H.size[p], 0) = w
  <2>1. PICK x, y \in Nat : x = H.size[p] /\ y = H.size[b]
    BY <1>6
  <2> QED BY <2>1, <1>3 DEF Word
<1> HIDE DEF w
<1>10. g = Set(Set(m, b + H.size[b] - 8, w), p - 4, w)
  <2>1. SizeOf(m, p) = H.size[p] /\ Footer(m, b) = P!End(H, b) - 8
    BY <1>0, <1>2, ReadBlock DEF Holds
  <2> QED BY <2>1, <1>6, <1>9 DEF JoinPrev, Tag, TagFooter, Header, WSIZE
<1>11. /\ Rewritten(m, g, {b + H.size[b] - 8, p - 4}) /\ g.fl = m.fl
       /\ Get(g, p - 4) = w /\ Get(g, b + H.size[b] - 8) = w
  <2>1. PICK a \in Arena, c \in Arena : a = b + H.size[b] - 8 /\ c = p - 4
    BY <1>8
  <2>2. m \in Machine /\ w \in Nat
    BY <1>9 DEF Holds
  <2>3. /\ Rewritten(m, Set(Set(m, a, w), c, w), {a, c})
        /\ Set(Set(m, a, w), c, w).fl = m.fl
        /\ Get(Set(Set(m, a, w), c, w), a) = w /\ Get(Set(Set(m, a, w), c, w), c) = w
    BY ONLY <2>2, a \in Arena, c \in Arena, TwoTags
  <2> HIDE DEF g
  <2>4. g = Set(Set(m, a, w), c, w)
    BY <2>1, <1>10
  <2>5. /\ Rewritten(m, g, {a, c}) /\ g.fl = m.fl
        /\ Get(g, a) = w /\ Get(g, c) = w
    BY <2>3, <2>4
  <2> QED BY <2>1, <2>5
<1> HIDE DEF g
<1>12. Rewritten(m, g, Zones(H, D))
  <2>1. {b + H.size[b] - 8, p - 4} \subseteq Zones(H, D)
    BY <1>0, <1>2, TagsInZone
  <2> QED BY <2>1, <1>11, SameWordsFacts DEF Rewritten
<1>13. Holds(g, J, s)
  <2>1. D \in SUBSET P!Blocks(H) /\ D \cap P!ToSet(s) = {}
    BY <1>2
  <2>2. \A c \in {p} : Tagged(g, c, J.size[c], Bit(J, c))
    BY <1>4, <1>7, <1>11 DEF Tagged, WSIZE, DSIZE, w
  <2> HIDE DEF D
  <2>3. HoldsBut(m, H, s, D)
    BY DEF Holds, HoldsBut, Tags, TagsBut
  <2> QED BY <1>0, <2>3, <1>4, <1>11, <1>12, <2>1, <2>2, ReplacedHolds
<1>14. SameWords(m, g, Zones(H, H.free))
  <2>1. Zones(H, D) \subseteq Zones(H, H.free)
    BY DEF Zones
  <2> QED BY <2>1, <1>12, SameWordsFacts DEF Rewritten
<1> QED BY <1>4, <1>5, <1>13, <1>14 DEF g, J

(* The case in which both are free.                                        *)
LEMMA JoinBothWords ==
  ASSUME NEW H, Proper(H), NEW p \in H.free, NEW b \in H.free, NEW n \in H.free,
         P!End(H, p) = b, P!End(H, b) = n,
         NEW s, ListOver(s, H.free), {p, b, n} \cap P!ToSet(s) = {},
         NEW m, Holds(m, H, s)
  PROVE  LET g == JoinBoth(m, p, n, H.size[b])
             J == P!Join(P!Join(H, b), p)
         IN  /\ Proper(J) /\ p \in J.free
             /\ Holds(g, J, s) /\ SameWords(m, g, Zones(H, H.free))
<1> DEFINE J1 == P!Join(H, b)
           J == P!Join(J1, p)
           g == JoinBoth(m, p, n, H.size[b])
           D == {p, b, n}
<1>0. Fits(H) /\ P!Sound(H)
  BY ProperIsSound DEF Proper
<1>1. H.free \subseteq P!Blocks(H)
  BY <1>0 DEF Fits, P!HeapType
<1>2. p \in P!Blocks(H) /\ b \in P!Blocks(H) /\ n \in P!Blocks(H)
  BY <1>1
<1>6. /\ p \in Nat /\ H.size[p] \in Nat /\ H.size[p] % 8 = 0 /\ H.size[p] >= 16
      /\ b = p + H.size[p]
      /\ H.size[b] \in Nat /\ H.size[b] % 8 = 0 /\ H.size[b] >= 16
      /\ n = b + H.size[b]
      /\ H.size[n] \in Nat /\ H.size[n] % 8 = 0 /\ H.size[n] >= 16
      /\ P!End(H, n) = n + H.size[n]
  BY <1>0, <1>2, BlockFacts
<1>61. p # b /\ p # n /\ b # n
  <2>1. PICK x, y \in Nat : x = H.size[p] /\ y = H.size[b]
    BY <1>6
  <2> QED BY <2>1, <1>6
<1>3. /\ P!Sound(J1) /\ J1.brk = H.brk /\ J1.free = H.free \ {n}
      /\ P!Blocks(J1) = P!Blocks(H) \ {n}
      /\ J1.size[b] = H.size[b] + H.size[n]
      /\ \A c \in P!Blocks(J1) \ {b} : J1.size[c] = H.size[c] /\ P!End(J1, c) = P!End(H, c)
  BY <1>0, <1>2, BlockAssumptions, P!JoinFacts
<1> HIDE DEF J1
<1>31. /\ P!Sound(J) /\ J.brk = J1.brk /\ J.free = J1.free \ {b}
       /\ P!Blocks(J) = P!Blocks(J1) \ {b}
       /\ J.size[p] = J1.size[p] + J1.size[b]
       /\ \A c \in P!Blocks(J) \ {p} : J.size[c] = J1.size[c]
  <2>1. p \in P!Blocks(J1) /\ P!End(J1, p) = b /\ b \in J1.free
    BY <1>2, <1>3, <1>61
  <2> QED BY <2>1, <1>3, BlockAssumptions, P!JoinFacts
<1> HIDE DEF J
<1>4. Replaced(H, J, D, {p}) /\ Bit(J, p) = 0 /\ p \in J.free
  BY <1>2, <1>3, <1>31, <1>61 DEF Replaced, Bit
<1>5. Proper(J)
  BY <1>0, <1>3, <1>31 DEF Proper, Fits, P!Sound
<1>7. /\ J.size[p] = H.size[b] + H.size[p] + H.size[n]
      /\ J.size[p] \in Nat /\ J.size[p] % 8 = 0
      /\ p + J.size[p] - 8 = n + H.size[n] - 8
  <2>1. PICK x, y, z \in Nat : x = H.size[p] /\ y = H.size[b] /\ z = H.size[n]
    BY <1>6
  <2>2. J1.size[p] = x
    BY <2>1, <1>2, <1>3, <1>61
  <2> QED BY <2>1, <2>2, <1>3, <1>31, <1>6
<1>8. p - 4 \in Arena /\ n + H.size[n] - 8 \in Arena
  BY <1>0, <1>2, BlockWords
<1> DEFINE w == Word(J.size[p], 0)
<1>9. w \in Nat /\ Word(H.size[b] + H.size[p] + H.size[n], 0) = w
  BY <1>7, WordFacts
<1> HIDE DEF w
<1>10. g = Set(Set(m, p - 4, w), n + H.size[n] - 8, w)
  <2> DEFINE m1 == Set(m, p - 4, w)
  <2>1. /\ SizeOf(m, p) = H.size[p] /\ SizeOf(m, n) = H.size[n]
        /\ Footer(m, n) = P!End(H, n) - 8
        /\ GetSize(m, P!End(H, n) - 8) = H.size[n]
    BY <1>0, <1>2, ReadBlock DEF Holds
  <2>2. Written(m, m1, p - 4, w)
    BY <1>8, <1>9, SetFacts DEF Holds
  <2>3. g = TagFooter(m1, n, w)
    BY <2>1, <1>9 DEF JoinBoth, Tag, Header, WSIZE
  <2> HIDE DEF m1
  <2>4. n - 4 # p - 4
    BY <1>6, <1>61
  <2>5. Footer(m1, n) = Footer(m, n)
    BY <2>2, <2>4 DEF Written, Footer, NextBlock, SizeOf, GetSize, Header, WSIZE
  <2> QED BY <2>1, <2>3, <2>5, <1>6 DEF TagFooter, m1
<1>11. /\ Rewritten(m, g, {p - 4, n + H.size[n] - 8}) /\ g.fl = m.fl
       /\ Get(g, p - 4) = w /\ Get(g, n + H.size[n] - 8) = w
  <2>1. PICK a \in Arena, c \in Arena : a = p - 4 /\ c = n + H.size[n] - 8
    BY <1>8
  <2>2. m \in Machine /\ w \in Nat
    BY <1>9 DEF Holds
  <2>3. /\ Rewritten(m, Set(Set(m, a, w), c, w), {a, c})
        /\ Set(Set(m, a, w), c, w).fl = m.fl
        /\ Get(Set(Set(m, a, w), c, w), a) = w /\ Get(Set(Set(m, a, w), c, w), c) = w
    BY ONLY <2>2, a \in Arena, c \in Arena, TwoTags
  <2> HIDE DEF g
  <2>4. g = Set(Set(m, a, w), c, w)
    BY <2>1, <1>10
  <2>5. /\ Rewritten(m, g, {a, c}) /\ g.fl = m.fl
        /\ Get(g, a) = w /\ Get(g, c) = w
    BY <2>3, <2>4
  <2> QED BY <2>1, <2>5
<1> HIDE DEF g
<1>12. Rewritten(m, g, Zones(H, D))
  <2>1. {p - 4, n + H.size[n] - 8} \subseteq Zones(H, D)
    BY <1>0, <1>2, TagsInZone
  <2> QED BY <2>1, <1>11, SameWordsFacts DEF Rewritten
<1>13. Holds(g, J, s)
  <2>1. D \in SUBSET P!Blocks(H) /\ D \cap P!ToSet(s) = {}
    BY <1>2
  <2>2. \A c \in {p} : Tagged(g, c, J.size[c], Bit(J, c))
    BY <1>4, <1>7, <1>11 DEF Tagged, WSIZE, DSIZE, w
  <2> HIDE DEF D
  <2>3. HoldsBut(m, H, s, D)
    BY DEF Holds, HoldsBut, Tags, TagsBut
  <2> QED BY <1>0, <2>3, <1>4, <1>11, <1>12, <2>1, <2>2, ReplacedHolds
<1>14. SameWords(m, g, Zones(H, H.free))
  <2>1. Zones(H, D) \subseteq Zones(H, H.free)
    BY DEF Zones
  <2> QED BY <2>1, <1>12, SameWordsFacts DEF Rewritten
<1> QED BY <1>4, <1>5, <1>13, <1>14 DEF g, J, J1

(* What coalesce reads of the neighbours.                                  *)
LEMMA Neighbours ==
  ASSUME NEW H, Fits(H), NEW m, Tags(m, H), NEW b \in P!Blocks(H)
  PROVE  LET prev == PrevBlock(m, b)
             next == NextBlock(m, b)
         IN  /\ next = P!End(H, b)
             /\ IsAllocated(m, Header(next)) <=> next \notin H.free
             /\ IsAllocated(m, Footer(m, prev)) <=> prev \notin H.free
             /\ prev \in H.free => P!End(H, prev) = b
             /\ \A p \in H.free : P!End(H, p) = b => p = prev
<1> DEFINE prev == PrevBlock(m, b)
           next == NextBlock(m, b)
<1>1. next = P!End(H, b) /\ next \in P!Blocks(H) \cup {H.brk}
  BY ReadBlock, BlockFacts
<1>2. IsAllocated(m, Header(next)) <=> next \notin H.free
  BY <1>1, ReadNext
<1>3. H.free \subseteq P!Blocks(H)
  BY DEF Fits, P!HeapType
<1>4. CASE b = Base
  <2>1. IsAllocated(m, Footer(m, prev))
    BY <1>4, ReadPrevious
  <2>2. prev = b - 8
    <3>1. Get(m, b - 8) = Word(8, 1)
      BY <1>4 DEF Tags, Ends, DSIZE
    <3>2. (Word(8, 1) \div 8) * 8 = 8
      BY WordFacts
    <3> QED BY <3>1, <3>2 DEF PrevBlock, GetSize, DSIZE
  <2>3. prev \notin P!Blocks(H)
    <3>1. \A c \in P!Blocks(H) : c \in Nat /\ c >= b
      BY <1>4, BlockFacts
    <3> QED BY <3>1, <2>2, BlockFacts
  <2>4. \A p \in P!Blocks(H) : P!End(H, p) # b
    <3>1. ASSUME NEW p \in P!Blocks(H) PROVE P!End(H, p) # b
      <4>1. /\ p \in Nat /\ H.size[p] \in Nat /\ H.size[p] >= 16 /\ p >= b
            /\ P!End(H, p) = p + H.size[p] /\ b \in Nat
        BY <1>4, BlockFacts
      <4> QED BY <4>1
    <3> QED BY <3>1
  <2> QED BY <1>1, <1>2, <1>3, <2>1, <2>3, <2>4
<1>5. CASE b # Base
  <2>1. PICK q \in P!Blocks(H) : P!End(H, q) = b
    BY <1>5, BaseFacts DEF Fits, P!Tiled
  <2>2. prev = q /\ (IsAllocated(m, Footer(m, prev)) <=> q \notin H.free)
    BY <2>1, ReadPrevious
  <2>3. \A p \in H.free : P!End(H, p) = b => p = q
    BY <1>3, <2>1, OnePredecessor
  <2> QED BY <1>1, <1>2, <2>1, <2>2, <2>3
<1> QED BY <1>4, <1>5

(* A neighbour leaves the list if it is on it.                             *)
LEMMA UnlistedUnless ==
  ASSUME NEW H, Fits(H), NEW s, ListOver(s, H.free), NEW m, Holds(m, H, s),
         NEW b, NEW alloc, alloc <=> b \notin P!ToSet(s)
  PROVE  LET g == UnlistUnless(alloc, m, b)
             t == P!Unlink(s, b)
         IN  /\ Holds(g, H, t) /\ SameWords(m, g, Zones(H, H.free))
             /\ ListOver(t, H.free) /\ P!ToSet(t) = P!ToSet(s) \ {b}
<1>1. CASE b \in P!ToSet(s)
  <2>1. UnlistUnless(alloc, m, b) = RemoveFromFreeList(m, b)
    BY <1>1 DEF UnlistUnless
  <2> QED BY <2>1, <1>1, Unlisted
<1>2. CASE b \notin P!ToSet(s)
  <2>1. UnlistUnless(alloc, m, b) = m /\ P!Unlink(s, b) = s
    BY <1>2 DEF UnlistUnless, P!Unlink
  <2> QED BY <2>1, <1>2, SameWordsFacts
<1> QED BY <1>1, <1>2

(* Joining free blocks frees no other words.                               *)
LEMMA JoinZones ==
  ASSUME NEW H, Proper(H), NEW b \in H.free, P!End(H, b) \in H.free
  PROVE  LET J == P!Join(H, b)
         IN  /\ Zones(J, J.free) \subseteq Zones(H, H.free)
             /\ J.free = H.free \ {P!End(H, b)} /\ J.fl = P!Unlink(H.fl, P!End(H, b))
             /\ \A c \in J.free : c # b => P!End(J, c) = P!End(H, c)
<1> DEFINE n == P!End(H, b)
           J == P!Join(H, b)
<1>0. Fits(H) /\ P!Sound(H)
  BY ProperIsSound DEF Proper
<1>1. H.free \subseteq P!Blocks(H)
  BY <1>0 DEF Fits, P!HeapType
<1>2. /\ J.free = H.free \ {n} /\ P!Blocks(J) = P!Blocks(H) \ {n}
      /\ P!End(J, b) = P!End(H, n)
      /\ \A c \in P!Blocks(J) \ {b} : P!End(J, c) = P!End(H, c)
  BY <1>0, <1>1, BlockAssumptions, P!JoinFacts
<1>3. J.fl = P!Unlink(H.fl, n)
  BY DEF P!Join
<1> HIDE DEF J
<1>4. ASSUME NEW x \in Int, NEW c \in J.free, c - 4 <= x, x < P!End(J, c) - 4
      PROVE  x \in Zones(H, H.free)
  <2>1. CASE c = b
    <3>1. n \in Nat /\ P!End(H, n) \in Nat
      BY <1>0, <1>1, BlockFacts
    <3>2. x < n - 4 \/ (n - 4 <= x /\ x < P!End(H, n) - 4)
      BY <1>2, <1>4, <2>1, <3>1
    <3> QED BY <3>2, <1>4, <2>1 DEF Zones, WSIZE
  <2>2. CASE c # b
    BY <1>1, <1>2, <1>4, <2>2 DEF Zones, WSIZE
  <2> QED BY <2>1, <2>2
<1>5. Zones(J, J.free) \subseteq Zones(H, H.free)
  BY <1>4 DEF Zones, WSIZE
<1> QED BY <1>1, <1>2, <1>3, <1>5 DEF J

-----------------------------------------------------------------------------
(* What coalesce has joined b with, before the list is seen to.            *)
Forward(H, b) == IF P!End(H, b) \in H.free THEN P!Join(H, b) ELSE H
Around(H, b, prev) ==
  IF prev \in H.free THEN P!Join(Forward(H, b), prev) ELSE Forward(H, b)

(* The four cases of coalesce.                                             *)
LEMMA MergedWords ==
  ASSUME NEW H, Proper(H), NEW b \in H.free,
         NEW prev, prev \in H.free => P!End(H, prev) = b,
         NEW s, ListOver(s, H.free), {prev, b, P!End(H, b)} \cap P!ToSet(s) = {},
         NEW m, Holds(m, H, s)
  PROVE  LET n == P!End(H, b)
             g == Merged(m, b, prev, n, prev \notin H.free, n \notin H.free, H.size[b])
             J == Around(H, b, prev)
             first == IF prev \in H.free THEN prev ELSE b
         IN  /\ Proper(J) /\ first \in J.free
             /\ Holds(g, J, s) /\ SameWords(m, g, Zones(H, H.free))
             /\ Zones(J, J.free) \subseteq Zones(H, H.free)
             /\ H.free \ {prev, b, n} \subseteq J.free
             /\ J.fl = IF prev \in H.free THEN P!Unlink(P!Unlink(H.fl, n), b)
                       ELSE P!Unlink(H.fl, n)
<1> DEFINE n == P!End(H, b)
           g == Merged(m, b, prev, n, prev \notin H.free, n \notin H.free, H.size[b])
           J == Around(H, b, prev)
<1>0. Fits(H) /\ H.free \subseteq P!Blocks(H) /\ P!ToSet(H.fl) = H.free
  BY ProperIsSound DEF Proper, Fits, P!HeapType
<1>1. CASE prev \notin H.free /\ n \notin H.free
  <2>1. g = m /\ J = H /\ P!Unlink(H.fl, n) = H.fl
    BY <1>0, <1>1 DEF Merged, Around, Forward, P!Unlink
  <2> QED BY <2>1, <1>1, SameWordsFacts
<1>2. CASE prev \notin H.free /\ n \in H.free
  <2>1. g = JoinNext(m, b, n, H.size[b]) /\ J = P!Join(H, b)
    BY <1>2 DEF Merged, Around, Forward
  <2>2. /\ Proper(P!Join(H, b)) /\ b \in P!Join(H, b).free
        /\ Holds(JoinNext(m, b, n, H.size[b]), P!Join(H, b), s)
        /\ SameWords(m, JoinNext(m, b, n, H.size[b]), Zones(H, H.free))
    BY <1>2, JoinNextWords
  <2>3. /\ Zones(P!Join(H, b), P!Join(H, b).free) \subseteq Zones(H, H.free)
        /\ P!Join(H, b).free = H.free \ {n} /\ P!Join(H, b).fl = P!Unlink(H.fl, n)
    BY <1>2, JoinZones
  <2> QED BY <2>1, <2>2, <2>3, <1>2
<1>3. CASE prev \in H.free /\ n \notin H.free
  <2>1. g = JoinPrev(m, b, prev, H.size[b]) /\ J = P!Join(H, prev)
        /\ P!Unlink(H.fl, n) = H.fl
    BY <1>0, <1>3 DEF Merged, Around, Forward, P!Unlink
  <2>2. /\ Proper(P!Join(H, prev)) /\ prev \in P!Join(H, prev).free
        /\ Holds(JoinPrev(m, b, prev, H.size[b]), P!Join(H, prev), s)
        /\ SameWords(m, JoinPrev(m, b, prev, H.size[b]), Zones(H, H.free))
    BY <1>3, JoinPrevWords
  <2>3. /\ Zones(P!Join(H, prev), P!Join(H, prev).free) \subseteq Zones(H, H.free)
        /\ P!Join(H, prev).free = H.free \ {b} /\ P!Join(H, prev).fl = P!Unlink(H.fl, b)
    BY <1>3, JoinZones
  <2> QED BY <2>1, <2>2, <2>3, <1>3
<1>4. CASE prev \in H.free /\ n \in H.free
  <2> DEFINE J1 == P!Join(H, b)
  <2>1. g = JoinBoth(m, prev, n, H.size[b]) /\ J = P!Join(J1, prev)
    BY <1>4 DEF Merged, Around, Forward
  <2>2. /\ Proper(P!Join(J1, prev)) /\ prev \in P!Join(J1, prev).free
        /\ Holds(g, P!Join(J1, prev), s) /\ SameWords(m, g, Zones(H, H.free))
    BY <1>4, <2>1, JoinBothWords
  <2>3. /\ Zones(J1, J1.free) \subseteq Zones(H, H.free)
        /\ J1.free = H.free \ {n} /\ J1.fl = P!Unlink(H.fl, n)
        /\ \A c \in J1.free : c # b => P!End(J1, c) = P!End(H, c)
    BY <1>4, JoinZones
  <2>4. prev # b /\ prev # n /\ b # n
    <3>1. /\ prev \in Nat /\ H.size[prev] \in Nat /\ H.size[prev] >= 16
          /\ b = prev + H.size[prev]
          /\ b \in Nat /\ H.size[b] \in Nat /\ H.size[b] >= 16 /\ n = b + H.size[b]
      BY <1>0, <1>4, BlockFacts
    <3> QED BY <3>1
  <2>5. Proper(J1)
    BY <1>4, JoinNextWords
  <2> HIDE DEF J1
  <2>6. prev \in J1.free /\ P!End(J1, prev) = b /\ b \in J1.free
    BY <1>4, <2>3, <2>4
  <2>7. /\ Zones(P!Join(J1, prev), P!Join(J1, prev).free) \subseteq Zones(J1, J1.free)
        /\ P!Join(J1, prev).free = J1.free \ {b}
        /\ P!Join(J1, prev).fl = P!Unlink(J1.fl, b)
    BY <2>5, <2>6, JoinZones
  <2> QED BY <1>4, <2>1, <2>2, <2>3, <2>7
<1> QED BY <1>1, <1>2, <1>3, <1>4

(* Only the list tells a heap from one with another list.                  *)
LEMMA Relisted ==
  ASSUME NEW H, P!HeapType(H), NEW s, NEW G, G = [H EXCEPT !.fl = s]
  PROVE  /\ G = [brk |-> H.brk, size |-> H.size, free |-> H.free, fl |-> s]
         /\ G.brk = H.brk /\ G.size = H.size /\ G.free = H.free /\ G.fl = s
         /\ P!Blocks(G) = P!Blocks(H) /\ (P!Tiled(H) <=> P!Tiled(G))
         /\ s \in Seq(P!Blocks(H)) => P!HeapType(G)
         /\ s \in Seq(P!Blocks(H)) /\ Fits(H) => Fits(G)
         /\ \A m, t : Holds(m, H, t) => Holds(m, G, t)
         /\ \A D : Zones(G, D) = Zones(H, D)
<1>1. G = [brk |-> H.brk, size |-> H.size, free |-> H.free, fl |-> s]
  BY DEF P!HeapType
<1>2. /\ G.brk = H.brk /\ G.size = H.size /\ G.free = H.free /\ G.fl = s
      /\ P!Blocks(G) = P!Blocks(H)
  BY <1>1 DEF P!Blocks
<1>3. P!Tiled(H) <=> P!Tiled(G)
  BY <1>2 DEF P!Tiled, P!Aligned, P!End
<1>4. s \in Seq(P!Blocks(H)) => P!HeapType(G)
  BY <1>1, <1>2 DEF P!HeapType
<1>5. \A m, t : Holds(m, H, t) => Holds(m, G, t)
  BY <1>2 DEF Holds, Tags, Bit
<1>6. \A D : Zones(G, D) = Zones(H, D)
  BY <1>2 DEF Zones, P!End
<1>7. s \in Seq(P!Blocks(H)) /\ Fits(H) => Fits(G)
  BY <1>2, <1>3, <1>4 DEF Fits
<1> QED BY <1>1, <1>2, <1>3, <1>4, <1>5, <1>6, <1>7

(* The neighbours, as BlockHeap sees them.                                 *)
LEMMA AroundIsCoalesce ==
  ASSUME NEW H, Proper(H), NEW b \in H.free,
         NEW prev, prev \in H.free => P!End(H, prev) = b,
         \A p \in H.free : P!End(H, p) = b => p = prev
  PROVE  LET first == IF prev \in H.free THEN prev ELSE b
             J == Around(H, b, prev)
         IN  P!Coalesce(H, b) = [J EXCEPT !.fl = P!Push(P!Unlink(J.fl, first), first)]
<1> DEFINE Prev == {p \in H.free : P!End(H, p) = b}
<1>1. CASE prev \in H.free
  <2>1. Prev = {prev}
    BY <1>1
  <2>2. Prev # {} /\ (CHOOSE p \in Prev : TRUE) = prev
    BY <2>1
  <2> QED BY <1>1, <2>2 DEF P!Coalesce, Around, Forward
<1>2. CASE prev \notin H.free
  <2>1. Prev = {}
    BY <1>2
  <2> QED BY <1>2, <2>1 DEF P!Coalesce, Around, Forward
<1> QED BY <1>1, <1>2

(* coalesce, through the tags and the list words, is Coalesce.             *)
LEMMA CoalesceWords ==
  ASSUME NEW H, Proper(H), NEW b \in H.free, NEW m, Holds(m, H, H.fl)
  PROVE  LET c == Coalesce(m, b)
             C == P!Coalesce(H, b)
         IN  /\ Proper(C) /\ Holds(c.h, C, C.fl) /\ C.fl # <<>> /\ c.p = Head(C.fl)
             /\ C.brk = H.brk
             /\ SameWords(m, c.h, Zones(H, H.free))
             /\ Zones(C, C.free) \subseteq Zones(H, H.free)
<1> DEFINE prev == PrevBlock(m, b)
           n == P!End(H, b)
           prevAlloc == IsAllocated(m, Footer(m, prev))
           nextAlloc == IsAllocated(m, Header(n))
           m1 == UnlistUnless(nextAlloc, m, n)
           m2 == UnlistUnless(prevAlloc, m1, prev)
           m3 == UnlistUnless(IsAllocated(m2, Header(b)), m2, b)
           s1 == P!Unlink(H.fl, n)
           s2 == P!Unlink(s1, prev)
           s3 == P!Unlink(s2, b)
           first == IF prev \in H.free THEN prev ELSE b
           J == Around(H, b, prev)
           m4 == Merged(m3, b, prev, n, prevAlloc, nextAlloc, SizeOf(m3, b))
           m5 == AddToFreeList(m4, first)
           t == P!Push(s3, first)
           Z == Zones(H, H.free)
<1>0. /\ Fits(H) /\ P!Sound(H) /\ ListOver(H.fl, H.free) /\ P!ToSet(H.fl) = H.free
      /\ H.free \subseteq P!Blocks(H)
  BY ProperIsSound DEF Proper, Fits, P!HeapType
<1>1. b \in P!Blocks(H) /\ Tags(m, H)
  BY <1>0 DEF Holds
<1>2. /\ NextBlock(m, b) = n
      /\ nextAlloc <=> n \notin H.free
      /\ prevAlloc <=> prev \notin H.free
      /\ prev \in H.free => P!End(H, prev) = b
      /\ \A p \in H.free : P!End(H, p) = b => p = prev
  BY <1>0, <1>1, Neighbours
<1>3. n # b /\ prev # b /\ (prev \in H.free => prev # n)
  <2>1. b \in Nat /\ H.size[b] \in Nat /\ H.size[b] >= 16 /\ n = b + H.size[b]
    BY <1>0, <1>1, BlockFacts
  <2>2. \A p \in P!Blocks(H) : P!End(H, p) = b => p < b
    <3>1. ASSUME NEW p \in P!Blocks(H), P!End(H, p) = b PROVE p < b
      <4>1. p \in Nat /\ H.size[p] \in Nat /\ H.size[p] >= 16 /\ b = p + H.size[p]
        BY <1>0, <3>1, BlockFacts
      <4> QED BY <4>1
    <3> QED BY <3>1
  <2>3. prev \in H.free => prev < b
    BY <1>0, <1>2, <2>2
  <2>4. prev \notin H.free => prev # b
    OBVIOUS
  <2> HIDE DEF prev, n
  <2>5. prev \in H.free => prev \in Nat
    BY <1>0 DEF Fits, P!HeapType
  <2> QED BY <2>1, <2>3, <2>4, <2>5
<1>4. Coalesce(m, b) =
        [h |-> AddToFreeList(Merged(m3, b, prev, n, prevAlloc, nextAlloc, SizeOf(m, b)),
                             IF prevAlloc THEN b ELSE prev),
         p |-> IF prevAlloc THEN b ELSE prev]
  BY <1>2 DEF Coalesce
<1>5. SizeOf(m, b) = H.size[b]
  BY <1>0, <1>1, ReadBlock
<1> HIDE DEF prev, n, prevAlloc, nextAlloc, m1, m2, m3, m4, m5, s1, s2, s3, t, first, J, Z
<1>6. /\ Holds(m1, H, s1) /\ SameWords(m, m1, Z)
      /\ ListOver(s1, H.free) /\ P!ToSet(s1) = H.free \ {n}
  BY <1>0, <1>2, UnlistedUnless DEF m1, s1, Z
<1>7. /\ Holds(m2, H, s2) /\ SameWords(m1, m2, Z)
      /\ ListOver(s2, H.free) /\ P!ToSet(s2) = P!ToSet(s1) \ {prev}
  <2>1. prevAlloc <=> prev \notin P!ToSet(s1)
    BY <1>2, <1>3, <1>6
  <2> QED BY <1>0, <1>6, <2>1, UnlistedUnless DEF m2, s2, Z
<1>8. /\ Holds(m3, H, s3) /\ SameWords(m2, m3, Z)
      /\ ListOver(s3, H.free) /\ P!ToSet(s3) = P!ToSet(s2) \ {b}
  <2>1. ~IsAllocated(m2, Header(b))
    BY <1>0, <1>1, <1>7, ReadBlock DEF Holds
  <2>2. IsAllocated(m2, Header(b)) <=> b \notin P!ToSet(s2)
    BY <2>1, <1>3, <1>6, <1>7
  <2>3. Fits(H) /\ Holds(m2, H, s2) /\ ListOver(s2, H.free)
    BY <1>0, <1>7
  <2> QED BY <2>2, <2>3, UnlistedUnless DEF m3, s3, Z
<1>9. SizeOf(m3, b) = H.size[b]
  BY <1>0, <1>1, <1>8, ReadBlock DEF Holds
<1>10. /\ Proper(J) /\ first \in J.free
       /\ Holds(m4, J, s3) /\ SameWords(m3, m4, Z)
       /\ Zones(J, J.free) \subseteq Z
       /\ H.free \ {prev, b, n} \subseteq J.free
       /\ J.fl = IF prev \in H.free THEN P!Unlink(P!Unlink(H.fl, n), b)
                 ELSE P!Unlink(H.fl, n)
  <2>1. {prev, b, P!End(H, b)} \cap P!ToSet(s3) = {}
    BY <1>6, <1>7, <1>8 DEF n
  <2>2. m4 = Merged(m3, b, prev, P!End(H, b), prev \notin H.free, P!End(H, b) \notin H.free,
                    H.size[b])
    <3>1. prevAlloc \in BOOLEAN /\ nextAlloc \in BOOLEAN
      BY DEF prevAlloc, nextAlloc, IsAllocated
    <3>2. prevAlloc = (prev \notin H.free) /\ nextAlloc = (n \notin H.free)
      BY <1>2, <3>1
    <3> QED BY <1>9, <3>2 DEF m4, n
  <2>3. /\ prev \in H.free => P!End(H, prev) = b
        /\ ListOver(s3, H.free) /\ Holds(m3, H, s3)
    BY <1>2, <1>8
  <2> QED BY <2>1, <2>2, <2>3, MergedWords DEF n, J, Z, first
<1>11. J.free \subseteq P!Blocks(J) /\ Fits(J) /\ P!HeapType(J) /\ J.brk = H.brk
  <2>1. J.free \subseteq P!Blocks(J) /\ Fits(J) /\ P!HeapType(J)
    BY <1>10 DEF Proper, Fits, P!HeapType
  <2>2. m4.brk = J.brk /\ m3.brk = H.brk
    BY <1>8, <1>10 DEF Holds
  <2> QED BY <2>1 DEF J, Around, Forward, P!Join
<1>12. ListOver(s3, J.free) /\ first \notin P!ToSet(s3)
  <2>1. P!ToSet(s3) \subseteq J.free
    BY <1>6, <1>7, <1>8, <1>10
  <2>2. s3 \in Seq(J.free)
    BY <1>8, <2>1, BlockAssumptions, P!SeqOverRange DEF ListOver
  <2>3. first \notin P!ToSet(s3)
    BY <1>6, <1>7, <1>8 DEF first
  <2> QED BY <1>8, <2>2, <2>3 DEF ListOver
<1>13. /\ Holds(m5, J, t) /\ SameWords(m4, m5, Zones(J, J.free))
       /\ ListOver(t, J.free) /\ P!ToSet(t) = P!ToSet(s3) \cup {first}
  BY <1>10, <1>11, <1>12, Listed DEF m5, t
<1>14. P!Unlink(J.fl, first) = s3
  <2>1. CASE prev \in H.free
    <3>1. P!Unlink(P!Unlink(s1, b), prev) = P!Unlink(P!Unlink(s1, prev), b)
      BY <1>6, UnlinkCommutes DEF ListOver
    <3> QED BY <2>1, <3>1, <1>10 DEF first, s1, s2, s3
  <2>2. CASE prev \notin H.free
    <3>1. prev \notin P!ToSet(s1)
      BY <2>2, <1>6
    <3>2. s2 = s1
      BY <3>1 DEF s2, P!Unlink
    <3> QED BY <2>2, <3>2, <1>10 DEF first, s1, s3
  <2> QED BY <2>1, <2>2
<1> DEFINE C == P!Coalesce(H, b)
<1>15. C = [J EXCEPT !.fl = t]
  BY <1>2, <1>14, AroundIsCoalesce DEF J, t, first
<1> HIDE DEF C
<1>151. /\ C.brk = J.brk /\ C.free = J.free /\ C.fl = t
        /\ t \in Seq(P!Blocks(J)) => Fits(C)
        /\ \A k, u : Holds(k, J, u) => Holds(k, C, u)
        /\ \A D : Zones(C, D) = Zones(J, D)
  BY <1>11, <1>15, Relisted
<1>16. Proper(C)
  <2>1. P!ToSet(t) = J.free
    <3>1. P!ToSet(P!Unlink(J.fl, first)) = P!ToSet(J.fl) \ {first}
      BY <1>10, BlockAssumptions, P!UnlinkFacts, ProperIsSound DEF ListOver
    <3>2. P!ToSet(J.fl) = J.free
      BY <1>10, ProperIsSound
    <3> QED BY <3>1, <3>2, <1>10, <1>13, <1>14
  <2>2. t \in Seq(P!Blocks(J))
    <3>1. P!ToSet(t) \subseteq P!Blocks(J)
      BY <2>1, <1>11
    <3> QED BY <3>1, <1>13, BlockAssumptions, P!SeqOverRange DEF ListOver
  <2> QED BY <2>1, <2>2, <1>13, <1>151 DEF Proper, P!FreeListExact, ListOver
<1>17. Holds(m5, C, C.fl) /\ C.fl = t /\ C.brk = H.brk /\ Zones(C, C.free) \subseteq Z
  BY <1>10, <1>11, <1>13, <1>151
<1>18. C.fl # <<>> /\ first = Head(C.fl)
  BY <1>10, <1>12, <1>17, BlockAssumptions, P!PushFacts DEF t, ListOver
<1>19. SameWords(m, m5, Z)
  <2>1. SameWords(m4, m5, Z)
    BY <1>10, <1>13, SameWordsFacts
  <2> QED BY <2>1, <1>6, <1>7, <1>8, <1>10, SameWordsFacts
<1>20. Coalesce(m, b).h = m5 /\ Coalesce(m, b).p = first
  <2>1. (IF prevAlloc THEN b ELSE prev) = first
    BY <1>2 DEF first
  <2> QED BY <2>1, <1>4, <1>5, <1>9 DEF m4, m5
<1> QED BY <1>16, <1>17, <1>18, <1>19, <1>20 DEF C, Z

(* What place may write to, besides list words: the header of b and what   *)
(* is behind the first bytes of its block.                                 *)
Trimmed(H, b, bytes) ==
  {b - WSIZE} \cup {a \in Int : b + bytes - DSIZE <= a /\ a < P!End(H, b) - WSIZE}

(* place, on a block whose header alone needs to be right.                 *)
LEMMA PlaceWords ==
  ASSUME NEW H, Fits(H), P!Coalesced(H),
         NEW b \in P!Blocks(H), P!End(H, b) \notin H.free,
         P!IsInjective(H.fl), P!ToSet(H.fl) = H.free \ {b},
         NEW bytes \in Nat, bytes % 8 = 0, bytes >= 16, bytes <= H.size[b],
         NEW m, HoldsBut(m, H, H.fl, {b}), SizeOf(m, b) = H.size[b]
  PROVE  LET g == Place(m, b, bytes)
             G == P!Place(H, b, bytes)
         IN  /\ Proper(G) /\ P!Coalesced(G) /\ Holds(g, G, G.fl) /\ G.brk = H.brk
             /\ SameWords(m, g, Zones(H, H.free \ {b}) \cup Trimmed(H, b, bytes))
             /\ Zones(G, G.free) \subseteq Zones(H, H.free \cup {b})
<1> DEFINE g == Place(m, b, bytes)
           G == P!Place(H, b, bytes)
           size == H.size[b]
           D == {b}
           T == Trimmed(H, b, bytes)
<1>1. /\ P!HeapType(H) /\ P!Tiled(H) /\ H.fl \in Seq(P!Blocks(H)) /\ H.free \subseteq P!Blocks(H)
      /\ H = [brk |-> H.brk, size |-> H.size, free |-> H.free, fl |-> H.fl]
  BY DEF Fits, P!HeapType
<1>2. P!Sound(G) /\ P!Coalesced(G) /\ G.brk = H.brk
  BY <1>1, BlockAssumptions, P!PlaceFacts
<1>3. Proper(G)
  BY <1>2 DEF Proper, P!Sound, Fits
<1>4. ListOver(H.fl, H.free) /\ D \cap P!ToSet(H.fl) = {} /\ D \in SUBSET P!Blocks(H)
  BY <1>1, BlockAssumptions, P!SeqOverRange DEF ListOver
<1>5. /\ b \in Nat /\ b % 8 = 0 /\ size \in Nat /\ size % 8 = 0 /\ size >= 16
      /\ P!End(H, b) = b + size /\ b - 4 \in Arena /\ b + size - 8 \in Arena
  BY BlockFacts, BlockWords
<1>6. m \in Machine /\ H.brk \in Nat
  BY <1>1 DEF HoldsBut, P!HeapType
<1>7. T \subseteq Zones(H, {b}) /\ b - 4 \in T
      /\ \A a \in Int : b + bytes - 8 <= a /\ a < b + size - 4 => a \in T
  BY <1>5 DEF Trimmed, Zones, WSIZE, DSIZE
<1> HIDE DEF T, D
<1>8. P!MinBlock = 16 /\ MinBlock = 16
  <2>1. SizeT \in Nat /\ SizeT > 64
    BY MemAssumption, ChunkAssumption
  <2> QED BY <2>1, BaseFacts DEF MinBlock, BlockSize, Align, DSIZE
<1>9. CASE size - bytes >= 16
  <2> DEFINE e == b + bytes
             rest == size - bytes
             m1 == TagBoth(m, b, Word(bytes, 1))
             m2 == TagBoth(m1, e, Word(rest, 0))
             K == [G EXCEPT !.fl = H.fl]
  <2>1. /\ G = [brk  |-> H.brk,
                size |-> [c \in P!Blocks(H) \cup {e} |->
                            IF c = b THEN bytes ELSE IF c = e THEN rest ELSE H.size[c]],
                free |-> (H.free \ {b}) \cup {e},
                fl   |-> P!Push(H.fl, e)]
    BY <1>8, <1>9 DEF P!Place
  <2>2. g = AddToFreeList(TagBoth(m1, NextBlock(m1, b), Word(rest, 0)), NextBlock(m1, b))
    BY <1>8, <1>9 DEF Place, SplitOff
  <2> HIDE DEF G, g
  <2>3. /\ e \in Nat /\ e % 8 = 0 /\ rest \in Nat /\ rest % 8 = 0 /\ rest >= 16
        /\ b + bytes - 8 \in Arena /\ e - 4 \in Arena /\ e + rest = b + size
        /\ e - 4 > b + bytes - 8 /\ b + bytes - 8 > b - 4 /\ e + rest - 8 > e - 4
    <3>1. /\ e \in Nat /\ e % 8 = 0 /\ rest \in Nat /\ rest % 8 = 0 /\ rest >= 16
          /\ e + rest = b + size
      BY <1>5, <1>9
    <3>2. HeapLo <= b - 4 /\ b + size - 8 + 4 <= MaxHeap /\ HeapLo \in Nat /\ MaxHeap \in Nat
      BY <1>5, ArenaFacts, MemAssumption
    <3>3. b + bytes - 8 \in Arena /\ e - 4 \in Arena
      <4>1. (b + bytes - 8) % 4 = 0 /\ (e - 4) % 4 = 0
        BY <1>5
      <4>2. HeapLo <= b + bytes - 8 /\ e <= MaxHeap
        BY <3>1, <3>2, <1>5
      <4> QED BY <4>1, <4>2, <1>5, <3>1, <3>2, WordAddress
    <3> QED BY <3>1, <3>3, <1>5
  <2>4. /\ G.size[b] = bytes /\ G.size[e] = rest
        /\ \A c \in P!Blocks(H) : c # b /\ c # e => G.size[c] = H.size[c]
        /\ P!Blocks(G) = P!Blocks(H) \cup {e} /\ G.free = (H.free \ {b}) \cup {e}
        /\ G.fl = P!Push(H.fl, e) /\ e # b
    <3>1. e # b
      BY <1>5, <2>3
    <3>2. DOMAIN G.size = P!Blocks(H) \cup {e}
      BY <2>1
    <3> HIDE DEF e, rest
    <3> QED BY <2>1, <3>1, <3>2 DEF P!Blocks
  <2>5. e \notin P!Blocks(H)
    <3> SUFFICES ASSUME e \in P!Blocks(H) PROVE FALSE
      OBVIOUS
    <3>1. P!End(H, b) <= e \/ P!End(H, e) <= b
      BY <2>4, BlocksApart
    <3>2. P!End(H, e) = e + H.size[e] /\ H.size[e] \in Nat
      BY BlockFacts
    <3> QED BY <3>1, <3>2, <2>3, <1>5
  <2>6. /\ Rewritten(m, m1, {b - 4, b + bytes - 8}) /\ m1.fl = m.fl
        /\ Tagged(m1, b, bytes, 1)
    <3> HIDE DEF m2, K, e, rest
    <3>1. b \in Int /\ 1 \in {0, 1}
      BY <1>5
    <3> QED BY <3>1, <1>5, <1>6, <2>3, TagBothFacts
  <2> HIDE DEF m1
  <2>7. NextBlock(m1, b) = e
    <3>1. (Word(bytes, 1) \div 8) * 8 = bytes
      BY WordFacts
    <3> QED BY <3>1, <2>6 DEF NextBlock, SizeOf, GetSize, Header, Tagged, WSIZE
  <2>8. /\ Rewritten(m1, m2, {e - 4, e + rest - 8}) /\ m2.fl = m1.fl
        /\ Tagged(m2, e, rest, 0)
    <3>1. m1 \in Machine
      BY <2>6 DEF Rewritten
    <3>2. e + rest - 8 \in Arena /\ e \in Int
      BY <2>3, <1>5
    <3> HIDE DEF e, rest
    <3> QED BY <3>1, <3>2, <2>3, TagBothFacts
  <2>9. g = AddToFreeList(m2, e)
    BY <2>2, <2>7
  <2> HIDE DEF m2
  <2>10. Tagged(m2, b, bytes, 1)
    <3>1. b - 4 \notin {e - 4, e + rest - 8} /\ b + bytes - 8 \notin {e - 4, e + rest - 8}
      BY <2>3, <1>5
    <3> QED BY <3>1, <2>6, <2>8 DEF Tagged, Rewritten, SameWords, WSIZE, DSIZE
  <2>11. SameWords(m, m2, T)
    <3>1. b + bytes - 8 \in T /\ e - 4 \in T /\ e + rest - 8 \in T
      BY <1>7, <2>3, <1>5
    <3> QED BY <1>7, <3>1, <2>6, <2>8 DEF Rewritten, SameWords
  <2>12. P!HeapType(G) /\ Fits(G) /\ H.fl \in Seq(P!Blocks(G))
    <3>1. H.fl \in Seq(P!Blocks(G))
      BY <1>1, <1>4, <2>4, BlockAssumptions, P!SeqOverRange
    <3> QED BY <3>1, <1>3 DEF Proper, Fits
  <2>13. /\ K.brk = G.brk /\ K.size = G.size /\ K.free = G.free
         /\ P!Blocks(K) = P!Blocks(G) /\ Fits(K) /\ \A E : Zones(K, E) = Zones(G, E)
    BY <2>12, Relisted
  <2> HIDE DEF K, e, rest
  <2>14. Holds(m2, K, H.fl)
    <3>1. Replaced(H, K, D, {b, e})
      BY <1>2, <2>4, <2>5, <2>13 DEF Replaced, D
    <3>2. \A c \in {b, e} : Tagged(m2, c, K.size[c], Bit(K, c))
      BY <1>1, <2>4, <2>8, <2>10, <2>13 DEF Bit
    <3>3. Rewritten(m, m2, Zones(H, D)) /\ m2.fl = m.fl
      BY <1>7, <2>6, <2>8, <2>11, SameWordsFacts DEF Rewritten, D
    <3>4. HoldsBut(m, H, H.fl, D)
      BY DEF D
    <3> QED BY <3>1, <3>2, <3>3, <3>4, <1>4, ReplacedHolds
  <2>15. ListOver(H.fl, K.free) /\ e \in K.free /\ e \notin P!ToSet(H.fl)
    <3>1. H.fl \in Seq(K.free)
      BY <1>1, <2>4, <2>13, BlockAssumptions, P!SeqOverRange
    <3> QED BY <3>1, <1>1, <2>4, <2>5, <2>13 DEF ListOver
  <2>16. Holds(g, K, P!Push(H.fl, e)) /\ SameWords(m2, g, Zones(K, K.free))
    BY <2>9, <2>13, <2>14, <2>15, Listed
  <2>17. Holds(g, G, G.fl)
    BY <2>4, <2>13, <2>16 DEF Holds, Tags, Bit
  <2>18. Zones(G, G.free) \subseteq Zones(H, H.free \ {b}) \cup T
    <3> SUFFICES ASSUME NEW a \in Int, NEW c \in G.free, c - 4 <= a, a < P!End(G, c) - 4
                 PROVE  a \in Zones(H, H.free \ {b}) \cup T
      BY DEF Zones, WSIZE
    <3>1. CASE c = e
      <4>1. P!End(G, e) = b + size
        BY <2>3, <2>4 DEF P!End
      <4>2. b + bytes - 8 <= a /\ a < b + size - 4
        BY <3>1, <4>1, <2>3, <1>5 DEF e
      <4> QED BY <4>2, <1>7
    <3>2. CASE c # e
      <4>1. c \in H.free \ {b} /\ P!End(G, c) = P!End(H, c)
        BY <3>2, <1>1, <2>4 DEF P!End
      <4> QED BY <4>1 DEF Zones, WSIZE
    <3> QED BY <3>1, <3>2
  <2>19. SameWords(m, g, Zones(H, H.free \ {b}) \cup T)
    <3> DEFINE Y == Zones(H, H.free \ {b}) \cup T
    <3>1. Zones(K, K.free) \subseteq Y /\ T \subseteq Y
      BY <2>13, <2>18
    <3> HIDE DEF Y
    <3>2. SameWords(m, m2, Y) /\ SameWords(m2, g, Y)
      BY <3>1, <2>11, <2>16, SameWordsFacts
    <3>3. SameWords(m, g, Y)
      BY <3>2, SameWordsFacts
    <3> QED BY <3>3 DEF Y
  <2>20. Zones(G, G.free) \subseteq Zones(H, H.free \cup {b})
    BY <1>7, <2>18 DEF Zones
  <2> QED BY <1>2, <1>3, <2>17, <2>19, <2>20 DEF T, g, G
<1>10. CASE ~(size - bytes >= 16)
  <2>1. g = TagBoth(m, b, Word(size, 1))
    BY <1>8, <1>10 DEF Place
  <2>2. G = [brk |-> H.brk, size |-> H.size, free |-> H.free \ {b}, fl |-> H.fl]
    BY <1>1, <1>8, <1>10 DEF P!Place
  <2> HIDE DEF G, g
  <2>3. /\ Rewritten(m, g, {b - 4, b + size - 8}) /\ g.fl = m.fl
        /\ Tagged(g, b, size, 1)
    BY <1>5, <1>6, <2>1, TagBothFacts
  <2>4. /\ G.size = H.size /\ G.free = H.free \ {b} /\ G.fl = H.fl
        /\ P!Blocks(G) = P!Blocks(H) /\ \A c : P!End(G, c) = P!End(H, c)
    BY <2>2 DEF P!Blocks, P!End
  <2>5. Replaced(H, G, {b}, {b}) /\ Bit(G, b) = 1
    BY <1>2, <2>4 DEF Replaced, Bit
  <2>6. b - 4 \in T /\ b + size - 8 \in T
    BY <1>5, <1>7
  <2>7. SameWords(m, g, T) /\ Rewritten(m, g, Zones(H, {b}))
    BY <2>3, <2>6, <1>7 DEF Rewritten, SameWords
  <2>8. Holds(g, G, H.fl)
    <3>1. \A c \in D : Tagged(g, c, G.size[c], Bit(G, c))
      BY <2>3, <2>4, <2>5 DEF D
    <3>2. Replaced(H, G, D, D) /\ Rewritten(m, g, Zones(H, D)) /\ HoldsBut(m, H, H.fl, D)
      BY <2>5, <2>7 DEF D
    <3> QED BY <3>1, <3>2, <1>4, <2>3, ReplacedHolds
  <2>9. SameWords(m, g, Zones(H, H.free \ {b}) \cup T)
    BY <2>7, SameWordsFacts
  <2>10. Zones(G, G.free) \subseteq Zones(H, H.free \cup {b})
    BY <2>4 DEF Zones
  <2> QED BY <1>2, <1>3, <2>4, <2>8, <2>9, <2>10 DEF T, g, G
<1> QED BY <1>9, <1>10

(* the words from the epilogue on                                          *)
Above(brk) == {a \in Int : a >= brk - WSIZE}

(* mem_sbrk, asked for less than the arena's size_t could not tell from a  *)
(* negative number.                                                        *)
LEMMA SbrkFacts ==
  ASSUME NEW m \in Machine, HeapLo <= m.brk, NEW n \in Nat, n < SizeT
  PROVE  /\ m.brk + n > MaxHeap => SbrkResult(m, n) = Failed
         /\ m.brk + n <= MaxHeap =>
              /\ SbrkResult(m, n) = m.brk /\ m.brk # Failed
              /\ Sbrk(m, n) \in Machine /\ Sbrk(m, n).brk = m.brk + n
              /\ Sbrk(m, n).ok = m.ok /\ Sbrk(m, n).fl = m.fl
              /\ \A a : Get(Sbrk(m, n), a) = Get(m, a)
<1>1. m.brk \in Nat /\ HeapLo \in Nat /\ MaxHeap \in Nat /\ SizeT \in Nat
      /\ MaxHeap - HeapLo < SizeT \div 2
  BY MemAssumption DEF Machine
<1>2. ASSUME m.brk + n > MaxHeap PROVE SbrkFails(m, n)
  <2>1. CASE n < SizeT \div 2
    BY <1>2, <2>1 DEF SbrkFails, ToInt
  <2>2. CASE ~(n < SizeT \div 2)
    BY <1>1, <2>2 DEF SbrkFails, ToInt
  <2> QED BY <2>1, <2>2
<1>3. ASSUME m.brk + n <= MaxHeap PROVE ToInt(n) = n /\ ~SbrkFails(m, n)
  <2>1. n < SizeT \div 2
    BY <1>1, <1>3
  <2> QED BY <1>1, <1>3, <2>1 DEF SbrkFails, ToInt
<1>4. ASSUME m.brk + n <= MaxHeap
      PROVE  /\ Sbrk(m, n) = [m EXCEPT !.brk = m.brk + n]
             /\ SbrkResult(m, n) = m.brk
  BY <1>3, <1>4 DEF Sbrk, SbrkResult
<1>5. m.brk + n \in Nat
  BY <1>1
<1>6. /\ [m EXCEPT !.brk = m.brk + n] \in Machine
      /\ [m EXCEPT !.brk = m.brk + n].brk = m.brk + n
      /\ [m EXCEPT !.brk = m.brk + n].ok = m.ok /\ [m EXCEPT !.brk = m.brk + n].fl = m.fl
      /\ \A a : Get([m EXCEPT !.brk = m.brk + n], a) = Get(m, a)
  BY <1>5 DEF Machine, Get
<1>7. m.brk + n > MaxHeap => SbrkResult(m, n) = Failed
  BY <1>2 DEF SbrkResult
<1>8. m.brk # Failed
  BY <1>1 DEF Failed
<1> QED BY <1>4, <1>6, <1>7, <1>8

(* extend_heap is asked for whole double words.                            *)
LEMMA WordCount ==
  ASSUME NEW bytes \in Nat, bytes % 8 = 0
  PROVE  /\ (bytes \div 4) % 2 # 1 /\ (bytes \div 4) * 4 = bytes
OBVIOUS

(* what extend_heap has written before the list is seen to                 *)
Extended(m, bytes) ==
  NewEpilogue(TagBoth(Sbrk(m, bytes), m.brk, Word(bytes, 0)), m.brk)

(* The old epilogue is the header of the new block, which is followed by a *)
(* new epilogue.                                                           *)
LEMMA GrownWords ==
  ASSUME NEW H, Proper(H), P!Coalesced(H), NEW bytes \in Nat, bytes % 8 = 0, bytes >= 16,
         H.brk + bytes <= MaxHeap, NEW m \in Machine, m.brk = H.brk, Tags(m, H)
  PROVE  LET g == Extended(m, bytes)
             K == P!Grown(H, bytes)
         IN  /\ g \in Machine /\ g.ok = m.ok /\ g.brk = K.brk /\ g.fl = m.fl
             /\ SameWords(m, g, Above(H.brk))
             /\ Tags(g, K) /\ Proper(K)
             /\ Zones(K, K.free) \subseteq Zones(H, H.free) \cup Above(H.brk)
<1> DEFINE g == Extended(m, bytes)
           K == P!Grown(H, bytes)
           top == H.brk
           m1 == Sbrk(m, bytes)
           m2 == TagBoth(m1, top, Word(bytes, 0))
<1>1. /\ Fits(H) /\ P!Sound(H) /\ H.free \subseteq P!Blocks(H) /\ P!ToSet(H.fl) = H.free
      /\ H.brk \in Nat /\ H.brk % 8 = 0 /\ Base <= H.brk /\ H.brk \notin P!Blocks(H)
      /\ \A c \in P!Blocks(H) : c \in Nat
  <2>1. Fits(H) /\ P!Sound(H) /\ P!ToSet(H.fl) = H.free
    BY ProperIsSound DEF Proper
  <2>2. P!HeapType(H) /\ P!Tiled(H) /\ Base <= H.brk
    BY <2>1 DEF Fits
  <2>3. H.brk \in Nat /\ H.free \subseteq P!Blocks(H) /\ P!Blocks(H) \subseteq Nat
    BY <2>2 DEF P!HeapType
  <2>4. H.brk % 8 = 0 /\ \A c \in P!Blocks(H) : c < H.brk
    BY <2>2 DEF P!Tiled
  <2> QED BY <2>1, <2>2, <2>3, <2>4
<1>2. /\ P!Sound(K) /\ top \in K.free
      /\ K.brk = top + bytes /\ K.free = H.free \cup {top}
      /\ P!Blocks(K) = P!Blocks(H) \cup {top} /\ K.size[top] = bytes
      /\ \A c \in P!Blocks(H) : K.size[c] = H.size[c] /\ P!End(K, c) = P!End(H, c)
      /\ P!End(K, top) = K.brk
  BY <1>1, BlockAssumptions, P!GrownFacts
<1> HIDE DEF K
<1>3. HeapLo \in Nat /\ MaxHeap \in Nat /\ HeapLo % 8 = 0 /\ Base = HeapLo + 16
      /\ MaxHeap - HeapLo < SizeT \div 2 /\ SizeT \in Nat
  BY MemAssumption, BaseFacts
<1>4. /\ m1 \in Machine /\ m1.brk = top + bytes /\ m1.ok = m.ok /\ m1.fl = m.fl
      /\ \A a : Get(m1, a) = Get(m, a)
  <2>1. HeapLo <= m.brk /\ bytes < SizeT /\ m.brk + bytes <= MaxHeap
    BY <1>1, <1>3
  <2> QED BY <2>1, SbrkFacts
<1>5. g = Tag(m2, NextBlock(m2, top), Word(0, 1))
  BY DEF Extended, NewEpilogue
<1> HIDE DEF m1, g, m2
<1>6. top - 4 \in Arena /\ top + bytes - 8 \in Arena /\ top + bytes - 4 \in Arena
  <2>1. PICK t \in Nat : t = top
    BY <1>1
  <2>2. (t - 4) % 4 = 0 /\ (t + bytes - 8) % 4 = 0 /\ (t + bytes - 4) % 4 = 0
    BY <2>1, <1>1
  <2>3. /\ HeapLo <= t - 4 /\ t - 4 + 4 <= MaxHeap
        /\ HeapLo <= t + bytes - 8 /\ t + bytes - 8 + 4 <= MaxHeap
        /\ HeapLo <= t + bytes - 4 /\ t + bytes - 4 + 4 <= MaxHeap
    BY <2>1, <1>1, <1>3
  <2> HIDE DEF top
  <2> QED BY <2>1, <2>2, <2>3, WordAddress
<1>7. /\ Rewritten(m1, m2, {top - 4, top + bytes - 8}) /\ m2.fl = m1.fl
      /\ Tagged(m2, top, bytes, 0)
  <2>1. top \in Int /\ 0 \in {0, 1}
    BY <1>1
  <2> HIDE DEF top
  <2> QED BY <2>1, <1>4, <1>6, TagBothFacts DEF m2
<1>8. NextBlock(m2, top) = top + bytes
  <2>1. (Word(bytes, 0) \div 8) * 8 = bytes
    BY WordFacts
  <2> QED BY <2>1, <1>7 DEF NextBlock, SizeOf, GetSize, Header, Tagged, WSIZE
<1>9. Written(m2, g, top + bytes - 4, Word(0, 1))
  <2>1. m2 \in Machine
    BY <1>7 DEF Rewritten
  <2>2. Word(0, 1) \in Nat /\ top + bytes \in Int
    BY <1>1 DEF Word
  <2>3. PICK e \in Int : e = top + bytes
    BY <2>2
  <2>4. e - 4 \in Arena
    BY <1>1, <1>6, <2>3
  <2>5. Written(m2, Tag(m2, e, Word(0, 1)), e - 4, Word(0, 1))
    BY <2>1, <2>2, <2>4, TagFacts
  <2>6. e - 4 = top + bytes - 4 /\ g = Tag(m2, e, Word(0, 1))
    BY <1>1, <1>5, <1>8, <2>3
  <2> QED BY <2>5, <2>6
<1>10. g \in Machine /\ g.ok = m.ok /\ g.brk = K.brk /\ g.fl = m.fl
  BY <1>2, <1>4, <1>7, <1>9 DEF Written, Rewritten
<1>11. SameWords(m, g, Above(H.brk))
  <2>1. top - 4 \in Above(H.brk) /\ top + bytes - 8 \in Above(H.brk)
        /\ top + bytes - 4 \in Above(H.brk)
    BY <1>1 DEF Above, WSIZE
  <2> QED BY <2>1, <1>4, <1>7, <1>9 DEF Written, Rewritten, SameWords
<1>12. Tagged(g, top, bytes, 0)
  <2>1. top - 4 # top + bytes - 4 /\ top + bytes - 8 # top + bytes - 4
    BY <1>1
  <2> QED BY <2>1, <1>7, <1>9 DEF Tagged, Written, WSIZE, DSIZE
<1>13. ASSUME NEW c \in P!Blocks(H)
       PROVE  Tagged(g, c, H.size[c], Bit(H, c))
  <2>1. /\ c \in Nat /\ H.size[c] \in Nat /\ H.size[c] >= 16
        /\ P!End(H, c) = c + H.size[c] /\ P!End(H, c) <= H.brk
    BY <1>1, BlockFacts
  <2>2. c - 4 \notin Above(H.brk) /\ c + H.size[c] - 8 \notin Above(H.brk)
    BY <2>1, <1>1 DEF Above, WSIZE
  <2> QED BY <2>2, <1>11 DEF Tags, Tagged, SameWords, WSIZE, DSIZE
<1>14. Ends(g, K.brk)
  <2>1. Base - 12 \notin Above(H.brk) /\ Base - 8 \notin Above(H.brk)
    BY <1>1, <1>3 DEF Above, WSIZE
  <2>2. Get(g, Base - 12) = Get(m, Base - 12) /\ Get(g, Base - 8) = Get(m, Base - 8)
    BY <2>1, <1>11 DEF SameWords
  <2>3. Get(g, K.brk - 4) = Word(0, 1)
    BY <1>1, <1>2, <1>9 DEF Written
  <2> QED BY <2>2, <2>3 DEF Tags, Ends, WSIZE
<1>15. Tags(g, K)
  <2>1. ASSUME NEW c \in P!Blocks(K) PROVE Tagged(g, c, K.size[c], Bit(K, c))
    <3>1. CASE c = top
      BY <3>1, <1>2, <1>12 DEF Bit
    <3>2. CASE c # top
      BY <3>2, <1>2, <1>13 DEF Bit
    <3> QED BY <3>1, <3>2
  <2> QED BY <2>1, <1>14 DEF Tags
<1>16. Proper(K)
  <2>1. Base <= K.brk /\ K.brk <= MaxHeap
    BY <1>1, <1>2, <1>3
  <2> QED BY <2>1, <1>2 DEF Proper, Fits, P!Sound
<1>17. Zones(K, K.free) \subseteq Zones(H, H.free) \cup Above(H.brk)
  BY <1>1, <1>2 DEF Zones, Above
<1> QED BY <1>10, <1>11, <1>15, <1>16, <1>17 DEF g, K

(* extend_heap is Extend, where the arena has room.                        *)
LEMMA ExtendWords ==
  ASSUME NEW H, Proper(H), P!Coalesced(H), NEW bytes \in Nat, bytes % 8 = 0, bytes >= 16,
         bytes < SizeT, NEW m, Holds(m, H, H.fl)
  PROVE  LET x == ExtendHeap(m, bytes \div WSIZE)
             E == P!Extend(H, bytes)
             A == Zones(H, H.free) \cup Above(H.brk)
         IN  /\ H.brk + bytes > MaxHeap => x = [h |-> m, p |-> NULL]
             /\ H.brk + bytes <= MaxHeap =>
                  /\ Proper(E) /\ P!Coalesced(E) /\ E.brk = H.brk + bytes
                  /\ Holds(x.h, E, E.fl) /\ E.fl # <<>> /\ x.p = Head(E.fl)
                  /\ SameWords(m, x.h, A) /\ Zones(E, E.free) \subseteq A
<1> DEFINE x == ExtendHeap(m, bytes \div WSIZE)
           E == P!Extend(H, bytes)
           A == Zones(H, H.free) \cup Above(H.brk)
           K == P!Grown(H, bytes)
           g == Extended(m, bytes)
           g2 == AddToFreeList(g, H.brk)
<1>1. /\ Fits(H) /\ P!Sound(H) /\ ListOver(H.fl, H.free) /\ P!ToSet(H.fl) = H.free
      /\ H.free \subseteq P!Blocks(H) /\ H.brk \in Nat
      /\ m \in Machine /\ m.brk = H.brk /\ HeapLo <= m.brk
  <2>1. /\ Fits(H) /\ P!Sound(H) /\ ListOver(H.fl, H.free) /\ P!ToSet(H.fl) = H.free
    BY ProperIsSound DEF Proper
  <2>2. H.free \subseteq P!Blocks(H) /\ H.brk \in Nat /\ HeapLo <= H.brk
    BY <2>1, BaseFacts, MemAssumption DEF Fits, P!HeapType
  <2> QED BY <2>1, <2>2 DEF Holds
<1>2. (IF (bytes \div WSIZE) % 2 = 1 THEN (bytes \div WSIZE + 1) * WSIZE
       ELSE (bytes \div WSIZE) * WSIZE) = bytes
  BY WordCount DEF WSIZE
<1>3. CASE H.brk + bytes > MaxHeap
  <2>1. SbrkResult(m, bytes) = Failed
    BY <1>1, <1>3, SbrkFacts
  <2>2. x = [h |-> m, p |-> NULL]
    BY <1>2, <2>1 DEF ExtendHeap
  <2>3. ~(H.brk + bytes <= MaxHeap)
    BY <1>1, <1>3, MemAssumption
  <2> QED BY <2>2, <2>3
<1>4. CASE H.brk + bytes <= MaxHeap
  <2>1. SbrkResult(m, bytes) = H.brk /\ H.brk # Failed
    BY <1>1, <1>4, SbrkFacts
  <2>2. x = Coalesce(g2, H.brk)
    BY <1>1, <1>2, <2>1 DEF ExtendHeap, Extended
  <2>3. E = P!Coalesce(K, H.brk)
    BY DEF P!Extend, P!Grown
  <2>4. /\ g \in Machine /\ g.ok = m.ok /\ g.brk = K.brk /\ g.fl = m.fl
        /\ SameWords(m, g, Above(H.brk))
        /\ Tags(g, K) /\ Proper(K)
        /\ Zones(K, K.free) \subseteq A
    BY <1>1, <1>4, GrownWords DEF Holds
  <2>5. /\ H.brk \in K.free /\ K.brk = H.brk + bytes /\ K.free = H.free \cup {H.brk}
        /\ K.fl = P!Push(H.fl, H.brk)
        /\ \A p \in K.free : P!End(K, p) \in K.free => p = H.brk \/ P!End(K, p) = H.brk
    BY <1>1, BlockAssumptions, P!GrownFacts
  <2> HIDE DEF x, E, K, g
  <2>6. Linked(g, H.fl)
    <3>1. ASSUME NEW i \in 1 .. Len(H.fl)
          PROVE  H.fl[i] \notin Above(H.brk) /\ H.fl[i] + 4 \notin Above(H.brk)
      <4>1. PICK c \in P!Blocks(H) : c = H.fl[i]
        BY <1>1 DEF ListOver
      <4>2. /\ c \in Nat /\ H.size[c] \in Nat /\ H.size[c] >= 16
            /\ P!End(H, c) = c + H.size[c] /\ P!End(H, c) <= H.brk
        BY <1>1, BlockFacts
      <4> QED BY <4>1, <4>2, <1>1 DEF Above, WSIZE
    <3> QED BY <3>1, <2>4, ListElsewhere DEF Holds
  <2>7. Holds(g, K, H.fl)
    BY <2>4, <2>6 DEF Holds
  <2>8. ListOver(H.fl, K.free) /\ H.brk \notin P!ToSet(H.fl)
    <3>1. H.fl \in Seq(K.free)
      BY <1>1, <2>5, BlockAssumptions, P!SeqOverRange DEF ListOver
    <3>2. H.brk \notin H.free
      BY <1>1 DEF Fits, P!Tiled
    <3> QED BY <3>1, <3>2, <1>1 DEF ListOver
  <2>9. Holds(g2, K, K.fl) /\ SameWords(g, g2, Zones(K, K.free))
    <3>1. Fits(K)
      BY <2>4 DEF Proper
    <3>2. /\ Holds(g2, K, P!Push(H.fl, H.brk)) /\ SameWords(g, g2, Zones(K, K.free))
      BY <3>1, <2>5, <2>7, <2>8, Listed
    <3> QED BY <3>2, <2>5
  <2> HIDE DEF g2
  <2>10. /\ Proper(E) /\ Holds(x.h, E, E.fl) /\ E.fl # <<>> /\ x.p = Head(E.fl)
         /\ E.brk = K.brk /\ SameWords(g2, x.h, Zones(K, K.free))
         /\ Zones(E, E.free) \subseteq Zones(K, K.free)
    BY <2>2, <2>3, <2>4, <2>5, <2>9, CoalesceWords
  <2>11. P!Coalesced(E)
    BY <1>1, BlockAssumptions, P!ExtendFacts DEF E
  <2>12. SameWords(m, x.h, A) /\ Zones(E, E.free) \subseteq A
    <3>1. Above(H.brk) \subseteq A
      OBVIOUS
    <3>2. Zones(K, K.free) \subseteq A
      BY <2>4
    <3> HIDE DEF A
    <3>3. SameWords(m, g, A) /\ SameWords(g, g2, A) /\ SameWords(g2, x.h, A)
      BY <3>1, <3>2, <2>4, <2>9, <2>10, SameWordsFacts
    <3>4. SameWords(m, x.h, A)
      BY <3>3, SameWordsFacts
    <3> QED BY <3>2, <3>4, <2>10
  <2>13. ~(H.brk + bytes > MaxHeap)
    BY <1>1, <1>4, MemAssumption
  <2>14. E.brk = H.brk + bytes
    BY <2>5, <2>10
  <2> HIDE DEF A
  <2> QED BY <2>10, <2>11, <2>12, <2>13, <2>14 DEF x, E, A
<1> QED BY <1>1, <1>3, <1>4

-----------------------------------------------------------------------------
(* Searching.                                                              *)

(* The bound of a walk.                                                    *)
LEMMA StepsType == Steps \in Nat
BY MemAssumption DEF Steps

(* A list of blocks is shorter than any walk.                              *)
LEMMA ListShort ==
  ASSUME NEW H, Fits(H), NEW s, ListOver(s, H.free)
  PROVE  Len(s) \in Nat /\ Steps \in Nat /\ Len(s) <= Steps
<1> DEFINE T == 0 .. Steps - 2
           f == [i \in 1 .. Len(s) |-> (s[i] - HeapLo) \div 16]
<1>1. HeapLo \in Nat /\ MaxHeap \in Nat /\ HeapLo <= MaxHeap /\ Base = HeapLo + 16
  BY MemAssumption, BaseFacts
<1>2. Steps \in Nat
  BY StepsType
<1>3. Len(s) \in Nat
  BY DEF ListOver
<1>4. ASSUME NEW i \in 1 .. Len(s)
      PROVE  /\ s[i] \in P!Blocks(H)
             /\ s[i] \in Nat /\ s[i] >= HeapLo + 16 /\ H.size[s[i]] \in Nat
             /\ H.size[s[i]] >= 16 /\ P!End(H, s[i]) = s[i] + H.size[s[i]]
             /\ s[i] + H.size[s[i]] <= MaxHeap
  <2>1. s[i] \in P!Blocks(H)
    BY DEF ListOver, Fits, P!HeapType
  <2>2. PICK c \in P!Blocks(H) : c = s[i]
    BY <2>1
  <2>3. /\ c \in Nat /\ c >= HeapLo + 16 /\ H.size[c] \in Nat /\ H.size[c] >= 16
        /\ P!End(H, c) = c + H.size[c] /\ P!End(H, c) <= H.brk
    BY <1>1, BlockFacts
  <2>4. H.brk \in Nat /\ H.brk <= MaxHeap
    BY DEF Fits, P!HeapType
  <2> QED BY <2>2, <2>3, <2>4, <1>1
<1>5. ASSUME NEW i \in 1 .. Len(s)
      PROVE  f[i] \in T
  <2>1. PICK c \in Nat : c = s[i] /\ c >= HeapLo + 16 /\ c + 16 <= MaxHeap
    BY <1>1, <1>4
  <2> QED BY <2>1, <1>1 DEF Steps
<1>6. ASSUME NEW i \in 1 .. Len(s), NEW j \in 1 .. Len(s), i # j
      PROVE  f[i] # f[j]
  <2>1. PICK c \in P!Blocks(H), d \in P!Blocks(H) :
          /\ c = s[i] /\ d = s[j] /\ c # d
          /\ c \in Nat /\ d \in Nat /\ c >= HeapLo + 16 /\ d >= HeapLo + 16
          /\ P!End(H, c) >= c + 16 /\ P!End(H, d) >= d + 16
    <3>1. s[i] # s[j]
      BY <1>6 DEF ListOver, P!IsInjective
    <3>2. ASSUME NEW k \in 1 .. Len(s)
          PROVE  \E e \in P!Blocks(H) : /\ e = s[k] /\ e \in Nat /\ e >= HeapLo + 16
                                       /\ P!End(H, e) >= e + 16
      <4>1. PICK e \in P!Blocks(H) : e = s[k]
        BY <1>4
      <4>2. /\ e \in Nat /\ e >= HeapLo + 16 /\ H.size[e] \in Nat /\ H.size[e] >= 16
            /\ P!End(H, e) = e + H.size[e]
        BY <1>4, <4>1
      <4> QED BY <4>1, <4>2
    <3> QED BY <3>1, <3>2
  <2>2. P!End(H, c) \in Nat /\ P!End(H, d) \in Nat
    BY <2>1, BlockFacts
  <2>3. c + 16 <= d \/ d + 16 <= c
    BY <2>1, <2>2, BlocksApart
  <2>4. (c - HeapLo) \div 16 # (d - HeapLo) \div 16
    <3>1. ASSUME NEW x \in Nat, NEW y \in Nat, x + 16 <= y PROVE x \div 16 # y \div 16
      <4>1. \A z \in Nat : /\ z \div 16 \in Int
                          /\ 16 * (z \div 16) <= z /\ z < 16 * (z \div 16) + 16
        BY SMT
      <4>2. PICK u, v \in Int : u = x \div 16 /\ v = y \div 16
        BY <4>1
      <4>3. 16 * u <= x /\ y < 16 * v + 16
        BY <4>1, <4>2
      <4>4. u # v
        BY <3>1, <4>3
      <4> QED BY <4>2, <4>4
    <3>2. PICK x, y \in Nat : x = c - HeapLo /\ y = d - HeapLo
      BY <2>1, <1>1
    <3>3. x + 16 <= y \/ y + 16 <= x
      <4>1. \A u, v, w \in Nat : u + 16 <= v => (u - w) + 16 <= v - w
        OBVIOUS
      <4> QED BY <4>1, <3>2, <2>1, <2>3, <1>1
    <3> QED BY <3>1, <3>2, <3>3
  <2> QED BY <2>1, <2>4
<1>7. f \in [1 .. Len(s) -> T]
  BY <1>5
<1> HIDE DEF f
<1>8. IsFiniteSet(1 .. Len(s)) /\ Cardinality(1 .. Len(s)) = Len(s)
  <2>1. PICK n \in Nat : n = Len(s)
    BY <1>3
  <2>2. IsFiniteSet(1 .. n) /\ Cardinality(1 .. n) = IF 1 > n THEN 0 ELSE n - 1 + 1
    BY FS_Interval
  <2> QED BY <2>1, <2>2
<1>9. IsFiniteSet(T) /\ Cardinality(T) <= Steps
  <2>1. PICK n \in Int : n = Steps - 2
    BY <1>2
  <2>2. IsFiniteSet(0 .. n) /\ Cardinality(0 .. n) = IF 0 > n THEN 0 ELSE n - 0 + 1
    BY FS_Interval
  <2> QED BY <2>1, <2>2, <1>2
<1>10. ~(Cardinality(T) < Cardinality(1 .. Len(s)))
  BY <1>6, <1>7, <1>8, <1>9, FS_PigeonHole
<1>11. Cardinality(T) \in Nat
  BY <1>9, FS_CardinalityType
<1> QED BY <1>2, <1>3, <1>8, <1>9, <1>10, <1>11

(* Following the next words meets the blocks of the list in turn.          *)
LEMMA WalkFacts ==
  ASSUME NEW m, NEW s \in Seq(Cells), Linked(m, s), NEW k \in 0 .. Steps
  PROVE  Walk(m)[k] = At(s, k + 1)
<1> DEFINE W == [j \in 0 .. Steps |-> At(s, j + 1)]
           Rec(f) == [j \in 0 .. Steps |->
                        IF j = 0 THEN m.fl
                        ELSE LET bp == f[j - 1] IN IF bp = NULL THEN NULL ELSE NextFree(m, bp)]
           f == CHOOSE g : g = Rec(g)
<1>1. Walk(m) = f
  BY DEF Walk
<1>2. Len(s) \in Nat /\ \A i \in 1 .. Len(s) : s[i] # NULL
  BY CellFacts
<1>3. ASSUME NEW j \in 0 .. Steps, j # 0
      PROVE  At(s, j + 1) = IF At(s, j) = NULL THEN NULL ELSE NextFree(m, At(s, j))
  <2>1. CASE j \in 1 .. Len(s)
    BY <2>1, <1>2 DEF At, Linked, NextFree
  <2>2. CASE j \notin 1 .. Len(s)
    BY <2>2, <1>2, <1>3 DEF At
  <2> QED BY <2>1, <2>2
<1>4. W = Rec(W)
  <2>1. ASSUME NEW j \in 0 .. Steps PROVE W[j] = Rec(W)[j]
    <3>1. CASE j = 0
      BY <3>1 DEF Linked
    <3>2. CASE j # 0
      <4>1. j - 1 \in 0 .. Steps /\ (j - 1) + 1 = j
        BY <3>2, StepsType
      <4>2. W[j - 1] = At(s, j)
        BY <4>1
      <4> QED BY <3>2, <4>2, <1>3
    <3> QED BY <3>1, <3>2
  <2> QED BY <2>1
<1>5. f = Rec(f)
  BY <1>4
<1> HIDE DEF f
<1> SUFFICES ASSUME f[k] # At(s, k + 1) PROVE FALSE
  BY <1>1
<1> DEFINE Bad == {j \in 0 .. Steps : f[j] # At(s, j + 1)}
<1>6. PICK j \in Bad : \A i \in Bad : j <= i
  <2>1. Bad \subseteq Nat /\ Bad # {}
    OBVIOUS
  <2> HIDE DEF Bad
  <2> QED BY <2>1, BlockAssumptions, P!LeastElement
<1>7. f[j] = Rec(f)[j] /\ j \in 0 .. Steps
  BY <1>5, <1>6
<1>8. CASE j = 0
  BY <1>6, <1>7, <1>8 DEF Linked
<1>9. CASE j # 0
  <2>1. j - 1 \in 0 .. Steps /\ (j - 1) + 1 = j /\ ~(j <= j - 1)
    BY <1>7, <1>9, StepsType
  <2>2. f[j - 1] = At(s, j)
    BY <2>1, <1>6
  <2>3. f[j] = At(s, j + 1)
    BY <2>2, <1>3, <1>7, <1>9
  <2> QED BY <2>3, <1>6
<1> QED BY <1>8, <1>9

(* find_fit finds the first block on the list that is large enough.        *)
LEMMA FindFitWords ==
  ASSUME NEW H, Proper(H), NEW bytes \in Nat, NEW m, Holds(m, H, H.fl)
  PROVE  FindFit(m, bytes) = IF P!Fits(H, bytes) = {} THEN NULL ELSE P!FindFit(H, bytes)
<1> DEFINE s == H.fl
           nth == Walk(m)
           stop == {k \in 0 .. Steps : nth[k] = NULL \/ SizeOf(m, nth[k]) >= bytes}
                     \cup {Steps}
           fit == P!Fits(H, bytes)
<1>1. /\ Fits(H) /\ ListOver(s, H.free) /\ H.free \subseteq P!Blocks(H)
      /\ Len(s) \in Nat /\ Steps \in Nat /\ Len(s) <= Steps
  BY ProperIsSound, ListShort DEF Proper, Fits, P!HeapType
<1>2. ASSUME NEW i \in 1 .. Len(s)
      PROVE  /\ s[i] \in P!Blocks(H) /\ s[i] \in Cells /\ s[i] # NULL
             /\ SizeOf(m, s[i]) = H.size[s[i]] /\ H.size[s[i]] \in Nat
  <2>1. PICK c \in P!Blocks(H) : c = s[i]
    <3>1. s[i] \in H.free
      BY <1>1 DEF ListOver
    <3> QED BY <3>1, <1>1
  <2>2. /\ SizeOf(m, c) = H.size[c] /\ c \in Cells /\ H.size[c] \in Nat
    <3>1. Tags(m, H)
      BY DEF Holds
    <3>2. SizeOf(m, c) = H.size[c]
      BY <1>1, <3>1, ReadBlock
    <3> QED BY <1>1, <3>2, BlockWords, BlockFacts
  <2>3. c # NULL
    BY <2>2, CellFacts
  <2> QED BY <2>1, <2>2, <2>3
<1>3. \A k \in 0 .. Steps : nth[k] = At(s, k + 1)
  <2>1. s \in Seq(Cells)
    BY <1>1, <1>2 DEF ListOver
  <2> QED BY <2>1, WalkFacts DEF Holds
<1>4. FindFit(m, bytes) = nth[Min(stop)]
  BY DEF FindFit
<1>5. DOMAIN s = 1 .. Len(s) /\ fit = {i \in 1 .. Len(s) : H.size[s[i]] >= bytes}
  BY <1>1 DEF P!Fits, ListOver
<1> HIDE DEF nth, fit
<1>6. /\ stop \subseteq 0 .. Steps /\ Len(s) \in stop
      /\ \A k \in 0 .. Len(s) - 1 : k \in stop <=> (k + 1 \in fit \/ k = Steps)
  <2>1. Len(s) \in 0 .. Steps /\ At(s, Len(s) + 1) = NULL
    BY <1>1 DEF At
  <2>2. ASSUME NEW k \in 0 .. Len(s) - 1
        PROVE  /\ k \in 0 .. Steps /\ k + 1 \in 1 .. Len(s) /\ nth[k] = s[k + 1]
    BY <1>1, <1>3 DEF At
  <2>3. ASSUME NEW k \in 0 .. Len(s) - 1
        PROVE  k \in stop <=> (k + 1 \in fit \/ k = Steps)
    BY <2>2, <1>2, <1>5
  <2> QED BY <2>1, <2>3, <1>1, <1>3
<1> HIDE DEF stop, s
<1>7. PICK k \in stop : \A j \in stop : k <= j
  <2>1. stop \subseteq Nat /\ stop # {}
    BY <1>1, <1>6
  <2> QED BY <2>1, BlockAssumptions, P!LeastElement
<1>8. Min(stop) = k
  <2>1. \A x, y \in stop : x <= y /\ y <= x => x = y
    BY <1>1, <1>6
  <2> QED BY <2>1, <1>7 DEF Min
<1>9. k \in 0 .. Steps /\ k <= Len(s)
  BY <1>6, <1>7
<1>10. CASE fit = {}
  <2>1. k = Len(s)
    <3> SUFFICES ASSUME k # Len(s) PROVE FALSE
      OBVIOUS
    <3>1. k \in 0 .. Len(s) - 1 /\ k # Steps
      BY <1>1, <1>9
    <3> QED BY <3>1, <1>6, <1>7, <1>10
  <2>2. At(s, k + 1) = NULL
    BY <2>1, <1>1 DEF At
  <2> QED BY <2>2, <1>3, <1>4, <1>8, <1>9, <1>10 DEF fit
<1>11. CASE fit # {}
  <2>1. PICK i \in fit : \A j \in fit : i <= j
    <3>1. fit \subseteq Nat
      BY <1>5
    <3> QED BY <3>1, <1>11, BlockAssumptions, P!LeastElement
  <2>2. i \in 1 .. Len(s)
    BY <1>5
  <2>3. i - 1 \in stop /\ k <= i - 1 /\ k \in 0 .. Len(s) - 1 /\ k # Steps
    <3>1. i - 1 \in 0 .. Len(s) - 1 /\ (i - 1) + 1 = i
      BY <2>2, <1>1
    <3>2. i - 1 \in stop
      BY <3>1, <1>6
    <3>3. k <= i - 1
      BY <3>2, <1>7
    <3> QED BY <3>1, <3>2, <3>3, <1>9, <1>1
  <2>4. k + 1 \in fit
    BY <2>3, <1>6
  <2>5. k + 1 = i
    BY <2>1, <2>2, <2>3, <2>4, <1>9, <1>1
  <2>6. (CHOOSE x \in fit : \A j \in fit : x <= j) = i
    <3>1. \A x, y \in fit : x <= y /\ y <= x => x = y
      BY <1>5, <1>1
    <3> QED BY <3>1, <2>1
  <2>7. P!FindFit(H, bytes) = s[i]
    BY <2>6 DEF P!FindFit, fit, s
  <2>8. nth[k] = s[i]
    BY <2>2, <2>5, <1>3, <1>9 DEF At
  <2> QED BY <2>7, <2>8, <1>4, <1>8, <1>11 DEF fit
<1> QED BY <1>10, <1>11

(* calc_block_size does not wrap for the requests of a trace.              *)
LEMMA SizeWords ==
  ASSUME NEW n \in Nat, n < SizeT \div 2
  PROVE  /\ BlockSize(n) = P!BlockSize(n)
         /\ P!BlockSize(n) \in Nat /\ P!BlockSize(n) % 8 = 0
         /\ n > 0 => P!BlockSize(n) >= 16
         /\ n + 8 <= P!BlockSize(n) /\ P!BlockSize(n) < SizeT
<1>1. SizeT \in Nat /\ SizeT > 64
  BY MemAssumption, ChunkAssumption
<1>2. /\ P!BlockSize(n) \in Nat /\ P!BlockSize(n) % 8 = 0
      /\ n + 8 <= P!BlockSize(n) /\ P!BlockSize(n) <= n + 15
      /\ n > 0 => P!BlockSize(n) >= 16
  BY BlockAssumptions, P!BlockSizeFacts
<1>3. n + 15 < SizeT
  BY <1>1
<1>4. (n + 7) % SizeT = n + 7
  BY <1>1, <1>3
<1>5. P!BlockSize(n) < SizeT
  BY <1>1, <1>2, <1>3
<1>6. P!BlockSize(n) % SizeT = P!BlockSize(n)
  BY <1>1, <1>2, <1>5
<1>7. 8 + ((n + 7) \div 8) * 8 = P!BlockSize(n)
  BY DEF P!BlockSize, P!Align
<1>8. BlockSize(n) = P!BlockSize(n)
  BY <1>4, <1>6, <1>7 DEF BlockSize, Align, DSIZE
<1> QED BY <1>2, <1>5, <1>8

(* The larger of two.                                                      *)
LEMMA MaxWords ==
  ASSUME NEW bytes \in Nat
  PROVE  Max({bytes, Chunk}) = P!GrowBy(bytes)
<1>1. Chunk \in Nat
  BY ChunkAssumption
<1>2. P!GrowBy(bytes) \in {bytes, Chunk} /\ \A y \in {bytes, Chunk} : P!GrowBy(bytes) >= y
  BY <1>1 DEF P!GrowBy
<1>3. \A x, y \in {bytes, Chunk} : x >= y /\ y >= x => x = y
  BY <1>1
<1> QED BY <1>2, <1>3 DEF Max

-----------------------------------------------------------------------------
(* mm_malloc.                                                              *)

(* the words no client may rely on: those of free blocks, from header to   *)
(* footer, and all from the epilogue on                                    *)
Idle(H) == Zones(H, H.free) \cup Above(H.brk)

(* place writes only between the header and the footer of its block.       *)
LEMMA TrimmedInZone ==
  ASSUME NEW H, Fits(H), NEW b \in P!Blocks(H),
         NEW bytes \in Nat, bytes >= 16, bytes <= H.size[b]
  PROVE  Trimmed(H, b, bytes) \subseteq Zones(H, {b})
<1>1. /\ b \in Nat /\ H.size[b] \in Nat /\ H.size[b] >= 16 /\ P!End(H, b) = b + H.size[b]
  BY BlockFacts
<1> QED BY <1>1 DEF Trimmed, Zones, WSIZE, DSIZE

(* More blocks have more words.                                            *)
LEMMA ZonesMonotone ==
  ASSUME NEW H, NEW D, NEW E, D \subseteq E
  PROVE  Zones(H, D) \subseteq Zones(H, E)
BY DEF Zones

(* Where mm_malloc gets its block is the room of the block level.          *)
LEMMA FoundWords ==
  ASSUME NEW H, Proper(H), P!Coalesced(H), NEW n \in Nat, n > 0, n < SizeT \div 2,
         NEW m, Holds(m, H, H.fl)
  PROVE  LET bytes == P!BlockSize(n)
             found == Found(m, bytes)
             G == P!Room(H, bytes)
         IN  /\ P!OutOfMemory(H, n) => found = [h |-> m, p |-> NULL]
             /\ ~P!OutOfMemory(H, n) =>
                  /\ Proper(G) /\ P!Coalesced(G) /\ Holds(found.h, G, G.fl)
                  /\ found.p = P!Chosen(H, bytes)
                  /\ SameWords(m, found.h, Idle(H)) /\ Zones(G, G.free) \subseteq Idle(H)
<1> DEFINE bytes == P!BlockSize(n)
           found == Found(m, bytes)
           G == P!Room(H, bytes)
           grow == P!GrowBy(bytes)
<1>1. bytes \in Nat /\ bytes % 8 = 0 /\ bytes >= 16 /\ bytes < SizeT
  BY SizeWords
<1>2. P!Sound(H) /\ H.brk \in Nat /\ H.free \subseteq P!Blocks(H)
  BY ProperIsSound DEF Proper, Fits, P!HeapType
<1>3. FindFit(m, bytes) = IF P!Fits(H, bytes) = {} THEN NULL ELSE P!FindFit(H, bytes)
  BY <1>1, FindFitWords
<1>4. P!OutOfMemory(H, n) <=> P!Fits(H, bytes) = {} /\ H.brk + grow > MaxHeap
  BY DEF P!OutOfMemory
<1>5. CASE P!Fits(H, bytes) = {}
  <2>1. grow \in Nat /\ grow % 8 = 0 /\ grow >= 16 /\ (grow <= n + 15 \/ grow <= Chunk)
    BY BlockAssumptions, P!GrowByFacts
  <2>2. grow < SizeT
    <3>1. SizeT \in Nat /\ Chunk \in Nat /\ Chunk < SizeT \div 2 /\ SizeT > 64
      BY MemAssumption, ChunkAssumption
    <3>2. n + 15 < SizeT /\ Chunk < SizeT
      BY <3>1
    <3> QED BY <2>1, <3>1, <3>2
  <2>3. found = ExtendHeap(m, grow \div WSIZE)
    BY <1>1, <1>3, <1>5, MaxWords DEF Found
  <2>4. G = P!Extend(H, grow) /\ P!Chosen(H, bytes) = Head(G.fl)
    BY <1>5 DEF P!Room, P!Chosen
  <2> HIDE DEF found, G, grow
  <2>5. H.brk + grow > MaxHeap => found = [h |-> m, p |-> NULL]
    BY <2>1, <2>2, <2>3, ExtendWords
  <2>6. H.brk + grow <= MaxHeap =>
          /\ Proper(G) /\ P!Coalesced(G) /\ Holds(found.h, G, G.fl)
          /\ found.p = Head(G.fl)
          /\ SameWords(m, found.h, Idle(H)) /\ Zones(G, G.free) \subseteq Idle(H)
    BY <2>1, <2>2, <2>3, <2>4, ExtendWords DEF Idle
  <2>7. H.brk + grow > MaxHeap \/ H.brk + grow <= MaxHeap
    BY <1>2, <2>1, MemAssumption
  <2> QED BY <1>4, <1>5, <2>4, <2>5, <2>6, <2>7 DEF found, G, grow
<1>6. CASE P!Fits(H, bytes) # {}
  <2>1. P!FindFit(H, bytes) \in H.free
    BY <1>1, <1>2, <1>6, BlockAssumptions, P!FindFitFacts
  <2>2. P!FindFit(H, bytes) # NULL
    <3>1. PICK c \in P!Blocks(H) : c = P!FindFit(H, bytes)
      BY <1>2, <2>1
    <3> QED BY <3>1, BlockWords, CellFacts DEF Proper
  <2>3. found = [h |-> m, p |-> P!FindFit(H, bytes)]
    BY <1>3, <1>6, <2>2 DEF Found
  <2>4. G = H /\ P!Chosen(H, bytes) = P!FindFit(H, bytes)
    BY <1>6 DEF P!Room, P!Chosen
  <2>5. SameWords(m, m, Idle(H))
    BY SameWordsFacts
  <2>6. Zones(G, G.free) \subseteq Idle(H)
    BY <2>4 DEF Idle
  <2> QED BY <1>4, <1>6, <2>3, <2>4, <2>5, <2>6
<1> QED BY <1>5, <1>6

(* Unlinking and placing a free block is what the block level does.        *)
LEMMA TakenWords ==
  ASSUME NEW G, Proper(G), P!Coalesced(G), NEW b \in G.free,
         NEW bytes \in Nat, bytes % 8 = 0, bytes >= 16, bytes <= G.size[b],
         NEW m, Holds(m, G, G.fl)
  PROVE  LET g == Place(RemoveFromFreeList(m, b), b, bytes)
             M == P!Place(P!Taken(G, b), b, bytes)
         IN  /\ Proper(M) /\ P!Coalesced(M) /\ Holds(g, M, M.fl)
             /\ SameWords(m, g, Zones(G, G.free))
<1> DEFINE U == P!Taken(G, b)
           u == RemoveFromFreeList(m, b)
           g == Place(u, b, bytes)
           M == P!Place(U, b, bytes)
<1>1. /\ Fits(G) /\ P!Sound(G) /\ ListOver(G.fl, G.free) /\ P!ToSet(G.fl) = G.free
      /\ P!HeapType(G) /\ b \in P!Blocks(G)
  BY ProperIsSound DEF Proper, Fits, P!HeapType
<1>2. /\ Holds(u, G, P!Unlink(G.fl, b)) /\ SameWords(m, u, Zones(G, G.free))
  BY <1>1, Unlisted
<1>3. /\ U.brk = G.brk /\ U.size = G.size /\ U.free = G.free /\ U.fl = P!Unlink(G.fl, b)
      /\ P!Blocks(U) = P!Blocks(G) /\ \A d : P!End(U, d) = P!End(G, d)
      /\ P!HeapType(U) /\ P!Tiled(U) /\ P!Coalesced(U)
      /\ b \in P!Blocks(U) /\ P!End(U, b) \notin U.free
      /\ U.fl \in Seq(P!Blocks(U)) /\ P!IsInjective(U.fl) /\ P!ToSet(U.fl) = U.free \ {b}
  BY <1>1, BlockAssumptions, P!TakenFacts
<1>4. Fits(U)
  BY <1>1, <1>3 DEF Fits
<1>5. U = [G EXCEPT !.fl = P!Unlink(G.fl, b)]
  BY DEF P!Taken
<1>6. Holds(u, U, U.fl) /\ \A D : Zones(U, D) = Zones(G, D)
  BY <1>1, <1>2, <1>3, <1>5, Relisted
<1> HIDE DEF U, u
<1>7. HoldsBut(u, U, U.fl, {b})
  BY <1>6 DEF Holds, HoldsBut, Tags, TagsBut
<1>8. SizeOf(u, b) = U.size[b]
  BY <1>3, <1>4, <1>6, ReadBlock DEF Holds
<1>9. /\ Proper(M) /\ P!Coalesced(M) /\ Holds(g, M, M.fl)
      /\ SameWords(u, g, Zones(U, U.free \ {b}) \cup Trimmed(U, b, bytes))
  BY <1>3, <1>4, <1>7, <1>8, PlaceWords
<1> HIDE DEF g, M
<1>10. SameWords(u, g, Zones(G, G.free))
  <2>1. Trimmed(U, b, bytes) \subseteq Zones(U, {b})
    BY <1>3, <1>4, TrimmedInZone
  <2>2. /\ Zones(U, {b}) \subseteq Zones(U, U.free)
        /\ Zones(U, U.free \ {b}) \subseteq Zones(U, U.free)
    <3>1. {b} \subseteq U.free /\ U.free \ {b} \subseteq U.free
      BY <1>3
    <3> QED BY <3>1, ZonesMonotone
  <2>3. Zones(U, U.free \ {b}) \cup Trimmed(U, b, bytes) \subseteq Zones(G, G.free)
    BY <1>3, <1>6, <2>1, <2>2
  <2> QED BY <1>9, <2>3, SameWordsFacts
<1>11. SameWords(m, g, Zones(G, G.free))
  BY <1>2, <1>10, SameWordsFacts
<1> QED BY <1>9, <1>11 DEF g, M, U, u

(* mm_malloc does what Malloc does, or dies if there is no memory.         *)
THEOREM MallocWords ==
  ASSUME NEW H, Proper(H), P!Coalesced(H), NEW n \in Nat, n > 0, n < SizeT \div 2,
         NEW m, Holds(m, H, H.fl)
  PROVE  LET r == MMMalloc(m, n)
             M == P!Malloc(H, n)
         IN  /\ P!OutOfMemory(H, n) => r = [h |-> Die(m), p |-> NULL]
             /\ ~P!OutOfMemory(H, n) =>
                  /\ Proper(M) /\ P!Coalesced(M) /\ Holds(r.h, M, M.fl)
                  /\ r.p = P!Chosen(H, P!BlockSize(n)) /\ r.p # NULL
                  /\ SameWords(m, r.h, Idle(H))
<1> DEFINE bytes == P!BlockSize(n)
           found == Found(m, bytes)
           G == P!Room(H, bytes)
           b == P!Chosen(H, bytes)
           r == MMMalloc(m, n)
           M == P!Malloc(H, n)
<1>1. /\ BlockSize(n) = bytes /\ bytes \in Nat /\ bytes % 8 = 0 /\ bytes >= 16
  BY SizeWords
<1>2. r = Taken(found, bytes)
  BY <1>1 DEF MMMalloc
<1>3. M = P!Place(P!Taken(G, b), b, bytes)
  BY DEF P!Malloc, P!Taken
<1>4. P!Settled(H)
  BY ProperIsSound DEF P!Settled
<1>5. b \in G.free /\ G.size[b] >= bytes
  BY <1>4, BlockAssumptions, P!RoomFacts
<1>6. /\ P!OutOfMemory(H, n) => found = [h |-> m, p |-> NULL]
      /\ ~P!OutOfMemory(H, n) =>
           /\ Proper(G) /\ P!Coalesced(G) /\ Holds(found.h, G, G.fl) /\ found.p = b
           /\ SameWords(m, found.h, Idle(H)) /\ Zones(G, G.free) \subseteq Idle(H)
  BY FoundWords
<1> HIDE DEF bytes, found, G, b, M, r
<1>7. CASE P!OutOfMemory(H, n)
  <2>1. r = [h |-> RemoveFromFreeList(m, NULL), p |-> NULL]
    BY <1>2, <1>6, <1>7 DEF Taken
  <2>2. NULL \notin Arena
    <3>1. ~(HeapLo <= 0)
      BY MemAssumption
    <3> QED BY <3>1, ArenaFacts DEF NULL
  <2> QED BY <2>1, <2>2, <1>7 DEF RemoveFromFreeList, r
<1>8. CASE ~P!OutOfMemory(H, n)
  <2>1. b # NULL
    <3>1. b \in P!Blocks(G) /\ Fits(G)
      BY <1>5, <1>6, <1>8 DEF Proper, Fits, P!HeapType
    <3> QED BY <3>1, BlockWords, CellFacts
  <2>2. r = [h |-> Place(RemoveFromFreeList(found.h, b), b, bytes), p |-> b]
    BY <1>2, <1>6, <1>8, <2>1 DEF Taken
  <2>3. bytes <= G.size[b]
    <3>1. G.size[b] \in Nat
      BY <1>5, <1>6, <1>8, BlockFacts DEF Proper, Fits, P!HeapType
    <3> QED BY <3>1, <1>1, <1>5
  <2>4. /\ Proper(M) /\ P!Coalesced(M) /\ Holds(r.h, M, M.fl)
        /\ SameWords(found.h, r.h, Zones(G, G.free))
    BY <1>1, <1>3, <1>5, <1>6, <1>8, <2>2, <2>3, TakenWords
  <2>5. SameWords(m, r.h, Idle(H))
    <3>1. SameWords(found.h, r.h, Idle(H))
      BY <1>6, <1>8, <2>4, SameWordsFacts
    <3> QED BY <3>1, <1>6, <1>8, SameWordsFacts
  <2> QED BY <1>8, <2>1, <2>2, <2>4, <2>5 DEF r, M, b, bytes
<1> QED BY <1>7, <1>8

-----------------------------------------------------------------------------
(* mm_free.                                                                *)

(* mm_free does what Free does.                                            *)
THEOREM FreeWords ==
  ASSUME NEW H, Proper(H), P!Coalesced(H), NEW p \in P!Allocated(H),
         NEW m, Holds(m, H, H.fl)
  PROVE  LET g == MMFree(m, p)
             F == P!Free(H, p)
         IN  /\ Proper(F) /\ P!Coalesced(F) /\ Holds(g, F, F.fl)
             /\ SameWords(m, g, Zones(H, H.free \cup {p}))
<1> DEFINE g == MMFree(m, p)
           F == P!Free(H, p)
           J == P!Freed(H, p)
           size == H.size[p]
           g1 == TagBoth(m, p, Word(size, 0))
           g2 == AddToFreeList(g1, p)
           Z == Zones(H, H.free \cup {p})
<1>1. /\ Fits(H) /\ P!Sound(H) /\ ListOver(H.fl, H.free) /\ P!ToSet(H.fl) = H.free
      /\ P!HeapType(H) /\ p \in P!Blocks(H) /\ p \notin H.free /\ P!Settled(H)
      /\ H.free \subseteq P!Blocks(H)
  BY ProperIsSound DEF Proper, Fits, P!HeapType, P!Allocated, P!Settled
<1>2. /\ P!Sound(J) /\ p \in J.free
      /\ J.brk = H.brk /\ J.size = H.size /\ J.free = H.free \cup {p}
      /\ J.fl = P!Push(H.fl, p)
  BY <1>1, BlockAssumptions, P!FreedFacts
<1>3. /\ p \in Nat /\ size \in Nat /\ size % 8 = 0 /\ size >= 16
      /\ p - 4 \in Arena /\ p + size - 8 \in Arena
  BY <1>1, BlockFacts, BlockWords
<1>4. SizeOf(m, p) = size
  BY <1>1, ReadBlock DEF Holds
<1>5. g = Coalesce(g2, p).h
  BY <1>3, <1>4 DEF MMFree, Header, WSIZE
<1>6. F = P!Coalesce(J, p)
  BY DEF P!Free, P!Freed
<1>7. Proper(J)
  BY <1>1, <1>2 DEF Proper, Fits, P!Sound
<1>8. Replaced(H, J, {p}, {p})
  BY <1>1, <1>2 DEF Replaced, P!Blocks
<1>9. /\ Rewritten(m, g1, {p - 4, p + size - 8}) /\ g1.fl = m.fl /\ Tagged(g1, p, size, 0)
  <2>1. m \in Machine /\ p \in Int /\ 0 \in {0, 1}
    BY <1>3 DEF Holds
  <2> HIDE DEF size
  <2> QED BY <1>3, <2>1, TagBothFacts DEF g1
<1> HIDE DEF J, g1, g2, g, F
<1>10. Rewritten(m, g1, Zones(H, {p}))
  <2>1. p - 4 \in Zones(H, {p}) /\ p + size - 8 \in Zones(H, {p})
    BY <1>1, TagsInZone
  <2>2. {p - 4, p + size - 8} \subseteq Zones(H, {p})
    BY <2>1
  <2> QED BY <1>9, <2>2, SameWordsFacts DEF Rewritten
<1>11. Holds(g1, J, H.fl)
  <2>1. HoldsBut(m, H, H.fl, {p})
    BY DEF Holds, HoldsBut, Tags, TagsBut
  <2>2. \A c \in {p} : Tagged(g1, c, J.size[c], Bit(J, c))
    BY <1>2, <1>9 DEF Bit
  <2>3. {p} \cap P!ToSet(H.fl) = {} /\ {p} \in SUBSET P!Blocks(H)
    BY <1>1
  <2> QED BY <1>1, <1>8, <1>9, <1>10, <2>1, <2>2, <2>3, ReplacedHolds
<1>12. /\ Holds(g2, J, J.fl) /\ SameWords(g1, g2, Zones(J, J.free))
  <2>1. ListOver(H.fl, J.free)
    <3>1. H.fl \in Seq(J.free)
      BY <1>1, <1>2, BlockAssumptions, P!SeqOverRange DEF ListOver
    <3> QED BY <3>1, <1>1 DEF ListOver
  <2>2. /\ Holds(g2, J, P!Push(H.fl, p)) /\ SameWords(g1, g2, Zones(J, J.free))
    BY <1>1, <1>2, <1>7, <1>11, <2>1, Listed DEF Proper, g2
  <2> QED BY <2>2, <1>2
<1>13. /\ Proper(F) /\ Holds(g, F, F.fl) /\ SameWords(g2, g, Zones(J, J.free))
  BY <1>2, <1>5, <1>6, <1>7, <1>12, CoalesceWords
<1>14. P!Coalesced(F)
  BY <1>1, BlockAssumptions, P!FreeFacts DEF P!Settled, F
<1>15. SameWords(m, g, Z)
  <2>1. Zones(J, J.free) = Z
    BY <1>2 DEF Zones, P!End
  <2>2. Zones(H, {p}) \subseteq Z
    BY ZonesMonotone
  <2> HIDE DEF Z
  <2>3. SameWords(m, g1, Z) /\ SameWords(g1, g2, Z) /\ SameWords(g2, g, Z)
    BY <1>10, <1>12, <1>13, <2>1, <2>2, SameWordsFacts DEF Rewritten
  <2> QED BY <2>3, SameWordsFacts
<1> QED BY <1>13, <1>14, <1>15 DEF g, F

-----------------------------------------------------------------------------
(* Payloads.                                                               *)

Payload(H, b) == {a \in Int : b <= a /\ a < P!End(H, b) - DSIZE}

(* the payloads of these blocks read in g as they did in m                 *)
Untouched(m, g, H, S) ==
  \A x \in S : \A a \in Payload(H, x) : Get(g, a) = Get(m, a)

(* The words of the first n bytes of g from q on, as far as they were      *)
(* among the first old bytes of m from p on, read what they did there.     *)
Carried(m, g, p, q, n, old) ==
  \A k \in 0 .. n - 1 : k % 4 = 0 /\ k < old => Get(g, q + k) = Get(m, p + k)

(* What is written elsewhere, or above the heap, touches no payload.       *)
LEMMA UntouchedElsewhere ==
  ASSUME NEW H, Fits(H), NEW D \in SUBSET P!Blocks(H), NEW S \in SUBSET P!Blocks(H),
         S \cap D = {}, NEW m, NEW g, SameWords(m, g, Zones(H, D) \cup Above(H.brk))
  PROVE  Untouched(m, g, H, S)
<1> SUFFICES ASSUME NEW x \in S, NEW a \in Payload(H, x)
             PROVE  a \notin Zones(H, D) \cup Above(H.brk)
  BY DEF Untouched, SameWords
<1>1. /\ x \in P!Blocks(H) \ D /\ x \in Nat /\ P!End(H, x) \in Nat
      /\ P!End(H, x) <= H.brk /\ H.brk \in Nat
  BY BlockFacts
<1>2. a \in Int /\ x <= a /\ a < P!End(H, x) - 8
  BY DEF Payload, DSIZE
<1>3. a \notin Zones(H, D)
  <2>1. x - 4 <= a /\ a < P!End(H, x) - 4
    BY <1>1, <1>2
  <2> QED BY <1>1, <1>2, <2>1, OutsideZones
<1>4. a \notin Above(H.brk)
  BY <1>1, <1>2 DEF Above, WSIZE
<1> QED BY <1>3, <1>4

(* A payload is written without harm to tags and list.                     *)
LEMMA PayloadWords ==
  ASSUME NEW H, Proper(H), NEW b \in P!Allocated(H), NEW m, Holds(m, H, H.fl),
         NEW g, Rewritten(m, g, Payload(H, b)), g.fl = m.fl
  PROVE  Holds(g, H, H.fl)
<1>1. /\ Fits(H) /\ ListOver(H.fl, H.free) /\ P!ToSet(H.fl) = H.free
      /\ b \in P!Blocks(H) /\ b \notin H.free /\ {b} \in SUBSET P!Blocks(H)
  BY ProperIsSound DEF Proper, P!Allocated
<1>2. /\ b \in Nat /\ H.size[b] \in Nat /\ H.size[b] >= 16 /\ P!End(H, b) = b + H.size[b]
  BY <1>1, BlockFacts
<1>3. SameWords(m, g, Zones(H, {b}))
  <2>1. Payload(H, b) \subseteq Zones(H, {b})
    BY <1>2 DEF Payload, Zones, WSIZE, DSIZE
  <2> QED BY <2>1, SameWordsFacts DEF Rewritten
<1>4. TagsBut(g, H, {b})
  <2>1. TagsBut(m, H, {b})
    BY DEF Holds, Tags, TagsBut
  <2> QED BY <2>1, <1>1, <1>3, TagsElsewhere
<1>5. Tagged(g, b, H.size[b], Bit(H, b))
  <2>1. b - 4 \notin Payload(H, b) /\ b + H.size[b] - 8 \notin Payload(H, b)
    BY <1>2 DEF Payload, DSIZE
  <2>2. Tagged(m, b, H.size[b], Bit(H, b))
    BY <1>1 DEF Holds, Tags
  <2> QED BY <2>1, <2>2 DEF Tagged, Rewritten, SameWords, WSIZE, DSIZE
<1>6. Tags(g, H)
  BY <1>4, <1>5 DEF Tags, TagsBut
<1>7. Linked(g, H.fl)
  <2>1. {b} \cap P!ToSet(H.fl) = {}
    BY <1>1
  <2> QED BY <1>1, <1>3, <2>1, ListApart DEF Holds
<1> QED BY <1>6, <1>7 DEF Holds, Rewritten

(* the words wholly within n bytes from q on                               *)
WordsOf(q, n) == {a \in Int : q <= a /\ a <= q + n - 4}

(* g is m with n bytes copied from p to q.                                 *)
Copied(m, g, p, q, n) ==
  /\ Rewritten(m, g, WordsOf(q, n)) /\ g.fl = m.fl
  /\ \A k \in 0 .. n - 4 :
       q + k \in Arena /\ p + k \in Arena => Get(g, q + k) = Get(m, p + k)

(* Copying between payloads.                                               *)
LEMMA CopyFacts ==
  ASSUME NEW m \in Machine, NEW p \in Nat, NEW q \in Nat, NEW n \in Nat
  PROVE  Copied(m, Copy(m, p, q, n), p, q, n)
<1> DEFINE word(a) == IF a >= q /\ a <= q + n - 4 /\ a - q + p \in Arena
                      THEN m.mem[a - q + p] ELSE m.mem[a]
           g == Copy(m, p, q, n)
<1>1. g = [m EXCEPT !.mem = [a \in Arena |-> word(a)]]
  BY DEF Copy, WSIZE
<1>2. \A a \in Arena : word(a) \in Nat
  BY DEF Machine
<1>3. \A a \in Arena : a \in Int
  BY ArenaFacts
<1>4. /\ g \in Machine /\ g.brk = m.brk /\ g.ok = m.ok /\ g.fl = m.fl
      /\ \A a \in Arena : g.mem[a] = word(a)
  <2> HIDE DEF word
  <2> QED BY <1>1, <1>2 DEF Machine
<1> HIDE DEF g
<1>5. \A a : a \notin WordsOf(q, n) => Get(g, a) = Get(m, a)
  BY <1>3, <1>4 DEF Get, WordsOf
<1>6. ASSUME NEW k \in 0 .. n - 4, q + k \in Arena, p + k \in Arena
      PROVE  Get(g, q + k) = Get(m, p + k)
  <2>1. (q + k) - q + p = p + k /\ q + k >= q /\ q + k <= q + n - 4
    OBVIOUS
  <2>2. word(q + k) = m.mem[p + k]
    BY <1>6, <2>1
  <2> QED BY <1>4, <1>6, <2>2 DEF Get
<1>7. Copied(m, g, p, q, n)
  BY <1>4, <1>5, <1>6 DEF Copied, Rewritten, SameWords
<1> QED BY <1>7 DEF g

-----------------------------------------------------------------------------
(* mm_realloc.                                                             *)

(* The header behind a block, be it that of a block or of the epilogue.    *)
LEMMA EpilogueWords ==
  ASSUME NEW H, Fits(H), NEW m, Tags(m, H)
  PROVE  SizeOf(m, H.brk) = 0
<1>1. Get(m, H.brk - 4) = 1
  BY DEF Tags, Ends, Word, WSIZE
<1> QED BY <1>1 DEF SizeOf, GetSize, Header, WSIZE

(* mm_realloc into the free block behind.                                  *)
THEOREM GrowWords ==
  ASSUME NEW H, Proper(H), P!Coalesced(H), NEW p \in P!Allocated(H),
         NEW n \in Nat, n > 0, n < SizeT \div 2, P!CanGrow(H, p, n),
         NEW m, Holds(m, H, H.fl)
  PROVE  LET next == P!End(H, p)
             bytes == P!BlockSize(n)
             w == Word(H.size[p] + H.size[next], 1)
             g == Place(Tag(RemoveFromFreeList(m, next), p, w), p, bytes)
             G == P!Place(P!Join(H, p), p, bytes)
         IN  /\ Proper(G) /\ P!Coalesced(G) /\ Holds(g, G, G.fl)
             /\ Untouched(m, g, H, P!Allocated(H) \ {p})
             /\ Carried(m, g, p, p, n, H.size[p] - 8)
<1> DEFINE next == P!End(H, p)
           bytes == P!BlockSize(n)
           size == H.size[p] + H.size[next]
           w == Word(size, 1)
           m1 == RemoveFromFreeList(m, next)
           m2 == Tag(m1, p, w)
           g == Place(m2, p, bytes)
           J == P!Join(H, p)
           G == P!Place(J, p, bytes)
           s == P!Unlink(H.fl, next)
<1>1. /\ Fits(H) /\ P!Sound(H) /\ ListOver(H.fl, H.free) /\ P!ToSet(H.fl) = H.free
      /\ P!HeapType(H) /\ p \in P!Blocks(H) /\ p \notin H.free /\ P!Settled(H)
      /\ H.free \subseteq P!Blocks(H)
  BY ProperIsSound DEF Proper, Fits, P!HeapType, P!Allocated, P!Settled
<1>2. next \in H.free /\ next \in P!Blocks(H)
  BY <1>1 DEF P!CanGrow
<1>3. /\ p \in Nat /\ H.size[p] \in Nat /\ H.size[p] % 8 = 0 /\ H.size[p] >= 16
      /\ H.size[next] \in Nat /\ H.size[next] % 8 = 0 /\ H.size[next] >= 16
      /\ next = p + H.size[p] /\ P!End(H, next) = next + H.size[next]
      /\ p - 4 \in Arena
  BY <1>1, <1>2, BlockFacts, BlockWords
<1>4. /\ bytes \in Nat /\ bytes % 8 = 0 /\ bytes >= 16 /\ n + 8 <= bytes
  BY SizeWords
<1>5. /\ P!Sound(J) /\ P!Coalesced(J) /\ J.brk = H.brk
      /\ J.free = H.free \ {next} /\ P!Blocks(J) = P!Blocks(H) \ {next}
      /\ p \in P!Blocks(J) \ J.free /\ J.size[p] = size
      /\ \A c \in P!Blocks(J) \ {p} : J.size[c] = H.size[c] /\ P!End(J, c) = P!End(H, c)
      /\ P!End(J, p) = P!End(H, next) /\ P!End(J, p) \notin J.free
      /\ P!IsInjective(J.fl) /\ P!ToSet(J.fl) = J.free \ {p}
      /\ bytes <= J.size[p]
  BY <1>1, BlockAssumptions, P!AbsorbedFacts
<1>6. J.fl = s
  BY DEF P!Join
<1>7. Fits(J)
  BY <1>1, <1>5 DEF Fits, P!Sound
<1>8. /\ Holds(m1, H, s) /\ SameWords(m, m1, Zones(H, H.free))
      /\ ListOver(s, H.free) /\ P!ToSet(s) = H.free \ {next}
  BY <1>1, <1>2, Unlisted
<1> HIDE DEF J, m1, s, g, G, bytes
<1>9. Written(m1, m2, p - 4, w)
  <2>1. size \in Nat /\ size % 8 = 0 /\ 1 \in {0, 1}
    BY <1>3
  <2>2. w \in Nat
    <3> HIDE DEF size
    <3> QED BY <2>1, WordFacts
  <2>3. m1 \in Machine /\ p \in Int
    BY <1>3, <1>8 DEF Holds
  <2> HIDE DEF w
  <2> QED BY <1>3, <2>2, <2>3, TagFacts DEF m2
<1>10. SizeOf(m2, p) = J.size[p]
  <2>1. size \in Nat /\ size % 8 = 0 /\ 1 \in {0, 1}
    BY <1>3
  <2>2. (w \div 8) * 8 = size
    <3> HIDE DEF size
    <3> QED BY <2>1, WordFacts
  <2>3. Get(m2, p - 4) = w
    BY <1>9 DEF Written
  <2> HIDE DEF w, size, m2
  <2> QED BY <1>5, <2>2, <2>3 DEF SizeOf, GetSize, Header, WSIZE
<1> HIDE DEF m2, w, size
<1>11. SameWords(m1, m2, {p - 4}) /\ SameWords(m1, m2, Zones(H, {p}))
  <2>1. SameWords(m1, m2, {p - 4})
    BY <1>9 DEF Written, SameWords
  <2>2. {p - 4} \subseteq Zones(H, {p})
    BY <1>1, TagsInZone
  <2> QED BY <2>1, <2>2, SameWordsFacts
<1>12. HoldsBut(m2, J, J.fl, {p})
  <2>1. TagsBut(m2, H, {p})
    <3>1. TagsBut(m1, H, {p})
      BY <1>8 DEF Holds, Tags, TagsBut
    <3> QED BY <3>1, <1>1, <1>11, TagsElsewhere
  <2>2. TagsBut(m2, J, {p})
    <3>1. ASSUME NEW c \in P!Blocks(J) \ {p}
          PROVE  Tagged(m2, c, J.size[c], Bit(J, c))
      <4>1. Tagged(m2, c, H.size[c], Bit(H, c))
        BY <2>1, <1>5 DEF TagsBut
      <4>2. J.size[c] = H.size[c] /\ Bit(J, c) = Bit(H, c)
        BY <1>5 DEF Bit
      <4> QED BY <4>1, <4>2
    <3> QED BY <3>1, <2>1, <1>5 DEF TagsBut
  <2>3. Linked(m2, s)
    <3>1. {p} \cap P!ToSet(s) = {} /\ {p} \in SUBSET P!Blocks(H)
      BY <1>1, <1>8
    <3> QED BY <3>1, <1>1, <1>8, <1>9, <1>11, ListApart DEF Holds, Written
  <2> QED BY <2>2, <2>3, <1>5, <1>6, <1>8, <1>9 DEF HoldsBut, Holds, Written
<1>13. /\ Proper(G) /\ P!Coalesced(G) /\ Holds(g, G, G.fl)
       /\ SameWords(m2, g, Zones(J, J.free \ {p}) \cup Trimmed(J, p, bytes))
  BY <1>4, <1>5, <1>7, <1>10, <1>12, PlaceWords DEF g, G
<1> DEFINE A == Zones(H, H.free) \cup Trimmed(J, p, bytes)
<1>14. SameWords(m, g, A)
  <2>1. Zones(J, J.free \ {p}) \subseteq Zones(H, H.free)
    BY <1>1, <1>5 DEF Zones
  <2>2. p - 4 \in Trimmed(J, p, bytes)
    BY DEF Trimmed, WSIZE
  <2>3. /\ Zones(J, J.free \ {p}) \cup Trimmed(J, p, bytes) \subseteq A
        /\ {p - 4} \subseteq A /\ Zones(H, H.free) \subseteq A
    BY <2>1, <2>2
  <2> HIDE DEF A
  <2>4. SameWords(m, m1, A)
    BY <2>3, <1>8, SameWordsFacts
  <2>5. SameWords(m1, m2, A)
    BY <2>3, <1>11, SameWordsFacts
  <2>6. SameWords(m2, g, A)
    <3> DEFINE B == Zones(J, J.free \ {p}) \cup Trimmed(J, p, bytes)
    <3>1. SameWords(m2, g, B) /\ B \subseteq A
      BY <2>3, <1>13
    <3> HIDE DEF B
    <3> QED BY <3>1, SameWordsFacts
  <2> QED BY <2>4, <2>5, <2>6, SameWordsFacts
<1>15. Untouched(m, g, H, P!Allocated(H) \ {p})
  <2>1. Trimmed(J, p, bytes) \subseteq Zones(J, {p})
    BY <1>4, <1>5, <1>7, TrimmedInZone
  <2>2. Zones(J, {p}) \subseteq Zones(H, {p, next})
    <3>1. \A a \in Int : a < P!End(J, p) - 4 =>
            a < P!End(H, p) - 4 \/ (next - 4 <= a /\ a < P!End(H, next) - 4)
      BY <1>3, <1>5
    <3> QED BY <3>1 DEF Zones, WSIZE
  <2>3. Zones(H, {p, next}) \subseteq Zones(H, H.free \cup {p})
        /\ Zones(H, H.free) \subseteq Zones(H, H.free \cup {p})
    <3>1. {p, next} \subseteq H.free \cup {p} /\ H.free \subseteq H.free \cup {p}
      BY <1>2
    <3> QED BY <3>1, ZonesMonotone
  <2>4. SameWords(m, g, Zones(H, H.free \cup {p}) \cup Above(H.brk))
    <3> DEFINE B == Zones(H, H.free \cup {p}) \cup Above(H.brk)
    <3>1. A \subseteq B
      BY <2>1, <2>2, <2>3
    <3> HIDE DEF A, B
    <3>2. SameWords(m, g, B)
      BY <3>1, <1>14, SameWordsFacts
    <3> QED BY <3>2 DEF B
  <2>5. /\ P!Allocated(H) \ {p} \in SUBSET P!Blocks(H)
        /\ H.free \cup {p} \in SUBSET P!Blocks(H)
        /\ (P!Allocated(H) \ {p}) \cap (H.free \cup {p}) = {}
    BY <1>1 DEF P!Allocated
  <2> QED BY <2>4, <2>5, <1>1, UntouchedElsewhere
<1>16. ASSUME NEW a \in Int, p <= a, a < p + n, a < P!End(H, p) - 8
       PROVE  Get(g, a) = Get(m, a)
  <2>1. a \notin Zones(H, H.free)
    <3>1. p - 4 <= a /\ a < P!End(H, p) - 4
      BY <1>3, <1>16
    <3> QED BY <3>1, <1>1, OutsideZones
  <2>2. a \notin Trimmed(J, p, bytes)
    BY <1>3, <1>4, <1>16 DEF Trimmed, WSIZE, DSIZE
  <2> QED BY <2>1, <2>2, <1>14 DEF SameWords
<1>17. Carried(m, g, p, p, n, H.size[p] - 8)
  <2> SUFFICES ASSUME NEW k \in 0 .. n - 1, k < H.size[p] - 8
               PROVE  Get(g, p + k) = Get(m, p + k)
    BY DEF Carried
  <2>1. p + k \in Int /\ p <= p + k /\ p + k < p + n /\ p + k < P!End(H, p) - 8
    BY <1>3
  <2> QED BY <2>1, <1>16
<1> QED BY <1>13, <1>15, <1>17 DEF g, G, m2, m1, J, w, size, bytes

(* A request's contents lie within its payload.                            *)
LEMMA WithinPayload ==
  ASSUME NEW H, Fits(H), NEW p \in P!Blocks(H), NEW n \in Nat, n + 8 <= H.size[p],
         NEW k \in 0 .. n - 1
  PROVE  /\ p + k \in Payload(H, p) /\ p + k \in Nat
         /\ n % 4 = 0 /\ k % 4 = 0 => k + 4 <= n
         /\ k % 4 = 0 => p + k \in Arena
<1>1. /\ p \in Nat /\ p % 8 = 0 /\ p >= Base /\ H.size[p] \in Nat
      /\ P!End(H, p) = p + H.size[p] /\ P!End(H, p) <= H.brk /\ H.brk \in Nat
      /\ H.brk <= MaxHeap
  BY BlockFacts DEF Fits
<1>2. p + k \in Payload(H, p) /\ p + k \in Nat
  BY <1>1 DEF Payload, DSIZE
<1>3. n % 4 = 0 /\ k % 4 = 0 => k + 4 <= n
  OBVIOUS
<1>4. ASSUME k % 4 = 0 PROVE p + k \in Arena
  <2>1. (p + k) % 4 = 0
    <3>1. p % 4 = 0
      BY <1>1
    <3>2. PICK x \in Int : p = 4 * x
      BY <1>1, <3>1
    <3>3. PICK y \in Int : k = 4 * y
      BY <1>4
    <3> QED BY <3>2, <3>3
  <2>2. HeapLo <= p + k /\ p + k + 4 <= MaxHeap
    BY <1>1, BaseFacts, MemAssumption
  <2> QED BY <1>2, <2>1, <2>2, WordAddress
<1> QED BY <1>2, <1>3, <1>4

(* What mm_malloc and mm_free leave alone.                                 *)
LEMMA MallocUntouched ==
  ASSUME NEW H, Proper(H), NEW m, NEW g, SameWords(m, g, Idle(H))
  PROVE  Untouched(m, g, H, P!Allocated(H))
<1>1. /\ Fits(H) /\ H.free \in SUBSET P!Blocks(H)
      /\ P!Allocated(H) \in SUBSET P!Blocks(H) /\ P!Allocated(H) \cap H.free = {}
  BY DEF Proper, Fits, P!HeapType, P!Allocated
<1> QED BY <1>1, UntouchedElsewhere DEF Idle

(* mm_free touches no payload but that of the block freed.                 *)
LEMMA FreeUntouched ==
  ASSUME NEW H, Proper(H), NEW p \in P!Allocated(H), NEW m, NEW g,
         SameWords(m, g, Zones(H, H.free \cup {p}))
  PROVE  Untouched(m, g, H, P!Allocated(H) \ {p})
<1> DEFINE D == H.free \cup {p}
<1>1. /\ Fits(H) /\ D \in SUBSET P!Blocks(H)
      /\ P!Allocated(H) \ {p} \in SUBSET P!Blocks(H) /\ (P!Allocated(H) \ {p}) \cap D = {}
  BY DEF Proper, Fits, P!HeapType, P!Allocated
<1> DEFINE B == Zones(H, D) \cup Above(H.brk)
<1>2. SameWords(m, g, Zones(H, D)) /\ Zones(H, D) \subseteq B
  OBVIOUS
<1> HIDE DEF D
<1>3. SameWords(m, g, B)
  <2> HIDE DEF B
  <2> QED BY <1>2, SameWordsFacts
<1> QED BY <1>1, <1>3, UntouchedElsewhere

(* mm_realloc through a new block.                                         *)
THEOREM MoveWords ==
  ASSUME NEW H, Proper(H), P!Coalesced(H), NEW p \in P!Allocated(H),
         NEW n \in Nat, n > 0, n % 4 = 0, n < SizeT \div 2,
         NEW m, Holds(m, H, H.fl), NEW old \in Nat, old % 4 = 0, old + 8 <= H.size[p]
  PROVE  LET r == Moved(MMMalloc(m, n), p, H.size[p], n)
             G == P!Free(P!Malloc(H, n), p)
             q == P!Chosen(H, P!BlockSize(n))
         IN  /\ P!OutOfMemory(H, n) => r = [h |-> Die(m), p |-> NULL]
             /\ ~P!OutOfMemory(H, n) =>
                  /\ Proper(G) /\ P!Coalesced(G) /\ Holds(r.h, G, G.fl) /\ r.p = q
                  /\ Untouched(m, r.h, H, P!Allocated(H) \ {p})
                  /\ Carried(m, r.h, p, q, n, old)
<1> DEFINE cur == H.size[p]
           new == MMMalloc(m, n)
           r == Moved(new, p, cur, n)
           A == P!Malloc(H, n)
           G == P!Free(A, p)
           q == P!Chosen(H, P!BlockSize(n))
           c == Min({cur, n})
           k1 == Copy(new.h, p, q, c)
<1>1. /\ P!OutOfMemory(H, n) => new = [h |-> Die(m), p |-> NULL]
      /\ ~P!OutOfMemory(H, n) =>
           /\ Proper(A) /\ P!Coalesced(A) /\ Holds(new.h, A, A.fl)
           /\ new.p = q /\ new.p # NULL
           /\ SameWords(m, new.h, Idle(H))
  BY MallocWords
<1>2. CASE P!OutOfMemory(H, n)
  <2> HIDE DEF new
  <2>1. r = new
    BY <1>1, <1>2 DEF Moved
  <2>2. r = [h |-> Die(m), p |-> NULL]
    BY <1>1, <1>2, <2>1
  <2> QED BY <1>2, <2>2 DEF r, new
<1>3. CASE ~P!OutOfMemory(H, n)
  <2>1. /\ Fits(H) /\ P!Settled(H) /\ p \in P!Blocks(H)
    BY ProperIsSound DEF Proper, P!Settled, P!Allocated
  <2>2. /\ q \notin P!Allocated(H) /\ P!Allocated(A) = P!Allocated(H) \cup {q}
        /\ P!SameBut(H, A, {q}) /\ A.size[q] >= P!BlockSize(n)
    BY <2>1, BlockAssumptions, P!MallocFacts
  <2>3. Fits(A) /\ q \in P!Blocks(A) /\ p \in P!Blocks(A) /\ p \in P!Allocated(A)
        /\ q \in P!Allocated(A) /\ p # q
    BY <1>1, <1>3, <2>2 DEF Proper, P!Allocated
  <2>4. r = [h |-> MMFree(k1, p), p |-> q]
    BY <1>1, <1>3 DEF Moved
  <2>5. Untouched(m, new.h, H, P!Allocated(H))
    BY <1>1, <1>3, MallocUntouched
  <2> HIDE DEF A, q, new, r, G
  <2>6. /\ cur \in Nat /\ cur % 8 = 0 /\ p \in Nat /\ q \in Nat
        /\ A.size[q] \in Nat /\ n + 8 <= A.size[q] /\ P!End(A, q) = q + A.size[q]
        /\ P!BlockSize(n) \in Nat
    <3>1. P!BlockSize(n) \in Nat /\ n + 8 <= P!BlockSize(n)
      BY SizeWords
    <3>2. /\ cur \in Nat /\ cur % 8 = 0 /\ p \in Nat
      BY <2>1, BlockFacts
    <3>3. q \in Nat /\ A.size[q] \in Nat /\ P!End(A, q) = q + A.size[q]
      BY <2>3, BlockFacts
    <3> QED BY <3>1, <3>2, <3>3, <2>2
  <2> HIDE DEF cur
  <2>7. c = IF cur <= n THEN cur ELSE n
    <3>1. \A x, y \in {cur, n} : x <= y /\ y <= x => x = y
      BY <2>6
    <3>2. PICK x \in {cur, n} : x = IF cur <= n THEN cur ELSE n
      OBVIOUS
    <3>3. \A y \in {cur, n} : x <= y
      BY <2>6, <3>2
    <3>4. (CHOOSE z \in {cur, n} : \A y \in {cur, n} : z <= y) = x
      BY <3>1, <3>3
    <3> QED BY <3>2, <3>4 DEF Min
  <2>8. c \in Nat /\ c <= n /\ c <= cur
    BY <2>6, <2>7
  <2> HIDE DEF c
  <2>9. /\ Rewritten(new.h, k1, WordsOf(q, c)) /\ k1.fl = new.h.fl
        /\ \A k \in 0 .. c - 4 :
             q + k \in Arena /\ p + k \in Arena => Get(k1, q + k) = Get(new.h, p + k)
    <3>1. PICK u \in Machine : u = new.h
      BY <1>1, <1>3 DEF Holds
    <3>2. c \in Nat /\ p \in Nat /\ q \in Nat
      BY <2>6, <2>8
    <3>3. Copied(u, Copy(u, p, q, c), p, q, c)
      BY ONLY <3>2, u \in Machine, CopyFacts
    <3>4. k1 = Copy(u, p, q, c)
      BY <3>1
    <3> HIDE DEF k1
    <3>5. Copied(new.h, k1, p, q, c)
      BY <3>1, <3>3, <3>4
    <3> QED BY <3>5 DEF Copied
  <2> HIDE DEF k1
  <2>10. Rewritten(new.h, k1, Payload(A, q))
    <3> DEFINE T == WordsOf(q, c)
    <3>1. T \subseteq Payload(A, q)
      BY <2>6, <2>8 DEF Payload, WordsOf, DSIZE
    <3>2. Rewritten(new.h, k1, T)
      BY <2>9
    <3> HIDE DEF T
    <3> QED BY <3>1, <3>2, SameWordsFacts DEF Rewritten
  <2>11. Holds(k1, A, A.fl)
    BY <1>1, <1>3, <2>3, <2>9, <2>10, PayloadWords
  <2>12. /\ Proper(G) /\ P!Coalesced(G) /\ Holds(r.h, G, G.fl)
         /\ SameWords(k1, r.h, Zones(A, A.free \cup {p}))
    BY <1>1, <1>3, <2>3, <2>4, <2>11, FreeWords DEF G
  <2>13. Untouched(k1, r.h, A, P!Allocated(A) \ {p})
    BY <1>1, <1>3, <2>3, <2>12, FreeUntouched
  <2>14. Untouched(m, r.h, H, P!Allocated(H) \ {p})
    <3>1. ASSUME NEW x \in P!Allocated(H) \ {p}, NEW a \in Payload(H, x)
          PROVE  Get(r.h, a) = Get(m, a)
      <4>1. x \in P!Allocated(A) \ {p} /\ x # q /\ x \in P!Blocks(A)
        BY <2>2 DEF P!Allocated
      <4>2. A.size[x] = H.size[x]
        BY <2>2, <4>1 DEF P!SameBut
      <4>3. a \in Payload(A, x)
        BY <4>2 DEF Payload, P!End
      <4>4. Get(r.h, a) = Get(k1, a)
        BY <2>13, <4>1, <4>3 DEF Untouched
      <4>5. Get(k1, a) = Get(new.h, a)
        <5>1. P!End(A, x) <= q \/ P!End(A, q) <= x
          BY <2>3, <4>1, BlocksApart
        <5>2. x \in Nat /\ P!End(A, x) \in Nat
          BY <2>3, <4>1, BlockFacts
        <5>3. a \notin Payload(A, q)
          BY <4>3, <5>1, <5>2, <2>6 DEF Payload, DSIZE
        <5> QED BY <5>3, <2>10 DEF Rewritten, SameWords
      <4>6. Get(new.h, a) = Get(m, a)
        BY <2>5 DEF Untouched
      <4> QED BY <4>4, <4>5, <4>6
    <3> QED BY <3>1 DEF Untouched
  <2>15. ASSUME NEW k \in 0 .. n - 1, k % 4 = 0, k < old
         PROVE  Get(r.h, q + k) = Get(m, p + k)
    <3>1. q + k \in Payload(A, q) /\ q + k \in Arena /\ k + 4 <= n
      BY <2>3, <2>6, <2>15, WithinPayload
    <3>2. p + k \in Payload(H, p) /\ p + k \in Arena /\ k + 4 <= old
      <4>1. PICK j \in 0 .. old - 1 : j = k
        BY <2>15
      <4>2. p + j \in Payload(H, p) /\ p + j \in Arena /\ j + 4 <= old
        BY <2>1, <2>15, <4>1, WithinPayload
      <4> QED BY <4>1, <4>2
    <3>3. k \in 0 .. c - 4
      BY <2>6, <2>7, <3>1, <3>2 DEF cur
    <3>4. Get(r.h, q + k) = Get(k1, q + k)
      <4>1. q \in P!Allocated(A) \ {p}
        BY <2>3
      <4> QED BY <4>1, <2>13, <3>1 DEF Untouched
    <3>5. Get(k1, q + k) = Get(new.h, p + k)
      BY <2>9, <3>1, <3>2, <3>3
    <3>6. Get(new.h, p + k) = Get(m, p + k)
      BY <2>5, <3>2 DEF Untouched
    <3> QED BY <3>4, <3>5, <3>6
  <2>16. r.p = q
    BY <2>4
  <2>17. Carried(m, r.h, p, q, n, old)
    BY <2>15 DEF Carried
  <2> QED BY <1>3, <2>12, <2>14, <2>16, <2>17 DEF r, G, q, A, new, cur
<1> QED BY <1>2, <1>3

(* Which way mm_realloc goes.                                              *)
LEMMA ReallocCases ==
  ASSUME NEW H, Proper(H), P!Coalesced(H), NEW p \in P!Allocated(H),
         NEW n \in Nat, n < SizeT \div 2, NEW m, Holds(m, H, H.fl)
  PROVE  LET r == MMRealloc(m, p, n)
             next == P!End(H, p)
             bytes == P!BlockSize(n)
             w == Word(H.size[p] + H.size[next], 1)
         IN  /\ n = 0 => r = [h |-> MMFree(m, p), p |-> NULL]
             /\ n > 0 /\ bytes <= H.size[p] => r = [h |-> m, p |-> p]
             /\ n > 0 /\ bytes > H.size[p] /\ P!CanGrow(H, p, n) =>
                  r = [h |-> Place(Tag(RemoveFromFreeList(m, next), p, w), p, bytes), p |-> p]
             /\ n > 0 /\ bytes > H.size[p] /\ ~P!CanGrow(H, p, n) =>
                  r = Moved(MMMalloc(m, n), p, H.size[p], n)
<1> DEFINE r == MMRealloc(m, p, n)
           next == P!End(H, p)
           bytes == P!BlockSize(n)
           size == H.size[p]
           w == Word(size + H.size[next], 1)
           grown == [h |-> Place(Tag(RemoveFromFreeList(m, next), p, w), p, bytes), p |-> p]
           moved == Moved(MMMalloc(m, n), p, size, n)
<1>1. Fits(H) /\ p \in P!Blocks(H) /\ Tags(m, H) /\ p # NULL
  <2>1. Fits(H) /\ p \in P!Blocks(H) /\ Tags(m, H)
    BY DEF Proper, Holds, P!Allocated
  <2> QED BY <2>1, BlockWords, CellFacts
<1>2. SizeOf(m, p) = size /\ NextBlock(m, p) = next
      /\ next \in P!Blocks(H) \cup {H.brk} /\ size \in Nat
  BY <1>1, ReadBlock, BlockFacts
<1>3. BlockSize(n) = bytes /\ bytes \in Nat
  BY SizeWords
<1>4. IsAllocated(m, Header(next)) <=> next \notin H.free
  BY <1>1, <1>2, ReadNext
<1>5. next \in H.free => SizeOf(m, next) = H.size[next]
  <2>1. H.free \subseteq P!Blocks(H)
    BY <1>1 DEF Fits, P!HeapType
  <2> QED BY <1>1, <2>1, ReadBlock
<1>6. P!CanGrow(H, p, n) <=> next \in H.free /\ size + H.size[next] >= bytes
  BY DEF P!CanGrow
<1> DEFINE combined == size + SizeOf(m, next)
<1>7. r = IF n = 0 THEN [h |-> MMFree(m, p), p |-> NULL]
          ELSE IF bytes <= size THEN [h |-> m, p |-> p]
          ELSE IF ~IsAllocated(m, Header(next)) /\ combined >= bytes
          THEN [h |-> Place(Tag(RemoveFromFreeList(m, next), p, Word(combined, 1)), p, bytes),
                p |-> p]
          ELSE moved
  BY <1>1, <1>2, <1>3 DEF MMRealloc
<1> HIDE DEF r, next, bytes, size, moved
<1>8. n = 0 => r = [h |-> MMFree(m, p), p |-> NULL]
  BY <1>7
<1>9. n > 0 /\ bytes <= size => r = [h |-> m, p |-> p]
  BY <1>7
<1>10. ASSUME n > 0, bytes > size PROVE n # 0 /\ ~(bytes <= size)
  BY <1>2, <1>3, <1>10
<1>11. n > 0 /\ bytes > size /\ P!CanGrow(H, p, n) => r = grown
  BY <1>4, <1>5, <1>6, <1>7, <1>10
<1>12. n > 0 /\ bytes > size /\ ~P!CanGrow(H, p, n) => r = moved
  BY <1>4, <1>5, <1>6, <1>7, <1>10
<1> QED BY <1>8, <1>9, <1>11, <1>12 DEF r, next, bytes, size, moved

-----------------------------------------------------------------------------
(* mm_init.  It does not reset free_list, which may still point at what is *)
(* about to become the first block again.                                  *)

Links == {Base, Base + 4}

(* the first block's next word may point at the block itself               *)
LoneBlock(m) ==
  /\ m \in Machine /\ m.fl \in {NULL, Base}
  /\ Get(m, Base) \in {NULL, Base} /\ Get(m, Base + 4) = NULL

(* The words of the block right behind the prologue.                       *)
LEMMA BaseWords ==
  /\ Base \in Nat /\ Base # 0 /\ Base # NULL /\ Base # Base + 4
  /\ Base \in Arena /\ Base + 4 \in Arena /\ NULL \in Nat
<1>1. /\ Base \in Nat /\ Base % 8 = 0 /\ HeapLo <= Base /\ Base + 16 <= MaxHeap
      /\ HeapLo \in Nat /\ MaxHeap \in Nat /\ Base > 0
  BY BaseFacts, MemAssumption, ChunkAssumption
<1>2. Base \in Int /\ Base % 4 = 0 /\ Base + 4 \in Int /\ (Base + 4) % 4 = 0
  BY <1>1
<1>3. Base \in Arena /\ Base + 4 \in Arena
  BY <1>1, <1>2, WordAddress
<1> QED BY <1>1, <1>3 DEF NULL

(* Adding the first block to the list, whatever free_list held of it.      *)
LEMMA LoneListed ==
  ASSUME NEW m \in Machine, m.fl \in {NULL, Base}
  PROVE  LET g == AddToFreeList(m, Base)
         IN  Rewritten(m, g, Links) /\ LoneBlock(g)
<1> DEFINE m1 == Set(m, Base, m.fl)
           m2 == IF m.fl = NULL THEN m1 ELSE Set(m1, m.fl + 4, Base)
           m3 == Set(m2, Base + 4, NULL)
           g == AddToFreeList(m, Base)
<1>1. g = [m3 EXCEPT !.fl = Base]
  BY BaseWords DEF AddToFreeList, SetNext, SetPrev, WSIZE
<1>2. Written(m, m1, Base, m.fl)
  BY BaseWords, SetFacts
<1> HIDE DEF m1, g
<1>3. m2 = m1 \/ Written(m1, m2, Base + 4, Base)
  <2>1. m1 \in Machine
    BY <1>2 DEF Written
  <2>2. m.fl # NULL => m2 = Set(m1, Base + 4, Base)
    OBVIOUS
  <2>3. Written(m1, Set(m1, Base + 4, Base), Base + 4, Base)
    BY <2>1, BaseWords, SetFacts
  <2> QED BY <2>2, <2>3
<1> HIDE DEF m2
<1>4. Written(m2, m3, Base + 4, NULL)
  <2>1. m2 \in Machine
    BY <1>2, <1>3 DEF Written
  <2> QED BY <2>1, BaseWords, SetFacts
<1> HIDE DEF m3
<1>5. Rewritten(m3, g, {}) /\ g.fl = Base
  <2>1. m3 \in Machine
    BY <1>4 DEF Written
  <2> QED BY <2>1, <1>1, BaseWords, FlFacts
<1>6. g \in Machine /\ g.brk = m.brk /\ g.ok = m.ok
  BY <1>2, <1>3, <1>4, <1>5 DEF Written, Rewritten
<1>7. SameWords(m, g, Links)
  BY <1>2, <1>3, <1>4, <1>5 DEF Written, Rewritten, SameWords, Links
<1>8. Get(g, Base) = m.fl /\ Get(g, Base + 4) = NULL
  BY <1>2, <1>3, <1>4, <1>5, BaseWords DEF Written, Rewritten, SameWords
<1> QED BY <1>5, <1>6, <1>7, <1>8 DEF Rewritten, LoneBlock, g

(* Taking it off its list again leaves nothing else changed.               *)
LEMMA LoneUnlisted ==
  ASSUME NEW m, LoneBlock(m)
  PROVE  LET g == RemoveFromFreeList(m, Base)
         IN  Rewritten(m, g, Links) /\ g.fl \in {NULL, Base}
<1> DEFINE next == Get(m, Base)
           m1 == IF next = NULL THEN m ELSE Set(m, next + 4, NULL)
           g == RemoveFromFreeList(m, Base)
<1>1. m \in Machine /\ next \in {NULL, Base} /\ Get(m, Base + 4) = NULL
  BY DEF LoneBlock
<1>2. g = [m1 EXCEPT !.fl = next]
  BY <1>1, BaseWords DEF RemoveFromFreeList, PrevFree, NextFree, SetPrev, WSIZE
<1> HIDE DEF next, g
<1>3. m1 = m \/ Written(m, m1, Base + 4, NULL)
  <2>1. next # NULL => m1 = Set(m, Base + 4, NULL)
    BY <1>1
  <2>2. Written(m, Set(m, Base + 4, NULL), Base + 4, NULL)
    BY <1>1, BaseWords, SetFacts
  <2> QED BY <2>1, <2>2
<1> HIDE DEF m1
<1>4. Rewritten(m1, g, {}) /\ g.fl = next
  <2>1. m1 \in Machine /\ next \in Nat
    BY <1>1, <1>3, BaseWords DEF Written
  <2> QED BY <2>1, <1>2, FlFacts
<1>5. Rewritten(m, g, Links)
  BY <1>1, <1>3, <1>4 DEF Written, Rewritten, SameWords, Links
<1> QED BY <1>1, <1>4, <1>5 DEF g

(* The list of one.                                                        *)
LEMMA ListOnlyWords ==
  ASSUME NEW m \in Machine
  PROVE  LET g == ListOnly(m, Base)
         IN  Rewritten(m, g, Links) /\ Linked(g, <<Base>>)
<1> DEFINE m1 == Set(m, Base, NULL)
           m2 == Set(m1, Base + 4, NULL)
           g == ListOnly(m, Base)
<1>1. g = [m2 EXCEPT !.fl = Base]
  BY BaseWords DEF ListOnly, SetNext, SetPrev, WSIZE
<1>2. Written(m, m1, Base, NULL)
  BY BaseWords, SetFacts
<1> HIDE DEF m1, g
<1>3. Written(m1, m2, Base + 4, NULL)
  <2>1. m1 \in Machine
    BY <1>2 DEF Written
  <2> QED BY <2>1, BaseWords, SetFacts
<1> HIDE DEF m2
<1>4. Rewritten(m2, g, {}) /\ g.fl = Base
  <2>1. m2 \in Machine
    BY <1>3 DEF Written
  <2> QED BY <2>1, <1>1, BaseWords, FlFacts
<1>5. Rewritten(m, g, Links)
  BY <1>2, <1>3, <1>4 DEF Written, Rewritten, SameWords, Links
<1>6. Get(g, Base) = NULL /\ Get(g, Base + 4) = NULL
  BY <1>2, <1>3, <1>4, BaseWords DEF Written, Rewritten, SameWords
<1>7. Linked(g, <<Base>>)
  <2>1. Len(<<Base>>) = 1 /\ <<Base>>[1] = Base
    OBVIOUS
  <2>2. At(<<Base>>, 1) = Base /\ At(<<Base>>, 2) = NULL /\ At(<<Base>>, 0) = NULL
    BY <2>1 DEF At
  <2> QED BY <1>4, <1>6, <2>1, <2>2 DEF Linked, WSIZE
<1> QED BY <1>5, <1>7 DEF g

(* The frame around an empty heap.                                         *)
Empty == [brk |-> Base, size |-> P!NoBlock, free |-> {}, fl |-> <<>>]

(* A heap of prologue and epilogue alone.                                  *)
LEMMA EmptyFacts == Proper(Empty) /\ P!Coalesced(Empty) /\ Empty.free = {}
                    /\ P!Blocks(Empty) = {} /\ Empty.brk = Base
<1>1. /\ Empty.brk = Base /\ Empty.free = {} /\ P!Blocks(Empty) = {} /\ Empty.fl = <<>>
      /\ Empty.size = P!NoBlock
  BY DEF Empty, P!NoBlock, P!Blocks
<1>2. P!HeapType(Empty)
  <2>1. P!NoBlock \in [{} -> Nat]
    BY DEF P!NoBlock
  <2>2. <<>> \in Seq({})
    OBVIOUS
  <2>3. Empty = [brk |-> Empty.brk, size |-> Empty.size, free |-> Empty.free, fl |-> Empty.fl]
    BY DEF Empty
  <2> QED BY <1>1, <2>1, <2>2, <2>3, BaseFacts DEF P!HeapType
<1>3. P!Tiled(Empty)
  BY <1>1, BaseFacts DEF P!Tiled, P!Aligned
<1>4. P!FreeListExact(Empty) /\ P!Coalesced(Empty)
  BY <1>1 DEF P!FreeListExact, P!Coalesced, P!IsInjective, P!ToSet
<1>5. Base <= MaxHeap /\ Base <= Base
  BY BaseFacts, BlockAssumptions
<1> QED BY <1>1, <1>2, <1>3, <1>4, <1>5 DEF Proper, Fits

(* The first sixteen bytes: padding, prologue and epilogue.                *)
LEMMA FrameWords ==
  ASSUME NEW m \in Machine, m.brk = HeapLo
  PROVE  LET g == Frame(Sbrk(m, 16), HeapLo)
         IN  /\ SbrkResult(m, 16) = HeapLo /\ HeapLo # Failed
             /\ g \in Machine /\ g.brk = Base /\ g.ok = m.ok /\ g.fl = m.fl
             /\ Tags(g, Empty)
<1> DEFINE m0 == Sbrk(m, 16)
           m1 == Set(m0, HeapLo, 0)
           m2 == Set(m1, HeapLo + 4, 9)
           m3 == Set(m2, HeapLo + 8, 9)
           g == Set(m3, HeapLo + 12, 1)
<1>1. HeapLo \in Nat /\ HeapLo % 8 = 0 /\ MaxHeap \in Nat /\ HeapLo + 32 <= MaxHeap
      /\ SizeT \in Nat /\ 16 < SizeT /\ Base = HeapLo + 16
  BY MemAssumption, ChunkAssumption, BaseFacts
<1>2. /\ SbrkResult(m, 16) = HeapLo /\ HeapLo # Failed
      /\ m0 \in Machine /\ m0.brk = Base /\ m0.ok = m.ok /\ m0.fl = m.fl
  <2>1. HeapLo <= m.brk /\ 16 \in Nat /\ m.brk + 16 <= MaxHeap
    BY <1>1
  <2> QED BY <1>1, <2>1, SbrkFacts
<1>3. HeapLo \in Arena /\ HeapLo + 4 \in Arena /\ HeapLo + 8 \in Arena /\ HeapLo + 12 \in Arena
  <2>1. /\ HeapLo \in Int /\ HeapLo + 4 \in Int /\ HeapLo + 8 \in Int /\ HeapLo + 12 \in Int
        /\ HeapLo % 4 = 0 /\ (HeapLo + 4) % 4 = 0 /\ (HeapLo + 8) % 4 = 0
        /\ (HeapLo + 12) % 4 = 0
    BY <1>1
  <2> QED BY <1>1, <2>1, WordAddress
<1>4. Frame(m0, HeapLo) = g
  BY DEF Frame, Word, WSIZE, DSIZE
<1> HIDE DEF m0
<1>5. Written(m0, m1, HeapLo, 0)
  BY <1>2, <1>3, SetFacts
<1> HIDE DEF m1
<1>6. Written(m1, m2, HeapLo + 4, 9)
  <2>1. m1 \in Machine
    BY <1>5 DEF Written
  <2> QED BY <2>1, <1>3, SetFacts
<1> HIDE DEF m2
<1>7. Written(m2, m3, HeapLo + 8, 9)
  <2>1. m2 \in Machine
    BY <1>6 DEF Written
  <2> QED BY <2>1, <1>3, SetFacts
<1> HIDE DEF m3
<1>8. Written(m3, g, HeapLo + 12, 1)
  <2>1. m3 \in Machine
    BY <1>7 DEF Written
  <2> QED BY <2>1, <1>3, SetFacts
<1> HIDE DEF g
<1>9. g \in Machine /\ g.brk = Base /\ g.ok = m.ok /\ g.fl = m.fl
  BY <1>2, <1>5, <1>6, <1>7, <1>8 DEF Written
<1>10. /\ Get(g, HeapLo + 4) = 9 /\ Get(g, HeapLo + 8) = 9 /\ Get(g, HeapLo + 12) = 1
  BY <1>1, <1>6, <1>7, <1>8 DEF Written
<1>11. Ends(g, Base)
  <2>1. Base - 12 = HeapLo + 4 /\ Base - 8 = HeapLo + 8 /\ Base - 4 = HeapLo + 12
    BY <1>1
  <2> QED BY <2>1, <1>10 DEF Ends, Word, WSIZE, DSIZE
<1>12. Tags(g, Empty)
  BY <1>11, EmptyFacts DEF Tags
<1> QED BY <1>2, <1>4, <1>9, <1>12 DEF m0

(* The heap mm_init leaves: one free block.                                *)
LEMMA InitHeapIs ==
  LET K == P!Grown(Empty, Chunk)
      I == P!InitHeap
  IN  /\ I = [K EXCEPT !.fl = <<Base>>]
      /\ P!HeapType(K) /\ K.free = {Base} /\ P!Blocks(K) = {Base} /\ K.brk = Base + Chunk
      /\ K.size[Base] = Chunk /\ P!End(K, Base) = Base + Chunk /\ Base + Chunk # Base
<1> DEFINE K == P!Grown(Empty, Chunk)
           I == P!InitHeap
<1>1. /\ Chunk \in Nat /\ Chunk % 8 = 0 /\ Chunk >= 16 /\ Base \in Nat /\ P!Base = Base
  BY ChunkAssumption, BaseFacts
<1>2. P!Sound(Empty) /\ P!Coalesced(Empty) /\ Empty.brk = Base /\ Empty.free = {}
      /\ P!Blocks(Empty) = {} /\ Empty.fl = <<>>
  BY EmptyFacts, ProperIsSound DEF Empty
<1>3. /\ P!Sound(K) /\ K.brk = Base + Chunk /\ K.free = {Base}
      /\ K.fl = P!Push(<<>>, Base) /\ P!Blocks(K) = {Base}
      /\ K.size[Base] = Chunk /\ P!End(K, Base) = Base + Chunk
  BY <1>1, <1>2, BlockAssumptions, P!GrownFacts
<1>4. I = P!Coalesce(K, Base)
  BY <1>1, <1>2 DEF P!InitHeap, P!Extend, P!Grown, Empty
<1>5. Base + Chunk # Base /\ Base + Chunk \notin K.free
  BY <1>1, <1>3
<1> HIDE DEF K
<1>6. {p \in K.free : P!End(K, p) = Base} = {}
  BY <1>3, <1>5
<1>7. I = [K EXCEPT !.fl = P!Push(P!Unlink(K.fl, Base), Base)]
  BY <1>3, <1>4, <1>5, <1>6 DEF P!Coalesce
<1>8. P!Unlink(K.fl, Base) = <<>>
  <2> DEFINE u == P!Unlink(K.fl, Base)
  <2>1. K.fl \in Seq({Base}) /\ P!IsInjective(K.fl) /\ P!ToSet(K.fl) = {Base}
    BY <1>3 DEF P!Sound, P!HeapType, P!FreeListExact
  <2>2. u \in Seq({Base}) /\ P!ToSet(u) = P!ToSet(K.fl) \ {Base}
    BY <2>1, BlockAssumptions, P!UnlinkFacts
  <2>3. P!ToSet(u) = {}
    BY <2>1, <2>2
  <2> HIDE DEF u
  <2>4. Len(u) = 0
    <3> SUFFICES ASSUME Len(u) # 0 PROVE FALSE
      OBVIOUS
    <3>1. 1 \in DOMAIN u
      BY <2>2
    <3> QED BY <2>3, <3>1 DEF P!ToSet
  <2> QED BY <2>2, <2>4 DEF u
<1>9. P!Push(<<>>, Base) = <<Base>>
  BY DEF P!Push
<1>10. I = [K EXCEPT !.fl = <<Base>>]
  BY <1>7, <1>8, <1>9
<1> QED BY <1>3, <1>5, <1>10 DEF P!Sound, K

(* mm_init leaves one free block, as InitHeap, on a heap whose free_list   *)
(* is empty or points at what was its only block.                          *)
THEOREM InitWords ==
  ASSUME NEW m \in Machine, m.ok, m.brk = HeapLo, m.fl \in {NULL, Base}
  PROVE  LET g == MMInit(m).h
             I == P!InitHeap
         IN  Proper(I) /\ P!Coalesced(I) /\ Holds(g, I, I.fl)
<1> DEFINE K == P!Grown(Empty, Chunk)
           I == P!InitHeap
           g1 == Frame(Sbrk(m, 16), HeapLo)
           g2 == Extended(g1, Chunk)
           g3 == AddToFreeList(g2, Base)
           g4 == RemoveFromFreeList(g3, Base)
           g5 == AddToFreeList(g4, Base)
           g == ListOnly(g5, Base)
           x == ExtendHeap(g1, Chunk \div WSIZE)
<1>1. /\ Chunk \in Nat /\ Chunk % 8 = 0 /\ Chunk >= 16 /\ Base + Chunk <= MaxHeap
      /\ Chunk < SizeT /\ Base \in Nat /\ P!Base = Base /\ HeapLo <= Base
  <2>1. /\ Chunk \in Nat /\ Chunk % 8 = 0 /\ Chunk >= 16 /\ HeapLo + 16 + Chunk <= MaxHeap
        /\ HeapLo \in Nat /\ MaxHeap \in Nat /\ SizeT \in Nat
        /\ MaxHeap - HeapLo < SizeT \div 2
    BY MemAssumption, ChunkAssumption
  <2>2. Base = HeapLo + 16 /\ Base \in Nat /\ P!Base = Base
    BY BaseFacts
  <2> QED BY <2>1, <2>2
<1>2. /\ SbrkResult(m, 16) = HeapLo /\ HeapLo # Failed
      /\ g1 \in Machine /\ g1.brk = Base /\ g1.ok = m.ok /\ g1.fl = m.fl /\ Tags(g1, Empty)
  BY FrameWords
<1>3. /\ I = [K EXCEPT !.fl = <<Base>>]
      /\ P!HeapType(K) /\ K.free = {Base} /\ P!Blocks(K) = {Base} /\ K.brk = Base + Chunk
      /\ K.size[Base] = Chunk /\ P!End(K, Base) = Base + Chunk /\ Base + Chunk # Base
  BY InitHeapIs
<1>4. Proper(Empty) /\ P!Coalesced(Empty) /\ Empty.brk = Base
  BY EmptyFacts
<1> HIDE DEF K, I, g1
<1>5. /\ g2 \in Machine /\ g2.ok = m.ok /\ g2.brk = K.brk /\ g2.fl = m.fl
      /\ Tags(g2, K) /\ Proper(K)
  BY <1>1, <1>2, <1>4, GrownWords DEF K
<1>6. x = Coalesce(g3, Base)
  <2>1. (IF (Chunk \div WSIZE) % 2 = 1 THEN (Chunk \div WSIZE + 1) * WSIZE
         ELSE (Chunk \div WSIZE) * WSIZE) = Chunk
    BY <1>1, WordCount DEF WSIZE
  <2>2. SbrkResult(g1, Chunk) = Base /\ Base # Failed
    BY <1>1, <1>2, SbrkFacts
  <2> QED BY <1>2, <2>1, <2>2 DEF ExtendHeap, Extended
<1> HIDE DEF g2
<1>7. Rewritten(g2, g3, Links) /\ LoneBlock(g3)
  BY <1>5, LoneListed
<1> HIDE DEF g3
<1>8. Rewritten(g3, g4, Links) /\ g4.fl \in {NULL, Base}
  BY <1>7, LoneUnlisted
<1> HIDE DEF g4
<1>9. Rewritten(g4, g5, Links) /\ LoneBlock(g5)
  <2>1. g4 \in Machine
    BY <1>8 DEF Rewritten
  <2> QED BY <2>1, <1>8, LoneListed
<1> HIDE DEF g5
<1>10. Rewritten(g5, g, Links) /\ Linked(g, <<Base>>)
  BY <1>9, ListOnlyWords DEF LoneBlock
<1>11. ListWords(P!Blocks(K)) = Links
  BY <1>3 DEF ListWords, Links, WSIZE
<1>12. Fits(K)
  BY <1>5 DEF Proper
<1>13. Tags(g3, K)
  BY <1>5, <1>7, <1>11, <1>12, TagsApartFromList DEF Rewritten
<1>14. x = [h |-> g5, p |-> Base]
  <2> DEFINE prev == PrevBlock(g3, Base)
             next == NextBlock(g3, Base)
             pa == IsAllocated(g3, Footer(g3, prev))
             na == IsAllocated(g3, Header(next))
             size == SizeOf(g3, Base)
  <2>1. /\ next = P!End(K, Base)
        /\ na <=> next \notin K.free
        /\ pa <=> prev \notin K.free
        /\ prev \in K.free => P!End(K, prev) = Base
    BY <1>3, <1>12, <1>13, Neighbours
  <2>2. pa /\ na
    BY <1>3, <2>1
  <2>3. ~IsAllocated(g3, Header(Base))
    BY <1>3, <1>12, <1>13, ReadBlock
  <2> HIDE DEF prev, next, pa, na, size
  <2>4. UnlistUnless(pa, UnlistUnless(na, g3, next), prev) = g3
    BY <2>2 DEF UnlistUnless
  <2>5. UnlistUnless(IsAllocated(g3, Header(Base)), g3, Base) = g4
    BY <2>3 DEF UnlistUnless, g4
  <2>6. Merged(g4, Base, prev, next, pa, na, size) = g4
    BY <2>2 DEF Merged
  <2>7. Coalesce(g3, Base) = [h |-> AddToFreeList(g4, Base), p |-> Base]
    BY <2>2, <2>4, <2>5, <2>6 DEF Coalesce, prev, next, pa, na, size
  <2> QED BY <1>6, <2>7 DEF g5
<1> HIDE DEF x
<1>15. MMInit(m) = [h |-> g, p |-> 0]
  <2>1. MMInit(m) = Started(ExtendHeap(Frame(Sbrk(m, 16), HeapLo), Chunk \div WSIZE))
    BY <1>2 DEF MMInit, WSIZE
  <2>2. MMInit(m) = Started(x)
    BY <2>1 DEF x, g1
  <2> QED BY <2>2, <1>14, BaseWords DEF Started
<1> HIDE DEF g
<1>16. /\ Rewritten(g2, g, Links)
  BY <1>7, <1>8, <1>9, <1>10, SameWordsFacts DEF Rewritten
<1>17. Holds(g, K, <<Base>>)
  <2>1. Tags(g, K)
    BY <1>5, <1>11, <1>12, <1>16, TagsApartFromList DEF Rewritten
  <2> QED BY <2>1, <1>5, <1>10, <1>16 DEF Holds, Rewritten
<1>18. Holds(g, I, I.fl)
  <2>1. \A n, t : Holds(n, K, t) => Holds(n, I, t)
    BY <1>3, Relisted
  <2>2. I.fl = <<Base>>
    BY <1>3, Relisted
  <2> QED BY <1>17, <2>1, <2>2
<1>19. Proper(I) /\ P!Coalesced(I)
  <2>1. P!Settled(I) /\ I.brk = Base + Chunk
    BY <1>1, BlockAssumptions, P!InitHeapFacts DEF I
  <2>2. Base <= I.brk /\ I.brk <= MaxHeap
    BY <1>1, <2>1
  <2> QED BY <2>1, <2>2 DEF P!Settled, P!Sound, Proper, Fits
<1>20. MMInit(m).h = g
  BY <1>15
<1> QED BY <1>18, <1>19, <1>20 DEF I

-----------------------------------------------------------------------------
(* The heap read back from the words.                                      *)

(* the blocks met from the first on, header by header                      *)
Stepped(g, f, n) ==
  f = [k \in 0 .. n |-> IF k = 0 THEN Base ELSE NextBlock(g, f[k - 1])]

(* The walk along the headers exists.                                      *)
LEMMA SomeWalk ==
  ASSUME NEW g, NEW n \in Nat
  PROVE  \E f : Stepped(g, f, n)
<1> DEFINE bad == {k \in Nat : ~ \E f : Stepped(g, f, k)}
<1> SUFFICES ASSUME bad # {} PROVE FALSE
  OBVIOUS
<1>1. PICK k \in bad : \A j \in bad : k <= j
  <2>1. bad \subseteq Nat
    OBVIOUS
  <2> HIDE DEF bad
  <2> QED BY <2>1, BlockAssumptions, P!LeastElement
<1>2. k # 0
  <2> SUFFICES ASSUME k = 0 PROVE FALSE
    OBVIOUS
  <2> DEFINE f == [i \in 0 .. 0 |-> Base]
  <2>1. f = [i \in 0 .. 0 |-> IF i = 0 THEN Base ELSE NextBlock(g, f[i - 1])]
    OBVIOUS
  <2> HIDE DEF f
  <2>2. Stepped(g, f, 0)
    BY <2>1 DEF Stepped
  <2> QED BY <2>2
<1>3. k - 1 \in Nat /\ k - 1 \notin bad
  BY <1>1, <1>2
<1>4. PICK f : Stepped(g, f, k - 1)
  BY <1>3
<1> DEFINE e == [i \in 0 .. k |-> IF i = k THEN NextBlock(g, f[k - 1]) ELSE f[i]]
<1>5. ASSUME NEW i \in 0 .. k
      PROVE  e[i] = IF i = 0 THEN Base ELSE NextBlock(g, e[i - 1])
  <2>1. CASE i = k
    <3>1. e[i] = NextBlock(g, f[k - 1]) /\ i # 0
      BY <1>2, <2>1
    <3>2. k - 1 \in 0 .. k /\ k - 1 # k
      BY <1>3
    <3>3. e[i - 1] = f[k - 1]
      BY <2>1, <3>2
    <3> QED BY <3>1, <3>3
  <2>2. CASE i # k
    <3>1. i \in 0 .. k - 1 /\ e[i] = f[i]
      BY <2>2
    <3>2. f[i] = IF i = 0 THEN Base ELSE NextBlock(g, f[i - 1])
      BY <3>1, <1>4 DEF Stepped
    <3>3. i # 0 => i - 1 \in 0 .. k /\ i - 1 # k
      BY <2>2
    <3>4. i # 0 => e[i - 1] = f[i - 1]
      BY <3>3
    <3> QED BY <3>1, <3>2, <3>4
  <2> QED BY <2>1, <2>2
<1>6. Stepped(g, e, k)
  <2>1. e = [i \in 0 .. k |-> e[i]]
    OBVIOUS
  <2> HIDE DEF e
  <2> QED BY <2>1, <1>5 DEF Stepped
<1> HIDE DEF e
<1> QED BY <1>1, <1>6

(* Walking from header to header meets the heap's blocks.                  *)
LEMMA BlocksOfWords ==
  ASSUME NEW H, Fits(H), NEW g, Tags(g, H)
  PROVE  BlocksOf(g) = P!Blocks(H)
<1> DEFINE nth == CHOOSE f : Stepped(g, f, Steps)
           B == P!Blocks(H)
<1>1. BlocksOf(g) = {b \in {nth[k] : k \in 0 .. Steps} : SizeOf(g, b) > 0}
  BY DEF BlocksOf, Stepped
<1>2. Stepped(g, nth, Steps)
  BY StepsType, SomeWalk
<1> HIDE DEF nth
<1>3. /\ nth[0] = Base /\ Steps \in Nat
      /\ \A k \in 0 .. Steps : k # 0 => nth[k] = NextBlock(g, nth[k - 1])
  BY <1>2, StepsType DEF Stepped
<1>4. /\ B \subseteq Nat /\ H.brk \in Nat /\ Base \in Nat /\ Base \in B \cup {H.brk}
  BY BaseFacts DEF Fits, P!HeapType, P!Tiled
<1>5. SizeOf(g, H.brk) = 0 /\ NextBlock(g, H.brk) = H.brk
  BY <1>4, EpilogueWords DEF NextBlock
<1>6. ASSUME NEW b \in B
      PROVE  /\ SizeOf(g, b) = H.size[b] /\ H.size[b] \in Nat /\ H.size[b] >= 16
             /\ NextBlock(g, b) = P!End(H, b) /\ P!End(H, b) = b + H.size[b]
             /\ P!End(H, b) \in B \cup {H.brk} /\ b >= Base /\ P!End(H, b) <= H.brk
  BY ReadBlock, BlockFacts
<1>7. \A k \in 0 .. Steps : nth[k] \in B \cup {H.brk}
  <2> DEFINE bad == {k \in 0 .. Steps : nth[k] \notin B \cup {H.brk}}
  <2> SUFFICES ASSUME bad # {} PROVE FALSE
    OBVIOUS
  <2>1. PICK k \in bad : \A j \in bad : k <= j
    <3>1. bad \subseteq Nat
      OBVIOUS
    <3> HIDE DEF bad
    <3> QED BY <3>1, BlockAssumptions, P!LeastElement
  <2>2. k # 0
    BY <1>3, <1>4
  <2>3. k - 1 \in 0 .. Steps /\ k - 1 \notin bad
    BY <1>3, <2>1, <2>2
  <2>4. nth[k - 1] \in B \cup {H.brk}
    BY <2>3
  <2>5. nth[k] = NextBlock(g, nth[k - 1])
    BY <1>3, <2>2
  <2>6. NextBlock(g, nth[k - 1]) \in B \cup {H.brk}
    BY <2>4, <1>5, <1>6
  <2> QED BY <2>5, <2>6
<1>8. BlocksOf(g) \subseteq B
  BY <1>1, <1>5, <1>7
<1> DEFINE Reached(b) == \E k \in 0 .. Steps : nth[k] = b /\ 16 * k <= b - Base
<1>9. \A b \in B : Reached(b)
  <2> DEFINE bad == {b \in B : ~Reached(b)}
  <2> SUFFICES ASSUME bad # {} PROVE FALSE
    OBVIOUS
  <2>1. PICK b \in bad : \A c \in bad : b <= c
    <3>1. bad \subseteq Nat
      BY <1>4
    <3> HIDE DEF bad
    <3> QED BY <3>1, BlockAssumptions, P!LeastElement
  <2>2. b # Base
    <3> SUFFICES ASSUME b = Base PROVE FALSE
      OBVIOUS
    <3>1. 0 \in 0 .. Steps /\ nth[0] = b /\ 16 * 0 <= b - Base
      BY <1>3, <1>4
    <3> QED BY <3>1
  <2>3. PICK c \in B : P!End(H, c) = b
    <3>1. b \in (P!Blocks(H) \cup {H.brk}) \ {P!Base}
      BY <2>1, <2>2, BaseFacts
    <3>2. \A c \in (P!Blocks(H) \cup {H.brk}) \ {P!Base} : \E a \in P!Blocks(H) : P!End(H, a) = c
      BY DEF Fits, P!Tiled
    <3> QED BY <3>1, <3>2
  <2>4. c \in Nat /\ b \in Nat /\ b = c + H.size[c] /\ H.size[c] \in Nat /\ H.size[c] >= 16
    BY <1>4, <1>6, <2>3
  <2>5. c \notin bad
    BY <2>1, <2>4
  <2>6. PICK k \in 0 .. Steps : nth[k] = c /\ 16 * k <= c - Base
    BY <2>5
  <2>7. 16 * (k + 1) <= b - Base
    BY <2>4, <2>6, <1>4, <1>3
  <2>8. k + 1 \in 0 .. Steps
    <3>1. b <= H.brk /\ H.brk <= MaxHeap /\ Base = HeapLo + 16 /\ HeapLo \in Nat /\ MaxHeap \in Nat
      BY <1>6, <1>4, <2>3, BaseFacts, MemAssumption DEF Fits
    <3>2. 16 * (k + 1) <= MaxHeap - HeapLo /\ k + 1 \in Nat
      BY <2>4, <2>7, <3>1, <1>3, <1>4
    <3>3. k + 1 <= (MaxHeap - HeapLo) \div 16
      BY <3>1, <3>2
    <3> QED BY <3>1, <3>2, <3>3 DEF Steps
  <2>9. nth[k + 1] = b
    <3>1. nth[k + 1] = NextBlock(g, nth[(k + 1) - 1]) /\ (k + 1) - 1 = k
      BY <1>3, <2>8
    <3> QED BY <3>1, <2>3, <2>6, <1>6
  <2> QED BY <2>7, <2>8, <2>9
<1>10. B \subseteq BlocksOf(g)
  BY <1>1, <1>6, <1>9
<1> QED BY <1>8, <1>10

(* Following free_list meets the heap's free list.                         *)
LEMMA FreeListOfWords ==
  ASSUME NEW H, Fits(H), NEW s, ListOver(s, H.free), NEW g, Linked(g, s)
  PROVE  FreeListOf(g) = s
<1> DEFINE nth == Walk(g)
           T == {k \in 0 .. Steps : nth[k] = NULL} \cup {Steps}
<1>1. /\ Len(s) \in Nat /\ Steps \in Nat /\ Len(s) <= Steps /\ s \in Seq(H.free)
  BY ListShort DEF ListOver
<1>2. s \in Seq(Cells) /\ \A i \in 1 .. Len(s) : s[i] # NULL
  <2>1. H.free \subseteq Cells
    BY BlockWords DEF Fits, P!HeapType
  <2>2. s \in Seq(Cells)
    BY <1>1, <2>1
  <2> QED BY <2>2, CellFacts
<1>3. \A k \in 0 .. Steps : nth[k] = At(s, k + 1)
  BY <1>2, WalkFacts
<1> HIDE DEF nth
<1>4. T \subseteq Nat /\ Len(s) \in T /\ \A k \in T : Len(s) <= k
  <2>1. Len(s) \in 0 .. Steps /\ nth[Len(s)] = NULL
    BY <1>1, <1>3 DEF At
  <2>2. ASSUME NEW k \in 0 .. Steps, nth[k] = NULL PROVE Len(s) <= k
    <3> SUFFICES ASSUME ~(Len(s) <= k) PROVE FALSE
      OBVIOUS
    <3>1. k + 1 \in 1 .. Len(s)
      BY <1>1
    <3>2. nth[k] = s[k + 1]
      BY <1>3, <3>1 DEF At
    <3> QED BY <2>2, <3>1, <3>2, <1>2
  <2> QED BY <2>1, <2>2, <1>1
<1> HIDE DEF T
<1>5. Min(T) = Len(s)
  <2>1. \A x, y \in T : x <= y /\ y <= x => x = y
    BY <1>4
  <2> QED BY <2>1, <1>4 DEF Min
<1>6. FreeListOf(g) = [k \in 1 .. Len(s) |-> nth[k - 1]]
  BY <1>5 DEF FreeListOf, nth, T
<1>7. \A k \in 1 .. Len(s) : nth[k - 1] = s[k]
  <2> TAKE k \in 1 .. Len(s)
  <2>1. k - 1 \in 0 .. Steps /\ (k - 1) + 1 = k
    BY <1>1
  <2> QED BY <2>1, <1>3 DEF At
<1>8. s = [k \in 1 .. Len(s) |-> s[k]]
  BY <1>1
<1> QED BY <1>6, <1>7, <1>8

(* The heap read back is the heap.                                         *)
THEOREM HeapOfWords ==
  ASSUME NEW H, Proper(H), NEW g, Tags(g, H), Linked(g, H.fl), g.brk = H.brk
  PROVE  HeapOf(g) = H
<1>1. Fits(H) /\ ListOver(H.fl, H.free)
  BY ProperIsSound DEF Proper
<1>2. BlocksOf(g) = P!Blocks(H) /\ FreeListOf(g) = H.fl
  BY <1>1, BlocksOfWords, FreeListOfWords
<1>3. \A b \in P!Blocks(H) :
        SizeOf(g, b) = H.size[b] /\ (IsAllocated(g, Header(b)) <=> b \notin H.free)
  BY <1>1, ReadBlock
<1>4. H = [brk |-> H.brk, size |-> H.size, free |-> H.free, fl |-> H.fl]
      /\ H.size \in [P!Blocks(H) -> Nat] /\ H.free \subseteq P!Blocks(H)
  BY <1>1 DEF Fits, P!HeapType
<1>5. H.size = [b \in BlocksOf(g) |-> SizeOf(g, b)]
  BY <1>2, <1>3, <1>4
<1>6. H.free = {b \in BlocksOf(g) : ~IsAllocated(g, Header(b))}
  BY <1>2, <1>3, <1>4
<1> QED BY <1>1, <1>2, <1>4, <1>5, <1>6 DEF HeapOf

=============================================================================
