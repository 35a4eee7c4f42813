-------------------------- MODULE RangeListProofs --------------------------
(***************************************************************************)
(* Proofs about RangeList, for every heap extent, and for a package that   *)
(* may return any address for a request of any length.                     *)
(***************************************************************************)
EXTENDS RangeList, TLAPS

(* What holds of a list that add_range and remove_range have made.  The    *)
(* starts being unique is not a consequence of the clause before it: two   *)
(* extents of one start meet, and neither encloses the other, so it is.    *)
Sound(list) ==
  /\ list \in Seq(Extents)
  /\ \A i, j \in DOMAIN list :
       i < j /\ Meet(list[i], list[j]) => Encloses(list[i], list[j])

Inv == Sound(ranges)

-----------------------------------------------------------------------------
(* An extent of the heap is a record of two integers, in order.            *)
LEMMA ExtentFacts ==
  ASSUME NEW r \in Extents
  PROVE  /\ r.lo \in Int /\ r.hi \in Int /\ r.lo <= r.hi
         /\ LowEnd <= r.lo /\ r.hi <= HighEnd
BY ExtentAssumption DEF Extents

(* Taking one record out keeps the order of the others.                    *)
LEMMA RemoveAtFacts ==
  ASSUME NEW S, NEW list \in Seq(S), NEW k \in DOMAIN list
  PROVE  /\ RemoveAt(list, k) \in Seq(S)
         /\ Len(RemoveAt(list, k)) = Len(list) - 1
         /\ \A i \in 1 .. Len(list) - 1 :
              RemoveAt(list, k)[i] = IF i < k THEN list[i] ELSE list[i + 1]
<1>1. k \in 1 .. Len(list) /\ Len(list) \in Nat
  OBVIOUS
<1> DEFINE a == SubSeq(list, 1, k - 1)
           b == SubSeq(list, k + 1, Len(list))
<1>2. a \in Seq(S) /\ Len(a) = k - 1 /\ \A i \in 1 .. k - 1 : a[i] = list[i]
  BY <1>1
<1>3. b \in Seq(S) /\ Len(b) = Len(list) - k
  BY <1>1
<1>4. \A i \in 1 .. Len(list) - k : b[i] = list[i + k]
  BY <1>1
<1> HIDE DEF a, b
<1>5. a \o b \in Seq(S) /\ Len(a \o b) = Len(list) - 1
  BY <1>1, <1>2, <1>3
<1>6. ASSUME NEW i \in 1 .. Len(list) - 1
      PROVE  (a \o b)[i] = IF i < k THEN list[i] ELSE list[i + 1]
  <2>1. (a \o b)[i] = IF i <= k - 1 THEN a[i] ELSE b[i - (k - 1)]
    BY <1>1, <1>2, <1>3, SMTT(30)
  <2>2. CASE i < k
    BY <2>1, <2>2, <1>1, <1>2
  <2>3. CASE ~(i < k)
    <3>1. i - (k - 1) \in 1 .. Len(list) - k
      BY <2>3, <1>1
    <3>2. b[i - (k - 1)] = list[i + 1]
      BY <3>1, <1>4, <1>1, SMTT(30)
    <3> QED BY <3>2, <2>1, <2>3, <1>1
  <2> QED BY <2>2, <2>3
<1>7. RemoveAt(list, k) = a \o b
  BY DEF a, b, RemoveAt
<1> QED BY <1>5, <1>6, <1>7

(* In a sound list no two records start at one address.                    *)
LEMMA SoundIsUnique ==
  ASSUME NEW list, Sound(list), NEW i \in DOMAIN list, NEW j \in DOMAIN list,
         list[i].lo = list[j].lo
  PROVE  i = j
<1>1. i \in Nat /\ j \in Nat /\ list[i] \in Extents /\ list[j] \in Extents
  BY DEF Sound
<1>2. ASSUME NEW k \in DOMAIN list, NEW l \in DOMAIN list, k < l, list[k].lo = list[l].lo
      PROVE  FALSE
  <2>1. list[k] \in Extents /\ list[l] \in Extents
    BY DEF Sound
  <2>2. Meet(list[k], list[l]) /\ ~Encloses(list[k], list[l])
    BY <1>2, <2>1, ExtentFacts DEF Meet, Encloses
  <2> QED BY <1>2, <2>2 DEF Sound
<1> QED BY <1>1, <1>2

(* remove_range leaves a sound list sound, and without any record that     *)
(* starts at lo: the first match it stops at is the only one.              *)
LEMMA RemovedFacts ==
  ASSUME NEW list, Sound(list), NEW lo
  PROVE  /\ Sound(Removed(list, lo))
         /\ \A i \in DOMAIN Removed(list, lo) : Removed(list, lo)[i].lo # lo
<1>1. CASE ~\E i \in DOMAIN list : list[i].lo = lo
  BY <1>1 DEF Removed
<1>2. ASSUME NEW m \in DOMAIN list, list[m].lo = lo
      PROVE  /\ Sound(Removed(list, lo))
             /\ \A i \in DOMAIN Removed(list, lo) : Removed(list, lo)[i].lo # lo
  <2> DEFINE First(i) == /\ list[i].lo = lo
                         /\ \A j \in DOMAIN list : list[j].lo = lo => i <= j
             t == RemoveAt(list, m)
  <2>1. list \in Seq(Extents) /\ DOMAIN list \subseteq Nat
    BY DEF Sound
  <2>2. First(m)
    <3>1. ASSUME NEW j \in DOMAIN list, list[j].lo = lo PROVE m <= j
      <4>1. m = j /\ m \in Nat
        BY <1>2, <2>1, <3>1, SoundIsUnique
      <4> QED BY <4>1
    <3> QED BY <1>2, <3>1
  <2>3. \A i \in DOMAIN list : First(i) => i = m
    BY <1>2, SoundIsUnique
  <2>4. (CHOOSE i \in DOMAIN list : First(i)) = m
    BY <2>2, <2>3
  <2>5. Removed(list, lo) = t
    BY <1>2, <2>4 DEF Removed
  <2>6. /\ t \in Seq(Extents) /\ Len(t) = Len(list) - 1
        /\ DOMAIN t = 1 .. Len(list) - 1
        /\ \A i \in 1 .. Len(list) - 1 : t[i] = IF i < m THEN list[i] ELSE list[i + 1]
    <3>1. /\ t \in Seq(Extents) /\ Len(t) = Len(list) - 1
          /\ \A i \in 1 .. Len(list) - 1 :
               t[i] = IF i < m THEN list[i] ELSE list[i + 1]
      BY <2>1, RemoveAtFacts, Zenon
    <3> HIDE DEF t, First
    <3> QED BY <3>1
  <2> HIDE DEF t, First
  <2> DEFINE At(i) == IF i < m THEN i ELSE i + 1
  <2>7. ASSUME NEW i \in DOMAIN t
        PROVE  t[i] = list[At(i)] /\ At(i) \in DOMAIN list /\ At(i) # m
    <3>1. /\ i \in 1 .. Len(list) - 1 /\ m \in 1 .. Len(list) /\ Len(list) \in Nat
          /\ DOMAIN list = 1 .. Len(list)
      BY <1>2, <2>1, <2>6
    <3>2. At(i) \in 1 .. Len(list) /\ At(i) # m
      BY <3>1
    <3> QED BY <3>1, <3>2, <2>6
  <2>8. ASSUME NEW i \in DOMAIN t, NEW j \in DOMAIN t, i < j PROVE At(i) < At(j)
    <3>1. i \in Nat /\ j \in Nat /\ m \in Nat
      BY <2>1, <2>6
    <3> QED BY <3>1, <2>8
  <2> HIDE DEF At
  <2>9. ASSUME NEW i \in DOMAIN t, NEW j \in DOMAIN t, i < j, Meet(t[i], t[j])
        PROVE  Encloses(t[i], t[j])
    BY <2>7, <2>8, <2>9 DEF Sound
  <2>10. ASSUME NEW i \in DOMAIN t PROVE t[i].lo # lo
    BY <1>2, <2>7, SoundIsUnique
  <2> QED BY <2>5, <2>6, <2>9, <2>10 DEF Sound
<1> QED BY <1>1, <1>2

(* A payload add_range has no complaint of lies in the heap, and no end of *)
(* it lies in a recorded one.                                              *)
LEMMA NoComplaint ==
  ASSUME NEW list, NEW lo, NEW size,
         Complaint(list, lo, size, LowEnd, HighEnd) = "none"
  PROVE  /\ ~OutsideHeap(Extent(lo, size), LowEnd, HighEnd)
         /\ \A i \in DOMAIN list : ~Overlaps(Extent(lo, size), list[i])
BY Zenon DEF Complaint

(* Such a payload, put first, leaves a sound list sound: it meets a record *)
(* only if both its ends are outside that record.                          *)
LEMMA AddedFacts ==
  ASSUME NEW list, Sound(list), NEW lo \in Int, NEW size \in Nat \ {0},
         ~OutsideHeap(Extent(lo, size), LowEnd, HighEnd),
         \A i \in DOMAIN list : ~Overlaps(Extent(lo, size), list[i])
  PROVE  Sound(Added(list, lo, size))
<1>1. PICK r : r = Extent(lo, size)
  OBVIOUS
<1>2. ~OutsideHeap(r, LowEnd, HighEnd) /\ \A i \in DOMAIN list : ~Overlaps(r, list[i])
  BY <1>1
<1>3. r \in Extents
  <2>1. r = [lo |-> lo, hi |-> lo + size - 1]
    BY <1>1 DEF Extent
  <2> QED BY <2>1, <1>2, ExtentAssumption DEF OutsideHeap, Extents
<1>4. list \in Seq(Extents)
  BY DEF Sound
<1>5. PICK n \in Nat : n = Len(list) /\ DOMAIN list = 1 .. n
  BY <1>4
<1>6. PICK t : t = <<r>> \o list /\ t = Added(list, lo, size)
  BY <1>1 DEF Added
<1>7. t \in Seq(Extents) /\ DOMAIN t = 1 .. n + 1
  BY <1>3, <1>4, <1>5, <1>6
<1>8. t[1] = r /\ \A i \in 2 .. n + 1 : t[i] = list[i - 1] /\ i - 1 \in DOMAIN list
  BY <1>3, <1>4, <1>5, <1>6
<1>9. ASSUME NEW i \in DOMAIN list, Meet(r, list[i]) PROVE Encloses(r, list[i])
  <2>1. list[i] \in Extents
    BY <1>4
  <2>2. ~Overlaps(r, list[i])
    BY <1>2
  <2>3. /\ r.lo \in Int /\ r.hi \in Int /\ r.lo <= r.hi
        /\ list[i].lo \in Int /\ list[i].hi \in Int /\ list[i].lo <= list[i].hi
    BY <1>3, <2>1, ExtentFacts
  <2> QED BY <2>2, <2>3, <1>9 DEF Overlaps, Meet, Encloses
<1>10. ASSUME NEW i \in DOMAIN t, NEW j \in DOMAIN t, i < j, Meet(t[i], t[j])
       PROVE  Encloses(t[i], t[j])
  <2>1. i \in 1 .. n + 1 /\ j \in 2 .. n + 1
    BY <1>7, <1>10
  <2>2. CASE i = 1
    BY <2>1, <2>2, <1>8, <1>9, <1>10
  <2>3. CASE i # 1
    <3>1. i \in 2 .. n + 1 /\ i - 1 < j - 1
      BY <2>1, <2>3, <1>10
    <3> QED BY <2>1, <3>1, <1>8, <1>10 DEF Sound
  <2> QED BY <2>2, <2>3
<1> QED BY <1>6, <1>7, <1>10 DEF Sound

-----------------------------------------------------------------------------
(* Nothing the package returns, and no order of calls, makes the list      *)
(* unsound.                                                                *)
LEMMA InductiveInvariant == Spec => []Inv
<1>1. Init => Inv
  BY DEF Init, Inv, Sound
<1>2. Inv /\ [Next]_ranges => Inv'
  <2> SUFFICES ASSUME Inv, [Next]_ranges PROVE Inv'
    OBVIOUS
  <2>1. ASSUME NEW lo \in Addresses, NEW size \in Lengths, AddRange(lo, size) PROVE Inv'
    <3>1. lo \in Int /\ size \in Nat \ {0}
      BY ExtentAssumption
    <3>2. ranges' = Added(ranges, lo, size)
      BY <2>1 DEF AddRange
    <3>3. /\ ~OutsideHeap(Extent(lo, size), LowEnd, HighEnd)
          /\ \A i \in DOMAIN ranges : ~Overlaps(Extent(lo, size), ranges[i])
      BY <2>1, NoComplaint, Zenon DEF AddRange
    <3> QED BY <3>1, <3>2, <3>3, AddedFacts DEF Inv
  <2>2. ASSUME NEW lo \in Addresses, RemoveRange(lo) PROVE Inv'
    BY <2>2, RemovedFacts DEF Inv, RemoveRange
  <2>3. ASSUME NEW p \in Addresses, NEW q \in Addresses, NEW size \in Lengths,
               ReplaceRange(p, q, size)
        PROVE  Inv'
    <3> DEFINE rest == Removed(ranges, p)
    <3>1. Sound(rest)
      BY RemovedFacts DEF Inv
    <3>2. ranges' = IF Complaint(rest, q, size, LowEnd, HighEnd) = "none"
                    THEN Added(rest, q, size) ELSE rest
      BY <2>3 DEF ReplaceRange
    <3> HIDE DEF rest
    <3>3. q \in Int /\ size \in Nat \ {0}
      BY ExtentAssumption
    <3>4. \/ ranges' = rest
          \/ /\ ranges' = Added(rest, q, size)
             /\ ~OutsideHeap(Extent(q, size), LowEnd, HighEnd)
             /\ \A i \in DOMAIN rest : ~Overlaps(Extent(q, size), rest[i])
      BY <3>2, NoComplaint, Zenon
    <3>5. Sound(ranges')
      BY <3>1, <3>3, <3>4, AddedFacts
    <3> QED BY <3>5 DEF Inv
  <2>4. CASE ClearRanges
    BY <2>4 DEF ClearRanges, Inv, Sound
  <2>5. CASE UNCHANGED ranges
    BY <2>5 DEF Inv
  <2> QED BY <2>1, <2>2, <2>3, <2>4, <2>5 DEF Next
<1> QED BY <1>1, <1>2, PTL DEF Spec

(* The list holds extents of the heap and nothing else.                    *)
THEOREM TypeCorrect == Spec => []TypeOK
<1>1. Inv => TypeOK
  BY DEF Inv, Sound, TypeOK
<1> QED BY <1>1, InductiveInvariant, PTL

(* The test of mdriver.c:409 misses an overlap only when the new payload   *)
(* reaches beyond the old one on both sides.                               *)
THEOREM OnlyEnclosureIsMissed == Spec => []MeetOnlyByEnclosing
<1>1. Inv => MeetOnlyByEnclosing
  BY DEF Inv, Sound, MeetOnlyByEnclosing
<1> QED BY <1>1, InductiveInvariant, PTL

(* No two records start at one address, whatever overlap was missed: the   *)
(* record remove_range takes out is the one of the block that was freed.   *)
THEOREM OneRecordPerStart == Spec => []StartsUnique
<1>1. Inv => StartsUnique
  BY SoundIsUnique DEF Inv, StartsUnique
<1> QED BY <1>1, InductiveInvariant, PTL

=============================================================================
