----------------------------- MODULE RangeList -----------------------------
(***************************************************************************)
(* The driver's list of payload extents (mdriver.c, range_t), with which   *)
(* eval_mm_valid judges a malloc package.  The list is a sequence, newest  *)
(* first.  As a specification of its own the package is arbitrary: it may  *)
(* hand out any address for any request, and the heap has a fixed extent.  *)
(***************************************************************************)
EXTENDS Integers, Sequences, SequencesExt

CONSTANTS
  LowEnd, HighEnd,   \* mem_heap_lo() and mem_heap_hi()
  Addresses,         \* what the package may return
  Lengths            \* the sizes the trace asks for

ASSUME ExtentAssumption ==
  /\ LowEnd \in Int /\ HighEnd \in Int
  /\ Addresses \subseteq Int
  /\ Lengths \subseteq Nat \ {0}      \* assert(size > 0), mdriver.c:388

VARIABLE ranges

-----------------------------------------------------------------------------
Extent(lo, size) == [lo |-> lo, hi |-> lo + size - 1]

Misaligned(lo) == lo % 8 # 0

(* mutant: only where the payload starts is tested                         *)
StartsOutsideHeap(r, low, high) == r.lo < low \/ r.lo > high

OutsideHeap(r, low, high) ==
  r.lo < low \/ r.lo > high \/ r.hi < low \/ r.hi > high

(* mutant: only the low end is tested                                      *)
OverlapsAtLow(r, old) == r.lo >= old.lo /\ r.lo <= old.hi

(* mutant: two payloads may share their first byte                         *)
OverlapsInside(r, old) ==
  \/ r.lo > old.lo /\ r.lo <= old.hi
  \/ r.hi > old.lo /\ r.hi <= old.hi

(* the code's test: an end of the new payload lies in an old one           *)
Overlaps(r, old) ==
  \/ r.lo >= old.lo /\ r.lo <= old.hi
  \/ r.hi >= old.lo /\ r.hi <= old.hi

(* the message add_range reports, "none" when it accepts the payload       *)
Complaint(list, lo, size, low, high) ==
  LET r == Extent(lo, size) IN
  IF Misaligned(lo) THEN "misaligned"
  ELSE IF OutsideHeap(r, low, high) THEN "outside_heap"
  ELSE IF \E i \in DOMAIN list : Overlaps(r, list[i]) THEN "overlap"
  ELSE "none"

Added(list, lo, size) == <<Extent(lo, size)>> \o list

(* mutant: a freed block stays recorded                                    *)
RemovedNothing(list, lo) == list

(* remove_range: only the first record that starts at lo goes              *)
Removed(list, lo) ==
  IF \E i \in DOMAIN list : list[i].lo = lo
  THEN RemoveAt(list, CHOOSE i \in DOMAIN list :
                        /\ list[i].lo = lo
                        /\ \A j \in DOMAIN list : list[j].lo = lo => i <= j)
  ELSE list

-----------------------------------------------------------------------------
Init == ranges = <<>>

AddRange(lo, size) ==
  /\ Complaint(ranges, lo, size, LowEnd, HighEnd) = "none"
  /\ ranges' = Added(ranges, lo, size)

RemoveRange(lo) ==
  /\ \E i \in DOMAIN ranges : ranges[i].lo = lo
  /\ ranges' = Removed(ranges, lo)

(* mm_realloc returned q for p: the old extent goes, the new one is judged *)
ReplaceRange(p, q, size) ==
  /\ \E i \in DOMAIN ranges : ranges[i].lo = p
  /\ ranges' = LET rest == Removed(ranges, p) IN
               IF Complaint(rest, q, size, LowEnd, HighEnd) = "none"
               THEN Added(rest, q, size) ELSE rest

ClearRanges == ranges' = <<>>

Next ==
  \/ \E lo \in Addresses, size \in Lengths : AddRange(lo, size)
  \/ \E lo \in Addresses : RemoveRange(lo)
  \/ \E p, q \in Addresses, size \in Lengths : ReplaceRange(p, q, size)
  \/ ClearRanges

Spec == Init /\ [][Next]_ranges

-----------------------------------------------------------------------------
Extents == {r \in [lo : LowEnd .. HighEnd, hi : LowEnd .. HighEnd] : r.lo <= r.hi}

(* Type invariant: the records are extents within the heap.                *)
TypeOK == ranges \in Seq(Extents)

Meet(r, s) == r.lo <= s.hi /\ s.lo <= r.hi

Encloses(r, s) == r.lo < s.lo /\ s.hi < r.hi

(* What add_range lets through: an accepted payload can meet an older one  *)
(* only by enclosing it strictly on both sides.                            *)
MeetOnlyByEnclosing ==
  \A i, j \in DOMAIN ranges :
    i < j /\ Meet(ranges[i], ranges[j]) => Encloses(ranges[i], ranges[j])

(* Two records never start at one address, so remove_range, which stops at *)
(* the first match, always removes the record of the block freed.          *)
StartsUnique ==
  \A i, j \in DOMAIN ranges : ranges[i].lo = ranges[j].lo => i = j

(* mdriver.c:407, "The payload must not overlap any other payloads".       *)
NoPayloadsOverlap ==
  \A i, j \in DOMAIN ranges : i # j => ~Meet(ranges[i], ranges[j])

=============================================================================
