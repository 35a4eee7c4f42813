----------------------------- MODULE BubbleSort -----------------------------
(***************************************************************************)
(* main of lecture-6/ex18.c sorts the numbers it is given three times, by  *)
(* three comparisons: bubble_sort, one round of the inner loop at a time,  *)
(* and the comparison functions it is handed.  Sequences are numbered from *)
(* 1: target[j] of the code is target[j + 1] here.                         *)
(***************************************************************************)
EXTENDS CInt, Sequences, FiniteSets

CONSTANTS
  Numbers,     \* what atoi may make of an argument
  MaxCount     \* bound on the number of arguments, at least one

ASSUME SortAssumption ==
  /\ Numbers \subseteq Int32
  /\ MaxCount \in Nat \ {0}

VARIABLES
  numbers,     \* the caller's array, which the sort must not touch
  cmp,         \* the comparison passed in
  target,      \* the copy that is sorted and returned
  i, j,        \* the loop counters; i = Len(numbers) when it has returned
  died         \* why the process is no more: "no", "no-memory" or "trap"

vars == <<numbers, cmp, target, i, j, died>>

Orders == {"sorted_order", "reverse_order"}
Comparisons == Orders \cup {"strange_order"}

Truth(b) == IF b THEN 1 ELSE 0

(* C's remainder, which has the sign of a                                  *)
Rem(a, b) ==
  LET Abs(x) == IF x < 0 THEN -x ELSE x
      r == Abs(a) % Abs(b)
  IN  IF a < 0 THEN -r ELSE r

(* mutant: the subtraction the comments warn of, in an int                 *)
CompareByDifference(a, b) ==
  LET Wrap(x) == ((x + IntMax + 1) % (2 * IntMax + 2)) - (IntMax + 1)
  IN  CASE cmp = "sorted_order" -> Wrap(a - b)
        [] cmp = "reverse_order" -> Wrap(b - a)
        [] cmp = "strange_order" -> IF a = 0 \/ b = 0 THEN 0 ELSE Rem(a, b)

Compare(a, b) ==
  CASE cmp = "sorted_order" -> Truth(a > b) - Truth(a < b)
    [] cmp = "reverse_order" -> Truth(a < b) - Truth(a > b)
    [] cmp = "strange_order" -> IF a = 0 \/ b = 0 THEN 0 ELSE Rem(a, b)

(* mutant: the second assignment reads what the first has overwritten      *)
SwappedWithoutTemp(t, k) == [t EXCEPT ![k] = t[k + 1]]

(* mutant: the swap by sums, its last step forgotten                       *)
SwappedBySum(t, k) == [t EXCEPT ![k] = t[k] + t[k + 1], ![k + 1] = t[k]]

Swapped(t, k) == [t EXCEPT ![k] = t[k + 1], ![k + 1] = t[k]]

(* mutant: one comparison too few in every pass                            *)
LastPairButOne == Len(numbers) - 3

(* j < count - 1                                                           *)
LastPair == Len(numbers) - 2

(* INT_MIN % -1 is undefined in C, and the division traps on x86           *)
Traps(a, b) == cmp = "strange_order" /\ a = IntMin /\ b = -1

-----------------------------------------------------------------------------
(* the first sort has made its copy, or had no memory for it               *)
Init ==
  /\ numbers \in UNION {[1 .. n -> Numbers] : n \in 1 .. MaxCount}
  /\ cmp = "sorted_order"
  /\ target = numbers
  /\ i = 0
  /\ j = 0
  /\ died \in {"no", "no-memory"}

Inner ==
  LET a == target[j + 1]
      b == target[j + 2]
  IN
  /\ died = "no"
  /\ i < Len(numbers)
  /\ j <= LastPair
  /\ IF Traps(a, b)
     THEN died' = "trap" /\ UNCHANGED <<target, j>>
     ELSE /\ target' = IF Compare(a, b) > 0 THEN Swapped(target, j + 1) ELSE target
          /\ j' = j + 1
          /\ UNCHANGED died
  /\ UNCHANGED <<numbers, cmp, i>>

Outer ==
  /\ died = "no"
  /\ i < Len(numbers)
  /\ j > LastPair
  /\ i' = i + 1
  /\ j' = 0
  /\ UNCHANGED <<numbers, cmp, target, died>>

(* test_sorting frees the copy, and main sorts again, by the comparison    *)
(* that comes next                                                         *)
NextSort ==
  /\ died = "no"
  /\ i = Len(numbers)
  /\ cmp \in Orders
  /\ cmp' = IF cmp = "sorted_order" THEN "reverse_order" ELSE "strange_order"
  /\ target' = numbers
  /\ i' = 0
  /\ j' = 0
  /\ died' \in {"no", "no-memory"}
  /\ UNCHANGED numbers

Next == Inner \/ Outer \/ NextSort

(* a single thread that nothing stops                                      *)
Spec == Init /\ [][Next]_vars /\ WF_vars(Next)

-----------------------------------------------------------------------------
(* Type invariant.                                                         *)
TypeOK ==
  /\ target \in [1 .. Len(numbers) -> Numbers]
  /\ cmp \in Comparisons
  /\ i \in 0 .. Len(numbers)
  /\ j \in 0 .. Len(numbers) - 1
  /\ died \in {"no", "no-memory", "trap"}

Occurrences(s, v) == Cardinality({k \in DOMAIN s : s[k] = v})

(* the order a comparison stands for                                       *)
InOrder(a, b) == IF cmp = "sorted_order" THEN a <= b ELSE a >= b

(* The array under the loop is at every moment a rearrangement of the      *)
(* caller's, whatever the comparison answers.                              *)
SameNumbers ==
  \A v \in Numbers : Occurrences(target, v) = Occurrences(numbers, v)

(* After i passes the last i elements are where they belong, and the       *)
(* element a pass carries along is beyond all those it has passed.         *)
PassesPlace ==
  cmp \in Orders =>
    /\ \A a, b \in DOMAIN target :
         a < b /\ b > Len(target) - i => InOrder(target[a], target[b])
    /\ \A a \in 1 .. j : InOrder(target[a], target[j + 1])

(* Each sort returns, in order if its comparison is one of the two orders, *)
(* also for numbers whose difference no int can hold (ex18.c:44, 49).      *)
(* What can stop it is a want of memory, and in the third sort a trap,     *)
(* which takes both INT_MIN and -1 among the numbers.                      *)
EndsSorted ==
  \A c \in Comparisons :
    cmp = "sorted_order" ~>
      \/ died = "no-memory"
      \/ /\ died = "trap" /\ c = "strange_order"
         /\ \E a, b \in DOMAIN numbers : numbers[a] = IntMin /\ numbers[b] = -1
      \/ /\ cmp = c /\ i = Len(numbers)
         /\ c \in Orders =>
              \A a, b \in DOMAIN target : a < b => InOrder(target[a], target[b])

=============================================================================
