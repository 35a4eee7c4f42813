--------------------------- MODULE ExerciseProofs ---------------------------
(***************************************************************************)
(* Proofs about the exercises: BubbleSort, for arrays of any length over   *)
(* any ints, and what each function of the data lab returns, for every     *)
(* word.                                                                   *)
(***************************************************************************)
EXTENDS BubbleSort, DataLab, FiniteSetTheorems, TLAPS

-----------------------------------------------------------------------------
(* The comparisons.                                                        *)

(* Numbers are ints.                                                       *)
LEMMA NumbersAreInts == Numbers \subseteq Int
BY SortAssumption DEF Int32

(* sorted_order and reverse_order ask for a swap exactly when the two are  *)
(* not in the order they stand for, however far apart the two lie.         *)
LEMMA CompareDecides ==
  ASSUME cmp \in Orders, NEW a \in Int, NEW b \in Int
  PROVE  Compare(a, b) > 0 <=> ~InOrder(a, b)
<1>1. CASE cmp = "sorted_order"
  <2>1. Compare(a, b) = Truth(a > b) - Truth(a < b)
    BY <1>1 DEF Compare
  <2> QED BY <1>1, <2>1 DEF Truth, InOrder
<1>2. CASE cmp = "reverse_order"
  <2>1. Compare(a, b) = Truth(a < b) - Truth(a > b)
    BY <1>2 DEF Compare
  <2> QED BY <1>2, <2>1 DEF Truth, InOrder
<1> QED BY <1>1, <1>2 DEF Orders

(* Either order is total and transitive.                                   *)
LEMMA InOrderFacts ==
  /\ \A a, b \in Int : InOrder(a, b) \/ InOrder(b, a)
  /\ \A a, b, c \in Int : InOrder(a, b) /\ InOrder(b, c) => InOrder(a, c)
BY DEF InOrder

(* The swap is the function it is meant to be.                             *)
LEMMA SwappedFacts ==
  ASSUME NEW n \in Nat, NEW t \in [1 .. n -> Numbers], NEW k \in 1 .. n, k + 1 \in 1 .. n
  PROVE  /\ Swapped(t, k) \in [1 .. n -> Numbers]
         /\ Swapped(t, k)[k] = t[k + 1] /\ Swapped(t, k)[k + 1] = t[k]
         /\ \A x \in 1 .. n \ {k, k + 1} : Swapped(t, k)[x] = t[x]
BY DEF Swapped

(* A swap leaves each number as often in the array as it was: exchanging   *)
(* the two positions maps the places of v in one array to those in the     *)
(* other.                                                                  *)
LEMMA SwapKeepsNumbers ==
  ASSUME NEW n \in Nat, NEW t \in [1 .. n -> Numbers], NEW k \in 1 .. n, k + 1 \in 1 .. n,
         NEW v
  PROVE  Occurrences(Swapped(t, k), v) = Occurrences(t, v)
<1> DEFINE u == Swapped(t, k)
           A == {x \in 1 .. n : t[x] = v}
           B == {x \in 1 .. n : u[x] = v}
           Other(x) == IF x = k THEN k + 1 ELSE IF x = k + 1 THEN k ELSE x
           f == [x \in A |-> Other(x)]
<1>1. \A x \in 1 .. n : Other(x) \in 1 .. n /\ Other(Other(x)) = x
  OBVIOUS
<1>2. u \in [1 .. n -> Numbers] /\ \A x \in 1 .. n : u[Other(x)] = t[x]
  BY SwappedFacts
<1>3. Occurrences(t, v) = Cardinality(A) /\ Occurrences(u, v) = Cardinality(B)
  BY <1>2 DEF Occurrences
<1>4. IsFiniteSet(A)
  BY FS_Interval, FS_Subset
<1> HIDE DEF u, Other
<1>5. f \in [A -> B]
  BY <1>1, <1>2
<1>6. \A x, y \in A : f[x] = f[y] => x = y
  BY <1>1
<1>7. \A y \in B : \E x \in A : f[x] = y
  <2> SUFFICES ASSUME NEW y \in B PROVE Other(y) \in A /\ f[Other(y)] = y
    OBVIOUS
  <2>1. Other(y) \in 1 .. n /\ Other(Other(y)) = y
    BY <1>1
  <2>2. t[Other(y)] = v
    BY <2>1, <1>2
  <2> QED BY <2>1, <2>2
<1>8. f \in Bijection(A, B)
  BY <1>5, <1>6, <1>7 DEF Bijection, Injection, Surjection, IsInjective
<1>9. Cardinality(B) = Cardinality(A)
  BY <1>4, <1>8, FS_Bijection DEF ExistsBijection
<1> QED BY <1>3, <1>9 DEF u

-----------------------------------------------------------------------------
(* The loops.                                                              *)

(* Which element is carried along and which are in place.  PassesPlace     *)
(* alone is not inductive: once the carried element has come to where this *)
(* pass puts it, the rest of the pass must leave that place as it is.      *)
Placed ==
  cmp \in Orders =>
    \A a, b \in DOMAIN target :
      /\ a < b
      /\ b > Len(numbers) - i \/ (b = Len(numbers) - i /\ b <= j + 1)
      => InOrder(target[a], target[b])

Carried ==
  cmp \in Orders => \A a \in 1 .. j : InOrder(target[a], target[j + 1])

Inv ==
  /\ numbers \in Seq(Numbers) /\ Len(numbers) > 0
  /\ TypeOK
  /\ SameNumbers
  /\ Placed
  /\ Carried

(* The lengths the invariant speaks of, and the ints in the array.         *)
LEMMA InvFacts ==
  ASSUME Inv
  PROVE  /\ Len(numbers) \in Nat /\ i \in Nat /\ j \in Nat /\ j < Len(numbers)
         /\ DOMAIN target = 1 .. Len(numbers)
         /\ \A a \in 1 .. Len(numbers) : target[a] \in Int
         /\ j + 1 \in 1 .. Len(numbers)
<1>1. /\ Len(numbers) \in Nat /\ Len(numbers) > 0
      /\ i \in 0 .. Len(numbers) /\ j \in 0 .. Len(numbers) - 1
  BY DEF Inv, TypeOK
<1>2. target \in [1 .. Len(numbers) -> Numbers]
  BY DEF Inv, TypeOK
<1>3. \A a \in 1 .. Len(numbers) : target[a] \in Int
  BY <1>2, NumbersAreInts
<1> QED BY <1>1, <1>2, <1>3

(* A sort begins with a copy of the caller's array and both counters zero. *)
Fresh ==
  /\ numbers \in Seq(Numbers) /\ Len(numbers) > 0 /\ target = numbers
  /\ i = 0 /\ j = 0
  /\ cmp \in Comparisons /\ died \in {"no", "no-memory"}

(* This is all the invariant asks, whatever the comparison.                *)
LEMMA FreshCopy == Fresh => Inv
<1> SUFFICES ASSUME Fresh PROVE Inv
  OBVIOUS
<1> USE DEF Fresh
<1>1. target \in [1 .. Len(numbers) -> Numbers] /\ Len(numbers) \in Nat
  OBVIOUS
<1>2. TypeOK
  BY <1>1 DEF TypeOK
<1>3. SameNumbers
  BY DEF SameNumbers
<1>4. Placed
  <2> SUFFICES ASSUME NEW a \in 1 .. Len(numbers), NEW b \in 1 .. Len(numbers), a < b,
                      b > Len(numbers) - i \/ (b = Len(numbers) - i /\ b <= j + 1)
               PROVE  FALSE
    BY <1>1 DEF Placed
  <2>1. PICK n \in Nat : n = Len(numbers)
    BY <1>1
  <2>2. a \in 1 .. n /\ b \in 1 .. n /\ (b > n - 0 \/ (b = n - 0 /\ b <= 0 + 1))
    BY <2>1
  <2> QED BY <2>2
<1>5. Carried
  BY DEF Carried
<1> QED BY <1>2, <1>3, <1>4, <1>5 DEF Inv

(* A swap happens only before the place where this pass puts its element.  *)
LEMMA SwapIsEarly ==
  ASSUME Inv, cmp \in Orders, j + 2 <= Len(numbers),
         ~InOrder(target[j + 1], target[j + 2])
  PROVE  j + 2 <= Len(numbers) - i
<1>1. j + 1 \in DOMAIN target /\ j + 2 \in DOMAIN target /\ j + 1 < j + 2
  BY InvFacts
<1>2. ~(j + 2 > Len(numbers) - i)
  BY <1>1 DEF Inv, Placed
<1> QED BY <1>2, InvFacts

(* A round of the inner loop whose comparison asks for no swap.            *)
LEMMA NoSwapStep ==
  ASSUME Inv, j + 2 <= Len(numbers), cmp \in Orders => InOrder(target[j + 1], target[j + 2]),
         UNCHANGED <<numbers, cmp, target, i>>, j' = j + 1,
         died' \in {"no", "no-memory", "trap"}
  PROVE  Inv'
<1>1. j' \in 0 .. Len(numbers) - 1
  BY InvFacts
<1>2. TypeOK'
  BY <1>1 DEF Inv, TypeOK
<1>3. SameNumbers'
  BY DEF Inv, SameNumbers, Occurrences
<1>4. \A a, b : InOrder(a, b)' <=> InOrder(a, b)
  BY DEF InOrder
<1>5. ASSUME cmp \in Orders, NEW a \in 1 .. j + 1
      PROVE  InOrder(target[a], target[j + 2])
  <2>1. CASE a = j + 1
    BY <1>5, <2>1
  <2>2. CASE a # j + 1
    <3>1. a \in 1 .. j /\ a \in 1 .. Len(numbers) /\ j + 2 \in 1 .. Len(numbers)
      BY <2>2, InvFacts
    <3>2. InOrder(target[a], target[j + 1])
      BY <1>5, <3>1 DEF Inv, Carried
    <3>3. target[a] \in Int /\ target[j + 1] \in Int /\ target[j + 2] \in Int
      BY <3>1, InvFacts
    <3> QED BY <1>5, <3>2, <3>3, InOrderFacts
  <2> QED BY <2>1, <2>2
<1>6. Carried'
  <2>1. j' + 1 = j + 2
    BY InvFacts
  <2> QED BY <1>4, <1>5, <2>1 DEF Carried
<1>7. Placed'
  <2> SUFFICES ASSUME cmp \in Orders,
                      NEW a \in 1 .. Len(numbers), NEW b \in 1 .. Len(numbers), a < b,
                      b > Len(numbers) - i \/ (b = Len(numbers) - i /\ b <= j + 2)
               PROVE  InOrder(target[a], target[b])
    <3>1. DOMAIN target' = 1 .. Len(numbers) /\ j' + 1 = j + 2
      BY InvFacts
    <3> QED BY <1>4, <3>1 DEF Placed
  <2>1. CASE b = j + 2
    BY <1>5, <2>1, InvFacts, SMTT(30)
  <2>2. CASE b # j + 2
    <3>1. b > Len(numbers) - i \/ (b = Len(numbers) - i /\ b <= j + 1)
      BY <2>2, InvFacts
    <3> QED BY <3>1, InvFacts DEF Inv, Placed
  <2> QED BY <2>1, <2>2
<1> QED BY <1>2, <1>3, <1>6, <1>7 DEF Inv

(* A round that swaps: the carried element moves up, and what it passes is *)
(* in its order with it.                                                   *)
LEMMA SwapStep ==
  ASSUME Inv, j + 2 <= Len(numbers), cmp \in Orders => ~InOrder(target[j + 1], target[j + 2]),
         UNCHANGED <<numbers, cmp, i>>, j' = j + 1, target' = Swapped(target, j + 1),
         died' \in {"no", "no-memory", "trap"}
  PROVE  Inv'
<1>1. j' \in 0 .. Len(numbers) - 1 /\ j + 1 \in 1 .. Len(numbers)
      /\ (j + 1) + 1 \in 1 .. Len(numbers) /\ (j + 1) + 1 = j + 2
  BY InvFacts
<1>2. Len(numbers) \in Nat /\ target \in [1 .. Len(numbers) -> Numbers]
  BY DEF Inv, TypeOK
<1>3. /\ target' \in [1 .. Len(numbers) -> Numbers]
      /\ target'[j + 1] = target[j + 2] /\ target'[j + 2] = target[j + 1]
      /\ \A x \in 1 .. Len(numbers) \ {j + 1, j + 2} : target'[x] = target[x]
  <2>1. PICK n \in Nat : n = Len(numbers)
    BY <1>2
  <2>2. PICK k : k = j + 1
    OBVIOUS
  <2>3. k \in 1 .. n /\ k + 1 \in 1 .. n /\ k + 1 = j + 2
    BY <1>1, <2>1, <2>2
  <2>4. target \in [1 .. n -> Numbers] /\ target' = Swapped(target, k)
    BY <1>2, <2>1, <2>2
  <2>5. /\ Swapped(target, k) \in [1 .. n -> Numbers]
        /\ Swapped(target, k)[k] = target[k + 1] /\ Swapped(target, k)[k + 1] = target[k]
        /\ \A x \in 1 .. n \ {k, k + 1} : Swapped(target, k)[x] = target[x]
    BY <2>3, <2>4, SwappedFacts
  <2> QED BY <2>1, <2>2, <2>3, <2>4, <2>5
<1>4. TypeOK'
  BY <1>1, <1>3 DEF Inv, TypeOK
<1>5. SameNumbers'
  <2>1. \A v : Occurrences(target', v) = Occurrences(target, v)
    BY <1>1, <1>2, SwapKeepsNumbers
  <2>2. \A v : Occurrences(numbers, v)' = Occurrences(numbers, v)
    BY DEF Occurrences
  <2>3. \A v : Occurrences(target, v)' = Occurrences(target', v)
    BY DEF Occurrences
  <2> QED BY <2>1, <2>2, <2>3 DEF Inv, SameNumbers
<1>6. \A a, b : InOrder(a, b)' <=> InOrder(a, b)
  BY DEF InOrder
<1>7. /\ \A x \in 1 .. Len(numbers) : target[x] \in Int
      /\ \A x \in 1 .. Len(numbers) : target'[x] \in Int
  BY <1>3, InvFacts, NumbersAreInts
<1>8. ASSUME cmp \in Orders, NEW a \in 1 .. j + 1
      PROVE  InOrder(target'[a], target'[j + 2])
  <2>1. CASE a = j + 1
    <3>1. InOrder(target[j + 2], target[j + 1])
      BY <1>1, <1>7, <1>8, InOrderFacts
    <3> QED BY <2>1, <3>1, <1>3
  <2>2. CASE a # j + 1
    <3>1. a \in 1 .. j /\ a \in 1 .. Len(numbers) \ {j + 1, j + 2}
      BY <2>2, <1>1, InvFacts
    <3>2. InOrder(target[a], target[j + 1])
      BY <1>8, <3>1 DEF Inv, Carried
    <3> QED BY <3>1, <3>2, <1>3
  <2> QED BY <2>1, <2>2
<1>9. Carried'
  <2>1. j' + 1 = j + 2
    BY InvFacts
  <2> QED BY <1>6, <1>8, <2>1 DEF Carried
<1>10. Placed'
  <2> SUFFICES ASSUME cmp \in Orders,
                      NEW a \in 1 .. Len(numbers), NEW b \in 1 .. Len(numbers), a < b,
                      b > Len(numbers) - i \/ (b = Len(numbers) - i /\ b <= j + 2)
               PROVE  InOrder(target'[a], target'[b])
    <3>1. DOMAIN target' = 1 .. Len(numbers) /\ j' + 1 = j + 2
      BY <1>3, InvFacts
    <3> QED BY <1>6, <3>1 DEF Placed
  <2>1. j + 2 <= Len(numbers) - i
    BY SwapIsEarly
  <2>2. CASE b = j + 2
    BY <1>8, <2>2, InvFacts
  <2>3. CASE b # j + 2
    <3>1. b > j + 2 /\ b > Len(numbers) - i
      BY <2>1, <2>3, InvFacts
    <3>2. target'[b] = target[b]
      BY <3>1, <1>3, InvFacts, SMTT(30)
    <3>3. ASSUME NEW x \in 1 .. Len(numbers), x < b PROVE InOrder(target[x], target[b])
      BY <3>1, <3>3, InvFacts DEF Inv, Placed
    <3>4. PICK x \in 1 .. Len(numbers) : x < b /\ target'[a] = target[x]
      <4>1. CASE a = j + 1
        BY <4>1, <3>1, <1>1, <1>3, InvFacts
      <4>2. CASE a = j + 2
        BY <4>2, <3>1, <1>1, <1>3, InvFacts
      <4>3. CASE a \notin {j + 1, j + 2}
        BY <4>3, <1>3
      <4> QED BY <4>1, <4>2, <4>3
    <3> QED BY <3>2, <3>3, <3>4
  <2> QED BY <2>2, <2>3
<1> QED BY <1>4, <1>5, <1>9, <1>10 DEF Inv

(* A round of the inner loop.                                              *)
LEMMA InnerStep == ASSUME Inv, Inner PROVE Inv'
<1>1. j + 2 <= Len(numbers)
  BY InvFacts DEF Inner, LastPair
<1>2. /\ UNCHANGED <<numbers, cmp, i>>
      /\ \/ died' = "trap" /\ UNCHANGED <<target, j>>
         \/ /\ j' = j + 1 /\ died' = died
            /\ target' = IF Compare(target[j + 1], target[j + 2]) > 0
                         THEN Swapped(target, j + 1) ELSE target
  BY DEF Inner
<1>3. died \in {"no", "no-memory", "trap"}
  BY DEF Inv, TypeOK
<1>4. CASE died' = "trap" /\ UNCHANGED <<target, j>>
  <2>1. TypeOK'
    BY <1>2, <1>4 DEF Inv, TypeOK
  <2>2. SameNumbers' /\ Placed' /\ Carried'
    BY <1>2, <1>4 DEF Inv, SameNumbers, Occurrences, Placed, Carried, InOrder
  <2> QED BY <2>1, <2>2, <1>2 DEF Inv
<1>5. ASSUME j' = j + 1, died' = died,
             target' = IF Compare(target[j + 1], target[j + 2]) > 0
                       THEN Swapped(target, j + 1) ELSE target
      PROVE  Inv'
  <2>1. target[j + 1] \in Int /\ target[j + 2] \in Int
    BY <1>1, InvFacts
  <2>2. cmp \in Orders =>
          (Compare(target[j + 1], target[j + 2]) > 0
             <=> ~InOrder(target[j + 1], target[j + 2]))
    BY <2>1, CompareDecides
  <2>3. CASE Compare(target[j + 1], target[j + 2]) > 0
    <3>1. target' = Swapped(target, j + 1)
      BY <1>5, <2>3
    <3> QED BY <3>1, <1>1, <1>2, <1>3, <1>5, <2>2, <2>3, SwapStep
  <2>4. CASE ~(Compare(target[j + 1], target[j + 2]) > 0)
    <3>1. target' = target
      BY <1>5, <2>4
    <3> QED BY <3>1, <1>1, <1>2, <1>3, <1>5, <2>2, <2>4, NoSwapStep
  <2> QED BY <2>3, <2>4
<1> QED BY <1>2, <1>4, <1>5

(* The end of a pass: the element carried has come to its place.           *)
LEMMA OuterStep == ASSUME Inv, Outer PROVE Inv'
<1>1. /\ i < Len(numbers) /\ j > Len(numbers) - 2 /\ i' = i + 1 /\ j' = 0
      /\ UNCHANGED <<numbers, cmp, target, died>>
  BY DEF Outer, LastPair
<1>2. j = Len(numbers) - 1
  BY <1>1, InvFacts
<1>3. TypeOK'
  <2>1. i' \in 0 .. Len(numbers) /\ j' \in 0 .. Len(numbers) - 1
    BY <1>1, InvFacts
  <2> QED BY <2>1, <1>1 DEF Inv, TypeOK
<1>4. SameNumbers'
  BY <1>1 DEF Inv, SameNumbers, Occurrences
<1>5. Carried'
  BY <1>1 DEF Carried
<1>6. Placed'
  <2> SUFFICES ASSUME cmp \in Orders,
                      NEW a \in 1 .. Len(numbers), NEW b \in 1 .. Len(numbers), a < b,
                      \/ b > Len(numbers) - (i + 1)
                      \/ b = Len(numbers) - (i + 1) /\ b <= 1
               PROVE  InOrder(target[a], target[b])
    <3>1. DOMAIN target' = 1 .. Len(numbers) /\ j' + 1 = 1
      BY <1>1, InvFacts
    <3> QED BY <1>1, <3>1 DEF Placed, InOrder
  <2>1. PICK n \in Nat : n = Len(numbers)
    BY InvFacts
  <2>2. a \in Nat /\ b \in Nat /\ a > 0 /\ b <= n /\ i \in Nat /\ j + 1 = n
    BY <2>1, <1>2, InvFacts
  <2>3. b > n - i \/ (b = n - i /\ b <= j + 1)
    BY <2>1, <2>2
  <2> QED BY <2>1, <2>3, InvFacts DEF Inv, Placed
<1> QED BY <1>1, <1>3, <1>4, <1>5, <1>6 DEF Inv

(* The next comparison starts from a fresh copy.                           *)
LEMMA NextSortStep == ASSUME Inv, NextSort PROVE Inv'
<1>1. /\ numbers' \in Seq(Numbers) /\ Len(numbers') > 0 /\ target' = numbers'
      /\ i' = 0 /\ j' = 0 /\ died' \in {"no", "no-memory"}
  BY DEF Inv, NextSort
<1>2. cmp' \in Comparisons
  BY DEF NextSort, Comparisons, Orders
<1>3. Fresh'
  BY <1>1, <1>2 DEF Fresh
<1>4. Fresh' => Inv'
  BY FreshCopy, PTL
<1> QED BY <1>3, <1>4

(* Neither the length of the array nor what is in it matters.              *)
LEMMA InductiveInvariant == Spec => []Inv
<1>1. Init => Inv
  <2> SUFFICES ASSUME Init PROVE Inv
    OBVIOUS
  <2>1. PICK n \in 1 .. MaxCount : numbers \in [1 .. n -> Numbers]
    BY DEF Init
  <2>2. n \in Nat /\ n > 0
    BY <2>1, SortAssumption
  <2>3. numbers \in Seq(Numbers) /\ Len(numbers) > 0
    BY <2>1, <2>2
  <2>4. cmp \in Comparisons
    BY DEF Init, Comparisons, Orders
  <2> QED BY <2>3, <2>4, FreshCopy DEF Init, Fresh
<1>2. Inv /\ [Next]_vars => Inv'
  <2>1. CASE UNCHANGED vars
    BY <2>1 DEF vars, Inv, TypeOK, SameNumbers, Occurrences, Placed, Carried, InOrder
  <2> QED BY <2>1, InnerStep, OuterStep, NextSortStep DEF Next
<1> QED BY <1>1, <1>2, PTL DEF Spec

(* The counters stay within the array, and the array holds numbers.        *)
THEOREM TypeCorrect == Spec => []TypeOK
<1>1. Inv => TypeOK
  BY DEF Inv
<1> QED BY <1>1, InductiveInvariant, PTL

(* Every number is in the array as often as the caller put it there, also  *)
(* in a sort by a comparison that orders nothing.                          *)
THEOREM SortRearranges == Spec => []SameNumbers
<1>1. Inv => SameNumbers
  BY DEF Inv
<1> QED BY <1>1, InductiveInvariant, PTL

(* What a pass has placed stays placed, and the element it carries is      *)
(* beyond all it has passed.                                               *)
THEOREM PassesPlaceElements == Spec => []PassesPlace
<1>1. Inv => PassesPlace
  <2> SUFFICES ASSUME Inv, cmp \in Orders
               PROVE  /\ \A a, b \in DOMAIN target :
                           a < b /\ b > Len(target) - i => InOrder(target[a], target[b])
                      /\ \A a \in 1 .. j : InOrder(target[a], target[j + 1])
    BY DEF PassesPlace
  <2>1. Len(target) = Len(numbers)
    BY DEF Inv, TypeOK
  <2> QED BY <2>1 DEF Inv, Placed, Carried
<1> QED BY <1>1, InductiveInvariant, PTL

(* When the loops are done, i = count, and the comparison is one of the    *)
(* two orders, all of the array is in order.                               *)
THEOREM SortedAtTheEnd ==
  Spec => [](i = Len(numbers) /\ cmp \in Orders =>
               \A a, b \in 1 .. Len(numbers) : a < b => InOrder(target[a], target[b]))
<1> DEFINE Done == i = Len(numbers) /\ cmp \in Orders =>
             \A a, b \in 1 .. Len(numbers) : a < b => InOrder(target[a], target[b])
<1>1. Inv => Done
  <2> SUFFICES ASSUME Inv, i = Len(numbers), cmp \in Orders,
                      NEW a \in 1 .. Len(numbers), NEW b \in 1 .. Len(numbers), a < b
               PROVE  InOrder(target[a], target[b])
    OBVIOUS
  <2>1. b > Len(numbers) - i
    BY InvFacts
  <2> QED BY <2>1, InvFacts DEF Inv, Placed
<1> QED BY <1>1, InductiveInvariant, PTL

-----------------------------------------------------------------------------
(* bitXor has a one exactly where one of its arguments has one and the     *)
(* other has none (22-Lab1-datalab-bits.c:180).                            *)
THEOREM BitXorIsXor ==
  ASSUME NEW x \in Word, NEW y \in Word
  PROVE  bitXor(x, y) = Xor(x, y)
BY DEF bitXor, Xor, Not, Word

(* tmin has no bit but the sign (22-Lab1-datalab-bits.c:197).              *)
THEOREM TminIsSign == tmin = {31}
BY DEF tmin, Shl, One, Bits

(* allOddBits answers 1 if every odd position holds a one and 0 if not; the *)
(* sign that >> drags into the word does not mislead it                    *)
(* (22-Lab1-datalab-bits.c:211).                                           *)
OddBits == {1, 3, 5, 7, 9, 11, 13, 15, 17, 19, 21, 23, 25, 27, 29, 31}

THEOREM AllOddBitsIsRight ==
  ASSUME NEW x \in Word
  PROVE  allOddBits(x) = IF OddBits \subseteq x THEN One ELSE Zero
<1> DEFINE mask == Pattern \cap Sar(x, 24) \cap Sar(x, 16) \cap Sar(x, 8) \cap x
<1>1. Xor(mask, Pattern) = Zero <=> Pattern \subseteq mask
  BY DEF Xor, Zero
<1>2. \A b \in Pattern : b \in mask <=> {b, b + 8, b + 16, b + 24} \subseteq x
  BY DEF Pattern, Sar, Bits
<1>3. Pattern \subseteq mask <=> OddBits \subseteq x
  BY <1>2 DEF Pattern, OddBits
<1> QED
  BY <1>1, <1>3 DEF allOddBits, LogicalNot

-----------------------------------------------------------------------------
(* ~0 + 1 is the word of zeros, and ~1 + 1 that of ones: what conditional  *)
(* and howManyBits form their masks by.                                    *)
LEMMA Masks == Inc(Not(Zero)) = Zero /\ Inc(Not(One)) = Bits
<1>1. Inc(Not(Zero)) = Zero
  BY DEF Inc, Not, Zero
<1>2. ASSUME NEW b \in Bits
      PROVE  (b \in Not(One)) # (\A c \in Bits : c < b => c \in Not(One))
  <2>1. CASE b = 0
    <3>1. 0 \notin Not(One) /\ \A c \in Bits : ~(c < 0)
      BY DEF Bits, Not, One
    <3> QED
      BY <2>1, <3>1
  <2>2. CASE b # 0
    <3>1. 0 \in Bits /\ 0 < b /\ 0 \notin Not(One)
      BY <2>2 DEF Bits, Not, One
    <3> QED
      BY <2>2, <3>1 DEF Not, One
  <2> QED
    BY <2>1, <2>2
<1> QED
  BY <1>1, <1>2 DEF Inc

(* conditional picks its second argument if the first is not zero, and its *)
(* third if it is (22-Lab1-datalab-bits.c:243).                            *)
THEOREM ConditionalChooses ==
  ASSUME NEW x \in Word, NEW y \in Word, NEW z \in Word
  PROVE  conditional(x, y, z) = IF x # Zero THEN y ELSE z
<1>1. CASE x = Zero
  BY <1>1, Masks DEF conditional, LogicalNot, Not, Word
<1>2. CASE x # Zero
  BY <1>2, Masks DEF conditional, LogicalNot, Not, Word, Zero
<1> QED
  BY <1>1, <1>2

(* logicalNeg is !, although it may not use it: only of zero neither the   *)
(* word nor its negation has a sign (22-Lab1-datalab-bits.c:301).          *)
THEOREM LogicalNegIsNot ==
  ASSUME NEW x \in Word
  PROVE  logicalNeg(x) = LogicalNot(x)
<1>1. ASSUME NEW w PROVE Sar(w, 31) = IF 31 \in w THEN Bits ELSE Zero
  BY DEF Sar, Bits, Zero
<1>2. x = Zero => Inc(Not(x)) = Zero
  BY Masks
<1>3. x # Zero => 31 \in x \/ 31 \in Inc(Not(x))
  <2> SUFFICES ASSUME x # Zero, 31 \notin x
               PROVE  31 \in Inc(Not(x))
    OBVIOUS
  <2>1. PICK c \in x : TRUE
    BY DEF Zero
  <2>2. c \in Bits /\ c < 31 /\ c \notin Not(x)
    BY <2>1 DEF Word, Bits, Not
  <2>3. 31 \in Bits /\ 31 \in Not(x)
    BY DEF Bits, Not
  <2> QED
    BY <2>2, <2>3 DEF Inc
<1>4. 31 \notin Zero /\ Not(Bits) = Zero /\ Not(Zero) \cap One = One
  BY DEF Zero, Not, Bits, One
<1>5. CASE x = Zero
  <2>1. Sar(x, 31) \cup Sar(Inc(Not(x)), 31) = Zero
    BY <1>1, <1>2, <1>4, <1>5 DEF Zero
  <2> QED
    BY <2>1, <1>4, <1>5 DEF logicalNeg, LogicalNot
<1>6. CASE x # Zero
  <2>1. Sar(x, 31) \cup Sar(Inc(Not(x)), 31) = Bits
    BY <1>1, <1>3, <1>6 DEF Zero
  <2> QED
    BY <2>1, <1>4, <1>6 DEF logicalNeg, LogicalNot, Zero
<1> QED
  BY <1>5, <1>6

-----------------------------------------------------------------------------
(* abs has the bits in which a word differs from its sign.                 *)
LEMMA AbsIsDifference ==
  ASSUME NEW x \in Word
  PROVE  abs(x) = IF 31 \in x THEN Not(x) ELSE x
<1>1. Sar(x, 31) = IF 31 \in x THEN Bits ELSE Zero
  BY DEF Sar, Bits, Zero
<1>2. One \cap Bits = One /\ One \cap Zero = Zero
  BY DEF One, Bits, Zero
<1>3. CASE 31 \in x
  BY <1>1, <1>2, <1>3, Masks DEF abs, Not, Word
<1>4. CASE 31 \notin x
  BY <1>1, <1>2, <1>4, Masks DEF abs, Not, Word, Zero
<1> QED
  BY <1>3, <1>4

(* m is the position of the highest one                                    *)
Top(a, m) == m \in a /\ \A b \in a : b <= m

(* One step of the search: it finds whether the highest one is n places up *)
(* or more, and brings it down below place n if it was below 2n.           *)
LEMMA SearchStep ==
  ASSUME NEW a \in Word, NEW m \in 0 .. 30, Top(a, m),
         NEW n \in {1, 2, 4, 8, 16}, m < 2 * n
  PROVE  /\ res(a, n) = IF m >= n THEN n ELSE 0
         /\ Sar(a, res(a, n)) \in Word
         /\ m - res(a, n) \in 0 .. n - 1
         /\ Top(Sar(a, res(a, n)), m - res(a, n))
<1>1. 31 \notin a /\ m \in a /\ a \subseteq Bits /\ \A b \in a : b <= m
  BY DEF Top, Word, Bits
<1>2. Sar(a, n) = Zero <=> m < n
  <2>1. CASE m < n
    <3>1. \A b \in Bits : b + n <= 31 => b + n \notin a
      BY <1>1, <2>1 DEF Bits
    <3> QED
      BY <1>1, <2>1, <3>1 DEF Sar, Zero
  <2>2. CASE ~(m < n)
    <3>1. m - n \in Bits /\ m - n + n = m /\ m <= 31
      BY <2>2 DEF Bits
    <3>2. m - n \in Sar(a, n)
      BY <1>1, <3>1 DEF Sar
    <3> QED
      BY <2>2, <3>2 DEF Zero
  <2> QED
    BY <2>1, <2>2
<1>3. res(a, n) = IF m >= n THEN n ELSE 0
  BY <1>2 DEF res
<1> DEFINE k == res(a, n)
<1>4. k \in 0 .. 16 /\ k <= m /\ m - k \in 0 .. n - 1
  BY <1>3
<1>5. m - k \in Sar(a, k)
  <2>1. m - k \in Bits /\ m - k + k = m /\ m <= 31
    BY <1>4 DEF Bits
  <2> QED
    BY <1>1, <2>1 DEF Sar
<1>6. ASSUME NEW b \in Sar(a, k)
      PROVE  b <= m - k
  <2>1. b \in Bits /\ b + k \in a
    BY <1>1, <1>4 DEF Sar
  <2>2. b + k <= m
    BY <1>1, <2>1
  <2> QED
    BY <1>4, <2>1, <2>2 DEF Bits
<1> QED
  BY <1>3, <1>4, <1>5, <1>6 DEF Top, Word, Sar

(* The highest one of a is among the n positions from s on.                *)
Within(a, s, n) == (\E b \in a : b >= s) /\ (\A b \in a : b < s + n)

LEMMA Halve ==
  ASSUME NEW a \in Word, NEW n \in {1, 2, 4, 8, 16}, NEW s \in Bits,
         Within(a, s, 2 * n)
  PROVE  \E t \in Bits : Within(a, t, n)
<1>1. a \subseteq Bits
  BY DEF Word
<1>2. CASE \E b \in a : b >= s + n
  <2>1. s + n \in Bits
    BY <1>1, <1>2 DEF Bits
  <2>2. \A b \in a : b < s + n + n
    <3>1. \A b \in a : b < s + 2 * n
      BY DEF Within
    <3>2. \A b \in a : b \in Nat
      BY <1>1 DEF Bits
    <3>3. s \in Nat /\ n \in Nat /\ s + 2 * n = s + n + n
      BY DEF Bits
    <3> QED
      BY <3>1, <3>2, <3>3
  <2>3. Within(a, s + n, n)
    BY <1>2, <2>2 DEF Within
  <2> QED
    BY <2>1, <2>3
<1>3. CASE ~\E b \in a : b >= s + n
  BY <1>1, <1>3 DEF Within, Bits
<1> QED
  BY <1>2, <1>3

(* A word that is not zero has a highest one.                              *)
LEMMA TopExists ==
  ASSUME NEW a \in Word, a # Zero
  PROVE  \E m \in a : Top(a, m)
<1>1. a \subseteq Bits /\ \E b \in a : TRUE
  BY DEF Word, Zero
<1>2. 0 \in Bits /\ Within(a, 0, 2 * 16)
  BY <1>1 DEF Within, Bits
<1>3. \E t \in Bits : Within(a, t, 2 * 8)
  BY <1>2, Halve
<1>4. \E t \in Bits : Within(a, t, 2 * 4)
  BY <1>3, Halve
<1>5. \E t \in Bits : Within(a, t, 2 * 2)
  BY <1>4, Halve
<1>6. \E t \in Bits : Within(a, t, 2 * 1)
  BY <1>5, Halve
<1>7. PICK t \in Bits : Within(a, t, 1)
  BY <1>6, Halve
<1>8. PICK b \in a : b >= t
  BY <1>7 DEF Within
<1> QED
  BY <1>1, <1>7, <1>8 DEF Within, Top, Bits

(* howManyBits returns the least number of bits that represent a word in   *)
(* two's complement: from the last of them up the word repeats its sign,   *)
(* and with one less it would not (22-Lab1-datalab-bits.c:323).            *)
THEOREM HowManyBitsIsLeast ==
  ASSUME NEW x \in Word
  PROVE  /\ howManyBits(x) \in 1 .. 32
         /\ Represents(howManyBits(x), x)
         /\ howManyBits(x) > 1 => ~Represents(howManyBits(x) - 1, x)
<1> DEFINE abs0 == abs(x)
           res1 == res(abs0, 16)
           abs1 == Sar(abs0, res1)
           res2 == res(abs1, 8)
           abs2 == Sar(abs1, res2)
           res3 == res(abs2, 4)
           abs3 == Sar(abs2, res3)
           res4 == res(abs3, 2)
           abs4 == Sar(abs3, res4)
           res5 == res(abs4, 1)
           abs5 == Sar(abs4, res5)
<1>1. howManyBits(x) =
        res1 + res2 + res3 + res4 + res5 + Number[abs5] + 1
  BY DEF howManyBits
<1>2. /\ abs0 \in Word /\ 31 \notin abs0
      /\ \A b \in Bits : b \in abs0 <=> ~(b \in x <=> 31 \in x)
  BY AbsIsDifference DEF Word, Not, Bits
<1> HIDE DEF abs0
<1>3. CASE abs0 = Zero
  <2>1. \A n \in Nat : res(Zero, n) = 0
    BY DEF res, Sar, Zero, Bits
  <2>2. Sar(Zero, 0) = Zero
    BY DEF Sar, Zero, Bits
  <2>3. howManyBits(x) = 1
    <3>1. res1 = 0 /\ res2 = 0 /\ res3 = 0 /\ res4 = 0 /\ res5 = 0 /\ abs5 = Zero
      BY <1>3, <2>1, <2>2
    <3>2. Number[Zero] = 0
      BY DEF Number, One, Zero
    <3> HIDE DEF res1, res2, res3, res4, res5, abs5
    <3> QED
      BY <1>1, <3>1, <3>2
  <2>4. Represents(1, x)
    BY <1>2, <1>3 DEF Represents, Zero
  <2> QED
    BY <2>3, <2>4
<1>4. CASE abs0 # Zero
  <2>1. PICK m \in abs0 : Top(abs0, m)
    BY <1>2, <1>4, TopExists
  <2>2. m \in 0 .. 30
    BY <1>2 DEF Word, Bits
  <2> DEFINE m1 == m - res1
             m2 == m1 - res2
             m3 == m2 - res3
             m4 == m3 - res4
             m5 == m4 - res5
  <2>3. res1 \in {0, 16} /\ abs1 \in Word /\ m1 \in 0 .. 15 /\ Top(abs1, m1)
    BY <1>2, <2>1, <2>2, SearchStep
  <2>4. res2 \in {0, 8} /\ abs2 \in Word /\ m2 \in 0 .. 7 /\ Top(abs2, m2)
    <3> HIDE DEF res1, abs1, m1
    <3> QED BY <2>3, SearchStep
  <2>5. res3 \in {0, 4} /\ abs3 \in Word /\ m3 \in 0 .. 3 /\ Top(abs3, m3)
    <3> HIDE DEF res2, abs2, m2
    <3> QED BY <2>4, SearchStep
  <2>6. res4 \in {0, 2} /\ abs4 \in Word /\ m4 \in 0 .. 1 /\ Top(abs4, m4)
    <3> HIDE DEF res3, abs3, m3
    <3> QED BY <2>5, SearchStep
  <2>7. res5 \in {0, 1} /\ abs5 \in Word /\ m5 \in 0 .. 0 /\ Top(abs5, m5)
    <3> HIDE DEF res4, abs4, m4
    <3> QED BY <2>6, SearchStep
  <2>8. howManyBits(x) = m + 2
    <3>1. Number[abs5] = 1
      <4>1. abs5 = One
        BY <2>7 DEF Top, One, Word, Bits
      <4> QED
        BY <4>1 DEF Number, One, Zero
    <3>2. m - res1 - res2 - res3 - res4 - res5 = 0
      BY <2>7
    <3> HIDE DEF res1, res2, res3, res4, res5, abs5
    <3> QED
      BY <1>1, <2>2, <2>3, <2>4, <2>5, <2>6, <2>7, <3>1, <3>2
  <2>9. Represents(m + 2, x)
    BY <1>2, <2>1, <2>2 DEF Represents, Top, Bits
  <2>10. ~Represents(m + 1, x)
    BY <1>2, <2>1, <2>2 DEF Represents, Bits
  <2> QED
    BY <2>2, <2>8, <2>9, <2>10
<1> QED
  BY <1>3, <1>4

-----------------------------------------------------------------------------
(* negate forms -x, and of the one number that has no negation that number *)
(* itself (22-Lab1-datalab-bits.c:232).                                    *)
THEOREM NegateNegates ==
  ASSUME NEW x \in Int32
  PROVE  negate(x) = IF x = IntMin THEN IntMin ELSE -x
BY IntAssumption DEF negate, Sum, Complement, Int32, IntMin

(* isLessOrEqual compares, although y - x may overflow: it does only where *)
(* the signs differ, and there the difference is not used                  *)
(* (22-Lab1-datalab-bits.c:263).                                           *)
THEOREM IsLessOrEqualCompares ==
  ASSUME NEW x \in Int32, NEW y \in Int32
  PROVE  isLessOrEqual(x, y) = IF x <= y THEN 1 ELSE 0
<1> DEFINE diff == Sum(y, Sum(Complement(x), 1))
<1>1. diff \in Int /\ (Signs(x) = Signs(y) => (diff < 0 <=> y < x))
  BY IntAssumption DEF Sum, Complement, Int32, IntMin, Signs
<1>2. isLessOrEqual(x, y) =
        IF Signs(x) = Signs(y) THEN (IF diff < 0 THEN 0 ELSE 1)
        ELSE IF x < 0 THEN 1 ELSE 0
  BY <1>1, IntAssumption DEF isLessOrEqual, AndMask, OrMask, XorSigns, IsZero, Signs, Int32, IntMin
<1> QED
  BY <1>1, <1>2, IntAssumption DEF Signs, Int32, IntMin

=============================================================================
