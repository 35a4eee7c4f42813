---------------------------- MODULE DriverProofs ----------------------------
(***************************************************************************)
(* Proofs about Driver, for any lists of trace files of any content.       *)
(***************************************************************************)
EXTENDS Driver, FiniteSetTheorems, TLAPS

-----------------------------------------------------------------------------
(* Numbers and blocks.                                                     *)

(* A set of natural numbers that is not empty has a least one.             *)
LEMMA LeastNatural ==
  ASSUME NEW S, S \subseteq Nat, S # {}
  PROVE  Min(S) \in S /\ \A y \in S : Min(S) <= y
<1>1. PICK x \in S : \A y \in S : <<y, x>> \notin OpToRel(<, Nat)
  BY NatLessThanWellFounded, WFMin
<1>2. \A y \in S : ~(y < x)
  BY <1>1 DEF OpToRel
<1>3. \A y \in S : x <= y
  BY <1>2
<1> QED BY <1>3 DEF Min

(* Max of two numbers.                                                     *)
LEMMA MaxOfTwo ==
  ASSUME NEW a \in Int, NEW b \in Int
  PROVE  Max({a, b}) \in {a, b} /\ a <= Max({a, b}) /\ b <= Max({a, b})
<1>1. \E x \in {a, b} : \A y \in {a, b} : x >= y
  BY a >= b \/ b >= a
<1>2. Max({a, b}) \in {a, b} /\ \A y \in {a, b} : Max({a, b}) >= y
  BY <1>1 DEF Max
<1> QED BY <1>2

(* Numbered numbers, none of them beyond n, have a greatest one.           *)
LEMMA GreatestNatural ==
  ASSUME NEW n \in Nat, NEW S, S \subseteq 0 .. n, S # {}
  PROVE  Max(S) \in S /\ \A y \in S : y <= Max(S)
<1> DEFINE T == {n - x : x \in S}
<1>1. T \subseteq Nat /\ T # {}
  <2>1. \A x \in S : n - x \in Nat
    OBVIOUS
  <2> QED BY <2>1
<1>2. Min(T) \in T /\ \A y \in T : Min(T) <= y
  <2> HIDE DEF T
  <2> QED BY <1>1, LeastNatural
<1>3. PICK x \in S : Min(T) = n - x
  BY <1>2
<1>4. \A y \in S : n - x <= n - y
  BY <1>2, <1>3
<1>5. \A y \in S : x >= y
  BY <1>4
<1>6. Max(S) \in S /\ \A y \in S : Max(S) >= y
  BY <1>5 DEF Max
<1> QED BY <1>6

(* The partial sums.                                                       *)
Partial(g, sizes, n) ==
  /\ g \in [0 .. n -> Int]
  /\ g[0] = 0
  /\ \A i \in 1 .. n : g[i] = g[i - 1] + sizes[i - 1]

(* There are partial sums of any numbers.                                  *)
LEMMA PartialExists ==
  ASSUME NEW n \in Nat, NEW sizes \in [0 .. n - 1 -> Int]
  PROVE  \E g : Partial(g, sizes, n)
<1> DEFINE Bad == {m \in 0 .. n : ~\E g : Partial(g, sizes, m)}
<1> SUFFICES ASSUME Bad # {} PROVE FALSE
  <2>1. n \in 0 .. n
    OBVIOUS
  <2> QED BY <2>1
<1>1. PICK m \in Bad : \A k \in Bad : m <= k
  <2>1. Bad \subseteq Nat
    OBVIOUS
  <2> HIDE DEF Bad
  <2> QED BY <2>1, LeastNatural
<1>2. m \in 0 .. n /\ ~\E g : Partial(g, sizes, m)
  OBVIOUS
<1>3. m # 0
  <2> SUFFICES ASSUME m = 0 PROVE FALSE
    OBVIOUS
  <2>1. Partial([i \in 0 .. 0 |-> 0], sizes, 0)
    BY DEF Partial
  <2> QED BY <2>1, <1>2
<1>4. m - 1 \in 0 .. n /\ m - 1 \notin Bad
  <2>1. m - 1 \in 0 .. n /\ ~(m <= m - 1)
    BY <1>2, <1>3
  <2> QED BY <2>1, <1>1
<1>5. PICK g : Partial(g, sizes, m - 1)
  BY <1>4
<1> DEFINE h == [i \in 0 .. m |-> IF i = m THEN g[m - 1] + sizes[m - 1] ELSE g[i]]
<1>6. Partial(h, sizes, m)
  <2>1. g \in [0 .. m - 1 -> Int] /\ sizes[m - 1] \in Int
    BY <1>2, <1>3, <1>5 DEF Partial
  <2>2. h \in [0 .. m -> Int] /\ h[0] = 0
    BY <2>1, <1>2, <1>3, <1>5 DEF Partial
  <2>3. ASSUME NEW i \in 1 .. m PROVE h[i] = h[i - 1] + sizes[i - 1]
    <3>1. i - 1 \in 0 .. m /\ i - 1 # m /\ h[i - 1] = g[i - 1] /\ i \in 0 .. m
      BY <1>2
    <3>2. CASE i = m
      BY <3>1, <3>2
    <3>3. CASE i # m
      <4>1. i \in 1 .. m - 1
        BY <3>3, <1>2
      <4>2. h[i] = g[i]
        BY <3>1, <3>3
      <4>3. g[i] = g[i - 1] + sizes[i - 1]
        BY <4>1, <1>5 DEF Partial
      <4> QED BY <3>1, <4>2, <4>3
    <3> QED BY <3>2, <3>3
  <2> HIDE DEF h
  <2> QED BY <2>2, <2>3 DEF Partial
<1> QED BY <1>2, <1>6

(* The sum is the last of them.                                            *)
LEMMA SumIsPartial ==
  ASSUME NEW n \in Nat, NEW sizes \in [0 .. n - 1 -> Int]
  PROVE  \E g : Partial(g, sizes, n) /\ Sum(sizes, n) = g[n]
<1> DEFINE Equation(f) ==
             f = [i \in 0 .. n |-> IF i = 0 THEN 0 ELSE f[i - 1] + sizes[i - 1]]
           b == CHOOSE f : Equation(f)
<1>1. Sum(sizes, n) = b[n]
  BY DEF Sum
<1>2. PICK g : Partial(g, sizes, n)
  BY PartialExists
<1>3. Equation(g)
  <2>1. g = [i \in 0 .. n |-> g[i]]
    BY <1>2 DEF Partial
  <2>2. \A i \in 0 .. n : g[i] = IF i = 0 THEN 0 ELSE g[i - 1] + sizes[i - 1]
    <3> SUFFICES ASSUME NEW i \in 0 .. n
                 PROVE  g[i] = IF i = 0 THEN 0 ELSE g[i - 1] + sizes[i - 1]
      OBVIOUS
    <3>1. i = 0 \/ i \in 1 .. n
      OBVIOUS
    <3> QED BY <3>1, <1>2 DEF Partial
  <2> QED BY <2>1, <2>2
<1>4. Equation(b)
  BY <1>3
<1> HIDE DEF b
<1>5. b[0] = 0 /\ \A i \in 1 .. n : b[i] = b[i - 1] + sizes[i - 1]
  <2>1. \A i \in 0 .. n : b[i] = IF i = 0 THEN 0 ELSE b[i - 1] + sizes[i - 1]
    BY <1>4
  <2>2. 0 \in 0 .. n /\ \A i \in 1 .. n : i \in 0 .. n /\ i # 0
    OBVIOUS
  <2> QED BY <2>1, <2>2
<1> DEFINE Bad == {i \in 0 .. n : b[i] # g[i]}
<1>6. Bad = {}
  <2> SUFFICES ASSUME Bad # {} PROVE FALSE
    OBVIOUS
  <2>1. PICK m \in Bad : \A k \in Bad : m <= k
    <3>1. Bad \subseteq Nat
      OBVIOUS
    <3> HIDE DEF Bad
    <3> QED BY <3>1, LeastNatural
  <2>2. m \in 0 .. n /\ b[m] # g[m]
    OBVIOUS
  <2>3. m # 0
    BY <2>2, <1>2, <1>5 DEF Partial
  <2>4. m \in 1 .. n /\ m - 1 \in 0 .. n /\ ~(m <= m - 1)
    BY <2>2, <2>3
  <2>5. b[m - 1] = g[m - 1]
    BY <2>1, <2>4
  <2> QED BY <2>2, <2>4, <2>5, <1>2, <1>5 DEF Partial
<1>7. b[n] = g[n]
  BY <1>6
<1> QED BY <1>1, <1>2, <1>7

(* The sum of nothing but zeros.                                           *)
LEMMA SumOfZeros ==
  ASSUME NEW n \in Nat, NEW sizes \in [0 .. n - 1 -> Int],
         \A i \in 0 .. n - 1 : sizes[i] = 0
  PROVE  Sum(sizes, n) = 0
<1>1. Partial([i \in 0 .. n |-> 0], sizes, n)
  BY DEF Partial
<1>2. PICK g : Partial(g, sizes, n) /\ Sum(sizes, n) = g[n]
  BY SumIsPartial
<1> DEFINE Bad == {i \in 0 .. n : g[i] # 0}
<1>3. Bad = {}
  <2> SUFFICES ASSUME Bad # {} PROVE FALSE
    OBVIOUS
  <2>1. PICK m \in Bad : \A k \in Bad : m <= k
    <3>1. Bad \subseteq Nat
      OBVIOUS
    <3> HIDE DEF Bad
    <3> QED BY <3>1, LeastNatural
  <2>2. m \in 0 .. n /\ g[m] # 0 /\ m # 0
    BY <1>2 DEF Partial
  <2>3. m \in 1 .. n /\ m - 1 \in 0 .. n /\ ~(m <= m - 1) /\ m - 1 \in 0 .. n - 1
    BY <2>2
  <2>4. g[m - 1] = 0
    BY <2>1, <2>3
  <2>5. g[m] = g[m - 1] + sizes[m - 1] /\ sizes[m - 1] = 0
    BY <2>3, <1>2 DEF Partial
  <2> QED BY <2>2, <2>4, <2>5
<1> QED BY <1>2, <1>3

(* Of two sums that differ in one number.                                  *)
LEMMA SumOfOther ==
  ASSUME NEW n \in Nat, NEW s \in [0 .. n - 1 -> Int], NEW t \in [0 .. n - 1 -> Int],
         NEW j \in 0 .. n - 1, \A i \in 0 .. n - 1 : i # j => t[i] = s[i]
  PROVE  Sum(s, n) \in Int /\ Sum(t, n) = Sum(s, n) - s[j] + t[j]
<1>1. PICK g : Partial(g, s, n) /\ Sum(s, n) = g[n]
  BY SumIsPartial
<1>2. PICK h : Partial(h, t, n) /\ Sum(t, n) = h[n]
  BY SumIsPartial
<1>3. PICK d \in Int : d = t[j] - s[j]
  OBVIOUS
<1>4. g \in [0 .. n -> Int] /\ h \in [0 .. n -> Int]
  BY <1>1, <1>2 DEF Partial
<1> DEFINE Bad == {i \in 0 .. n : h[i] # g[i] + (IF i <= j THEN 0 ELSE d)}
<1>5. Bad = {}
  <2> SUFFICES ASSUME Bad # {} PROVE FALSE
    OBVIOUS
  <2>1. PICK m \in Bad : \A k \in Bad : m <= k
    <3>1. Bad \subseteq Nat
      OBVIOUS
    <3> HIDE DEF Bad
    <3> QED BY <3>1, LeastNatural
  <2>2. m \in 0 .. n /\ h[m] # g[m] + (IF m <= j THEN 0 ELSE d)
    OBVIOUS
  <2>3. m # 0
    BY <2>2, <1>1, <1>2 DEF Partial
  <2>4. m \in 1 .. n /\ m - 1 \in 0 .. n /\ ~(m <= m - 1) /\ m - 1 \in 0 .. n - 1
    BY <2>2, <2>3
  <2>5. h[m - 1] = g[m - 1] + (IF m - 1 <= j THEN 0 ELSE d)
    BY <2>1, <2>4
  <2>6. g[m] = g[m - 1] + s[m - 1] /\ h[m] = h[m - 1] + t[m - 1]
    BY <2>4, <1>1, <1>2 DEF Partial
  <2>7. g[m - 1] \in Int /\ h[m - 1] \in Int /\ s[m - 1] \in Int /\ t[m - 1] \in Int
    BY <2>4, <1>4
  <2>8. CASE m - 1 = j
    <3>1. m - 1 <= j /\ ~(m <= j)
      BY <2>4, <2>8
    <3>2. t[m - 1] = s[m - 1] + d
      BY <1>3, <2>7, <2>8
    <3>3. h[m - 1] = g[m - 1] /\ h[m] # g[m] + d
      BY <3>1, <2>2, <2>5, <2>7
    <3> QED BY ONLY <3>2, <3>3, <2>6, <2>7, <1>3
  <2>9. CASE m - 1 # j
    <3>1. (m - 1 <= j) <=> (m <= j)
      BY <2>4, <2>9
    <3>2. t[m - 1] = s[m - 1]
      BY <2>4, <2>9
    <3>3. PICK e \in Int : e = IF m <= j THEN 0 ELSE d
      OBVIOUS
    <3>4. h[m - 1] = g[m - 1] + e /\ h[m] # g[m] + e
      BY <3>1, <3>3, <2>2, <2>5
    <3> QED BY ONLY <3>2, <3>4, <2>6, <2>7, e \in Int
  <2> QED BY <2>8, <2>9
<1>6. h[n] = g[n] + d
  <2>1. n \in 0 .. n /\ ~(n <= j)
    OBVIOUS
  <2> QED BY <2>1, <1>5
<1> QED BY <1>1, <1>2, <1>3, <1>4, <1>6

(* The entries of trace->blocks are finitely many.                         *)
LEMMA EntriesFinite ==
  ASSUME NEW n \in Nat, NEW b \in [0 .. n - 1 -> Nat \cup {Junk}]
  PROVE  IsFiniteSet({b[i] : i \in DOMAIN b})
<1> DEFINE T == {b[i] : i \in DOMAIN b}
<1>1. b \in Surjection(0 .. n - 1, T)
  BY DEF Surjection
<1>2. IsFiniteSet(0 .. n - 1)
  BY FS_Interval
<1> HIDE DEF T
<1>3. IsFiniteSet(T)
  BY <1>1, <1>2, FS_Surjection
<1> QED BY <1>3 DEF T

(* A block that is handed out is one that nobody holds.                    *)
LEMMA FreshFacts ==
  ASSUME NEW n \in Nat, blocks \in [0 .. n - 1 -> Nat \cup {Junk}], IsFiniteSet(held)
  PROVE  Fresh \subseteq (Nat \ {NULL}) \ held
<1> DEFINE named == {blocks[i] : i \in DOMAIN blocks} \ {NULL, Junk}
           taken == held \cup named
           left == 1 .. Cardinality(taken) + 1 \ taken
<1>1. IsFiniteSet(taken)
  <2>1. IsFiniteSet({blocks[i] : i \in DOMAIN blocks})
    BY EntriesFinite
  <2>2. named \in SUBSET {blocks[i] : i \in DOMAIN blocks}
    OBVIOUS
  <2>3. IsFiniteSet(named)
    BY <2>1, <2>2, FS_Subset
  <2> QED BY <2>3, FS_Union
<1>2. Fresh = (named \ held) \cup {Min(left)}
  BY DEF Fresh
<1>3. held \subseteq taken /\ named \subseteq Nat \ {NULL}
  BY DEF Junk
<1> HIDE DEF taken, named
<1>4. Cardinality(taken) \in Nat
  BY <1>1, FS_CardinalityType
<1>5. left # {}
  <2> SUFFICES ASSUME left = {} PROVE FALSE
    OBVIOUS
  <2>1. 1 .. Cardinality(taken) + 1 \in SUBSET taken
    OBVIOUS
  <2>2. Cardinality(1 .. Cardinality(taken) + 1) <= Cardinality(taken)
    BY <1>1, <2>1, FS_Subset
  <2>3. Cardinality(1 .. Cardinality(taken) + 1) = Cardinality(taken) + 1
    <3>1. PICK c \in Nat : c = Cardinality(taken)
      BY <1>4
    <3>2. Cardinality(1 .. c + 1) = c + 1
      BY FS_Interval
    <3> QED BY <3>1, <3>2
  <2> QED BY <1>4, <2>2, <2>3
<1>6. left \subseteq Nat \ {0} /\ left \subseteq Nat
  BY <1>4
<1>7. Min(left) \in left
  BY <1>5, <1>6, LeastNatural
<1> QED BY <1>2, <1>3, <1>6, <1>7 DEF NULL

-----------------------------------------------------------------------------
(* Trace files.                                                            *)

(* What an id is allocated by, in the first n lines.                       *)
LEMMA AllocatedBy ==
  ASSUME NEW lines \in Seq(Line), NEW n \in 0 .. Len(lines), NEW i
  PROVE  i \in Allocated(SubSeq(lines, 1, n)) <=>
           \E k \in 1 .. n :
             /\ lines[k].type \in {"a", "r"} /\ lines[k].args[1] = i
             /\ \A m \in k + 1 .. n : ~(lines[m].type = "f" /\ lines[m].args[1] = i)
<1> DEFINE s == SubSeq(lines, 1, n)
<1>1. Len(s) = n /\ DOMAIN s = 1 .. n /\ \A k \in 1 .. n : s[k] = lines[k]
  <2>1. n \in Nat /\ n <= Len(lines)
    OBVIOUS
  <2> QED BY <2>1
<1> HIDE DEF s
<1> DEFINE Holder(k) == /\ s[k].type \in {"a", "r"}
                        /\ \A m \in k + 1 .. n : ~(s[m].type = "f" /\ s[m].args[1] = s[k].args[1])
<1>2. i \in Allocated(s) <=>
        \E k \in 1 .. n :
          /\ s[k].type \in {"a", "r"} /\ s[k].args[1] = i
          /\ \A m \in k + 1 .. n : ~(s[m].type = "f" /\ s[m].args[1] = i)
  <2>1. Allocated(s) = {s[k].args[1] : k \in {l \in 1 .. n : Holder(l)}}
    BY <1>1 DEF Allocated
  <2> QED BY <2>1
<1>3. \A k \in 1 .. n : \A m \in k + 1 .. n : m \in 1 .. n
  OBVIOUS
<1> QED BY <1>1, <1>2, <1>3 DEF s

(* The next line allocates at most its own id, and an f-line frees it.     *)
LEMMA AllocatedNext ==
  ASSUME NEW lines \in Seq(Line), NEW n \in 0 .. Len(lines), n < Len(lines),
         NEW i \in Allocated(SubSeq(lines, 1, n + 1))
  PROVE  /\ i \in Allocated(SubSeq(lines, 1, n)) \/ i = lines[n + 1].args[1]
         /\ lines[n + 1].type = "f" =>
              i # lines[n + 1].args[1] /\ i \in Allocated(SubSeq(lines, 1, n))
<1>1. n + 1 \in 0 .. Len(lines) /\ n \in Nat
  OBVIOUS
<1>2. PICK k \in 1 .. n + 1 :
        /\ lines[k].type \in {"a", "r"} /\ lines[k].args[1] = i
        /\ \A m \in k + 1 .. n + 1 : ~(lines[m].type = "f" /\ lines[m].args[1] = i)
  BY <1>1, AllocatedBy
<1>3. CASE k = n + 1
  BY <1>2, <1>3
<1>4. CASE k <= n
  <2>1. k \in 1 .. n /\ n + 1 \in k + 1 .. n + 1
        /\ \A m \in k + 1 .. n : m \in k + 1 .. n + 1
    BY <1>1, <1>4
  <2>2. i \in Allocated(SubSeq(lines, 1, n))
    BY <2>1, <1>2, AllocatedBy
  <2> QED BY <2>1, <2>2, <1>2
<1> QED BY <1>1, <1>3, <1>4

(* Before the first line nothing is allocated.                             *)
LEMMA NothingAllocated ==
  ASSUME NEW lines \in Seq(Line)
  PROVE  Allocated(SubSeq(lines, 1, 0)) = {}
<1>1. 0 \in 0 .. Len(lines)
  OBVIOUS
<1> QED BY <1>1, AllocatedBy

(* The next line leaves the ids alone that it does not name, and an a- or  *)
(* r-line allocates its own.                                               *)
LEMMA AllocatedStill ==
  ASSUME NEW lines \in Seq(Line), NEW n \in 0 .. Len(lines), n < Len(lines), NEW i,
         \/ i \in Allocated(SubSeq(lines, 1, n)) /\ i # lines[n + 1].args[1]
         \/ lines[n + 1].type \in {"a", "r"} /\ i = lines[n + 1].args[1]
  PROVE  i \in Allocated(SubSeq(lines, 1, n + 1))
<1>1. n + 1 \in 0 .. Len(lines) /\ n \in Nat
  OBVIOUS
<1>2. CASE i \in Allocated(SubSeq(lines, 1, n)) /\ i # lines[n + 1].args[1]
  <2>1. PICK k \in 1 .. n :
          /\ lines[k].type \in {"a", "r"} /\ lines[k].args[1] = i
          /\ \A m \in k + 1 .. n : ~(lines[m].type = "f" /\ lines[m].args[1] = i)
    BY <1>2, AllocatedBy
  <2>2. k \in 1 .. n + 1 /\ \A m \in k + 1 .. n + 1 : m \in k + 1 .. n \/ m = n + 1
    BY <1>1
  <2> QED BY <2>1, <2>2, <1>1, <1>2, AllocatedBy
<1>3. CASE lines[n + 1].type \in {"a", "r"} /\ i = lines[n + 1].args[1]
  <2>1. n + 1 \in 1 .. n + 1 /\ (n + 1) + 1 .. n + 1 = {}
    BY <1>1
  <2> QED BY <2>1, <1>1, <1>3, AllocatedBy
<1> QED BY <1>2, <1>3

(* What is asked for under an id, in the first n lines.                    *)
LEMMA AskedForBy ==
  ASSUME NEW lines \in Seq(Line), NEW n \in 0 .. Len(lines), NEW i
  PROVE  /\ i \notin Allocated(SubSeq(lines, 1, n)) => AskedFor(SubSeq(lines, 1, n), i) = 0
         /\ i \in Allocated(SubSeq(lines, 1, n)) =>
              \E m \in 1 .. n :
                /\ lines[m].args[1] = i /\ lines[m].type # "f"
                /\ \A k \in m + 1 .. n : lines[k].args[1] # i
                /\ AskedFor(SubSeq(lines, 1, n), i) = lines[m].args[2]
<1> DEFINE s == SubSeq(lines, 1, n)
<1>1. n \in Nat /\ Len(s) = n /\ DOMAIN s = 1 .. n /\ \A k \in 1 .. n : s[k] = lines[k]
  <2>1. n \in Nat /\ n <= Len(lines)
    OBVIOUS
  <2> QED BY <2>1
<1> HIDE DEF s
<1>2. i \notin Allocated(s) => AskedFor(s, i) = 0
  BY DEF AskedFor
<1>3. ASSUME i \in Allocated(s)
      PROVE  \E m \in 1 .. n :
               /\ lines[m].args[1] = i /\ lines[m].type # "f"
               /\ \A k \in m + 1 .. n : lines[k].args[1] # i
               /\ AskedFor(s, i) = lines[m].args[2]
  <2> DEFINE Named == {k \in DOMAIN s : s[k].args[1] = i}
             m == Max(Named)
  <2>1. PICK l \in 1 .. n :
          /\ lines[l].type \in {"a", "r"} /\ lines[l].args[1] = i
          /\ \A k \in l + 1 .. n : ~(lines[k].type = "f" /\ lines[k].args[1] = i)
    BY <1>3, AllocatedBy DEF s
  <2>2. Named = {k \in 1 .. n : lines[k].args[1] = i}
    BY <1>1
  <2>3. AskedFor(s, i) = s[m].args[2]
    BY <1>3 DEF AskedFor
  <2>4. Named \subseteq 0 .. n /\ l \in Named
    BY <2>1, <2>2
  <2> HIDE DEF Named
  <2>5. m \in Named /\ \A k \in Named : k <= m
    BY <2>4, <1>1, GreatestNatural
  <2> HIDE DEF m
  <2>6. m \in 1 .. n /\ lines[m].args[1] = i /\ l <= m
    BY <2>2, <2>4, <2>5
  <2>7. lines[m].type # "f"
    <3>1. CASE m = l
      BY <3>1, <2>1
    <3>2. CASE m # l
      <4>1. m \in l + 1 .. n
        BY <3>2, <2>6
      <4> QED BY <4>1, <2>1, <2>6
    <3> QED BY <3>1, <3>2
  <2>8. ASSUME NEW k \in m + 1 .. n PROVE lines[k].args[1] # i
    <3>1. k \in 1 .. n /\ ~(k <= m)
      BY <2>6
    <3> QED BY <3>1, <2>2, <2>5
  <2>9. AskedFor(s, i) = lines[m].args[2]
    BY <2>3, <2>6, <1>1
  <2> QED BY <2>6, <2>7, <2>8, <2>9
<1> QED BY <1>2, <1>3 DEF s

(* It is a number.                                                         *)
LEMMA AskedForType ==
  ASSUME NEW lines \in Seq(Line), Proper(lines), NEW n \in 0 .. Len(lines), NEW i
  PROVE  AskedFor(SubSeq(lines, 1, n), i) \in Nat
<1>1. CASE i \notin Allocated(SubSeq(lines, 1, n))
  <2>1. AskedFor(SubSeq(lines, 1, n), i) = 0
    BY <1>1, AskedForBy
  <2> QED BY <2>1
<1>2. CASE i \in Allocated(SubSeq(lines, 1, n))
  <2>1. PICK m \in 1 .. n :
          lines[m].type # "f" /\ AskedFor(SubSeq(lines, 1, n), i) = lines[m].args[2]
    BY <1>2, AskedForBy
  <2>2. m \in DOMAIN lines
    OBVIOUS
  <2>3. lines[m] \in Line
    BY <2>2
  <2>4. lines[m].args \in Seq(Nat)
    BY <2>3 DEF Line
  <2>5. Len(lines[m].args) = 2
    BY <2>1, <2>2 DEF Proper
  <2>6. lines[m].args[2] \in Nat
    BY <2>4, <2>5
  <2> QED BY <2>1, <2>6
<1> QED BY <1>1, <1>2

(* The next line changes it for its own id only.                           *)
LEMMA AskedForNext ==
  ASSUME NEW lines \in Seq(Line), NEW n \in 0 .. Len(lines), n < Len(lines), NEW i
  PROVE  /\ i # lines[n + 1].args[1] =>
              AskedFor(SubSeq(lines, 1, n + 1), i) = AskedFor(SubSeq(lines, 1, n), i)
         /\ i = lines[n + 1].args[1] /\ lines[n + 1].type = "f" =>
              AskedFor(SubSeq(lines, 1, n + 1), i) = 0
         /\ i = lines[n + 1].args[1] /\ lines[n + 1].type \in {"a", "r"} =>
              AskedFor(SubSeq(lines, 1, n + 1), i) = lines[n + 1].args[2]
<1> DEFINE now == SubSeq(lines, 1, n)
           next == SubSeq(lines, 1, n + 1)
<1>1. n + 1 \in 0 .. Len(lines) /\ n \in Nat
  OBVIOUS
<1>2. i \in Allocated(next) => i \in Allocated(now) \/ i = lines[n + 1].args[1]
  BY AllocatedNext
<1>3. ASSUME i # lines[n + 1].args[1] PROVE AskedFor(next, i) = AskedFor(now, i)
  <2>1. CASE i \in Allocated(now)
    <3>1. i \in Allocated(next)
      BY <1>3, <2>1, AllocatedStill
    <3>2. PICK m \in 1 .. n :
            /\ lines[m].args[1] = i /\ \A k \in m + 1 .. n : lines[k].args[1] # i
            /\ AskedFor(now, i) = lines[m].args[2]
      <4> HIDE DEF next
      <4> QED BY <2>1, AskedForBy
    <3>3. PICK l \in 1 .. n + 1 :
            /\ lines[l].args[1] = i /\ \A k \in l + 1 .. n + 1 : lines[k].args[1] # i
            /\ AskedFor(next, i) = lines[l].args[2]
      <4> HIDE DEF now
      <4> QED BY ONLY <3>1, <1>1, AskedForBy, lines \in Seq(Line) DEF next
    <3>4. l \in 1 .. n
      BY <3>3, <1>1, <1>3
    <3>5. l \notin m + 1 .. n /\ m \notin l + 1 .. n + 1
      BY <3>2, <3>3
    <3>6. l = m
      BY <3>4, <3>5, <1>1
    <3> QED BY <3>2, <3>3, <3>6
  <2>2. CASE i \notin Allocated(now)
    <3>1. AskedFor(now, i) = 0
      BY <2>2, AskedForBy
    <3>2. i \notin Allocated(next)
      BY <1>2, <1>3, <2>2
    <3>3. AskedFor(next, i) = 0
      BY <3>2, <1>1, AskedForBy
    <3> QED BY <3>1, <3>3
  <2> QED BY <2>1, <2>2
<1>4. ASSUME i = lines[n + 1].args[1], lines[n + 1].type = "f"
      PROVE  AskedFor(next, i) = 0
  <2>1. i \notin Allocated(next)
    BY <1>4, AllocatedNext
  <2> QED BY <2>1, <1>1, AskedForBy
<1>5. ASSUME i = lines[n + 1].args[1], lines[n + 1].type \in {"a", "r"}
      PROVE  AskedFor(next, i) = lines[n + 1].args[2]
  <2>1. i \in Allocated(next)
    BY <1>5, AllocatedStill
  <2>2. PICK m \in 1 .. n + 1 :
          /\ \A k \in m + 1 .. n + 1 : lines[k].args[1] # i
          /\ AskedFor(next, i) = lines[m].args[2]
    BY <2>1, <1>1, AskedForBy
  <2>3. n + 1 \notin m + 1 .. n + 1
    BY <2>2, <1>5
  <2>4. m = n + 1
    BY <2>3, <1>1
  <2> QED BY <2>2, <2>4
<1> QED BY <1>3, <1>4, <1>5

-----------------------------------------------------------------------------
(* The invariant.                                                          *)

Op == [type : {"a", "r", "f"}, index : Nat, size : Nat]
Tables == [0 .. file.num_ids - 1 -> Nat \cup {Junk}]
Ended == {"exit1", "aborted", "dead"}

Shape ==
  /\ files \in Inputs /\ run_libc \in BOOLEAN
  /\ pass \in {"libc", "mm"}
  /\ tracenum \in 1 .. Len(files)
  /\ stage \in {"open", "read", "results"} \cup Phases \cup Stopped
  /\ pos \in 0 .. Len(file.lines)
  /\ reader \in [index : Nat, size : Nat, max_index : Nat]
  /\ ops \in Seq(Op)
  /\ blocks \in Tables \cup {<<>>}
  /\ held \subseteq Nat \ {NULL} /\ IsFiniteSet(held)
  /\ runs \in 0 .. MaxRuns
  /\ stage \in {"open", "read", "valid", "util"} => runs = 0

(* What read_trace has read of the file is in trace->ops, as far as that   *)
(* reaches, and max_index bounds the indices that blocks are stored at.    *)
Mirrors(k) ==
  /\ k <= Len(file.lines) /\ ops[k].type = file.lines[k].type
  /\ file.lines[k].args # <<>> => ops[k].index = file.lines[k].args[1]
  /\ ops[k].type \in {"a", "r"} =>
       /\ ops[k].index <= reader.max_index
       /\ Len(file.lines[k].args) = 2 => ops[k].size = file.lines[k].args[2]

Loaded == blocks \in Tables /\ \A k \in 1 .. Len(ops) : Mirrors(k)

Reading ==
  stage = "read" =>
    Loaded /\ Len(ops) = IF pos < file.num_ops THEN pos ELSE file.num_ops

(* The ids the lines so far leave allocated have blocks that are held, each*)
(* its own.                                                                *)
Live == Allocated(SubSeq(file.lines, 1, pos))

Safe ==
  /\ \A i \in Live : i \in DOMAIN blocks /\ blocks[i] \in held
  /\ \A i, j \in Live : blocks[i] = blocks[j] => i = j

(* What the assertions of read_trace let through is all there.             *)
Replaying ==
  stage \in Phases =>
    /\ Loaded
    /\ Len(ops) = Len(file.lines) /\ Len(ops) = file.num_ops
    /\ reader.max_index = file.num_ids - 1
    /\ Proper(file.lines) => Safe

MisusedOK ==
  /\ misused \subseteq {"libc", "mm"} \X (1 .. Len(files))
  /\ ProperTracesAreSafe

(* The traces the student's package has been through, and the errors.      *)
Done ==
  IF stage \in {"results", "exit0"} THEN 1 .. Len(files)
  ELSE IF pass = "mm" THEN 1 .. tracenum - 1 ELSE {}

Counted ==
  /\ valid \in [1 .. Len(files) -> BOOLEAN]
  /\ errors \in 0 .. Len(files) + 1 /\ numcorrect \in 0 .. Len(files)
  /\ report \in {"none", "index", "errors"}
  /\ stage \notin Ended => errors = Cardinality({t \in Done : ~valid[t]})
  /\ stage = "exit0" =>
       /\ numcorrect = Cardinality({t \in 1 .. Len(files) : valid[t]})
       /\ report = IF errors = 0 THEN "index" ELSE "errors"

Inv == Shape /\ Reading /\ Replaying /\ MisusedOK /\ Counted

(* There is a trace under test, and its file is a file.                    *)
LEMMA FileFacts ==
  ASSUME Shape
  PROVE  /\ files \in Seq(File) /\ Len(files) \in Nat /\ Len(files) >= 1
         /\ DOMAIN files = 1 .. Len(files)
         /\ file.num_ids \in Nat /\ file.num_ops \in Nat /\ file.lines \in Seq(Line)
<1>1. files \in Seq(File) /\ files # <<>>
  BY DriverAssumption DEF Shape
<1>2. Len(files) \in Nat /\ Len(files) >= 1 /\ DOMAIN files = 1 .. Len(files)
  BY <1>1
<1>3. file \in File
  BY <1>1 DEF Shape, file
<1> QED BY <1>1, <1>2, <1>3 DEF File

(* At most every trace has failed.                                         *)
LEMMA ErrorsBound ==
  ASSUME Inv, stage \notin Ended
  PROVE  /\ errors \in 0 .. Len(files)
         /\ IsFiniteSet({t \in Done : ~valid[t]})
         /\ pass = "libc" /\ stage \notin {"results", "exit0"} => errors = 0
<1>1. Len(files) \in Nat /\ tracenum \in 1 .. Len(files)
  BY FileFacts DEF Inv, Shape
<1>2. {t \in Done : ~valid[t]} \in SUBSET (1 .. Len(files))
  BY <1>1 DEF Done
<1>3. IsFiniteSet(1 .. Len(files)) /\ Cardinality(1 .. Len(files)) = Len(files)
  <2>1. PICK n \in Nat : n = Len(files)
    BY <1>1
  <2>2. IsFiniteSet(1 .. n) /\ Cardinality(1 .. n) = n
    BY FS_Interval
  <2> QED BY <2>1, <2>2
<1>4. /\ IsFiniteSet({t \in Done : ~valid[t]})
      /\ Cardinality({t \in Done : ~valid[t]}) <= Len(files)
  BY <1>2, <1>3, FS_Subset
<1>5. Cardinality({t \in Done : ~valid[t]}) \in Nat
  BY <1>4, FS_CardinalityType
<1>6. errors = Cardinality({t \in Done : ~valid[t]})
  BY DEF Inv, Counted
<1>7. ASSUME pass = "libc", stage \notin {"results", "exit0"} PROVE errors = 0
  <2>1. {t \in Done : ~valid[t]} = {}
    BY <1>7 DEF Done
  <2> QED BY <2>1, <1>6, FS_EmptySet
<1> QED BY <1>1, <1>4, <1>5, <1>6, <1>7

(* The end of the program.                                                 *)
LEMMA StopKeeps ==
  ASSUME Inv, NEW how \in Ended, Stop(how), errors' \in 0 .. Len(files) + 1, MisusedOK'
  PROVE  Inv'
<1>1. /\ stage' = how /\ how \notin Phases /\ how \notin {"open", "read", "results", "exit0"}
      /\ how \in Stopped
      /\ UNCHANGED <<files, run_libc, reader, ops, numcorrect, report, pass, tracenum,
                     pos, blocks, held, runs, valid>>
  BY DEF Stop, main, trace, results, Ended, Phases, Stopped
<1>2. Shape'
  BY <1>1 DEF Inv, Shape, file, Tables, Phases
<1>3. Reading' /\ Replaying'
  BY <1>1 DEF Reading, Replaying
<1>4. Counted'
  BY <1>1 DEF Inv, Counted
<1> QED BY <1>2, <1>3, <1>4 DEF Inv

(* free_trace, and the next trace or the results.                          *)
LEMMA NextTraceKeeps ==
  ASSUME Inv, stage \in {"open", "read"} \cup Phases, NEW ok \in BOOLEAN, NextTrace(ok),
         pass = "mm" \/ ok, errors' = IF ok THEN errors ELSE errors + 1, MisusedOK'
  PROVE  Inv'
<1> DEFINE Bad == {t \in Done : ~valid[t]}
<1>1. /\ files \in Inputs /\ Len(files) \in Nat /\ Len(files) >= 1
      /\ tracenum \in 1 .. Len(files) /\ pass \in {"libc", "mm"}
      /\ valid \in [1 .. Len(files) -> BOOLEAN]
  BY FileFacts DEF Inv, Shape, Counted
<1>2. stage \notin Ended /\ stage \notin {"results", "exit0"}
  BY DEF Ended, Phases
<1>3. /\ UNCHANGED <<files, run_libc, numcorrect, report>>
      /\ pos' = 0 /\ reader' = [index |-> 0, size |-> 0, max_index |-> 0]
      /\ ops' = <<>> /\ blocks' = <<>> /\ held' = {} /\ runs' = 0
      /\ stage' \in {"open", "results"} /\ pass' \in {"libc", "mm"}
      /\ tracenum' \in 1 .. Len(files)
  BY <1>1 DEF NextTrace, main, results
<1>4. Shape'
  <2>1. file' \in File
    <3>1. files \in Seq(File)
      BY FileFacts DEF Inv
    <3> QED BY <3>1, <1>3 DEF file
  <2>2. file'.lines \in Seq(Line)
    BY <2>1 DEF File
  <2>3. pos' \in 0 .. Len(file'.lines) /\ runs' \in 0 .. MaxRuns
    BY <2>2, <1>3, DriverAssumption
  <2>4. IsFiniteSet(held')
    BY <1>3, FS_EmptySet
  <2>5. ops' \in Seq(Op) /\ blocks' \in Tables' \cup {<<>>}
    BY <1>3
  <2>6. run_libc' \in BOOLEAN
    BY <1>3 DEF Inv, Shape
  <2> QED BY <2>3, <2>4, <2>5, <2>6, <1>1, <1>3 DEF Shape
<1>5. Reading' /\ Replaying'
  BY <1>3 DEF Reading, Replaying, Phases
<1>6. IsFiniteSet(Bad) /\ errors = Cardinality(Bad) /\ errors \in 0 .. Len(files)
  BY <1>2, ErrorsBound DEF Inv, Counted
<1>7. CASE pass = "mm"
  <2>1. valid' = [valid EXCEPT ![tracenum] = ok]
    BY <1>7 DEF NextTrace
  <2>2. Done = 1 .. tracenum - 1 /\ Done' = 1 .. tracenum
    BY <1>1, <1>2, <1>3, <1>7 DEF Done, NextTrace
  <2>3. PICK now : now = {t \in Done' : ~valid'[t]}
    OBVIOUS
  <2>4. now = IF ok THEN Bad ELSE Bad \cup {tracenum}
    BY <2>1, <2>2, <2>3, <1>1
  <2>5. tracenum \notin Bad
    BY <2>2, <1>1
  <2> HIDE DEF Bad
  <2>6. Cardinality(Bad \cup {tracenum}) = Cardinality(Bad) + 1
    BY <1>6, <2>5, FS_AddElement
  <2>7. errors' = Cardinality(now) /\ errors' \in 0 .. Len(files) + 1
    <3>1. CASE ok
      BY <2>4, <1>1, <1>6, <3>1
    <3>2. CASE ~ok
      BY <2>4, <2>6, <1>1, <1>6, <3>2
    <3> QED BY <3>1, <3>2
  <2>8. valid' \in [1 .. Len(files) -> BOOLEAN]
    BY <2>1, <1>1
  <2>9. Counted'
    BY <2>3, <2>7, <2>8, <1>3 DEF Inv, Counted, Ended
  <2> QED BY <2>9, <1>4, <1>5 DEF Inv
<1>8. CASE pass = "libc"
  <2>1. valid' = valid /\ errors' = errors
    BY <1>8 DEF NextTrace
  <2>2. Done = {} /\ Done' = {}
    BY <1>1, <1>2, <1>3, <1>8 DEF Done, NextTrace
  <2>3. errors' = Cardinality({t \in Done' : ~valid'[t]})
    BY <2>1, <2>2, <1>6
  <2>4. Counted'
    BY <2>1, <2>3, <1>1, <1>3, <1>6 DEF Inv, Counted, Ended
  <2> QED BY <2>4, <1>4, <1>5 DEF Inv
<1> QED BY <1>1, <1>7, <1>8

(* While a trace is under test nothing is counted.                         *)
LEMMA CountedStays ==
  ASSUME Inv, stage \in {"open", "read"} \cup Phases, stage' \in {"read"} \cup Phases,
         UNCHANGED <<files, pass, tracenum, valid, errors, numcorrect, report>>
  PROVE  Counted'
<1>1. stage \notin Ended /\ stage \notin {"results", "exit0"}
      /\ stage' \notin Ended /\ stage' \notin {"results", "exit0"}
  BY DEF Ended, Phases
<1>2. Done' = Done
  BY <1>1 DEF Done
<1> QED BY <1>1, <1>2 DEF Inv, Counted

(* mem_reset_brk and mm_init: no block is held that was not before, and no *)
(* id is live.                                                             *)
LEMMA BeginKeeps ==
  ASSUME Inv, stage \in {"read"} \cup Phases, NEW phase \in Phases, Begin(phase), Loaded,
         Len(ops) = Len(file.lines), Len(ops) = file.num_ops,
         reader.max_index = file.num_ids - 1, RunsIn(phase) \in 0 .. MaxRuns
  PROVE  Inv'
<1>1. /\ stage' = phase /\ pos' = 0 /\ runs' = RunsIn(phase)
      /\ UNCHANGED <<files, run_libc, reader, ops, numcorrect, report, pass, tracenum,
                     blocks, valid, errors, misused>>
      /\ held' \subseteq held
  BY DEF Begin, main, trace, results
<1>2. file' = file /\ file.lines \in Seq(Line)
  BY <1>1, FileFacts DEF Inv, file
<1>3. IsFiniteSet(held')
  BY <1>1, FS_Subset DEF Inv, Shape
<1>4. Shape'
  <2>1. runs' \in 0 .. MaxRuns /\ (phase \in {"valid", "util"} => runs' = 0)
    BY <1>1 DEF RunsIn
  <2>2. pos' \in 0 .. Len(file'.lines)
    BY <1>1, <1>2
  <2> QED BY <1>1, <1>2, <1>3, <2>1, <2>2 DEF Inv, Shape, Tables, Phases
<1>5. Reading'
  BY <1>1 DEF Reading, Phases
<1>6. Loaded'
  BY <1>1, <1>2 DEF Loaded, Mirrors, Tables
<1>7. Safe'
  <2>1. Live' = {}
    BY <1>1, <1>2, NothingAllocated DEF Live
  <2> QED BY <2>1 DEF Safe
<1>8. Replaying'
  BY <1>1, <1>2, <1>6, <1>7 DEF Replaying
<1>9. Counted'
  BY <1>1, CountedStays
<1>10. MisusedOK'
  BY <1>1 DEF Inv, MisusedOK, ProperTracesAreSafe
<1> QED BY <1>4, <1>5, <1>8, <1>9, <1>10 DEF Inv

(* An operation done: what must be shown of the blocks.                    *)
LEMMA AdvanceKeeps ==
  ASSUME Inv, stage \in Phases, pos < Len(ops), pos' = pos + 1,
         UNCHANGED <<files, run_libc, reader, ops, numcorrect, report, pass, tracenum,
                     stage, runs, valid, errors>>,
         blocks' \in Tables, held' \subseteq Nat \ {NULL}, IsFiniteSet(held'),
         MisusedOK', Proper(file.lines) => Safe'
  PROVE  Inv'
<1>1. file' = file /\ file.lines \in Seq(Line)
  BY FileFacts DEF Inv, file
<1>2. Loaded /\ Len(ops) = Len(file.lines) /\ Len(ops) = file.num_ops
      /\ reader.max_index = file.num_ids - 1
  BY DEF Inv, Replaying
<1>3. pos' \in 0 .. Len(file'.lines)
  BY <1>1, <1>2 DEF Inv, Shape
<1>4. Shape'
  BY <1>1, <1>3 DEF Inv, Shape, Tables
<1>5. Reading'
  BY DEF Reading, Phases
<1>6. Loaded'
  BY <1>1, <1>2 DEF Loaded, Mirrors, Tables
<1>7. Replaying'
  BY <1>1, <1>2, <1>6 DEF Replaying
<1>8. Counted'
  BY CountedStays
<1> QED BY <1>4, <1>5, <1>7, <1>8 DEF Inv

(* A package function fails.                                               *)
LEMMA GiveUpKeeps ==
  ASSUME Inv, stage \in Phases, GiveUp, MisusedOK'
  PROVE  Inv'
<1>1. stage \notin Ended /\ errors \in 0 .. Len(files) /\ Len(files) \in Nat
  BY ErrorsBound, FileFacts DEF Ended, Phases, Inv
<1>2. CASE stage = "valid" /\ pass = "mm"
  <2>1. NextTrace(FALSE) /\ errors' = errors + 1
    BY <1>2 DEF GiveUp
  <2> QED BY <2>1, <1>2, NextTraceKeeps
<1>3. CASE stage = "valid" /\ pass # "mm"
  <2>1. Stop("exit1") /\ errors' = errors + 1 /\ "exit1" \in Ended
    BY <1>3 DEF GiveUp, Ended
  <2> QED BY <2>1, <1>1, StopKeeps
<1>4. CASE stage # "valid"
  <2>1. Stop("exit1") /\ errors' = errors /\ "exit1" \in Ended
    BY <1>4 DEF GiveUp, Ended
  <2> QED BY <2>1, <1>1, StopKeeps
<1> QED BY <1>2, <1>3, <1>4

(* The operation to do and the line it was read from.                      *)
LEMMA OperationFacts ==
  ASSUME Inv, NEW type \in {"a", "r", "f"}, Operating(type)
  PROVE  /\ stage \in Phases /\ pos < Len(ops) /\ pos \in Nat /\ blocks \in Tables
         /\ file.lines \in Seq(Line) /\ pos \in 0 .. Len(file.lines) /\ pos < Len(file.lines)
         /\ ops[pos + 1].index \in Nat /\ ops[pos + 1].size \in Nat
         /\ type \in {"a", "r"} => ops[pos + 1].index \in DOMAIN blocks
         /\ Proper(file.lines) =>
              /\ Safe
              /\ file.lines[pos + 1].type = type
              /\ ops[pos + 1].index = file.lines[pos + 1].args[1]
              /\ type # "f" => ops[pos + 1].size = file.lines[pos + 1].args[2]
              /\ type # "a" => ops[pos + 1].index \in Live
<1> DEFINE k == pos + 1
<1>1. /\ stage \in Phases /\ pos < Len(ops) /\ ops[k].type = type
      /\ pos \in 0 .. Len(file.lines) /\ file.lines \in Seq(Line) /\ file.num_ids \in Nat
      /\ ops \in Seq(Op) /\ reader.max_index \in Nat
  BY FileFacts DEF Operating, Inv, Shape
<1>2. /\ Loaded /\ Len(ops) = Len(file.lines) /\ reader.max_index = file.num_ids - 1
      /\ Proper(file.lines) => Safe
  BY <1>1 DEF Inv, Replaying
<1>3. k \in 1 .. Len(ops) /\ pos \in Nat /\ k \in 1 .. Len(file.lines) /\ k - 1 = pos
  BY <1>1, <1>2
<1> HIDE DEF k
<1>4. ops[k] \in Op /\ Mirrors(k)
  BY <1>1, <1>2, <1>3 DEF Loaded
<1>5. ops[k].index \in Nat /\ ops[k].size \in Nat
  BY <1>4 DEF Op
<1>6. ASSUME type \in {"a", "r"} PROVE ops[k].index \in DOMAIN blocks
  <2>1. ops[k].index <= reader.max_index
    BY <1>1, <1>4, <1>6 DEF Mirrors, k
  <2>2. DOMAIN blocks = 0 .. file.num_ids - 1
    BY <1>2 DEF Loaded, Tables
  <2> QED BY <2>1, <2>2, <1>1, <1>2, <1>5
<1>7. ASSUME Proper(file.lines)
      PROVE  /\ file.lines[k].type = type
             /\ ops[k].index = file.lines[k].args[1]
             /\ type # "f" => ops[k].size = file.lines[k].args[2]
             /\ type # "a" => ops[k].index \in Live
  <2>1. k \in DOMAIN file.lines
    BY <1>1, <1>3
  <2>2. file.lines[k].type = type
    BY <1>1, <1>4 DEF Mirrors, k
  <2>3. file.lines[k].args # <<>>
    <3>1. Len(file.lines[k].args) # 0
      BY <2>1, <1>7 DEF Proper
    <3> QED BY <3>1
  <2>4. ops[k].index = file.lines[k].args[1]
    BY <2>3, <1>4 DEF Mirrors
  <2>5. type # "a" => file.lines[k].args[1] \in Allocated(SubSeq(file.lines, 1, k - 1))
    BY <2>1, <2>2, <1>7 DEF Proper
  <2>6. type # "f" => ops[k].size = file.lines[k].args[2]
    BY <2>1, <2>2, <1>1, <1>4, <1>7 DEF Proper, Mirrors, k
  <2> QED BY <2>2, <2>4, <2>5, <2>6, <1>3 DEF Live
<1> QED BY <1>1, <1>2, <1>3, <1>5, <1>6, <1>7 DEF k, Loaded

(* No misuse, or one in a trace that is not proper.                        *)
LEMMA MisuseNoted ==
  ASSUME Inv, UNCHANGED files,
         \/ UNCHANGED misused
         \/ misused' = misused \cup {<<pass, tracenum>>} /\ ~Proper(file.lines)
  PROVE  MisusedOK'
BY DEF Inv, Shape, MisusedOK, ProperTracesAreSafe, file

(* What may come of a misuse.                                              *)
LEMMA MisuseKeeps ==
  ASSUME Inv, NEW type \in {"a", "r", "f"}, Operating(type), ~Proper(file.lines), Misuse(type)
  PROVE  Inv'
<1>1. stage \in Phases /\ pos < Len(ops) /\ blocks \in Tables
  BY OperationFacts
<1>2. UNCHANGED files
  BY DEF Misuse, Stop, GiveUp, NextTrace, main
<1>3. MisusedOK'
  BY <1>2, MisuseNoted DEF Misuse
<1>4. CASE Stop("dead") /\ UNCHANGED errors
  <2>1. errors' \in 0 .. Len(files) + 1 /\ "dead" \in Ended
    BY <1>4 DEF Inv, Counted, Ended
  <2> QED BY <2>1, <1>3, <1>4, StopKeeps
<1>5. CASE GiveUp
  BY <1>1, <1>3, <1>5, GiveUpKeeps
<1>6. CASE /\ pos' = pos + 1
           /\ UNCHANGED <<main, trace, results, pass, tracenum, stage, blocks,
                          held, runs, valid, errors>>
  <2>1. /\ UNCHANGED <<files, run_libc, reader, ops, numcorrect, report, pass, tracenum,
                       stage, runs, valid, errors>>
        /\ blocks' = blocks /\ held' = held
    BY <1>6 DEF main, trace, results
  <2>2. blocks' \in Tables /\ held' \subseteq Nat \ {NULL} /\ IsFiniteSet(held')
    BY <2>1, <1>1 DEF Inv, Shape
  <2> QED BY <2>1, <2>2, <1>1, <1>3, <1>6, AdvanceKeeps
<1> QED BY <1>4, <1>5, <1>6 DEF Misuse

(* A block is recorded at an id.                                           *)
LEMMA StoreKeeps ==
  ASSUME Inv, NEW type \in {"a", "r"}, Operating(type), NEW i, i = ops[pos + 1].index,
         NEW p \in Nat \ {NULL}, NEW now, now \subseteq Nat \ {NULL}, IsFiniteSet(now),
         p \in now, Advance(i, p, now),
         Proper(file.lines) =>
           \A j \in Live : j # i => blocks[j] \in now /\ blocks[j] # p
  PROVE  Inv'
<1>1. /\ stage \in Phases /\ pos < Len(ops) /\ blocks \in Tables /\ i \in DOMAIN blocks
      /\ file.lines \in Seq(Line) /\ pos \in 0 .. Len(file.lines) /\ pos < Len(file.lines)
      /\ Proper(file.lines) => Safe /\ i = file.lines[pos + 1].args[1]
  BY OperationFacts
<1>2. /\ UNCHANGED <<files, run_libc, reader, ops, numcorrect, report, pass, tracenum,
                     stage, runs, valid, errors, misused>>
      /\ pos' = pos + 1 /\ blocks' = [blocks EXCEPT ![i] = p] /\ held' = now
  BY DEF Advance, main, trace, results
<1>3. /\ blocks' \in Tables /\ DOMAIN blocks' = DOMAIN blocks
      /\ blocks'[i] = p /\ \A j \in DOMAIN blocks : j # i => blocks'[j] = blocks[j]
  BY <1>1, <1>2 DEF Tables
<1>4. ASSUME Proper(file.lines) PROVE Safe'
  <2>1. \A j \in Live' : j \in Live \/ j = i
    BY <1>1, <1>2, <1>4, AllocatedNext DEF Live, file
  <2>2. ASSUME NEW j \in Live'
        PROVE  /\ j \in DOMAIN blocks' /\ blocks'[j] \in held'
               /\ j # i => blocks'[j] = blocks[j] /\ blocks[j] # p /\ j \in Live
    <3>1. CASE j = i
      BY <3>1, <1>1, <1>2, <1>3
    <3>2. CASE j # i
      <4>1. j \in Live /\ j \in DOMAIN blocks /\ blocks[j] \in now /\ blocks[j] # p
        BY <2>1, <3>2, <1>1, <1>4 DEF Safe
      <4> QED BY <4>1, <3>2, <1>2, <1>3
    <3> QED BY <3>1, <3>2
  <2>3. ASSUME NEW j \in Live', NEW m \in Live', blocks'[j] = blocks'[m] PROVE j = m
    <3>1. CASE j = i \/ m = i
      BY <2>2, <2>3, <3>1, <1>3
    <3>2. CASE j # i /\ m # i
      <4>1. j \in Live /\ m \in Live /\ blocks[j] = blocks[m]
        BY <2>2, <2>3, <3>2
      <4> QED BY <4>1, <1>1, <1>4 DEF Safe
    <3> QED BY <3>1, <3>2
  <2> QED BY <2>2, <2>3 DEF Safe
<1>5. MisusedOK'
  BY <1>2, MisuseNoted
<1> QED BY <1>1, <1>2, <1>3, <1>4, <1>5, AdvanceKeeps

(* The checks of eval_mm_valid let the block through or not.               *)
LEMMA JudgedKeeps ==
  ASSUME Inv, NEW type \in {"a", "r"}, Operating(type), NEW i, i = ops[pos + 1].index,
         NEW p \in Nat \ {NULL}, NEW now, now \subseteq Nat \ {NULL}, IsFiniteSet(now),
         p \in now, Judged(i, p, now),
         Proper(file.lines) =>
           \A j \in Live : j # i => blocks[j] \in now /\ blocks[j] # p
  PROVE  Inv'
<1>1. CASE Advance(i, p, now)
  BY <1>1, StoreKeeps
<1>2. CASE GiveUp /\ UNCHANGED misused
  <2>1. stage \in Phases
    BY OperationFacts
  <2>2. UNCHANGED files
    BY <1>2 DEF GiveUp, Stop, NextTrace, main
  <2> QED BY <2>1, <2>2, <1>2, MisuseNoted, GiveUpKeeps
<1> QED BY <1>1, <1>2 DEF Judged

(* An operation that fails.                                                *)
LEMMA FailKeeps ==
  ASSUME Inv, NEW type \in {"a", "r", "f"}, Operating(type), GiveUp, UNCHANGED misused
  PROVE  Inv'
<1>1. stage \in Phases
  BY OperationFacts
<1>2. UNCHANGED files
  BY DEF GiveUp, Stop, NextTrace, main
<1> QED BY <1>1, <1>2, MisuseNoted, GiveUpKeeps

(* mm_malloc: the block is a new one.                                      *)
LEMMA AllocStep ==
  ASSUME Inv, Alloc
  PROVE  Inv'
<1> DEFINE i == ops[pos + 1].index
<1>1. Operating("a")
  BY DEF Alloc
<1>2. /\ blocks \in Tables /\ held \subseteq Nat \ {NULL} /\ IsFiniteSet(held)
      /\ Proper(file.lines) => Safe
  BY <1>1, OperationFacts DEF Inv, Shape
<1>3. Fresh \subseteq (Nat \ {NULL}) \ held
  <2>1. file.num_ids \in Nat
    BY FileFacts DEF Inv
  <2> QED BY <2>1, <1>2, FreshFacts DEF Tables
<1>4. PICK p \in MallocResults(ops[pos + 1].size) :
        IF p = NULL THEN GiveUp /\ UNCHANGED misused ELSE Judged(i, p, held \cup {p})
  BY DEF Alloc
<1>5. CASE p = NULL
  BY <1>1, <1>4, <1>5, FailKeeps
<1>6. CASE p # NULL
  <2>1. p \in Fresh
    BY <1>6 DEF MallocResults
  <2>2. IsFiniteSet(held \cup {p})
    BY <1>2, FS_AddElement
  <2>3. Proper(file.lines) => \A j \in Live : blocks[j] \in held \cup {p} /\ blocks[j] # p
    BY <2>1, <1>2, <1>3 DEF Safe
  <2>4. held \cup {p} \subseteq Nat \ {NULL} /\ p \in held \cup {p} /\ p \in Nat \ {NULL}
    BY <2>1, <1>2, <1>3
  <2>5. Judged(i, p, held \cup {p})
    BY <1>4, <1>6
  <2> QED BY <2>2, <2>3, <2>4, <2>5, <1>1, JudgedKeeps
<1> QED BY <1>5, <1>6

(* mm_realloc: the block stays or is a new one, and the old one is gone.   *)
LEMMA ReallocStep ==
  ASSUME Inv, Realloc
  PROVE  Inv'
<1> DEFINE i == ops[pos + 1].index
           old == blocks[i]
<1>1. Operating("r")
  BY DEF Realloc
<1>2. /\ blocks \in Tables /\ held \subseteq Nat \ {NULL} /\ IsFiniteSet(held)
      /\ Proper(file.lines) => Safe /\ i \in Live
  BY <1>1, OperationFacts DEF Inv, Shape
<1>3. Fresh \subseteq (Nat \ {NULL}) \ held
  <2>1. file.num_ids \in Nat
    BY FileFacts DEF Inv
  <2> QED BY <2>1, <1>2, FreshFacts DEF Tables
<1>4. CASE ~Defined(old, ops[pos + 1].size = 0)
  <2>1. ~Proper(file.lines)
    BY <1>2, <1>4 DEF Safe, Defined
  <2>2. Misuse("r")
    BY <1>4 DEF Realloc
  <2> QED BY <2>1, <2>2, <1>1, MisuseKeeps
<1>5. CASE GiveUp /\ UNCHANGED misused
  BY <1>1, <1>5, FailKeeps
<1>6. ASSUME Defined(old, ops[pos + 1].size = 0), NEW p \in ({old} \cup Fresh) \ {NULL},
             Judged(i, p, (held \ {old}) \cup {p})
      PROVE  Inv'
  <2> DEFINE now == (held \ {old}) \cup {p}
  <2>1. p \in Nat \ {NULL}
    BY <1>2, <1>3, <1>6 DEF Defined
  <2>2. IsFiniteSet(now)
    <3>1. IsFiniteSet(held \ {old})
      BY <1>2, FS_RemoveElement
    <3> QED BY <3>1, FS_AddElement
  <2>3. now \subseteq Nat \ {NULL} /\ p \in now
    BY <2>1, <1>2
  <2>4. ASSUME Proper(file.lines), NEW j \in Live, j # i
        PROVE  blocks[j] \in now /\ blocks[j] # p
    <3>1. blocks[j] \in held /\ blocks[j] # old
      BY <1>2, <2>4 DEF Safe
    <3> QED BY <3>1, <1>3, <1>6
  <2>5. Judged(i, p, now)
    BY <1>6
  <2> HIDE DEF now
  <2> QED BY <2>1, <2>2, <2>3, <2>4, <2>5, <1>1, JudgedKeeps
<1> QED BY <1>4, <1>5, <1>6 DEF Realloc

(* mm_free: of the live ids only this one had the block.                   *)
LEMMA FreeStep ==
  ASSUME Inv, Free
  PROVE  Inv'
<1> DEFINE i == ops[pos + 1].index
<1>1. Operating("f")
  BY DEF Free
<1>2. /\ stage \in Phases /\ pos < Len(ops) /\ blocks \in Tables
      /\ held \subseteq Nat \ {NULL} /\ IsFiniteSet(held)
      /\ file.lines \in Seq(Line) /\ pos \in 0 .. Len(file.lines) /\ pos < Len(file.lines)
      /\ Proper(file.lines) =>
           /\ Safe /\ i \in Live /\ i = file.lines[pos + 1].args[1]
           /\ file.lines[pos + 1].type = "f"
  BY <1>1, OperationFacts DEF Inv, Shape
<1>3. PICK p \in Entries(i) :
        IF ~Defined(p, TRUE) THEN Misuse("f")
        ELSE /\ pos' = pos + 1
             /\ held' = held \ {p}
             /\ UNCHANGED <<main, trace, results, pass, tracenum, stage, blocks,
                            runs, valid, errors, misused>>
  BY DEF Free
<1>4. Proper(file.lines) => i \in DOMAIN blocks /\ p = blocks[i] /\ p \in held
  BY <1>2, <1>3 DEF Safe, Entries
<1>5. CASE ~Defined(p, TRUE)
  <2>1. ~Proper(file.lines)
    BY <1>4, <1>5 DEF Defined
  <2> QED BY <2>1, <1>1, <1>3, <1>5, MisuseKeeps
<1>6. CASE Defined(p, TRUE)
  <2>1. /\ UNCHANGED <<files, run_libc, reader, ops, numcorrect, report, pass, tracenum,
                       stage, blocks, runs, valid, errors, misused>>
        /\ pos' = pos + 1 /\ held' = held \ {p}
    BY <1>3, <1>6 DEF main, trace, results
  <2>2. held' \subseteq Nat \ {NULL} /\ IsFiniteSet(held') /\ blocks' \in Tables
    BY <2>1, <1>2, FS_RemoveElement
  <2>3. ASSUME Proper(file.lines) PROVE Safe'
    <3>1. \A j \in Live' : j \in Live /\ j # i
      BY <2>1, <2>3, <1>2, AllocatedNext DEF Live, file
    <3>2. \A j \in Live' : j \in DOMAIN blocks' /\ blocks'[j] \in held'
      BY <3>1, <2>1, <2>3, <1>2, <1>4 DEF Safe
    <3>3. \A j, m \in Live' : blocks'[j] = blocks'[m] => j = m
      BY <3>1, <2>1, <2>3, <1>2 DEF Safe
    <3> QED BY <3>2, <3>3 DEF Safe
  <2>4. MisusedOK'
    BY <2>1, MisuseNoted
  <2> QED BY <2>1, <2>2, <2>3, <2>4, <1>2, AdvanceKeeps
<1> QED BY <1>5, <1>6

(* app_error and unix_error.                                               *)
LEMMA ExitKeeps ==
  ASSUME Inv, NEW how \in Ended, Stop(how), UNCHANGED <<errors, misused>>
  PROVE  Inv'
<1>1. errors' \in 0 .. Len(files) + 1 /\ UNCHANGED files
  BY DEF Inv, Counted, Stop, main
<1> QED BY <1>1, MisuseNoted, StopKeeps

(* The header of the file.                                                 *)
LEMMA OpenStep ==
  ASSUME Inv, OpenTrace
  PROVE  Inv'
<1>1. /\ stage = "open" /\ stage' = "read" /\ pos' = 0 /\ ops' = <<>>
      /\ UNCHANGED <<files, run_libc, numcorrect, report, pass, tracenum, held, runs, valid,
                     errors, misused>>
  BY DEF OpenTrace, main, results
<1>2. /\ file' = file /\ file.lines \in Seq(Line)
      /\ file.num_ids \in Nat /\ file.num_ops \in Nat
  BY <1>1, FileFacts DEF Inv, file
<1>3. reader' \in [index : Nat, size : Nat, max_index : Nat]
  BY DriverAssumption DEF OpenTrace
<1>4. blocks' \in Tables
  BY DEF OpenTrace, Tables, NULL, Junk
<1>5. Shape'
  BY <1>1, <1>2, <1>3, <1>4, SMTT(30) DEF Inv, Shape, Tables
<1>6. Reading'
  BY <1>1, <1>2, <1>4 DEF Reading, Loaded, Tables
<1>7. Replaying'
  BY <1>1 DEF Replaying, Phases
<1>8. Counted'
  BY <1>1, CountedStays
<1>9. MisusedOK'
  BY <1>1, MisuseNoted
<1> QED BY <1>5, <1>6, <1>7, <1>8, <1>9 DEF Inv

(* What a line leaves in read_trace's variables.                           *)
LEMMA ParsedFacts ==
  ASSUME Inv, NEW line \in Line
  PROVE  /\ Parsed(line) \in [index : Nat, size : Nat, max_index : Nat]
         /\ reader.max_index <= Parsed(line).max_index
         /\ line.args # <<>> => Parsed(line).index = line.args[1]
         /\ Len(line.args) = 2 => Parsed(line).size = line.args[2]
         /\ line.type # "f" => Parsed(line).index <= Parsed(line).max_index
<1> DEFINE index == IF line.args # <<>> THEN line.args[1] ELSE reader.index
           size == IF Len(line.args) = 2 THEN line.args[2] ELSE reader.size
           most == IF line.type = "f" THEN reader.max_index
                   ELSE Max({index, reader.max_index})
<1>1. Parsed(line) = [index |-> index, size |-> size, max_index |-> most]
  BY DEF Parsed
<1>2. reader.index \in Nat /\ reader.size \in Nat /\ reader.max_index \in Nat
  BY DEF Inv, Shape
<1>3. line.args \in Seq(Nat)
  BY DEF Line
<1>4. index \in Nat /\ size \in Nat
  <2>1. line.args # <<>> => line.args[1] \in Nat
    BY <1>3
  <2>2. Len(line.args) = 2 => line.args[2] \in Nat
    BY <1>3
  <2> QED BY <2>1, <2>2, <1>2
<1>5. /\ line.args # <<>> => index = line.args[1]
      /\ Len(line.args) = 2 => size = line.args[2]
  <2>1. line.args # <<>> => index = line.args[1]
    OBVIOUS
  <2>2. Len(line.args) = 2 => size = line.args[2]
    OBVIOUS
  <2> QED BY <2>1, <2>2
<1> HIDE DEF index, size
<1>6. most \in Nat /\ reader.max_index <= most /\ (line.type # "f" => index <= most)
  <2>1. index \in Int /\ reader.max_index \in Int
    BY <1>2, <1>4
  <2>2. PICK m : m = Max({index, reader.max_index})
    OBVIOUS
  <2>3. m \in {index, reader.max_index} /\ index <= m /\ reader.max_index <= m
    BY <2>1, <2>2, MaxOfTwo
  <2> QED BY <2>2, <2>3, <1>2, <1>4
<1> HIDE DEF most
<1> QED BY <1>1, <1>4, <1>5, <1>6

(* A line of the file.                                                     *)
LEMMA ReadStep ==
  ASSUME Inv, ReadLine
  PROVE  Inv'
<1> DEFINE line == file.lines[pos + 1]
           r == Parsed(line)
           op == [type |-> line.type, index |-> r.index,
                  size |-> IF line.type = "f" THEN 0 ELSE r.size]
<1>1. stage = "read" /\ pos < Len(file.lines)
  BY DEF ReadLine
<1>2. /\ file.lines \in Seq(Line) /\ file.num_ops \in Nat /\ pos \in 0 .. Len(file.lines)
      /\ pos \in Nat /\ ops \in Seq(Op)
  BY FileFacts DEF Inv, Shape
<1>3. line \in Line
  BY <1>1, <1>2
<1>4. Loaded /\ Len(ops) = IF pos < file.num_ops THEN pos ELSE file.num_ops
  BY <1>1 DEF Inv, Reading
<1>5. CASE \E how \in {"exit1", "dead"} : Stop(how) /\ UNCHANGED <<errors, misused>>
  BY <1>5, ExitKeeps DEF Ended
<1>6. ASSUME /\ line.type # "bogus"
             /\ reader' = r
             /\ ops' = IF pos < file.num_ops THEN Append(ops, op) ELSE ops
             /\ pos' = pos + 1
             /\ UNCHANGED <<main, results, pass, tracenum, stage, blocks,
                            held, runs, valid, errors, misused>>
      PROVE  Inv'
  <2>1. UNCHANGED <<files, run_libc, numcorrect, report, pass, tracenum, stage, blocks,
                    held, runs, valid, errors, misused>>
    BY <1>6 DEF main, results
  <2>2. file' = file
    BY <2>1 DEF file
  <2>3. /\ r \in [index : Nat, size : Nat, max_index : Nat]
        /\ reader.max_index <= r.max_index
        /\ line.args # <<>> => r.index = line.args[1]
        /\ Len(line.args) = 2 => r.size = line.args[2]
        /\ line.type # "f" => r.index <= r.max_index
    BY <1>3, ParsedFacts
  <2> HIDE DEF r
  <2>4. op \in Op
    BY <1>3, <1>6, <2>3 DEF Line, Op
  <2>5. op.type = line.type /\ op.index = r.index /\ (line.type # "f" => op.size = r.size)
    OBVIOUS
  <2> HIDE DEF op
  <2>6. /\ ops' \in Seq(Op)
        /\ Len(ops') = IF pos + 1 < file.num_ops THEN pos + 1 ELSE file.num_ops
        /\ \A k \in 1 .. Len(ops') :
             \/ k \in 1 .. Len(ops) /\ ops'[k] = ops[k]
             \/ k = pos + 1 /\ ops'[k] = op
    <3>1. CASE pos < file.num_ops
      BY <3>1, <1>2, <1>4, <1>6, <2>4
    <3>2. CASE ~(pos < file.num_ops)
      BY <3>2, <1>2, <1>4, <1>6
    <3> QED BY <3>1, <3>2
  <2>7. pos' \in 0 .. Len(file'.lines)
    BY <1>1, <1>2, <1>6, <2>2
  <2>8. Shape'
    BY <1>1, <1>6, <2>1, <2>2, <2>3, <2>6, <2>7 DEF Inv, Shape, Tables
  <2>9. ASSUME NEW k \in 1 .. Len(ops') PROVE Mirrors(k)'
    <3>1. CASE k \in 1 .. Len(ops) /\ ops'[k] = ops[k]
      <4>1. Mirrors(k)
        BY <3>1, <1>4 DEF Loaded
      <4>2. ops[k].index \in Nat
        <5>1. ops[k] \in Op
          BY <3>1, <1>2
        <5> QED BY <5>1 DEF Op
      <4>3. reader.max_index \in Nat /\ r.max_index \in Nat
        BY <2>3 DEF Inv, Shape
      <4>4. reader'.max_index = r.max_index
        BY <1>6
      <4>5. ops[k].index <= reader.max_index => ops[k].index <= r.max_index
        BY <4>2, <4>3, <2>3
      <4>6. ops'[k] = ops[k]
        BY <3>1
      <4> QED BY <4>1, <4>4, <4>5, <4>6, <2>2 DEF Mirrors
    <3>2. CASE k = pos + 1 /\ ops'[k] = op
      BY <3>2, <1>1, <1>2, <1>6, <2>2, <2>3, <2>5 DEF Mirrors
    <3> QED BY <3>1, <3>2, <2>6
  <2>10. blocks' \in Tables'
    BY <1>4, <2>1, <2>2 DEF Loaded, Tables
  <2>11. Reading'
    BY <2>2, <2>6, <2>9, <2>10, <1>6 DEF Reading, Loaded
  <2>12. Replaying'
    BY <1>1, <2>1 DEF Replaying, Phases
  <2>13. Counted'
    BY <1>1, <2>1, CountedStays
  <2>14. MisusedOK'
    BY <2>1, MisuseNoted
  <2> QED BY <2>8, <2>11, <2>12, <2>13, <2>14 DEF Inv
<1> QED BY <1>5, <1>6 DEF ReadLine, Exit

(* The assertions of read_trace.                                           *)
LEMMA CloseStep ==
  ASSUME Inv, CloseTrace
  PROVE  Inv'
<1>1. /\ stage = "read" /\ pos = Len(file.lines)
      /\ Loaded /\ Len(ops) = IF pos < file.num_ops THEN pos ELSE file.num_ops
  BY DEF CloseTrace, Inv, Reading
<1>2. file.num_ops \in Nat
  BY FileFacts DEF Inv
<1>3. CASE reader.max_index = file.num_ids - 1 /\ pos = file.num_ops /\ Begin("valid")
  <2>1. Len(ops) = Len(file.lines) /\ Len(ops) = file.num_ops
    BY <1>1, <1>2, <1>3
  <2>2. RunsIn("valid") \in 0 .. MaxRuns /\ "valid" \in Phases
    BY DriverAssumption DEF RunsIn, Phases
  <2> QED BY <2>1, <2>2, <1>1, <1>3, BeginKeeps
<1>4. CASE pass = "mm" /\ errors' = errors + 1 /\ NextTrace(FALSE) /\ UNCHANGED misused
  <2>1. UNCHANGED files
    BY <1>4 DEF NextTrace, main
  <2>2. MisusedOK'
    BY <2>1, <1>4, MisuseNoted
  <2> QED BY <2>2, <1>1, <1>4, NextTraceKeeps
<1>5. CASE Stop("aborted") /\ UNCHANGED <<errors, misused>>
  BY <1>5, ExitKeeps DEF Ended
<1> QED BY <1>3, <1>4, <1>5 DEF CloseTrace

(* The end of a phase.                                                     *)
LEMMA PhaseStep ==
  ASSUME Inv, NextPhase
  PROVE  Inv'
<1>1. /\ stage \in Phases /\ Loaded
      /\ Len(ops) = Len(file.lines) /\ Len(ops) = file.num_ops
      /\ reader.max_index = file.num_ids - 1
  BY DEF NextPhase, Inv, Replaying
<1>2. CASE Begin(After)
  <2>1. RunsIn(After) \in 0 .. MaxRuns
    BY <1>1, DriverAssumption DEF NextPhase, RunsIn, After, Inv, Shape, Phases
  <2>2. After \in Phases
    BY DEF After, Phases
  <2> QED BY <1>1, <1>2, <2>1, <2>2, BeginKeeps
<1>3. CASE Exit
  BY <1>3, ExitKeeps DEF Exit, Ended
<1> QED BY <1>2, <1>3 DEF NextPhase

(* The end of a trace that all phases are done with.                       *)
LEMMA EndStep ==
  ASSUME Inv, EndTrace
  PROVE  Inv'
<1>1. stage \in Phases /\ NextTrace(TRUE) /\ UNCHANGED <<errors, misused>>
  BY DEF EndTrace, Phases
<1>2. UNCHANGED files
  BY <1>1 DEF NextTrace, main
<1>3. MisusedOK'
  BY <1>1, <1>2, MisuseNoted
<1> QED BY <1>1, <1>3, NextTraceKeeps

(* The results are printed.                                                *)
LEMMA ReportStep ==
  ASSUME Inv, Report
  PROVE  Inv'
<1>1. /\ stage = "results" /\ stage' = "exit0"
      /\ numcorrect' = Cardinality({t \in DOMAIN files : valid[t]})
      /\ report' = IF errors = 0 THEN "index" ELSE "errors"
      /\ UNCHANGED <<files, run_libc, reader, ops, pass, tracenum, pos, blocks, held, runs,
                     valid, errors, misused>>
  BY DEF Report, main, trace
<1>2. /\ DOMAIN files = 1 .. Len(files) /\ Len(files) \in Nat
      /\ file' = file
  BY <1>1, FileFacts DEF Inv, file
<1>3. Shape'
  BY <1>1, <1>2 DEF Inv, Shape, Tables, Stopped
<1>4. Reading' /\ Replaying'
  BY <1>1 DEF Reading, Replaying, Phases
<1>5. numcorrect' \in 0 .. Len(files)
  <2>1. PICK n \in Nat : n = Len(files)
    BY <1>2
  <2>2. IsFiniteSet(1 .. n) /\ Cardinality(1 .. n) = n
    BY FS_Interval
  <2>3. PICK good : good = {t \in 1 .. n : valid[t]}
    OBVIOUS
  <2>4. good \in SUBSET (1 .. n)
    BY <2>3
  <2>5. IsFiniteSet(good) /\ Cardinality(good) <= n
    BY <2>2, <2>4, FS_Subset
  <2>6. Cardinality(good) \in Nat
    BY <2>5, FS_CardinalityType
  <2>7. numcorrect' = Cardinality(good)
    BY <1>1, <1>2, <2>1, <2>3
  <2> QED BY <2>1, <2>5, <2>6, <2>7
<1>6. Done' = Done
  BY <1>1 DEF Done
<1>7. Counted'
  BY <1>1, <1>2, <1>5, <1>6 DEF Inv, Counted, Ended
<1>8. MisusedOK'
  BY <1>1, MisuseNoted
<1> QED BY <1>3, <1>4, <1>7, <1>8 DEF Inv

-----------------------------------------------------------------------------
(* The invariant holds of every run.                                       *)

(* What main starts with.                                                  *)
LEMMA StartsRight ==
  ASSUME Init
  PROVE  Inv
<1>1. /\ files \in Inputs /\ run_libc \in BOOLEAN /\ pass \in {"libc", "mm"}
      /\ tracenum = 1 /\ stage = "open" /\ pos = 0
      /\ reader = [index |-> 0, size |-> 0, max_index |-> 0]
      /\ ops = <<>> /\ blocks = <<>> /\ held = {} /\ runs = 0
      /\ errors = 0 /\ numcorrect = 0 /\ report = "none" /\ misused = {}
      /\ valid = [t \in DOMAIN files |-> FALSE]
  BY DEF Init
<1>2. files \in Seq(File) /\ files # <<>>
  BY <1>1, DriverAssumption
<1>3. Len(files) \in Nat /\ Len(files) >= 1 /\ DOMAIN files = 1 .. Len(files)
  BY <1>2
<1>4. file.lines \in Seq(Line)
  <2>1. file \in File
    BY <1>1, <1>2, <1>3 DEF file
  <2> QED BY <2>1 DEF File
<1>5. Shape
  <2>1. pos \in 0 .. Len(file.lines) /\ runs \in 0 .. MaxRuns
    BY <1>1, <1>4, DriverAssumption
  <2>2. IsFiniteSet(held)
    BY <1>1, FS_EmptySet
  <2>3. ops \in Seq(Op) /\ blocks \in Tables \cup {<<>>}
    BY <1>1
  <2> QED BY <1>1, <1>3, <2>1, <2>2, <2>3 DEF Shape
<1>6. Reading /\ Replaying
  BY <1>1 DEF Reading, Replaying, Phases
<1>7. MisusedOK
  BY <1>1 DEF MisusedOK, ProperTracesAreSafe
<1>8. Counted
  <2>1. {t \in Done : ~valid[t]} = {}
    BY <1>1 DEF Done
  <2>2. errors = Cardinality({t \in Done : ~valid[t]})
    BY <1>1, <2>1, FS_EmptySet
  <2> QED BY <1>1, <1>3, <2>2 DEF Counted
<1> QED BY <1>5, <1>6, <1>7, <1>8 DEF Inv

(* A step that changes nothing.                                            *)
LEMMA NothingHappens ==
  ASSUME Inv, UNCHANGED vars
  PROVE  Inv'
<1>1. UNCHANGED <<files, run_libc, reader, ops, numcorrect, report, pass, tracenum, stage,
                  pos, blocks, held, runs, valid, errors, misused>>
  BY DEF vars, main, trace, results
<1>2. file' = file
  BY <1>1 DEF file
<1>3. Shape'
  BY <1>1, <1>2 DEF Inv, Shape, Tables
<1>4. Loaded' = Loaded /\ Safe' = Safe /\ Done' = Done
  BY <1>1, <1>2 DEF Loaded, Mirrors, Tables, Safe, Live, Done
<1>5. Reading' /\ Replaying'
  BY <1>1, <1>2, <1>4 DEF Inv, Reading, Replaying
<1>6. MisusedOK'
  BY <1>1 DEF Inv, MisusedOK, ProperTracesAreSafe
<1>7. Counted'
  BY <1>1, <1>4 DEF Inv, Counted
<1> QED BY <1>3, <1>5, <1>6, <1>7 DEF Inv

(* Every step of main keeps the invariant.                                 *)
LEMMA InductiveInvariant == Spec => []Inv
<1>1. Init => Inv
  BY StartsRight
<1>2. Inv /\ [Next]_vars => Inv'
  <2> SUFFICES ASSUME Inv, [Next]_vars PROVE Inv'
    OBVIOUS
  <2>1. CASE OpenTrace BY <2>1, OpenStep
  <2>2. CASE OpenFails BY <2>2, ExitKeeps DEF OpenFails, Exit, Ended
  <2>3. CASE ReadLine  BY <2>3, ReadStep
  <2>4. CASE CloseTrace BY <2>4, CloseStep
  <2>5. CASE Alloc     BY <2>5, AllocStep
  <2>6. CASE Realloc   BY <2>6, ReallocStep
  <2>7. CASE Free      BY <2>7, FreeStep
  <2>8. CASE NextPhase BY <2>8, PhaseStep
  <2>9. CASE EndTrace  BY <2>9, EndStep
  <2>10. CASE Report   BY <2>10, ReportStep
  <2>11. CASE UNCHANGED vars BY <2>11, NothingHappens
  <2> QED BY <2>1, <2>2, <2>3, <2>4, <2>5, <2>6, <2>7, <2>8, <2>9, <2>10, <2>11 DEF Next
<1> QED BY <1>1, <1>2, PTL DEF Spec

-----------------------------------------------------------------------------
(* The sizes that eval_mm_util adds up.                                    *)

(* The last line number that Demand counts has the most asked for of all.  *)
IsPeak(p, n) ==
  (\E k \in 0 .. n : p = Demand(k)) /\ (\A k \in 0 .. n : Demand(k) <= p)

(* trace->block_sizes is right for the ids that are live, and so are the   *)
(* totals: what it holds of the other ids is never read.                   *)
Orderly == Proper(file.lines) /\ NoDoubles(file.lines)

Tallied ==
  /\ block_sizes \in Tables \cup {<<>>} /\ total \in Int /\ peak \in Nat
  /\ stage \in {"read"} \cup Phases => block_sizes \in Tables
  /\ stage = "util" => pass = "mm"
  /\ stage \in {"valid", "util"} /\ pass = "mm" /\ Orderly =>
       \A i \in Live : block_sizes[i] = AskedFor(SubSeq(file.lines, 1, pos), i)
  /\ stage = "util" /\ Orderly => total = Demand(pos) /\ IsPeak(peak, pos)

(* Nothing is asked for before the first line.                             *)
LEMMA DemandStarts ==
  ASSUME Shape
  PROVE  Demand(0) = 0
<1> DEFINE sizes == [i \in 0 .. file.num_ids - 1 |-> AskedFor(SubSeq(file.lines, 1, 0), i)]
<1>1. file.num_ids \in Nat /\ file.lines \in Seq(Line) /\ 0 \in 0 .. Len(file.lines)
  BY FileFacts
<1>2. \A i : AskedFor(SubSeq(file.lines, 1, 0), i) = 0
  BY <1>1, NothingAllocated, AskedForBy
<1>3. /\ sizes \in [0 .. file.num_ids - 1 -> Int]
      /\ \A i \in 0 .. file.num_ids - 1 : sizes[i] = 0
  BY <1>2
<1> HIDE DEF sizes
<1>4. Sum(sizes, file.num_ids) = 0
  BY <1>1, <1>3, SumOfZeros
<1> QED BY <1>4 DEF Demand, sizes

(* What is asked for in all is a number.                                   *)
LEMMA DemandType ==
  ASSUME Shape, Proper(file.lines), NEW k \in 0 .. Len(file.lines)
  PROVE  Demand(k) \in Int
<1> DEFINE sizes == [i \in 0 .. file.num_ids - 1 |-> AskedFor(SubSeq(file.lines, 1, k), i)]
<1>1. file.num_ids \in Nat /\ file.lines \in Seq(Line)
  BY FileFacts
<1>2. \A i : AskedFor(SubSeq(file.lines, 1, k), i) \in Int
  BY <1>1, AskedForType
<1>3. sizes \in [0 .. file.num_ids - 1 -> Int]
  BY <1>2
<1>4. Demand(k) = Sum(sizes, file.num_ids)
  BY DEF Demand
<1> HIDE DEF sizes
<1>5. PICK g : Partial(g, sizes, file.num_ids) /\ Sum(sizes, file.num_ids) = g[file.num_ids]
  BY <1>1, <1>3, SumIsPartial
<1> QED BY <1>1, <1>4, <1>5 DEF Partial

(* A line changes what is asked for in all by the change for its own id.   *)
LEMMA DemandNext ==
  ASSUME Shape, Proper(file.lines), NEW n \in 0 .. Len(file.lines), n < Len(file.lines),
         NEW j \in 0 .. file.num_ids - 1, j = file.lines[n + 1].args[1]
  PROVE  /\ Demand(n) \in Int
         /\ Demand(n + 1) = Demand(n) - AskedFor(SubSeq(file.lines, 1, n), j)
                              + AskedFor(SubSeq(file.lines, 1, n + 1), j)
<1> DEFINE s == [i \in 0 .. file.num_ids - 1 |-> AskedFor(SubSeq(file.lines, 1, n), i)]
           t == [i \in 0 .. file.num_ids - 1 |-> AskedFor(SubSeq(file.lines, 1, n + 1), i)]
<1>1. /\ file.num_ids \in Nat /\ file.lines \in Seq(Line)
      /\ n + 1 \in 0 .. Len(file.lines)
  BY FileFacts
<1>2. \A i : /\ AskedFor(SubSeq(file.lines, 1, n), i) \in Int
             /\ AskedFor(SubSeq(file.lines, 1, n + 1), i) \in Int
  BY <1>1, AskedForType
<1>3. \A i : i # j => AskedFor(SubSeq(file.lines, 1, n + 1), i)
                        = AskedFor(SubSeq(file.lines, 1, n), i)
  BY <1>1, AskedForNext
<1>4. /\ s \in [0 .. file.num_ids - 1 -> Int] /\ t \in [0 .. file.num_ids - 1 -> Int]
      /\ \A i \in 0 .. file.num_ids - 1 : i # j => t[i] = s[i]
      /\ s[j] = AskedFor(SubSeq(file.lines, 1, n), j)
      /\ t[j] = AskedFor(SubSeq(file.lines, 1, n + 1), j)
  BY <1>2, <1>3
<1>5. Demand(n) = Sum(s, file.num_ids) /\ Demand(n + 1) = Sum(t, file.num_ids)
  BY DEF Demand
<1> HIDE DEF s, t
<1>6. Sum(s, file.num_ids) \in Int
      /\ Sum(t, file.num_ids) = Sum(s, file.num_ids) - s[j] + t[j]
  BY <1>1, <1>4, SumOfOther
<1> QED BY <1>4, <1>5, <1>6

(* What the size recorded before and the next one are, for an orderly      *)
(* trace, at the operation that comes next.                                *)
LEMMA RequestFacts ==
  ASSUME Inv, Tallied, NEW type \in {"a", "r", "f"}, Operating(type), Orderly,
         stage \in {"valid", "util"}, pass = "mm", NEW op, op = ops[pos + 1]
  PROVE  /\ op.index \in 0 .. file.num_ids - 1 /\ op.index \in DOMAIN block_sizes
         /\ op.index = file.lines[pos + 1].args[1] /\ op.type = file.lines[pos + 1].type
         /\ OldSize(op) = AskedFor(SubSeq(file.lines, 1, pos), op.index)
         /\ AskedFor(SubSeq(file.lines, 1, pos + 1), op.index)
              = IF op.type = "f" THEN 0 ELSE op.size
<1>1. /\ file.lines \in Seq(Line) /\ pos \in 0 .. Len(file.lines) /\ pos < Len(file.lines)
      /\ blocks \in Tables /\ Safe
      /\ file.lines[pos + 1].type = type /\ op.index = file.lines[pos + 1].args[1]
      /\ type # "a" => op.index \in Live
  BY OperationFacts DEF Orderly
<1>2. op.type = type
  BY DEF Operating
<1>3. op.index \in DOMAIN blocks
  <2>1. CASE type \in {"a", "r"}
    BY <2>1, OperationFacts
  <2>2. CASE type = "f"
    BY <2>2, <1>1 DEF Safe
  <2> QED BY <2>1, <2>2
<1>4. block_sizes \in Tables
  BY DEF Tallied, Phases
<1>5. op.index \in 0 .. file.num_ids - 1 /\ op.index \in DOMAIN block_sizes
  BY <1>1, <1>3, <1>4 DEF Tables
<1>6. OldSize(op) = AskedFor(SubSeq(file.lines, 1, pos), op.index)
  <2>1. CASE type = "a"
    <3>1. pos + 1 \in DOMAIN file.lines /\ (pos + 1) - 1 = pos
      BY <1>1
    <3>2. op.index \notin Allocated(SubSeq(file.lines, 1, pos))
      BY <3>1, <2>1, <1>1 DEF Orderly, NoDoubles
    <3> QED BY <3>2, <2>1, <1>1, <1>2, AskedForBy DEF OldSize
  <2>2. CASE type # "a"
    <3>1. op.index \in Live
      BY <2>2, <1>1
    <3>2. block_sizes[op.index] = AskedFor(SubSeq(file.lines, 1, pos), op.index)
      BY <3>1 DEF Tallied
    <3> QED BY <3>2, <2>2, <1>2, <1>5 DEF OldSize
  <2> QED BY <2>1, <2>2
<1>7. type # "f" => op.size = file.lines[pos + 1].args[2]
  BY OperationFacts DEF Orderly
<1>8. AskedFor(SubSeq(file.lines, 1, pos + 1), op.index)
        = IF op.type = "f" THEN 0 ELSE op.size
  BY <1>1, <1>2, <1>7, AskedForNext
<1> QED BY ONLY <1>1, <1>2, <1>5, <1>6, <1>8

(* An operation, be it one that is undefined, is accounted for.            *)
LEMMA AccountKeeps ==
  ASSUME Inv, Tallied, NEW type \in {"a", "r", "f"}, Operating(type), pos' = pos + 1,
         Account(ops[pos + 1]), UNCHANGED <<files, tracenum, stage, pass>>
  PROVE  Tallied'
<1> DEFINE op == ops[pos + 1]
           counted == stage \in {"valid", "util"} /\ pass = "mm"
<1>1. /\ stage \in Phases /\ file.lines \in Seq(Line) /\ file.num_ids \in Nat
      /\ pos \in 0 .. Len(file.lines) /\ pos < Len(file.lines)
      /\ op.index \in Nat /\ op.size \in Nat /\ op.type = type
      /\ type # "f" => op.index \in DOMAIN blocks
  BY OperationFacts, FileFacts DEF Inv, Operating
<1>2. file' = file /\ Tables' = Tables /\ Orderly' = Orderly
  BY DEF file, Tables, Orderly
<1>3. block_sizes \in Tables /\ total \in Int /\ peak \in Nat
      /\ (stage = "util" => pass = "mm")
  BY <1>1 DEF Tallied
<1> HIDE DEF op
<1>4. block_sizes' = IF Sized(op) THEN [block_sizes EXCEPT ![op.index] = op.size]
                     ELSE block_sizes
  BY DEF Account, op
<1>5. /\ total' = IF stage = "util" THEN NewTotal(op) ELSE total
      /\ peak' = IF stage = "util" /\ op.type # "f" THEN Max({peak, NewTotal(op)}) ELSE peak
  BY DEF Account, op
<1>6. block_sizes' \in Tables
  BY <1>1, <1>3, <1>4 DEF Tables
<1>7. OldSize(op) \in Int
  BY <1>3 DEF OldSize, Tables, Junk
<1>8. NewTotal(op) \in Int
  BY <1>1, <1>3, <1>7 DEF NewTotal
<1>9. total' \in Int /\ peak' \in Nat
  <2>1. PICK d \in Int : d = NewTotal(op)
    BY <1>8
  <2>2. PICK m : m = Max({peak, d})
    OBVIOUS
  <2>3. m \in {peak, d} /\ peak <= m
    <3>1. peak \in Int /\ d \in Int
      BY <1>3
    <3> QED BY ONLY <3>1, <2>2, MaxOfTwo
  <2>4. m \in Nat
    BY ONLY <2>1, <2>3, <1>3
  <2>5. peak' \in {m, peak}
    BY <2>1, <2>2, <1>5
  <2> QED BY <2>4, <2>5, <1>3, <1>5, <1>8
<1>10. ASSUME counted, Orderly
       PROVE  /\ op.index \in 0 .. file.num_ids - 1 /\ op.index \in DOMAIN block_sizes
              /\ op.index = file.lines[pos + 1].args[1] /\ op.type = file.lines[pos + 1].type
              /\ OldSize(op) = AskedFor(SubSeq(file.lines, 1, pos), op.index)
              /\ AskedFor(SubSeq(file.lines, 1, pos + 1), op.index)
                   = IF op.type = "f" THEN 0 ELSE op.size
  BY <1>10, RequestFacts DEF op
<1>11. ASSUME counted, Orderly, NEW j \in Live'
       PROVE  block_sizes'[j] = AskedFor(SubSeq(file.lines, 1, pos + 1), j)
  <2>1. /\ j \in Live \/ j = op.index
        /\ op.type = "f" => j # op.index /\ j \in Live
    BY <1>1, <1>2, <1>10, <1>11, AllocatedNext DEF Live
  <2>2. CASE j = op.index
    <3>1. op.type # "f" /\ Sized(op)
      BY <2>1, <2>2, <1>11 DEF Sized
    <3>2. block_sizes'[j] = op.size
      BY <3>1, <2>2, <1>3, <1>4, <1>10, <1>11 DEF Tables
    <3> QED BY <3>1, <3>2, <2>2, <1>10, <1>11
  <2>3. CASE j # op.index
    <3>1. block_sizes[j] = AskedFor(SubSeq(file.lines, 1, pos), j)
      BY <2>1, <2>3, <1>11 DEF Tallied
    <3>2. block_sizes'[j] = block_sizes[j]
      <4>1. Live \subseteq DOMAIN block_sizes
        BY <1>1, <1>3, <1>11 DEF Inv, Replaying, Orderly, Safe, Loaded, Tables
      <4> QED BY <4>1, <2>1, <2>3, <1>3, <1>4 DEF Tables
    <3>3. AskedFor(SubSeq(file.lines, 1, pos + 1), j) = AskedFor(SubSeq(file.lines, 1, pos), j)
      BY <2>3, <1>1, <1>10, <1>11, AskedForNext
    <3> QED BY <3>1, <3>2, <3>3
  <2> QED BY <2>2, <2>3
<1>12. ASSUME stage = "util", Orderly
       PROVE  total' = Demand(pos + 1) /\ IsPeak(peak', pos + 1)
  <2>1. counted
    BY <1>3, <1>12
  <2>2. total = Demand(pos) /\ IsPeak(peak, pos)
    BY <1>12 DEF Tallied
  <2>3. /\ Demand(pos) \in Int
        /\ Demand(pos + 1) = Demand(pos) - AskedFor(SubSeq(file.lines, 1, pos), op.index)
                               + AskedFor(SubSeq(file.lines, 1, pos + 1), op.index)
    BY <2>1, <1>1, <1>10, <1>12, DemandNext DEF Inv, Orderly
  <2>4. Demand(pos + 1) = NewTotal(op)
    BY <2>1, <2>2, <2>3, <1>10, <1>12 DEF NewTotal
  <2>5. \A k \in 0 .. pos + 1 : k \in 0 .. pos \/ k = pos + 1
    BY <1>1
  <2>6. pos + 1 \in 0 .. pos + 1 /\ \A k \in 0 .. pos : k \in 0 .. pos + 1 /\ Demand(k) <= peak
    BY <2>2, <1>1 DEF IsPeak
  <2>7. \A k \in 0 .. pos : Demand(k) \in Int
    <3>1. 0 .. pos \subseteq 0 .. Len(file.lines)
      BY <1>1
    <3> QED BY <3>1, <1>12, DemandType DEF Inv, Orderly
  <2>8. PICK d \in Int : d = Demand(pos + 1) /\ d = NewTotal(op)
    BY <2>4, <1>8
  <2>9. CASE op.type = "f"
    <3>1. peak' = peak
      BY <2>9, <1>5
    <3>2. PICK a \in Nat : a = AskedFor(SubSeq(file.lines, 1, pos), op.index)
      BY <1>1, <1>12, AskedForType DEF Orderly
    <3>3. d = Demand(pos) - a + 0
      BY <3>2, <2>1, <2>3, <2>8, <2>9, <1>10, <1>12
    <3>4. Demand(pos) <= peak /\ pos \in 0 .. pos
      BY <2>6, <1>1
    <3>5. d <= peak
      BY ONLY <3>2, <3>3, <3>4, <2>3, <1>3
    <3> QED BY <3>1, <3>5, <2>2, <2>4, <2>5, <2>6, <2>8, <1>5, <1>12 DEF IsPeak
  <2>10. CASE op.type # "f"
    <3>1. PICK p : p = Max({peak, d})
      OBVIOUS
    <3>2. p \in {peak, d} /\ peak <= p /\ d <= p
      BY <3>1, <2>8, <1>3, MaxOfTwo
    <3>3. peak' = p
      BY <3>1, <2>8, <2>10, <1>5, <1>12
    <3>4. \A k \in 0 .. pos : Demand(k) <= p
      <4> SUFFICES ASSUME NEW k \in 0 .. pos PROVE Demand(k) <= p
        OBVIOUS
      <4>1. Demand(k) \in Int /\ Demand(k) <= peak
        BY <2>6, <2>7
      <4> QED BY ONLY <4>1, <3>2, <2>8, <1>3
    <3> QED BY <3>2, <3>3, <3>4, <2>2, <2>5, <2>6, <2>8, <1>5, <1>12 DEF IsPeak
  <2> QED BY <2>9, <2>10
<1>13. /\ stage' = stage /\ pass' = pass
       /\ Demand(pos)' = Demand(pos + 1) /\ IsPeak(peak, pos)' = IsPeak(peak', pos + 1)
  BY <1>2 DEF Demand, IsPeak
<1> QED BY <1>1, <1>2, <1>3, <1>6, <1>9, <1>11, <1>12, <1>13 DEF Tallied

(* Outside of the operations only OpenTrace, NextTrace and Begin touch the *)
(* sizes or the totals.                                                    *)
LEMMA TalliedElse ==
  ASSUME Inv, Tallied, block_sizes' \in Tables' \cup {<<>>}, total' \in Int, peak' \in Nat,
         stage' = "read" => block_sizes' \in Tables', stage' \notin Phases
  PROVE  Tallied'
BY DEF Tallied, Phases

(* A phase starts from totals of nothing.                                  *)
LEMMA TalliedBegin ==
  ASSUME Inv, Tallied, stage \in {"read"} \cup Phases, NEW phase \in Phases, Begin(phase),
         phase = "util" => pass = "mm"
  PROVE  Tallied'
<1>1. /\ stage' = phase /\ pos' = 0 /\ total' = 0 /\ peak' = 0
      /\ UNCHANGED <<files, pass, tracenum, block_sizes>>
  BY DEF Begin, main
<1>2. file' = file /\ Tables' = Tables
  BY <1>1 DEF file, Tables
<1>3. block_sizes' \in Tables
  BY <1>1 DEF Tallied
<1>4. Live' = {}
  <2>1. file.lines \in Seq(Line)
    BY FileFacts DEF Inv
  <2> QED BY <2>1, <1>1, <1>2, NothingAllocated DEF Live
<1>5. Demand(0) = 0
  BY DemandStarts DEF Inv
<1>6. Demand(pos)' = 0 /\ IsPeak(peak, pos)'
  <2>1. Demand(pos)' = Demand(0) /\ IsPeak(peak, pos)' = IsPeak(0, 0)
    BY <1>1, <1>2 DEF Demand, IsPeak
  <2>2. IsPeak(0, 0)
    BY <1>5 DEF IsPeak
  <2> QED BY <2>1, <2>2, <1>5
<1> QED BY <1>1, <1>2, <1>3, <1>4, <1>6 DEF Tallied

(* Every step of main keeps the sizes right.                               *)
LEMMA TalliedStep ==
  ASSUME Inv, Tallied, [Next]_vars
  PROVE  Tallied'
<1> DEFINE Quits == \E how \in Ended : Stop(how)
           Gone == \E ok \in BOOLEAN : NextTrace(ok)
           Accounted(type) == Operating(type) /\ pos' = pos + 1 /\ Account(ops[pos + 1])
                            /\ UNCHANGED <<files, tracenum, stage, pass>>
<1>1. CASE Quits
  <2>1. UNCHANGED <<files, tracenum, block_sizes, total, peak>> /\ stage' \in Ended
    BY <1>1 DEF Stop, main, usage
  <2>2. Tables' = Tables /\ stage' \notin Phases /\ stage' # "read"
    BY <2>1 DEF Tables, file, Ended, Phases
  <2> QED BY <2>1, <2>2, TalliedElse DEF Tallied
<1>2. CASE Gone
  <2>1. block_sizes' = <<>> /\ total' = 0 /\ peak' = 0 /\ stage' \in {"open", "results"}
    BY <1>2 DEF NextTrace
  <2> QED BY <2>1, TalliedElse DEF Phases
<1>3. ASSUME NEW type \in {"a", "r", "f"}, Accounted(type) PROVE Tallied'
  BY <1>3, AccountKeeps
<1>4. GiveUp => Quits \/ Gone
  BY DEF GiveUp, Ended
<1>5. ASSUME NEW type \in {"a", "r", "f"}, Operating(type), Misuse(type)
      PROVE  Quits \/ Gone \/ Accounted(type)
  BY <1>4, <1>5 DEF Misuse, main, Ended
<1>6. ASSUME NEW type \in {"a", "r", "f"}, Operating(type),
             NEW i, NEW p, NEW now, Judged(i, p, now)
      PROVE  Quits \/ Gone \/ Accounted(type)
  BY <1>4, <1>6 DEF Judged, Advance, main
<1>7. CASE OpenTrace
  <2>1. /\ UNCHANGED <<files, tracenum, total, peak>> /\ stage' = "read"
        /\ block_sizes' = [i \in 0 .. file.num_ids - 1 |-> Junk]
    BY <1>7 DEF OpenTrace, main
  <2>2. block_sizes' \in Tables'
    BY <2>1 DEF Tables, file
  <2> QED BY <2>1, <2>2, TalliedElse DEF Tallied, Phases
<1>8. CASE OpenFails
  BY <1>1, <1>8 DEF OpenFails, Exit, Ended
<1>9. CASE ReadLine
  <2>1. \/ Quits
        \/ UNCHANGED <<files, tracenum, stage, block_sizes, total, peak>> /\ stage = "read"
    BY <1>9 DEF ReadLine, Exit, Ended, main, usage
  <2>2. ASSUME UNCHANGED <<files, tracenum, stage, block_sizes, total, peak>>, stage = "read"
        PROVE  Tallied'
    <3>1. Tables' = Tables
      BY <2>2 DEF Tables, file
    <3> QED BY <2>2, <3>1, TalliedElse DEF Tallied, Phases
  <2> QED BY <1>1, <2>1, <2>2
<1>10. CASE CloseTrace
  <2>1. stage = "read" /\ (Begin("valid") \/ Gone \/ Quits)
    BY <1>10 DEF CloseTrace, Ended
  <2>2. "valid" \in Phases /\ "valid" # "util"
    BY DEF Phases
  <2> HIDE DEF Quits, Gone
  <2> QED BY <2>1, <2>2, <1>1, <1>2, TalliedBegin
<1>11. CASE Alloc
  <2>1. Operating("a")
    BY <1>11 DEF Alloc
  <2>2. GiveUp \/ \E i, p, now : Judged(i, p, now)
    BY <1>11 DEF Alloc
  <2> HIDE DEF Quits, Gone, Accounted
  <2> QED BY <2>1, <2>2, <1>1, <1>2, <1>3, <1>4, <1>6
<1>12. CASE Realloc
  <2>1. Operating("r")
    BY <1>12 DEF Realloc
  <2>2. GiveUp \/ Misuse("r") \/ \E i, p, now : Judged(i, p, now)
    BY <1>12 DEF Realloc
  <2> HIDE DEF Quits, Gone, Accounted
  <2> QED BY <2>1, <2>2, <1>1, <1>2, <1>3, <1>4, <1>5, <1>6
<1>13. CASE Free
  <2>1. Operating("f") /\ (Misuse("f") \/ Accounted("f"))
    BY <1>13 DEF Free, main
  <2> HIDE DEF Quits, Gone, Accounted
  <2> QED BY <2>1, <1>1, <1>2, <1>3, <1>5
<1>14. CASE NextPhase
  <2>1. stage \in Phases /\ (Begin(After) \/ Quits)
    BY <1>14 DEF NextPhase, Exit, Ended
  <2>2. After \in Phases /\ (After = "util" => pass = "mm")
    BY DEF After, Phases
  <2> HIDE DEF Quits
  <2> QED BY <2>1, <2>2, <1>1, TalliedBegin
<1>15. CASE EndTrace
  BY <1>2, <1>15 DEF EndTrace
<1>16. CASE Report
  <2>1. UNCHANGED <<files, tracenum, block_sizes, total, peak>> /\ stage' = "exit0"
    BY <1>16 DEF Report, main, usage
  <2>2. Tables' = Tables /\ stage' \notin Phases /\ stage' # "read"
    BY <2>1 DEF Tables, file, Phases
  <2> QED BY <2>1, <2>2, TalliedElse DEF Tallied
<1>17. CASE UNCHANGED vars
  <2>1. UNCHANGED <<files, tracenum, pass, stage, pos, block_sizes, total, peak>>
    BY <1>17 DEF vars, main, usage
  <2>2. file' = file
    BY <2>1 DEF file
  <2> QED BY <2>1, <2>2 DEF Tallied, Tables, Live, Orderly, IsPeak, Demand
<1> QED BY <1>7, <1>8, <1>9, <1>10, <1>11, <1>12, <1>13, <1>14, <1>15, <1>16, <1>17
        DEF Next

(* So they are right in every run.                                         *)
LEMMA TalliedInvariant == Spec => []Tallied
<1>1. Init => Tallied
  BY DEF Init, Tallied, Phases
<1>2. Inv /\ Tallied /\ [Next]_vars => Tallied'
  BY TalliedStep
<1> QED BY <1>1, <1>2, InductiveInvariant, PTL DEF Spec

-----------------------------------------------------------------------------
(* The theorems.                                                           *)

(* Every variable of main keeps its type, for any lists of files: entries  *)
(* are only ever stored within trace->blocks, and no more traces are       *)
(* counted than there are.                                                 *)
THEOREM TypeCorrect == Spec => []TypeOK
<1>1. Inv /\ Tallied => TypeOK
  <2> SUFFICES ASSUME Inv, Tallied PROVE TypeOK
    OBVIOUS
  <2>1. files \in Seq(File) /\ DOMAIN files = 1 .. Len(files) /\ file.num_ids \in Nat
    BY FileFacts DEF Inv
  <2>2. \A k \in DOMAIN ops : ops[k] \in Op
    BY DEF Inv, Shape
  <2>3. ASSUME NEW table \in Tables \cup {<<>>}
        PROVE  \A i \in DOMAIN table :
                 i \in 0 .. file.num_ids - 1 /\ table[i] \in Nat \cup {Junk}
    <3>1. CASE table \in Tables
      BY <3>1 DEF Tables
    <3>2. CASE table = <<>>
      <4>1. DOMAIN table = {}
        BY <3>2
      <4> QED BY <4>1
    <3> QED BY <3>1, <3>2
  <2>4. blocks \in Tables \cup {<<>>} /\ block_sizes \in Tables \cup {<<>>}
        /\ total \in Int /\ peak \in Nat
    BY DEF Inv, Shape, Tallied
  <2> QED BY <2>1, <2>2, <2>3, <2>4 DEF TypeOK, Inv, Shape, Counted, MisusedOK, Op
<1> QED BY <1>1, InductiveInvariant, TalliedInvariant, PTL

(* What the assertions of read_trace are for (mdriver.c:551): a trace that *)
(* gets as far as a phase has all its requests in trace->ops, and none of  *)
(* them stores a block beyond trace->blocks.                               *)
THEOREM AssertionsSuffice == Spec => []StoresFit
<1>1. Inv => StoresFit
  <2> SUFFICES ASSUME Inv, stage \in Phases PROVE StoresFit
    BY DEF StoresFit
  <2>1. /\ Loaded /\ Len(ops) = Len(file.lines) /\ Len(ops) = file.num_ops
        /\ reader.max_index = file.num_ids - 1
    BY DEF Inv, Replaying
  <2>2. ops \in Seq(Op) /\ file.num_ids \in Nat
    BY FileFacts DEF Inv, Shape
  <2>3. DOMAIN blocks = 0 .. file.num_ids - 1
    BY <2>1 DEF Loaded, Tables
  <2>4. ASSUME NEW k \in DOMAIN ops, ops[k].type \in {"a", "r"}
        PROVE  ops[k].index \in DOMAIN blocks
    <3>1. ops[k] \in Op /\ k \in 1 .. Len(ops)
      BY <2>2
    <3>2. ops[k].index \in Nat
      BY <3>1 DEF Op
    <3>3. ops[k].index <= reader.max_index
      BY <3>1, <2>1, <2>4 DEF Loaded, Mirrors
    <3> QED BY <2>1, <2>2, <2>3, <3>2, <3>3
  <2> QED BY <2>1, <2>4 DEF StoresFit
<1> QED BY <1>1, InductiveInvariant, PTL

(* A trace of proper lines never has a package resize or free what is not  *)
(* held, in any phase, though nothing resets trace->blocks in between.     *)
THEOREM ProperTracesAreHarmless == Spec => []ProperTracesAreSafe
<1>1. Inv => ProperTracesAreSafe
  BY DEF Inv, MisusedOK
<1> QED BY <1>1, InductiveInvariant, PTL

(* What eval_mm_util adds up from trace->block_sizes, which keeps the sizes*)
(* of the phase before (mdriver.c:739), is what the trace has allocated at *)
(* that point, and its peak the most of that.                              *)
THEOREM UtilizationIsRight == Spec => []UtilityIsOfTheTrace
<1>1. Inv /\ Tallied => UtilityIsOfTheTrace
  <2> SUFFICES ASSUME Inv, Tallied, stage = "util", Orderly
               PROVE  total = Demand(pos) /\ peak = Max({Demand(k) : k \in 0 .. pos})
    BY DEF UtilityIsOfTheTrace, Orderly
  <2> DEFINE S == {Demand(k) : k \in 0 .. pos}
  <2>1. total = Demand(pos) /\ peak \in S /\ (\A y \in S : y <= peak) /\ peak \in Nat
    BY DEF Tallied, IsPeak
  <2>2. \A y \in S : peak >= y
    BY <2>1
  <2> HIDE DEF S
  <2>3. Max(S) \in S /\ \A y \in S : Max(S) >= y
    BY <2>1, <2>2 DEF Max
  <2>4. PICK m : m = Max(S)
    OBVIOUS
  <2>5. m <= peak /\ m >= peak /\ m \in S
    BY <2>1, <2>3, <2>4
  <2>6. m \in Int
    <3>1. PICK k \in 0 .. pos : m = Demand(k)
      BY <2>5 DEF S
    <3>2. k \in 0 .. Len(file.lines)
      BY FileFacts DEF Inv, Shape
    <3> QED BY <3>1, <3>2, DemandType DEF Inv, Orderly
  <2>7. m = peak
    BY ONLY <2>1, <2>5, <2>6
  <2> QED BY <2>1, <2>4, <2>7 DEF S
<1> QED BY <1>1, InductiveInvariant, TalliedInvariant, PTL

(* Each trace is counted once, as correct or as an error, and the index is *)
(* printed exactly when all are correct (mdriver.c:341).                   *)
THEOREM ResultsAddUp == Spec => []ErrorsAddUp
<1>1. Inv => ErrorsAddUp
  <2> SUFFICES ASSUME Inv, stage = "exit0" PROVE ErrorsAddUp
    BY DEF ErrorsAddUp
  <2>1. PICK n \in Nat : n = Len(files)
    BY FileFacts DEF Inv
  <2>2. PICK good : good = {t \in 1 .. n : valid[t]}
    OBVIOUS
  <2>3. PICK bad : bad = {t \in 1 .. n : ~valid[t]}
    OBVIOUS
  <2>4. IsFiniteSet(1 .. n) /\ Cardinality(1 .. n) = n
    BY FS_Interval
  <2>5. IsFiniteSet(good) /\ IsFiniteSet(bad)
    BY <2>2, <2>3, <2>4, FS_Subset
  <2>6. good \cup bad = 1 .. n /\ good \cap bad = {}
    BY <2>2, <2>3
  <2>7. Cardinality(good \cup bad)
          = Cardinality(good) + Cardinality(bad) - Cardinality(good \cap bad)
    BY <2>5, FS_Union
  <2>8. Cardinality(good \cap bad) = 0
    BY <2>6, FS_EmptySet
  <2>9. Cardinality(good) \in Nat /\ Cardinality(bad) \in Nat
    BY <2>5, FS_CardinalityType
  <2>10. Cardinality(good) + Cardinality(bad) = n
    <3>1. Cardinality(good \cup bad) = n
      BY <2>4, <2>6
    <3>2. PICK g \in Nat : g = Cardinality(good)
      BY <2>9
    <3>3. PICK b \in Nat : b = Cardinality(bad)
      BY <2>9
    <3>4. n = g + b - 0
      BY <2>7, <2>8, <3>1, <3>2, <3>3
    <3> QED BY <3>2, <3>3, <3>4
  <2>11. Done = 1 .. n
    BY <2>1 DEF Done
  <2>12. errors = Cardinality(bad)
    BY <2>3, <2>11 DEF Inv, Counted, Ended
  <2>13. numcorrect = Cardinality(good) /\ report = IF errors = 0 THEN "index" ELSE "errors"
    BY <2>1, <2>2 DEF Inv, Counted
  <2> QED BY <2>1, <2>9, <2>10, <2>12, <2>13 DEF ErrorsAddUp
<1> QED BY <1>1, InductiveInvariant, PTL

=============================================================================
