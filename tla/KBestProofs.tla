----------------------------- MODULE KBestProofs -----------------------------
(***************************************************************************)
(* Proofs about Clock and KBest, for words of any size, any function that  *)
(* is timed, any interrupts and any parameters.                            *)
(***************************************************************************)
EXTENDS KBest, FiniteSetTheorems, TLAPS

-----------------------------------------------------------------------------
(* Least and greatest numbers.                                             *)

(* A set of natural numbers that is not empty has a least one.             *)
LEMMA LeastNatural ==
  ASSUME NEW S, S \subseteq Nat, S # {}
  PROVE  \E x \in S : \A y \in S : x <= y
<1>1. PICK x \in S : \A y \in S : <<y, x>> \notin OpToRel(<, Nat)
  BY NatLessThanWellFounded, WFMin
<1>2. \A y \in S : ~(y < x)
  BY <1>1 DEF OpToRel
<1> QED BY <1>2

(* So Min is in it, and is the least.                                      *)
LEMMA MinOfNaturals ==
  ASSUME NEW S, S \subseteq Nat, S # {}
  PROVE  Min(S) \in S /\ \A y \in S : Min(S) <= y
BY LeastNatural DEF Min

(* Min of a set in which one number is known to be the least.              *)
LEMMA MinIs ==
  ASSUME NEW S, S \subseteq Int, NEW x \in S, \A y \in S : x <= y
  PROVE  Min(S) = x
<1>1. ASSUME NEW y \in S, \A z \in S : y <= z PROVE y = x
  <2>1. x \in Int /\ y \in Int /\ x <= y /\ y <= x
    BY <1>1
  <2> QED BY <2>1
<1> QED BY <1>1 DEF Min

(* Min of two numbers.                                                     *)
LEMMA MinOfTwo ==
  ASSUME NEW a \in Int, NEW b \in Int
  PROVE  Min({a, b}) = IF a <= b THEN a ELSE b
<1>1. CASE a <= b
  BY <1>1, MinIs
<1>2. CASE ~(a <= b)
  BY <1>2, MinIs
<1> QED BY <1>1, <1>2

(* A finite set of natural numbers that is not empty has a greatest one:   *)
(* of the sets that lack one the smallest would still lack one with an     *)
(* element less.                                                           *)
LEMMA MaxOfNaturals ==
  ASSUME NEW S, S \subseteq Nat, S # {}, IsFiniteSet(S)
  PROVE  Max(S) \in S /\ \A y \in S : y <= Max(S)
<1> DEFINE Topped(T) == \E x \in T : \A y \in T : x >= y
           Bad == {T \in SUBSET S : T # {} /\ ~Topped(T)}
<1>1. Bad = {}
  <2> SUFFICES ASSUME Bad # {} PROVE FALSE
    OBVIOUS
  <2>1. Bad \subseteq FiniteSubsetsOf(S)
    BY FS_FiniteSubsetsOfFinite
  <2>2. PICK T \in Bad : \A U \in Bad : ~(<<U, T>> \in StrictSubsetOrdering(S))
    BY <2>1, FS_StrictSubsetOrderingWellFounded, WFMin
  <2>3. PICK x : x \in T
    OBVIOUS
  <2>4. CASE T = {x}
    <3>1. x \in Nat
      BY <2>3
    <3> QED BY <2>4, <3>1
  <2>5. CASE T # {x}
    <3>1. T \ {x} \in SUBSET S /\ T \ {x} # {} /\ T \in SUBSET S
      BY <2>3, <2>5
    <3>2. <<T \ {x}, T>> \in StrictSubsetOrdering(S)
      BY <2>3, <3>1 DEF StrictSubsetOrdering
    <3>3. Topped(T \ {x})
      BY <2>2, <3>1, <3>2
    <3>4. PICK y \in T \ {x} : \A z \in T \ {x} : y >= z
      BY <3>3
    <3>5. x \in Nat /\ y \in Nat /\ \A z \in T : z \in Nat
      BY <2>3
    <3>6. Topped(T)
      <4>1. CASE y >= x
        BY <3>4, <3>5, <4>1
      <4>2. CASE ~(y >= x)
        BY <2>3, <3>4, <3>5, <4>2
      <4> QED BY <4>1, <4>2
    <3> QED BY <3>6
  <2> QED BY <2>4, <2>5
<1>2. \E x \in S : \A y \in S : x >= y
  BY <1>1
<1>3. Max(S) \in S /\ \A y \in S : Max(S) >= y
  BY <1>2 DEF Max
<1>4. \A y \in S : y \in Nat
  OBVIOUS
<1> QED BY <1>3, <1>4

-----------------------------------------------------------------------------
(* The cycle counter.                                                      *)

(* A number is its quotient and its remainder.                             *)
LEMMA Division ==
  ASSUME NEW r \in Nat \ {0}, NEW n \in Int
  PROVE  /\ n \div r \in Int /\ n % r \in 0 .. r - 1
         /\ n = r * (n \div r) + (n % r)
OBVIOUS

(* And there is only one way to split it so.                               *)
LEMMA DivisionIsUnique ==
  ASSUME NEW r \in Nat \ {0}, NEW a \in Int, NEW b \in Int,
         NEW x \in 0 .. r - 1, NEW y \in 0 .. r - 1, r * a + x = r * b + y
  PROVE  a = b /\ x = y
<1>1. r * (a - b) = y - x
  OBVIOUS
<1>2. CASE a - b >= 1
  <2>1. r * (a - b) >= r
    BY <1>2
  <2> QED BY <1>1, <2>1
<1>3. CASE b - a >= 1
  <2>1. r * (b - a) >= r /\ r * (b - a) = x - y
    BY <1>1, <1>3
  <2> QED BY <2>1
<1>4. CASE a = b
  BY <1>4
<1> QED BY <1>2, <1>3, <1>4

(* A multiple of the radix does not count in a word.                       *)
LEMMA WordOf ==
  ASSUME NEW r \in Nat \ {0}, NEW x \in 0 .. r - 1, NEW k \in Int
  PROVE  (x + r * k) % r = x
<1> DEFINE n == x + r * k
<1>1. n \in Int /\ n = r * k + x
  OBVIOUS
<1> HIDE DEF n
<1>2. PICK q, y : q = n \div r /\ y = n % r
  OBVIOUS
<1>3. q \in Int /\ y \in 0 .. r - 1 /\ r * k + x = r * q + y
  BY <1>1, <1>2, Division
<1>4. y = x
  BY <1>3, DivisionIsUnique
<1> QED BY <1>2, <1>4 DEF n

(* The difference of two readings is the time between them, borrow and     *)
(* wrapping words or not, if it is short enough for the two words.         *)
THEOREM ElapsedIsRight ==
  ASSUME NEW start \in Nat, NEW t \in 0 .. Radix * Radix - 1
  PROVE  Elapsed(Reading(start), Reading(start + t)) = t
<1>1. PICK R \in Nat \ {0} : R = Radix
  BY KBestAssumption
<1>2. PICK q1, l1, q2, l2 : /\ q1 = start \div R /\ l1 = start % R
                            /\ q2 = (start + t) \div R /\ l2 = (start + t) % R
  OBVIOUS
<1>3. t \in Int /\ 0 <= t /\ t < R * R
  BY <1>1
<1>4. /\ q1 \in Int /\ l1 \in 0 .. R - 1 /\ start = R * q1 + l1
      /\ q2 \in Int /\ l2 \in 0 .. R - 1 /\ start + t = R * q2 + l2
  <2>1. start \in Int /\ start + t \in Int
    BY <1>3
  <2>2. q1 \in Int /\ l1 \in 0 .. R - 1 /\ start = R * q1 + l1
    BY <1>2, <2>1, Division
  <2>3. PICK now : now = start + t
    OBVIOUS
  <2>4. q2 \in Int /\ l2 \in 0 .. R - 1 /\ now = R * q2 + l2
    BY <1>2, <2>1, <2>3, Division
  <2> QED BY <2>2, <2>3, <2>4
<1>5. PICK a1, h1, a2, h2 : a1 = q1 \div R /\ h1 = q1 % R /\ a2 = q2 \div R /\ h2 = q2 % R
  OBVIOUS
<1>6. /\ a1 \in Int /\ h1 \in 0 .. R - 1 /\ q1 = R * a1 + h1
      /\ a2 \in Int /\ h2 \in 0 .. R - 1 /\ q2 = R * a2 + h2
  BY <1>4, <1>5, Division
<1>7. Reading(start) = [hi |-> h1, lo |-> l1] /\ Reading(start + t) = [hi |-> h2, lo |-> l2]
  BY <1>1, <1>2, <1>5 DEF Reading
<1> DEFINE lo == IF l1 <= l2 THEN l2 - l1 ELSE l2 - l1 + R
           b == IF l1 <= l2 THEN 0 ELSE 1
           d == q2 - q1 - b
<1>8. (l2 - l1) % R = lo /\ lo \in 0 .. R - 1 /\ b = IF lo > l2 THEN 1 ELSE 0
  <2>1. CASE l1 <= l2
    <3>1. l2 - l1 \in 0 .. R - 1 /\ l2 - l1 = (l2 - l1) + R * 0
      BY <1>4, <2>1
    <3>2. (l2 - l1) % R = l2 - l1
      BY <3>1, WordOf
    <3> QED BY <3>1, <3>2, <2>1, <1>4
  <2>2. CASE ~(l1 <= l2)
    <3>1. l2 - l1 + R \in 0 .. R - 1 /\ l2 - l1 = (l2 - l1 + R) + R * (-1)
      BY <1>4, <2>2
    <3>2. (l2 - l1) % R = l2 - l1 + R
      BY <3>1, WordOf
    <3> QED BY <3>1, <3>2, <2>2, <1>4
  <2> QED BY <2>1, <2>2
<1>9. b \in {0, 1} /\ t = R * d + lo /\ d \in Int
  <2>1. CASE l1 <= l2
    <3>1. t = R * q2 - R * q1 + (l2 - l1)
      BY <1>4
    <3>2. R * (q2 - q1 - 0) = R * q2 - R * q1
      BY <1>4
    <3> QED BY <3>1, <3>2, <2>1, <1>4
  <2>2. CASE ~(l1 <= l2)
    <3>1. t = R * q2 - R * q1 + (l2 - l1)
      BY <1>4
    <3>2. R * (q2 - q1 - 1) = R * q2 - R * q1 - R
      BY <1>4
    <3> QED BY <3>1, <3>2, <2>2, <1>4
  <2> QED BY <2>1, <2>2
<1> HIDE DEF lo, b, d
<1>10. d \in 0 .. R - 1
  <2>1. CASE d <= -1
    <3>1. R * d <= -R
      BY <1>9, <2>1
    <3> QED BY <3>1, <1>3, <1>8, <1>9
  <2>2. CASE d >= R
    <3>1. R * d >= R * R
      BY <1>9, <2>2
    <3> QED BY <3>1, <1>3, <1>8, <1>9
  <2> QED BY <2>1, <2>2, <1>9
<1>11. (h2 - h1 - b) % R = d
  <2>1. h2 - h1 - b = d + R * (a1 - a2)
    BY <1>6, <1>9 DEF d
  <2>2. PICK k \in Int : k = a1 - a2
    BY <1>6
  <2>3. (d + R * k) % R = d
    BY <1>10, WordOf
  <2> QED BY <2>1, <2>2, <2>3
<1>12. Elapsed([hi |-> h1, lo |-> l1], [hi |-> h2, lo |-> l2]) = R * d + lo
  BY <1>1, <1>8, <1>11 DEF Elapsed
<1> QED BY <1>7, <1>9, <1>12

-----------------------------------------------------------------------------
(* The sampler.                                                            *)

(* What the code may be given, in the numbers the proofs need.             *)
LEMMA ParameterFacts ==
  /\ Samples \subseteq Int
  /\ Max(Ks) \in Nat \ {0} /\ \A k \in Ks : k \in Nat \ {0} /\ k <= Max(Ks)
  /\ Max(Limits) \in Nat \ {0} /\ \A l \in Limits : l \in Nat \ {0} /\ l <= Max(Limits)
<1>1. Samples \subseteq Int
  <2> SUFFICES ASSUME NEW t \in Times, NEW k \in Ticks \cup {0}, NEW r \in Rates \cup {0}
               PROVE  t - k * r \in Int
    BY DEF Samples
  <2>1. t \in Int /\ k \in Int /\ r \in Int
    BY KBestAssumption
  <2>2. k * r \in Int
    BY <2>1
  <2> QED BY <2>1, <2>2
<1>2. Max(Ks) \in Ks /\ \A k \in Ks : k <= Max(Ks)
  <2>1. Ks \subseteq Nat /\ Ks # {} /\ IsFiniteSet(Ks)
    BY KBestAssumption
  <2> QED BY <2>1, MaxOfNaturals
<1>3. Max(Limits) \in Limits /\ \A l \in Limits : l <= Max(Limits)
  <2>1. Limits \subseteq Nat /\ Limits # {} /\ IsFiniteSet(Limits)
    BY KBestAssumption
  <2> QED BY <2>1, MaxOfNaturals
<1> QED BY <1>1, <1>2, <1>3, KBestAssumption

(* an array of n values, of which calloc may have left some                *)
Arrays(n) == [1 .. n -> Samples \cup {0}]

(* The first m values are the least samples: the i-th is at most v exactly *)
(* when i of them were.                                                    *)
Ranked(vals, counts, m) ==
  /\ \A i \in 1 .. m : vals[i] \in Samples
  /\ \A i \in 1 .. m, v \in Samples : vals[i] <= v <=> i <= counts[v]

(* The swaps stop behind the last value that is no larger.                 *)
Slot(vals, pos) == Min({i \in 1 .. pos : \A j \in i .. pos - 1 : vals[j] > vals[pos]})

(* There and behind, the values are moved.                                 *)
LEMMA InsertedFacts ==
  ASSUME NEW n \in Nat, NEW vals \in Arrays(n), NEW pos \in 1 .. n
  PROVE  /\ Slot(vals, pos) \in 1 .. pos
         /\ \A j \in Slot(vals, pos) .. pos - 1 : vals[j] > vals[pos]
         /\ Slot(vals, pos) > 1 => ~(vals[Slot(vals, pos) - 1] > vals[pos])
         /\ Inserted(vals, pos) =
              [i \in 1 .. n |->
                 IF i = Slot(vals, pos) THEN vals[pos]
                 ELSE IF Slot(vals, pos) < i /\ i <= pos THEN vals[i - 1] ELSE vals[i]]
<1> DEFINE S == {i \in 1 .. pos : \A j \in i .. pos - 1 : vals[j] > vals[pos]}
           to == Slot(vals, pos)
<1>1. S \subseteq Nat /\ pos \in S
  OBVIOUS
<1>2. to \in S /\ \A i \in S : to <= i
  BY <1>1, MinOfNaturals DEF Slot
<1>3. Inserted(vals, pos) =
        [i \in 1 .. n |-> IF i = to THEN vals[pos]
                          ELSE IF to < i /\ i <= pos THEN vals[i - 1] ELSE vals[i]]
  <2>1. DOMAIN vals = 1 .. n
    BY DEF Arrays
  <2> QED BY <2>1 DEF Inserted, Slot
<1> HIDE DEF to
<1>4. to \in 1 .. pos /\ \A j \in to .. pos - 1 : vals[j] > vals[pos]
  BY <1>2
<1>5. ASSUME to > 1, vals[to - 1] > vals[pos] PROVE FALSE
  <2>1. to - 1 \in 1 .. pos /\ \A j \in to - 1 .. pos - 1 : j = to - 1 \/ j \in to .. pos - 1
    BY <1>4, <1>5
  <2>2. to - 1 \in S
    BY <2>1, <1>4, <1>5
  <2> QED BY <2>2, <1>2, <1>4
<1>6. to > 1 => ~(vals[to - 1] > vals[pos])
  BY <1>5
<1> QED BY <1>3, <1>4, <1>6 DEF to

(* The sample put at pos and carried down finds its rank among those that  *)
(* were there; counts and more say how many samples there were before it   *)
(* and with it.                                                            *)
LEMMA Insertion ==
  ASSUME NEW n \in Nat, NEW vals \in Arrays(n), NEW pos \in 1 .. n, vals[pos] \in Samples,
         NEW counts \in [Samples -> Nat], NEW more \in [Samples -> Nat],
         Ranked(vals, counts, pos - 1),
         \A v \in Samples : vals[pos] > v => counts[v] < pos,
         \A v \in Samples, i \in 1 .. n :
           i <= more[v] <=> (IF vals[pos] <= v THEN i - 1 ELSE i) <= counts[v]
  PROVE  Inserted(vals, pos) \in Arrays(n) /\ Ranked(Inserted(vals, pos), more, pos)
<1> DEFINE t == vals[pos]
           f == Inserted(vals, pos)
           to == Slot(vals, pos)
<1>1. /\ to \in 1 .. pos
      /\ \A j \in to .. pos - 1 : vals[j] > t
      /\ to > 1 => ~(vals[to - 1] > t)
      /\ f = [i \in 1 .. n |-> IF i = to THEN t
                               ELSE IF to < i /\ i <= pos THEN vals[i - 1] ELSE vals[i]]
  BY InsertedFacts
<1> HIDE DEF to
<1>2. n \in Nat /\ pos \in Nat /\ to \in Nat /\ 1 <= to /\ to <= pos /\ pos <= n
  BY <1>1
<1>3. f \in Arrays(n)
  BY <1>1, <1>2 DEF Arrays
<1>4. t \in Samples /\ \A v \in Samples : v \in Int /\ counts[v] \in Nat
  BY ParameterFacts
<1>5. \A i \in 1 .. pos - 1 : vals[i] \in Samples /\ vals[i] \in Int
  BY ParameterFacts DEF Ranked
<1>6. \A i \in 1 .. pos - 1, v \in Samples : vals[i] <= v <=> i <= counts[v]
  BY DEF Ranked
<1>7. /\ f[to] = t
      /\ \A i \in 1 .. pos : i < to => f[i] = vals[i]
      /\ \A i \in 1 .. pos : to < i => f[i] = vals[i - 1]
  BY <1>1, <1>2
<1> HIDE DEF t, f
<1>8. \A i \in 1 .. pos : i < to => vals[i] <= t
  <2> SUFFICES ASSUME NEW i \in 1 .. pos, i < to PROVE vals[i] <= t
    OBVIOUS
  <2>1. to - 1 \in 1 .. pos - 1 /\ i \in 1 .. pos - 1 /\ i <= to - 1
    BY <1>2
  <2>2. vals[to - 1] <= t
    BY <2>1, <1>1, <1>4, <1>5
  <2>3. to - 1 <= counts[t]
    BY <2>1, <2>2, <1>4, <1>6
  <2> QED BY <2>1, <2>3, <1>4, <1>6
<1>9. ASSUME NEW i \in 1 .. pos PROVE f[i] \in Samples
  <2>1. i = to \/ (i < to /\ i \in 1 .. pos - 1) \/ (to < i /\ i - 1 \in 1 .. pos - 1)
    BY <1>2
  <2> QED BY <2>1, <1>4, <1>5, <1>7
<1>10. ASSUME NEW i \in 1 .. pos, NEW v \in Samples
       PROVE  f[i] <= v <=> (IF t <= v THEN i - 1 ELSE i) <= counts[v]
  <2>1. CASE i < to
    <3>1. f[i] = vals[i] /\ vals[i] <= t /\ i \in 1 .. pos - 1
      BY <1>2, <1>7, <1>8, <2>1
    <3>2. vals[i] <= v <=> i <= counts[v]
      BY <3>1, <1>6
    <3>3. vals[i] \in Int /\ v \in Int /\ t \in Int /\ counts[v] \in Nat
      BY <3>1, <1>4, <1>5
    <3> QED BY <3>1, <3>2, <3>3
  <2>2. CASE i = to
    <3>1. t \in Int /\ v \in Int /\ counts[v] \in Nat
      BY <1>4
    <3>2. ASSUME t <= v PROVE i - 1 <= counts[v]
      <4>1. CASE to = 1
        BY <4>1, <2>2, <3>1
      <4>2. CASE to > 1
        <5>1. to - 1 \in 1 .. pos - 1
          BY <1>2, <4>2
        <5>2. vals[to - 1] \in Int /\ vals[to - 1] <= t
          BY <5>1, <1>1, <1>4, <1>5, <4>2
        <5>3. vals[to - 1] <= v
          BY <5>2, <3>1, <3>2
        <5> QED BY <5>1, <5>3, <1>6, <2>2
      <4> QED BY <4>1, <4>2, <1>2
    <3>3. ASSUME ~(t <= v) PROVE ~(i <= counts[v])
      <4>1. CASE to = pos
        <5>1. t > v
          BY <3>1, <3>3
        <5> QED BY <5>1, <4>1, <2>2, <3>1 DEF t
      <4>2. CASE to < pos
        <5>1. to \in 1 .. pos - 1 /\ to \in to .. pos - 1
          BY <1>2, <4>2
        <5>2. vals[to] > t /\ vals[to] \in Int
          BY <5>1, <1>1, <1>5
        <5>3. ~(vals[to] <= v)
          BY <5>2, <3>1, <3>3
        <5> QED BY <5>1, <5>3, <1>6, <2>2
      <4> QED BY <4>1, <4>2, <1>2
    <3> QED BY <3>1, <3>2, <3>3, <1>7, <2>2
  <2>3. CASE to < i
    <3>1. f[i] = vals[i - 1] /\ i - 1 \in 1 .. pos - 1 /\ i - 1 \in to .. pos - 1
      BY <1>2, <1>7, <2>3
    <3>2. vals[i - 1] <= v <=> i - 1 <= counts[v]
      BY <3>1, <1>6
    <3>3. vals[i - 1] > t /\ vals[i - 1] \in Int
      BY <3>1, <1>1, <1>5
    <3>4. v \in Int /\ t \in Int /\ counts[v] \in Nat /\ i \in Int
      BY <1>4
    <3> QED BY <3>1, <3>2, <3>3, <3>4
  <2> QED BY <2>1, <2>2, <2>3, <1>2
<1>11. ASSUME NEW i \in 1 .. pos, NEW v \in Samples PROVE f[i] <= v <=> i <= more[v]
  <2>1. i \in 1 .. n
    BY <1>2
  <2>2. i <= more[v] <=> (IF t <= v THEN i - 1 ELSE i) <= counts[v]
    BY <2>1 DEF t
  <2> QED BY <2>2, <1>10
<1> QED BY <1>3, <1>9, <1>11 DEF Ranked, f


(* what is counted when a sample is t                                      *)
After(counts, t) ==
  [v \in Samples |-> IF t <= v THEN Min({counts[v] + 1, Max(Ks)}) ELSE counts[v]]

(* As far as the array reaches, the counts are exact.                      *)
LEMMA CountsAfter ==
  ASSUME NEW counts \in [Samples -> 0 .. Max(Ks)], NEW t \in Samples, NEW n \in Ks
  PROVE  /\ After(counts, t) \in [Samples -> 0 .. Max(Ks)]
         /\ \A v \in Samples : After(counts, t)[v] <= counts[v] + 1
         /\ \A v \in Samples, i \in 1 .. n :
              i <= After(counts, t)[v] <=> (IF t <= v THEN i - 1 ELSE i) <= counts[v]
<1>1. PICK K \in Nat \ {0} : K = Max(Ks) /\ n \in Nat /\ n <= K
  BY ParameterFacts
<1>2. ASSUME NEW v \in Samples
      PROVE  LET c == counts[v]
             IN  /\ c \in 0 .. K
                 /\ After(counts, t)[v] =
                      IF t <= v THEN IF c + 1 <= K THEN c + 1 ELSE K ELSE c
  <2>1. counts[v] \in 0 .. K
    BY <1>1
  <2>2. Min({counts[v] + 1, K}) = IF counts[v] + 1 <= K THEN counts[v] + 1 ELSE K
    BY <2>1, MinOfTwo
  <2> QED BY <1>1, <2>1, <2>2 DEF After
<1>3. ASSUME NEW v \in Samples
      PROVE  After(counts, t)[v] \in 0 .. K /\ After(counts, t)[v] <= counts[v] + 1
  BY <1>2
<1>4. ASSUME NEW v \in Samples, NEW i \in 1 .. n
      PROVE  i <= After(counts, t)[v] <=> (IF t <= v THEN i - 1 ELSE i) <= counts[v]
  <2>1. i \in Nat /\ 1 <= i /\ i <= K
    BY <1>1
  <2> QED BY <1>2, <2>1
<1>5. After(counts, t) \in [Samples -> 0 .. Max(Ks)]
  BY <1>1, <1>3 DEF After
<1> QED BY <1>3, <1>4, <1>5

(* add_sample: whether the array grows, gives up its last value for a less *)
(* one, or stays, it holds the least of the samples.                       *)
LEMMA SampleKept ==
  ASSUME kbest \in Ks, values \in Arrays(kbest), samplecount \in Nat,
         seen \in [Samples -> 0 .. Max(Ks)], NEW t \in Samples,
         Ranked(values, seen, Min({samplecount, kbest})),
         \A v \in Samples : seen[v] <= samplecount
  PROVE  /\ WithSample(values, t) \in Arrays(kbest)
         /\ Ranked(WithSample(values, t), After(seen, t), Min({samplecount + 1, kbest}))
<1> DEFINE more == After(seen, t)
<1>1. kbest \in Nat /\ kbest >= 1
  BY ParameterFacts
<1>2. /\ more \in [Samples -> 0 .. Max(Ks)]
      /\ \A v \in Samples, i \in 1 .. kbest :
           i <= more[v] <=> (IF t <= v THEN i - 1 ELSE i) <= seen[v]
  BY CountsAfter
<1>3. seen \in [Samples -> Nat] /\ more \in [Samples -> Nat]
  <2>1. 0 .. Max(Ks) \subseteq Nat
    BY ParameterFacts
  <2> QED BY <1>2, <2>1
<1> HIDE DEF more
<1>4. \A v \in Samples : v \in Int /\ seen[v] \in Nat
  BY <1>3, ParameterFacts
<1>5. ASSUME NEW pos \in 1 .. kbest, Ranked(values, seen, pos - 1),
             \A v \in Samples : t > v => seen[v] < pos
      PROVE  LET new == Inserted([values EXCEPT ![pos] = t], pos)
             IN  new \in Arrays(kbest) /\ Ranked(new, more, pos)
  <2> DEFINE vals == [values EXCEPT ![pos] = t]
  <2>1. vals \in Arrays(kbest) /\ vals[pos] = t /\ \A i \in 1 .. pos - 1 : vals[i] = values[i]
    BY <1>1, <1>5 DEF Arrays
  <2> HIDE DEF vals
  <2>2. Ranked(vals, seen, pos - 1)
    BY <1>5, <2>1 DEF Ranked
  <2>3. Inserted(vals, pos) \in Arrays(kbest) /\ Ranked(Inserted(vals, pos), more, pos)
    BY <1>1, <1>2, <1>3, <1>5, <2>1, <2>2, Insertion
  <2> QED BY <2>3 DEF vals
<1>6. CASE samplecount < kbest
  <2>1. samplecount + 1 \in 1 .. kbest /\ (samplecount + 1) - 1 = samplecount
    BY <1>1, <1>6
  <2>2. Min({samplecount, kbest}) = samplecount
        /\ Min({samplecount + 1, kbest}) = samplecount + 1
    BY <1>1, <1>6, MinOfTwo
  <2>3. \A v \in Samples : t > v => seen[v] < samplecount + 1
    BY <1>4
  <2>4. WithSample(values, t) =
          Inserted([values EXCEPT ![samplecount + 1] = t], samplecount + 1)
    BY <1>6 DEF WithSample
  <2> QED BY <2>1, <2>2, <2>3, <2>4, <1>5 DEF more
<1>7. ASSUME ~(samplecount < kbest)
      PROVE  /\ Min({samplecount, kbest}) = kbest /\ Min({samplecount + 1, kbest}) = kbest
             /\ kbest \in 1 .. kbest
             /\ values[kbest] \in Samples /\ values[kbest] \in Int
  <2>1. Min({samplecount, kbest}) = kbest /\ Min({samplecount + 1, kbest}) = kbest
    BY <1>1, <1>7, MinOfTwo
  <2>2. kbest \in 1 .. kbest
    BY <1>1
  <2> QED BY <2>1, <2>2, ParameterFacts DEF Ranked
<1>8. CASE ~(samplecount < kbest) /\ t < values[kbest]
  <2>1. Ranked(values, seen, kbest - 1)
    <3>1. \A i \in 1 .. kbest - 1 : i \in 1 .. kbest
      BY <1>1
    <3> QED BY <3>1, <1>7, <1>8 DEF Ranked
  <2>2. \A v \in Samples : t > v => seen[v] < kbest
    <3> SUFFICES ASSUME NEW v \in Samples, t > v PROVE seen[v] < kbest
      OBVIOUS
    <3>1. ~(values[kbest] <= v)
      BY <1>4, <1>7, <1>8
    <3>2. ~(kbest <= seen[v])
      BY <3>1, <1>7, <1>8 DEF Ranked
    <3> QED BY <3>2, <1>1, <1>4
  <2>3. WithSample(values, t) = Inserted([values EXCEPT ![kbest] = t], kbest)
    BY <1>8 DEF WithSample
  <2> QED BY <2>1, <2>2, <2>3, <1>5, <1>7, <1>8 DEF more
<1>9. CASE ~(samplecount < kbest) /\ ~(t < values[kbest])
  <2>1. WithSample(values, t) = values
    BY <1>9 DEF WithSample
  <2>2. ASSUME NEW i \in 1 .. kbest, NEW v \in Samples
        PROVE  values[i] \in Samples /\ (values[i] <= v <=> i <= more[v])
    <3>1. /\ values[i] \in Samples
          /\ \A u \in Samples : values[i] <= u <=> i <= seen[u]
          /\ values[kbest] <= t <=> kbest <= seen[t]
      BY <1>7, <1>9 DEF Ranked
    <3>2. values[i] \in Int /\ t \in Int /\ v \in Int /\ seen[t] \in Nat /\ seen[v] \in Nat
          /\ i \in Nat /\ i <= kbest
      BY <1>4, <3>1
    <3>3. values[i] <= t
      BY <1>1, <1>7, <1>9, <3>1, <3>2
    <3>4. i <= more[v] <=> (IF t <= v THEN i - 1 ELSE i) <= seen[v]
      BY <1>2
    <3>5. CASE t <= v
      <4>1. values[i] <= v
        BY <3>2, <3>3, <3>5
      <4> QED BY <4>1, <3>1, <3>2, <3>4, <3>5
    <3>6. CASE ~(t <= v)
      BY <3>1, <3>2, <3>4, <3>6
    <3> QED BY <3>5, <3>6, <3>1
  <2>3. Ranked(values, more, kbest)
    BY <2>2 DEF Ranked
  <2> QED BY <2>1, <2>3, <1>7, <1>9 DEF more
<1> QED BY <1>6, <1>8, <1>9


-----------------------------------------------------------------------------
(* The invariant.                                                          *)

(* What of the state does not belong to a measurement.                     *)
SettingsOK ==
  /\ kbest \in Ks /\ maxsamples \in Limits /\ epsilon \in Epsilons
  /\ compensate \in BOOLEAN /\ clear_cache \in BOOLEAN
  /\ cache_bytes \in Sizes /\ cache_block \in Blocks
  /\ cyc_per_tick \in Rates \cup {0}

(* The buffer was allocated for the size that is set.                      *)
BufferFits == cache_buf \in {NULL, cache_bytes}

(* A measurement under way may go on, and has kept the least samples.      *)
SamplerOK ==
  /\ measuring \in BOOLEAN /\ exited \in BOOLEAN
  /\ result \in Samples \cup {0}
  /\ samplecount \in 0 .. Max(Limits)
  /\ seen \in [Samples -> 0 .. Max(Ks)]
  /\ ~measuring => values = <<>>
  /\ measuring =>
       /\ values \in Arrays(kbest)
       /\ samplecount < maxsamples
       /\ Ranked(values, seen, Min({samplecount, kbest}))
       /\ \A v \in Samples : seen[v] <= samplecount

Inv == SettingsOK /\ BufferFits /\ SamplerOK

(* What the runs check follows.                                            *)
LEMMA InvariantSuffices == Inv => TypeOK /\ SweepsInBuffer /\ HoldsBest
<1> SUFFICES ASSUME Inv PROVE TypeOK /\ SweepsInBuffer /\ HoldsBest
  OBVIOUS
<1>1. TypeOK
  <2>1. values \in Seq(Samples \cup {0}) /\ Len(values) = (IF measuring THEN kbest ELSE 0)
    <3>1. CASE measuring
      <4>1. kbest \in Nat /\ values \in [1 .. kbest -> Samples \cup {0}]
        BY <3>1, ParameterFacts DEF Inv, SettingsOK, SamplerOK, Arrays
      <4>2. values \in Seq(Samples \cup {0}) /\ Len(values) = kbest
        BY <4>1
      <4> QED BY <3>1, <4>2
    <3>2. CASE ~measuring
      BY <3>2 DEF Inv, SamplerOK
    <3> QED BY <3>1, <3>2
  <2>2. cache_buf \in Sizes \cup {NULL}
    BY DEF Inv, BufferFits, SettingsOK
  <2> QED BY <2>1, <2>2 DEF Inv, SettingsOK, SamplerOK, TypeOK
<1>2. SweepsInBuffer
  <2>1. cache_bytes \in Nat
    BY KBestAssumption DEF Inv, SettingsOK
  <2>2. \A i \in Swept : i < cache_bytes
    BY <2>1 DEF Swept
  <2> QED BY <2>2 DEF Inv, BufferFits, SweepsInBuffer
<1>3. HoldsBest
  BY DEF Inv, SamplerOK, Ranked, HoldsBest
<1> QED BY <1>1, <1>2, <1>3

(* What a round measures is a sample, wrapping words and interrupts or not.*)
LEMMA RoundFacts ==
  ASSUME Inv, Round
  PROVE  /\ measuring /\ Clear /\ cyc_per_tick' \in Rates \cup {0}
         /\ \E t \in Samples : Add(t, t)
<1>1. cyc_per_tick' \in Rates \cup {0}
  <2>1. ASSUME NEW rates \in SUBSET Rates PROVE Callibrated(rates) \in Rates \cup {0}
    <3> DEFINE recorded == {r \in rates : r > RecordThresh}
    <3>1. recorded \subseteq Rates /\ recorded \subseteq Nat
      BY KBestAssumption
    <3>2. recorded # {} => Min(recorded) \in recorded
      BY <3>1, MinOfNaturals
    <3>3. Callibrated(rates) = IF recorded = {} THEN 0 ELSE Min(recorded)
      BY DEF Callibrated
    <3> QED BY <3>1, <3>2, <3>3
  <2>2. cyc_per_tick \in Rates \cup {0}
    BY DEF Inv, SettingsOK
  <2> QED BY <2>1, <2>2 DEF Round
<1>2. PICK t \in Times, start \in Starts, ticks \in IF compensate THEN Ticks ELSE {0} :
        Add(Compensated(Reading(start), Reading(start + t), ticks, cyc_per_tick'),
            t - ticks * cyc_per_tick')
  BY DEF Round
<1>3. Elapsed(Reading(start), Reading(start + t)) = t
  <2>1. start \in Nat /\ t \in 0 .. Radix * Radix - 1
    BY KBestAssumption
  <2> QED BY <2>1, ElapsedIsRight
<1>4. ticks \in Ticks \cup {0}
  BY <1>2
<1>5. t - ticks * cyc_per_tick' \in Samples
  BY <1>1, <1>4 DEF Samples
<1>6. Add(t - ticks * cyc_per_tick', t - ticks * cyc_per_tick')
  BY <1>2, <1>3 DEF Compensated
<1>7. measuring /\ Clear
  BY DEF Round
<1> QED BY <1>1, <1>5, <1>6, <1>7

(* A sample is added; the one that ends the measurement leaves the least   *)
(* as the result.                                                          *)
LEMMA AddFacts ==
  ASSUME Inv, measuring, NEW t \in Samples, Add(t, t)
  PROVE  /\ SamplerOK'
         /\ ~measuring' => result' = Min({v \in Samples : seen'[v] > 0})
         /\ UNCHANGED <<kbest, maxsamples, epsilon, clear_cache, cache_bytes,
                        cache_block, compensate>>
<1> DEFINE vals == WithSample(values, t)
           more == After(seen, t)
           again == ~HasConverged(vals, Count) /\ Count < maxsamples
<1>1. /\ samplecount' = samplecount + 1
      /\ measuring' = again
      /\ values' = IF again THEN vals ELSE <<>>
      /\ result' = IF again THEN result ELSE vals[1]
      /\ seen' = more
      /\ UNCHANGED <<kbest, maxsamples, epsilon, clear_cache, cache_bytes,
                     cache_block, compensate, exited>>
  BY Zenon DEF Add, Count, After, sampling
<1>2. /\ kbest \in Ks /\ values \in Arrays(kbest) /\ samplecount \in Nat
      /\ seen \in [Samples -> 0 .. Max(Ks)]
      /\ Ranked(values, seen, Min({samplecount, kbest}))
      /\ \A v \in Samples : seen[v] <= samplecount
  BY ParameterFacts DEF Inv, SettingsOK, SamplerOK
<1>3. vals \in Arrays(kbest) /\ Ranked(vals, more, Min({samplecount + 1, kbest}))
  BY <1>2, SampleKept
<1>4. /\ more \in [Samples -> 0 .. Max(Ks)]
      /\ \A v \in Samples : more[v] <= seen[v] + 1
  BY <1>2, CountsAfter
<1>5. \A v \in Samples : more[v] <= samplecount + 1
  <2> SUFFICES ASSUME NEW v \in Samples PROVE more[v] <= samplecount + 1
    OBVIOUS
  <2>1. more[v] \in Int /\ seen[v] \in Int /\ seen[v] <= samplecount /\ more[v] <= seen[v] + 1
    BY <1>2, <1>4, ParameterFacts
  <2> QED BY <2>1, <1>2
<1>6. 1 \in 1 .. Min({samplecount + 1, kbest})
  <2>1. kbest \in Nat /\ kbest >= 1
    BY <1>2, ParameterFacts
  <2> QED BY <2>1, <1>2, MinOfTwo
<1>7. samplecount + 1 \in 0 .. Max(Limits)
  BY <1>2, ParameterFacts DEF Inv, SettingsOK, SamplerOK
<1>8. vals[1] \in Samples /\ \A v \in Samples : vals[1] <= v <=> 1 <= more[v]
  BY <1>3, <1>6 DEF Ranked
<1>9. result \in Samples \cup {0} /\ exited \in BOOLEAN
  BY DEF Inv, SamplerOK
<1> HIDE DEF vals, more
<1>10. CASE again
  <2>1. measuring' /\ samplecount + 1 < maxsamples /\ values' = vals /\ result' = result
    BY <1>1, <1>10, Zenon DEF Count
  <2> QED BY <2>1, <1>1, <1>3, <1>4, <1>5, <1>7, <1>9 DEF SamplerOK
<1>11. CASE ~again
  <2>1. measuring' = FALSE /\ values' = <<>> /\ result' = vals[1]
    BY <1>1, <1>11, Zenon
  <2>2. SamplerOK'
    BY <2>1, <1>1, <1>4, <1>7, <1>8, <1>9 DEF SamplerOK
  <2>3. Min({v \in Samples : more[v] > 0}) = vals[1]
    <3> DEFINE S == {v \in Samples : more[v] > 0}
    <3>1. \A v \in Samples : v \in Int /\ more[v] \in Nat
      BY <1>4, ParameterFacts
    <3>2. S \subseteq Int /\ vals[1] \in S
      BY <1>8, <3>1
    <3>3. \A v \in S : vals[1] <= v
      BY <1>8, <3>1
    <3> HIDE DEF S
    <3>4. Min(S) = vals[1]
      BY <3>2, <3>3, MinIs
    <3> QED BY <3>4 DEF S
  <2> QED BY <2>1, <2>2, <2>3, <1>1
<1> QED BY <1>10, <1>11


(* Between the measurements the array is away, and what is set anew is in  *)
(* its range; the buffer goes when the size changes.                       *)
LEMMA SettingSteps ==
  ASSUME Inv, SetSampling \/ SetCompensate \/ SetClearing \/ SetCacheSize
  PROVE  Inv'
<1>1. ~measuring /\ UNCHANGED sampler /\ values = <<>>
  BY DEF SetSampling, SetCompensate, SetClearing, SetCacheSize, Idle, Inv, SamplerOK
<1>2. SamplerOK'
  BY <1>1 DEF Inv, SamplerOK, sampler
<1>3. CASE SetSampling
  BY <1>2, <1>3 DEF SetSampling, Inv, SettingsOK, BufferFits, cache, counter
<1>4. CASE SetCompensate
  BY <1>2, <1>4 DEF SetCompensate, Inv, SettingsOK, BufferFits, cache, sampling
<1>5. CASE SetClearing
  BY <1>2, <1>5 DEF SetClearing, Inv, SettingsOK, BufferFits, counter, sampling
<1>6. CASE SetCacheSize
  BY <1>2, <1>6 DEF SetCacheSize, BufferAfter, Inv, SettingsOK, BufferFits, counter, sampling
<1> QED BY <1>3, <1>4, <1>5, <1>6

(* init_sampler: no sample yet, and none has been seen.                    *)
LEMMA StartStep ==
  ASSUME Inv, Start
  PROVE  Inv'
<1>1. /\ measuring' = TRUE /\ values' = [i \in 1 .. kbest |-> 0] /\ samplecount' = 0
      /\ seen' = NothingSeen /\ UNCHANGED <<exited, result>>
      /\ UNCHANGED <<kbest, maxsamples, epsilon>> /\ UNCHANGED cache /\ UNCHANGED counter
  BY DEF Start, sampling
<1>2. SettingsOK' /\ BufferFits'
  BY <1>1 DEF Inv, SettingsOK, BufferFits, cache, counter
<1>3. kbest \in Nat \ {0} /\ maxsamples \in Nat \ {0} /\ Max(Ks) \in Nat /\ Max(Limits) \in Nat
  BY ParameterFacts DEF Inv, SettingsOK
<1>4. \A i \in 1 .. Min({0, kbest}) : FALSE
  BY <1>3, MinOfTwo
<1>5. Ranked(values', seen', Min({samplecount', kbest'}))
  BY <1>1, <1>4 DEF Ranked
<1>6. seen' \in [Samples -> 0 .. Max(Ks)] /\ \A v \in Samples : seen'[v] <= 0
  BY <1>1, <1>3 DEF NothingSeen
<1>7. values' \in Arrays(kbest')
  BY <1>1 DEF Arrays
<1>8. samplecount' \in 0 .. Max(Limits) /\ samplecount' < maxsamples'
  BY <1>1, <1>3
<1>9. SamplerOK'
  BY <1>1, <1>5, <1>6, <1>7, <1>8 DEF Inv, SamplerOK
<1> QED BY <1>2, <1>9 DEF Inv

(* A round of fcyc's loop.                                                 *)
LEMMA RoundStep ==
  ASSUME Inv, Round
  PROVE  Inv' /\ (~measuring' => result' = Min({v \in Samples : seen'[v] > 0}))
<1>1. PICK t \in Samples : Add(t, t)
  BY RoundFacts
<1>2. measuring /\ Clear /\ cyc_per_tick' \in Rates \cup {0}
  BY RoundFacts
<1>3. /\ SamplerOK' /\ (~measuring' => result' = Min({v \in Samples : seen'[v] > 0}))
      /\ UNCHANGED <<kbest, maxsamples, epsilon, clear_cache, cache_bytes,
                     cache_block, compensate>>
  BY <1>1, <1>2, AddFacts
<1>4. SettingsOK'
  BY <1>2, <1>3 DEF Inv, SettingsOK
<1>5. BufferFits'
  BY <1>2, <1>3 DEF Inv, BufferFits, Clear
<1> QED BY <1>3, <1>4, <1>5 DEF Inv

(* No memory for the buffer.                                               *)
LEMMA NoBufferStep ==
  ASSUME Inv, NoBuffer
  PROVE  Inv'
BY DEF NoBuffer, Inv, SettingsOK, BufferFits, SamplerOK, sampling, cache, counter

(* So it holds, whatever is set and measured in whatever order.            *)
LEMMA InductiveInvariant == Spec => []Inv
<1>1. Init => Inv
  <2> SUFFICES ASSUME Init PROVE Inv
    OBVIOUS
  <2>1. Max(Ks) \in Nat /\ Max(Limits) \in Nat
    BY ParameterFacts
  <2>2. seen \in [Samples -> 0 .. Max(Ks)]
    BY <2>1 DEF Init, NothingSeen
  <2>3. SettingsOK
    BY DEF Init, SettingsOK
  <2>4. BufferFits
    BY DEF Init, BufferFits
  <2>5. SamplerOK
    <3>1. ~measuring /\ measuring \in BOOLEAN /\ exited \in BOOLEAN
      BY Zenon DEF Init
    <3>2. values = <<>> /\ result = 0 /\ samplecount \in 0 .. Max(Limits)
      BY <2>1 DEF Init
    <3> QED BY <3>1, <3>2, <2>2 DEF SamplerOK
  <2> QED BY <2>3, <2>4, <2>5 DEF Inv
<1>2. Inv /\ [Next]_vars => Inv'
  <2> SUFFICES ASSUME Inv, [Next]_vars PROVE Inv'
    OBVIOUS
  <2>1. CASE SetSampling \/ SetCompensate \/ SetClearing \/ SetCacheSize
    BY <2>1, SettingSteps
  <2>2. CASE Start
    BY <2>2, StartStep
  <2>3. CASE Round
    BY <2>3, RoundStep
  <2>4. CASE NoBuffer
    BY <2>4, NoBufferStep
  <2>5. CASE UNCHANGED vars
    <3>1. SettingsOK' /\ BufferFits'
      BY <2>5 DEF vars, sampling, cache, counter, Inv, SettingsOK, BufferFits
    <3>2. SamplerOK'
      BY <2>5 DEF vars, sampling, sampler, Inv, SamplerOK
    <3> QED BY <3>1, <3>2 DEF Inv
  <2> QED BY <2>1, <2>2, <2>3, <2>4, <2>5 DEF Next
<1> QED BY <1>1, <1>2, PTL DEF Spec

-----------------------------------------------------------------------------
(* The theorems.                                                           *)

(* The sampler's variables have their types, and the array its length.     *)
THEOREM TypeCorrect == Spec => []TypeOK
BY InvariantSuffices, InductiveInvariant, PTL

(* fcyc.c:117: clear reads no int behind the buffer.                       *)
THEOREM ClearStaysInBuffer == Spec => []SweepsInBuffer
BY InvariantSuffices, InductiveInvariant, PTL

(* The array holds the least of the samples, each as often as it was taken.*)
THEOREM LeastAreHeld == Spec => []HoldsBest
BY InvariantSuffices, InductiveInvariant, PTL

(* fcyc.c:162: fcyc returns the least of the samples it took.              *)
THEOREM LeastIsReturned == Spec => ResultIsLeast
<1> DEFINE A == measuring /\ ~measuring' /\ ~exited' =>
                  result' = Min({v \in Samples : seen'[v] > 0})
<1>1. Inv /\ [Next]_vars => [A]_vars
  <2> SUFFICES ASSUME Inv, Next, measuring, ~measuring', ~exited'
               PROVE  result' = Min({v \in Samples : seen'[v] > 0})
    OBVIOUS
  <2>1. CASE SetSampling \/ SetCompensate \/ SetClearing \/ SetCacheSize \/ Start
    BY <2>1 DEF SetSampling, SetCompensate, SetClearing, SetCacheSize, Start, Idle
  <2>2. CASE Round
    BY <2>2, RoundStep
  <2>3. CASE NoBuffer
    BY <2>3 DEF NoBuffer
  <2> QED BY <2>1, <2>2, <2>3 DEF Next
<1> QED BY <1>1, InductiveInvariant, PTL DEF Spec, ResultIsLeast


=============================================================================
