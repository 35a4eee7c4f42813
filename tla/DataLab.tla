------------------------------ MODULE DataLab ------------------------------
(***************************************************************************)
(* The functions of 22-Lab1-datalab-bits.c, which compute with nothing but *)
(* the operators of C on a 32-bit int.  A function that works on bits sees *)
(* a word as the set of the positions that hold a one, 31 the sign; one    *)
(* that computes sees it as the number it stands for.  The reference       *)
(* definitions stand beside them.                                          *)
(***************************************************************************)
EXTENDS CInt

Bits == 0 .. 31
Word == SUBSET Bits

Zero == {}
One == {0}

-----------------------------------------------------------------------------
(* The operators of C on words as sets; & is \cap and | is \cup.           *)

Not(x) == Bits \ x
Xor(x, y) == (x \ y) \cup (y \ x)
LogicalNot(x) == IF x = Zero THEN One ELSE Zero            \* !x

Shl(x, n) == {b \in Bits : b - n \in x}
Sar(x, n) == {b \in Bits : IF b + n <= 31 THEN b + n \in x ELSE 31 \in x}

(* x + 1: a bit changes if the carry reaches it, through ones only         *)
Inc(x) == {b \in Bits : (b \in x) # (\A c \in Bits : c < b => c \in x)}

(* 170, which is 10101010                                                  *)
Pattern == {1, 3, 5, 7}

-----------------------------------------------------------------------------
bitXor(x, y) ==
  LET bothMask == Not(x \cap y)
      neitherMask == Not(Not(x) \cap Not(y))
  IN  bothMask \cap neitherMask

tmin == Shl(One, 31)

allOddBits(x) ==
  LET mask == Pattern \cap Sar(x, 24) \cap Sar(x, 16) \cap Sar(x, 8) \cap x
  IN  LogicalNot(Xor(mask, Pattern))

conditional(x, y, z) ==
  LET mask == Inc(Not(LogicalNot(x)))
  IN  (Not(mask) \cap y) \cup (mask \cap z)

logicalNeg(x) ==
  LET truthy == Sar(x, 31) \cup Sar(Inc(Not(x)), 31)
  IN  Not(truthy) \cap One

-----------------------------------------------------------------------------
(* howManyBits: abs has the bits in which x differs from its sign; each    *)
(* step halves the part of it that is looked at.  The results of the steps *)
(* are numbers, as !! and << of it make them.                              *)

abs(x) ==
  LET absMask == Inc(Not(One \cap Sar(x, 31)))
  IN  (Not(absMask) \cap x) \cup (absMask \cap Not(x))

(* hasBits << k, for a chunk of n = 2^k bits                               *)
res(a, n) == IF Sar(a, n) = Zero THEN 0 ELSE n

(* the int that is left of abs in the end has no bits but the last         *)
Number == [a \in {Zero, One} |-> IF a = One THEN 1 ELSE 0]

howManyBits(x) ==
  LET abs0 == abs(x)
      res1 == res(abs0, 16)
      abs1 == Sar(abs0, res1)
      res2 == res(abs1, 8)
      abs2 == Sar(abs1, res2)
      res3 == res(abs2, 4)
      abs3 == Sar(abs2, res3)
      res4 == res(abs3, 2)
      abs4 == Sar(abs3, res4)
      res5 == res(abs4, 1)
      abs5 == Sar(abs4, res5)
  IN  res1 + res2 + res3 + res4 + res5 + Number[abs5] + 1

(* reference: from bit n - 1 up x has nothing but copies of its sign       *)
Represents(n, x) ==
  \A b \in Bits : b >= n - 1 => (b \in x <=> 31 \in x)

-----------------------------------------------------------------------------
(* The operators of C on words as numbers.  Of the two functions that      *)
(* compute, the masks are words of zeros or ones only, or the number 1.    *)

(* a sum of two ints, as the hardware forms it                             *)
Sum(x, y) ==
  IF x + y > IntMax THEN x + y - 2 * (IntMax + 1)
  ELSE IF x + y < IntMin THEN x + y + 2 * (IntMax + 1)
  ELSE x + y

Complement(x) == -x - 1
Signs(x) == IF x < 0 THEN -1 ELSE 0                        \* x >> 31
IsZero(m) == IF m = 0 THEN 1 ELSE 0                        \* !m
AndMask(m, n) == IF m = -1 THEN n ELSE IF n = -1 THEN m ELSE IF m = n THEN m ELSE 0
OrMask(m, n) == IF -1 \in {m, n} THEN -1 ELSE IF 1 \in {m, n} THEN 1 ELSE 0
XorSigns(m, n) == IF m = n THEN 0 ELSE -1

negate(x) == Sum(Complement(x), 1)

isLessOrEqual(x, y) ==
  LET diff == Sum(y, Sum(Complement(x), 1))
      diffIsNegative == AndMask(1, Signs(diff))
      isLessThan == IsZero(diffIsNegative)
      isDifferentSign == AndMask(1, XorSigns(Signs(x), Signs(y)))
      isNegAndPos == AndMask(isDifferentSign, Signs(x))
      isPosAndNeg == AndMask(isDifferentSign, Signs(y))
  IN  AndMask(OrMask(isNegAndPos, isLessThan), IsZero(isPosAndNeg))

=============================================================================
