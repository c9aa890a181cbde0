-------------------------------- MODULE Arith64 --------------------------------
(***************************************************************************)
(* The 64-bit arithmetic of a 32-bit processor, inuoskrnl/rt/math.c: what   *)
(* the compiler calls for each division, remainder and shift of an Int64,  *)
(* as in ultoa and in the page arithmetic of ga.                           *)
(*                                                                         *)
(* A word is the number that its bits stand for without a sign.  Its width *)
(* is a parameter, a power of two, so that all words can be looked at.     *)
(***************************************************************************)
EXTENDS Integers, FiniteSets

CONSTANT HalfBits          \* 32

ASSUME Arith64Assumption == HalfBits \in {2, 4, 8, 16, 32}

\* 2 ^ k, as a recursion that can be reasoned about.
Pow[k \in Nat] == IF k = 0 THEN 1 ELSE 2 * Pow[k - 1]

Bits    == 2 * HalfBits
Half    == Pow[HalfBits]
Modulus == Pow[Bits]
Word64  == 0 .. Modulus - 1

hi(a) == a \div Half
lo(a) == a % Half
Signed(a) == IF a < Modulus \div 2 THEN a ELSE a - Modulus

\* arithmetic of one half, and of a half with its sign
Left(h, b)        == (h * Pow[b]) % Half
Right(h, b)       == h \div Pow[b]
SignedRight(h, b) == ((IF h < Half \div 2 THEN h ELSE h - Half) \div Pow[b]) % Half

(* Definitions named Fault... are slips the code could contain at that      *)
(* place; each shows that a property below would notice (see the README).   *)

neg(a, b) == IF Signed(b) < 0 THEN (Modulus - a) % Modulus ELSE a
absvdi2(a) == neg(a, a)

-------------------------------------------------------------------------------
(* Shifts: the amount is taken & 63; by 0 a word stays as it is.            *)

ashldi3(a, amount) ==
  LET b == amount % Bits IN
  IF b >= HalfBits THEN Half * Left(lo(a), b - HalfBits)
  ELSE IF b = 0 THEN a
  ELSE Half * (Right(lo(a), HalfBits - b) + Left(hi(a), b)) + Left(lo(a), b)

lshrdi3(a, amount) ==
  LET b == amount % Bits IN
  IF b >= HalfBits THEN Right(hi(a), b - HalfBits)
  ELSE IF b = 0 THEN a
  ELSE Half * Right(hi(a), b) + Left(hi(a), HalfBits - b) + Right(lo(a), b)

ashrdi3(a, amount) ==
  LET b == amount % Bits IN
  IF b >= HalfBits
    THEN Half * SignedRight(hi(a), HalfBits - 1) + SignedRight(hi(a), b - HalfBits)
  ELSE IF b = 0 THEN a
  ELSE Half * SignedRight(hi(a), b) + Left(hi(a), HalfBits - b) + Right(lo(a), b)

-------------------------------------------------------------------------------
(* Counting bits                                                            *)

\* How often a width can be halved until it is 1.
Halvings(width) == CHOOSE k \in 0 .. width : Pow[k] = width

\* Half of the width, a quarter, ... : where the first b bits are all 0 they
\* are shifted out and counted.
Leading(a, width) ==
  LET after[k \in Nat] ==
        IF k = 0 THEN [a |-> a, n |-> 0]
        ELSE LET b == width \div Pow[k]
                 s == after[k - 1]
             IN  IF s.a < Pow[width - b]
                 THEN [a |-> (s.a * Pow[b]) % Pow[width], n |-> s.n + b] ELSE s
  IN  after[Halvings(width)].n

Trailing(a, width) ==
  LET after[k \in Nat] ==
        IF k = 0 THEN [a |-> a, n |-> 0]
        ELSE LET b == width \div Pow[k]
                 s == after[k - 1]
             IN  IF s.a % Pow[b] = 0
                 THEN [a |-> s.a \div Pow[b], n |-> s.n + b] ELSE s
  IN  after[Halvings(width)].n

clzsi2(a) == Leading(a, HalfBits)
clzdi2(a) == Leading(a, Bits)
ctzsi2(a) == Trailing(a, HalfBits)
ctzdi2(a) == Trailing(a, Bits)
ffsdi2(a) == IF a = 0 THEN 0 ELSE ctzdi2(a) + 1

\* a & 0x55..., 0x33... and 0x0F...: every other field of k bits
Fields(k) ==
  LET masked[a \in Nat] ==
        IF a = 0 THEN 0 ELSE (a % Pow[k]) + Pow[2 * k] * masked[a \div Pow[2 * k]]
  IN  masked

\* Sums of pairs, of fours, of eights, and then the bytes onto the lowest.
Population(a, width) ==
  LET pairs  == a - Fields(1)[a \div 2]
      fours  == Fields(2)[pairs \div 4] + Fields(2)[pairs]
      eights == Fields(4)[(fours + fours \div 16) % Pow[width]]
      onto[k \in Nat] ==
        IF k = 0 THEN eights
        ELSE LET b == width \div Pow[k]
                 s == onto[k - 1]
             IN  IF b >= 8 THEN (s + s \div Pow[b]) % Pow[width] ELSE s
  IN  onto[Halvings(width)] % (2 * width)

popcountsi2(a) == Population(a, HalfBits)
popcountdi2(a) == Population(a, Bits)

-------------------------------------------------------------------------------
(* Division                                                                 *)

\* One bit: the next of the numerator to the remainder, and wrap, whether
\* b goes into it, to the quotient.
FaultRound(s, b) ==                \* b - rem in place of b - rem - 1
  LET rem  == ((2 * s.rem) % Modulus) + s.a \div (Modulus \div 2)
      wrap == IF Signed((b - rem) % Modulus) < 0 THEN 1 ELSE 0
  IN  [rem |-> (rem - b * wrap) % Modulus, a |-> ((2 * s.a) % Modulus) + s.wrap, wrap |-> wrap]

Round(s, b) ==
  LET rem  == ((2 * s.rem) % Modulus) + s.a \div (Modulus \div 2)
      wrap == IF Signed((b - rem - 1) % Modulus) < 0 THEN 1 ELSE 0
  IN  [rem |-> (rem - b * wrap) % Modulus, a |-> ((2 * s.a) % Modulus) + s.wrap, wrap |-> wrap]

LongDivision(a, b) ==
  LET bits == clzdi2(b) - clzdi2(a) + 1
      after[n \in Nat] ==
        IF n = 0 THEN [rem |-> a \div Pow[bits], a |-> (a * Pow[Bits - bits]) % Modulus,
                       wrap |-> 0]
        ELSE Round(after[n - 1], b)
      last == after[bits]
  IN  [quotient |-> ((2 * last.a) % Modulus) + last.wrap, remainder |-> last.rem]

\* Dividing by 0 is forced to an exception, which module Signals has.
divmoddi4(a, b) ==
  IF b > a THEN [quotient |-> 0, remainder |-> a]
  ELSE IF hi(b) = 0 /\ b = 1 THEN [quotient |-> a, remainder |-> 0]
  ELSE IF hi(b) = 0 /\ hi(a) = 0
    THEN [quotient |-> lo(a) \div lo(b), remainder |-> lo(a) % lo(b)]
  ELSE LongDivision(a, b)

udivdi3(a, b) == divmoddi4(a, b).quotient
umoddi3(a, b) == divmoddi4(a, b).remainder

\* negated if the signs differ: a ^ b is negative
divdi3(a, b) ==
  neg(udivdi3(absvdi2(a), absvdi2(b)),
      IF (Signed(a) < 0) # (Signed(b) < 0) THEN Modulus - 1 ELSE 0)

moddi3(a, b) == neg(umoddi3(absvdi2(a), absvdi2(b)), a)

-------------------------------------------------------------------------------
Magnitude(n) == IF n < 0 THEN -n ELSE n
Truncated(a, b) ==
  LET q == Magnitude(Signed(a)) \div Magnitude(Signed(b))
  IN  IF (Signed(a) < 0) # (Signed(b) < 0) THEN -q ELSE q

Ones(a, width) == {i \in 0 .. width - 1 : (a \div Pow[i]) % 2 = 1}
LowestOf(bits)  == CHOOSE i \in bits : \A j \in bits : i <= j
HighestOf(bits) == CHOOSE i \in bits : \A j \in bits : i >= j

\* Quotient and remainder of every two words, without sign and with, are
\* those of integers, rounded towards 0 (the least number by -1 wraps); every
\* shift is by that many bits; every count is that of the bits.
Divides(a, b) ==
  /\ udivdi3(a, b) = a \div b /\ umoddi3(a, b) = a % b
  /\ divdi3(a, b) = Truncated(a, b) % Modulus
  /\ Signed(moddi3(a, b)) = Signed(a) - Signed(b) * Truncated(a, b)

Shifts(a, b) ==
  /\ ashldi3(a, b) = (a * Pow[b]) % Modulus
  /\ lshrdi3(a, b) = a \div Pow[b]
  /\ Signed(ashrdi3(a, b)) = Signed(a) \div Pow[b]

Counts(a) ==
  /\ a # 0 => /\ clzdi2(a) = Bits - 1 - HighestOf(Ones(a, Bits))
             /\ ctzdi2(a) = LowestOf(Ones(a, Bits)) /\ ffsdi2(a) = ctzdi2(a) + 1
  /\ lo(a) # 0 => /\ clzsi2(lo(a)) = HalfBits - 1 - HighestOf(Ones(lo(a), HalfBits))
                 /\ ctzsi2(lo(a)) = LowestOf(Ones(lo(a), HalfBits))
  /\ ffsdi2(0) = 0
  /\ popcountdi2(a) = Cardinality(Ones(a, Bits))
  /\ popcountsi2(lo(a)) = Cardinality(Ones(lo(a), HalfBits))

\* The sums of bytes in the counts show with words of two bytes.
Exact ==
  /\ \A a \in Word64 : \A b \in Word64 \ {0} : Divides(a, b)
  /\ \A a \in Word64 : \A b \in 0 .. Bits - 1 : Shifts(a, b)
  /\ \A a \in Word64 : Counts(a)
  /\ \A a \in 0 .. Pow[16] - 1 : Population(a, 16) = Cardinality(Ones(a, 16))
===============================================================================
