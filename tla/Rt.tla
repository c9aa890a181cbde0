----------------------------------- MODULE Rt ---------------------------------
(***************************************************************************)
(* Memory, strings and numerals, inuoskrnl/rt/base.c, as operators.        *)
(*                                                                         *)
(* A string is the sequence of its letters, without the zero behind them,  *)
(* and a letter is its number.  Memory is a function from addresses to     *)
(* bytes.  A pointer into a string is the number of letters before it.     *)
(***************************************************************************)
EXTENDS Arith64, Sequences, FiniteSetsExt

CONSTANTS
  IntBits,       \* the width of int
  BufferDigits   \* "char buffer[32]" of ultoa

ASSUME RtAssumption ==
  /\ IntBits \in 1 .. Bits
  /\ BufferDigits \in Nat /\ 2 * BufferDigits = Bits

IntMax == Pow[IntBits - 1] - 1

Null == -1

\* What is read at a place of a string: behind the last letter stands 0.
At(string, i) == IF i <= Len(string) THEN string[i] ELSE 0

strlen(string) == Len(string)
wstrlen(string) == Len(string)

-------------------------------------------------------------------------------
(* Memory.                                                                  *)

\* k cells are loaded together and stored together.
Move(m, dest, src, k) ==
  [a \in DOMAIN m |-> IF a \in dest .. dest + k - 1 THEN m[src + (a - dest)] ELSE m[a]]

FaultTail(n) == n \div 4           \* as a word pointer

\* Where the bytes behind the last whole word begin.
Tail4(n) == (n \div 4) * 4

\* Whole words first, then the bytes that are left.
memcpy(m, dest, src, n) ==
  LET words[i \in 0 .. n \div 4] ==
        IF i = 0 THEN m ELSE Move(words[i - 1], dest + 4 * (i - 1), src + 4 * (i - 1), 4)
      bytes[i \in 0 .. n % 4] ==
        IF i = 0 THEN words[n \div 4]
                 ELSE Move(bytes[i - 1], dest + Tail4(n) + i - 1, src + Tail4(n) + i - 1, 1)
  IN  bytes[n % 4]

\* Zeros, the only value that callers give.  allocated counts bytes and is
\* added to a pointer to words: the bytes behind the last whole word are taken
\* four times as far away as they are.
memset(m, dest, n) ==
  LET tail == dest + 4 * Tail4(n)
  IN  [a \in DOMAIN m |->
         IF a \in dest .. dest + Tail4(n) - 1 \/ a \in tail .. tail + (n % 4) - 1 THEN 0 ELSE m[a]]

\* Byte by byte, from the end that is safe.
memmove(m, dest, src, n) ==
  LET at(i) == IF dest < src THEN i - 1 ELSE n - i
      bytes[i \in 0 .. n] ==
        IF i = 0 THEN m ELSE Move(bytes[i - 1], dest + at(i), src + at(i), 1)
  IN  bytes[n]

Word(s, k) == s[4*k - 3] + 256 * s[4*k - 2] + 65536 * s[4*k - 1] + 16777216 * s[4*k]

\* Words are compared as numbers, so a byte counts for more than those before
\* it: only the answer 0 says what a comparison of bytes would say.
memcmp(a, b, size) ==
  LET aligned == size \div 4
      part(s, k) == IF k <= aligned THEN Word(s, k) ELSE s[4 * aligned + (k - aligned)]
      differ == {k \in 1 .. aligned + (size % 4) : part(a, k) # part(b, k)}
  IN  IF differ = {} THEN 0
      ELSE IF part(a, Min(differ)) < part(b, Min(differ)) THEN -1 ELSE 1

-------------------------------------------------------------------------------
(* Strings.                                                                 *)

strcmp(first, second) ==
  LET ends == {i \in 1 .. Len(first) + 1 : At(first, i) = 0 \/ At(first, i) # At(second, i)}
  IN  At(first, Min(ends)) - At(second, Min(ends))

wstrcmp(first, second) == strcmp(first, second)

\* The letters that the inner loop finds equal: the counter starts from 0 for
\* every letter of the outer loop.
Agreeing(first, second, i) ==
  Max({j \in 0 .. Len(second) : \A x \in 1 .. j : At(first, i + x) = At(second, x)})

\* An empty string is found at the last letter.
strstr(first, second) ==
  LET found == {i \in 0 .. Len(first) - 1 : Agreeing(first, second, i) >= Len(second)}
  IN  IF second = << >> THEN Len(first) - 1
      ELSE IF found = {} THEN Null ELSE Min(found)

wstrstr(first, second) == strstr(first, second)

\* The first place, of size, where the letters of str stand.
lctentr(str, start, size) ==
  LET found == {i \in 0 .. size - 1 :
                  memcmp(str, [k \in 1 .. Len(str) |-> At(start, i + k)], Len(str)) = 0}
  IN  IF found = {} THEN Null ELSE Min(found)

\* A Char is two bytes (-fshort-wchar).
CharBytes(string) ==
  [k \in 1 .. 2 * Len(string) |->
     IF k % 2 = 1 THEN string[(k + 1) \div 2] % 256 ELSE string[k \div 2] \div 256]

wstrque(first, second) ==
  /\ wstrlen(first) = wstrlen(second)
  /\ memcmp(CharBytes(first), CharBytes(second), 2 * wstrlen(first)) = 0

wstrquec(first, second) == wstrque(first, second)

-------------------------------------------------------------------------------
(* Numerals.                                                                *)

Zero == 48
Minus == 45

Small(d) == IF d < 10 THEN Zero + d ELSE 97 + d - 10

FaultLarge(d) == IF d < 10 THEN Zero + d ELSE 65 + d    \* + 'A' in place of + 'A' - ':'

Large(d) == IF d < 10 THEN Zero + d ELSE 65 + d - 10

Smalls == [d \in 0 .. 35 |-> Small(d)]
Larges == [d \in 0 .. 35 |-> Large(d)]

\* The loops of itoa and ultoa: one digit after the other, until 0 is left.
Numeral(base, letter) ==
  LET from[n \in Nat] ==
        (IF n \div base = 0 THEN << >> ELSE from[n \div base]) \o <<letter[n % base]>>
  IN  from

\* The remainders of a negative value are negative, and the table of letters
\* goes both ways from its middle.
itoa(value, base) ==
  IF base < 2 \/ base > 36 THEN << >>
  ELSE (IF value < 0 /\ base = 10 THEN <<Minus>> ELSE << >>)
       \o Numeral(base, Smalls)[IF value < 0 THEN -value ELSE value]

\* index is an unsigned char: digits that find no room are stored behind the
\* buffer, and the first of them is all that is copied.  Remainder and quotient
\* are what umoddi3 and udivdi3 of Arith64 answer (ArithmeticExact).
ultoa(value, radix) ==
  LET digits == Numeral(radix, Larges)[value]
  IN  IF Len(digits) <= BufferDigits THEN digits ELSE <<Head(digits)>>

\* The answer points behind the sign; buffer is what the caller passed.
ltoa(value, radix) ==
  IF value < 0 /\ radix = 10
  THEN [buffer |-> <<Minus>> \o ultoa(-value, radix), answer |-> ultoa(-value, radix)]
  ELSE LET digits == ultoa(value % Modulus, radix)
       IN  [buffer |-> digits, answer |-> digits]

\* Every letter counts as a digit.
atoi(str) ==
  LET res[i \in Nat] == IF i = 0 THEN 0 ELSE res[i - 1] * 10 + At(str, i) - Zero
  IN  res[Len(str)]
===============================================================================
