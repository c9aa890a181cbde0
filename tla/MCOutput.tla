-------------------------------- MODULE MCOutput -------------------------------
(* The shapes of message that the kernel has, with formats cut short: one    *)
(* letter stands for a word, and one letter for a prefix.                    *)
EXTENDS Output

a == 97
b == 98
i == 105
q == 113
X == 88

T(letters) == [kind |-> "text", letters |-> letters]
C(c)       == [kind |-> "c", letters |-> <<99>>, value |-> c]
S(string)  == [kind |-> "s", letters |-> <<115>>, value |-> string]
I(v)       == [kind |-> "i", letters |-> <<105>>, value |-> v]
H(v)       == [kind |-> "x", letters |-> <<120>>, value |-> v]
Double     == [kind |-> "percent"]
Other(s)   == [kind |-> "other", letters |-> s]
EOL        == T(<<CR, LF>>)

MCPrefix ==
  [how \in Formatting \cup Lines |-> IF how = "line" THEN << >> ELSE <<X>>]

\* pit/base.c:8, hal.c:182, entry.c:154, tar/base.c:30, mm/base.c:237 and
\* what none of them does.
MCMessages ==
  [how : {"debug"}, pieces :
     {<<T(<<a>>), I(0), T(<<b, b>>), I(IntMax), EOL>>,
      <<H(-1), H(-2), I(-1)>>,
      <<H(IntMax), H(IntMax - 4), I(-1)>>,
      <<S(<<a, b>>), T(<<a, a, i>>), EOL>>,
      <<S(<< >>), C(b), Double, Double, Double, I(3)>>,
      <<T(<<a, a, b>>), Double, T(<<a>>), Other(<<LF>>), Double, I(2)>>,
      <<I(5), Other(<<q, a>>)>>,
      <<S(<<a, b, a, a, b, a, a, b, a, b, a, b, a, b>>), C(a), Other(<< >>)>>,
      <<S(<<a, b, a, a, b, a, a, b, a, b, a, b, a, b, b>>), C(a)>>,
      << >>}]
  \cup [how : Formatting, pieces : {<<I(v)>> : v \in Ints} \cup {<<H(v)>> : v \in Ints}]
  \cup [how : Lines \cup {"string"}, pieces :
     {<<T(<<a, a, b, a>>)>>, <<T(<<a, Percent, i, b, a, b, b, a, a>>)>>}]
  \cup [how : {"number"}, pieces :
     {<<[kind |-> "i", letters |-> << >>, value |-> v]>> : v \in {0, 9, Pow[IntBits] - 1}}]
===============================================================================
