------------------------------ MODULE OutputProofs -----------------------------
(***************************************************************************)
(* Text output for every screen, font, message, width of an int and of a   *)
(* word: the display engine stays inside the framebuffer; printing prints  *)
(* what was asked for; and the operators of Rt and Arith64 that it rests   *)
(* on, and their neighbours, are what they are for.                        *)
(***************************************************************************)
EXTENDS Output, SequenceTheorems, FiniteSetTheorems, WellFoundedInduction, TLAPS

-------------------------------------------------------------------------------
(* The display engine. *)

\* Where the cursor is between two calls.
CursorInv ==
  /\ TypeOK
  /\ engine = Dark => currentX <= 8 /\ currentY = 0
  /\ engine = Lit => currentX <= XLength /\ currentY <= YLength - YFont

IInv == CursorInv /\ InsideFramebuffer

\* What the provers need of products.
LEMMA Products ==
  ASSUME NEW m \in Nat, NEW n \in Nat, NEW k \in Nat, m <= n
  PROVE  m * k <= n * k /\ m * k \in Nat
<1>1. \E d \in Nat : n = m + d
  <2>1. n - m \in Nat /\ n = m + (n - m)
    OBVIOUS
  <2> QED BY <2>1
<1>2. PICK d \in Nat : n = m + d
  BY <1>1
<1>3. n * k = m * k + d * k /\ d * k \in Nat /\ m * k \in Nat
  BY <1>2
<1> QED BY <1>3

\* A rectangle whose rows end before the last row of the screen is inside.
LEMMA Rectangle ==
  ASSUME NEW x \in Nat, NEW y \in Nat, NEW width \in Nat, NEW height \in Nat,
         x <= width, y < height - 1
  PROVE  y * width + x < height * width \/ width = 0
<1>1. (y + 1) * width <= (height - 1) * width
  BY Products, y + 1 \in Nat, height - 1 \in Nat, y + 1 <= height - 1
<1>2. (y + 1) * width = y * width + width /\ (height - 1) * width = height * width - width
  OBVIOUS
<1>3. y * width \in Nat /\ height * width \in Nat
  BY Products
<1> QED BY <1>1, <1>2, <1>3

\* A letter at a place where DeDrawLetter puts one.
LEMMA LetterInside ==
  ASSUME NEW x \in 8 .. XLength, NEW y \in Nat, y = 0 \/ y < YLength - YFont
  PROVE  /\ y * XLength + (x - XFont + 1) \in Nat
         /\ (y + YFont - 1) * XLength + x \in Nat
         /\ (y + YFont - 1) * XLength + x < XLength * YLength
<1>1. y + YFont - 1 \in Nat /\ y + YFont - 1 < YLength - 1
  BY ConsoleAssumption
<1>2. y * XLength \in Nat /\ (y + YFont - 1) * XLength \in Nat
  BY <1>1, Products, ConsoleAssumption
<1>3. x \in Nat /\ x - XFont + 1 \in Nat /\ XLength # 0
  BY ConsoleAssumption
<1>4. (y + YFont - 1) * XLength + x < YLength * XLength
  BY <1>1, <1>3, Rectangle, ConsoleAssumption
<1>5. YLength * XLength = XLength * YLength
  BY ConsoleAssumption
<1> QED BY <1>2, <1>3, <1>4, <1>5

\* The two states of the engine differ, and painting nothing is a range.
LEMMA TwoEngines == Dark # Lit /\ None \in [first : Int, last : Int]
<1>1. Dark.x = 0 /\ Lit.x = XLength
  BY DEF Dark, Lit
<1>2. XLength # 0
  BY ConsoleAssumption
<1>3. None \in [first : Int, last : Int]
  BY DEF None
<1> QED BY <1>1, <1>2, <1>3

\* Before DeInitialize.
LEMMA Initially == Init => IInv
<1> SUFFICES ASSUME Init PROVE IInv
  OBVIOUS
<1> USE ConsoleAssumption
<1>1. TypeOK
  <2>1. currentX \in 0 .. XLength + 8 /\ currentY \in 0 .. YLength
    BY DEF Init
  <2>2. painted \in [first : Int, last : Int]
    BY TwoEngines DEF Init
  <2> QED BY <2>1, <2>2 DEF Init, TypeOK
<1>2. CursorInv
  BY <1>1, TwoEngines DEF Init, CursorInv
<1>3. InsideFramebuffer
  BY DEF Init, InsideFramebuffer
<1> QED BY <1>2, <1>3 DEF IInv

\* Every step of de.c keeps the invariant.
LEMMA Inductive == IInv /\ [Next]_vars => IInv'
<1> SUFFICES ASSUME IInv, [Next]_vars PROVE IInv'
  OBVIOUS
<1> USE ConsoleAssumption
<1>e. Dark # Lit /\ None \in [first : Int, last : Int]
  BY TwoEngines
<1>1. CASE DeInitialize
  <2>1. CursorInv'
    BY <1>1, <1>e DEF DeInitialize, IInv, CursorInv, TypeOK, Lit, Dark
  <2>2. InsideFramebuffer'
    BY <1>1 DEF DeInitialize, InsideFramebuffer, None
  <2> QED BY <2>1, <2>2 DEF IInv
<1>2. CASE DeReturnCarette
  <2>3. /\ currentX' = 0 /\ currentX' \in 0 .. XLength + 8 /\ currentX' <= XLength
        /\ engine' = engine /\ currentY' = currentY /\ painted' = None
    BY <1>2 DEF DeReturnCarette
  <2>4. TypeOK'
    BY <2>3, <1>e DEF IInv, CursorInv, TypeOK
  <2>1. CursorInv'
    BY <2>3, <2>4 DEF IInv, CursorInv
  <2>2. InsideFramebuffer'
    BY <1>2 DEF DeReturnCarette, InsideFramebuffer, None
  <2> QED BY <2>1, <2>2 DEF IInv
<1>3. CASE DeSkipLine
  <2>1. CASE engine = Dark
    <3>1. currentY' = 0 /\ engine' = Dark /\ currentX' = currentX /\ painted' \in {None, [first |-> 0, last |-> -1]}
      BY <1>3, <2>1 DEF DeSkipLine, DeLineWind, IInv, CursorInv, Dark
    <3> QED BY <3>1, <2>1, <1>e DEF IInv, CursorInv, TypeOK, InsideFramebuffer, None
  <2>2. CASE engine = Lit
    <3>1. /\ currentY' \in 0 .. YLength - YFont /\ engine' = Lit /\ currentX' = currentX
          /\ painted' \in {None, [first |-> 0, last |-> XLength * YLength - 1]}
      BY <1>3, <2>2 DEF DeSkipLine, DeLineWind, IInv, CursorInv, TypeOK, Lit
    <3> QED BY <3>1, <2>2, <1>e DEF IInv, CursorInv, TypeOK, InsideFramebuffer, None
  <2> QED BY <2>1, <2>2 DEF IInv, CursorInv, TypeOK
<1>4. CASE DeDrawLetter
  <2>1. CASE engine = Dark
    <3>1. currentY' = 0 /\ engine' = Dark /\ currentX' = 8 /\ painted' = None
      BY <1>4, <2>1 DEF DeDrawLetter, DeLineWind, Winds, IInv, CursorInv, TypeOK, Dark
    <3> QED BY <3>1, <2>1, <1>e DEF IInv, CursorInv, TypeOK, InsideFramebuffer, None
  <2>2. CASE engine = Lit
    <3>1. /\ engine' = Lit
          /\ currentX' \in 8 .. XLength
          /\ currentY' \in Nat /\ (currentY' = 0 \/ currentY' < YLength - YFont)
      BY <1>4, <2>2 DEF DeDrawLetter, DeLineWind, Winds, IInv, CursorInv, TypeOK, Lit
    <3>2. painted' = [first |-> currentY' * XLength + (currentX' - XFont + 1),
                      last |-> (currentY' + YFont - 1) * XLength + currentX']
      BY <1>4, <2>2, <3>1 DEF DeDrawLetter, Pixel, Lit
    <3>3. /\ currentY' * XLength + (currentX' - XFont + 1) \in Nat
          /\ (currentY' + YFont - 1) * XLength + currentX' \in Nat
          /\ (currentY' + YFont - 1) * XLength + currentX' < XLength * YLength
      BY <3>1, LetterInside
    <3>6. painted'.first >= 0 /\ painted'.last < XLength * YLength
      BY <3>2, <3>3
    <3>5. InsideFramebuffer'
      BY <3>1, <3>6 DEF InsideFramebuffer
    <3>4. painted' \in [first : Int, last : Int]
      BY <3>2, <3>3
    <3> QED BY <3>1, <3>5, <3>4, <2>2, <1>e DEF IInv, CursorInv, TypeOK
  <2> QED BY <2>1, <2>2 DEF IInv, CursorInv, TypeOK
<1>5. CASE UNCHANGED vars
  BY <1>5 DEF vars, IInv, CursorInv, TypeOK, InsideFramebuffer
<1> QED BY <1>1, <1>2, <1>3, <1>4, <1>5 DEF Next

\* The cursor, the engine and what was painted keep their ranges.
THEOREM TypeCorrect == Spec => []TypeOK
<1>1. IInv => TypeOK
  BY DEF IInv, CursorInv
<1> QED BY Initially, Inductive, <1>1, PTL DEF Spec

\* de.c never writes outside the framebuffer, whatever is printed and however
\* long, before DeInitialize and after.
THEOREM PaintsInside == Spec => []InsideFramebuffer
<1>1. IInv => InsideFramebuffer
  BY DEF IInv
<1> QED BY Initially, Inductive, <1>1, PTL DEF Spec

\* A step of printing is one of the display engine, or leaves it alone.
LEMMA PrintingPaints == [PrintNext]_printVars => [Next]_vars
<1> SUFFICES ASSUME PrintNext, ~UNCHANGED vars PROVE Next
  BY DEF printVars
<1>1. CASE DeInitialize
  BY <1>1 DEF Next
<1>2. ASSUME NEW m \in Messages,
             FwDebugPrint(m) \/ FwIOPrintLine(m) \/ FwIOPrint(m) \/ FwIOPrintNumerical(m)
      PROVE  UNCHANGED vars
  BY <1>2 DEF FwDebugPrint, FwIOPrintLine, FwIOPrint, FwIOPrintNumerical
<1>3. CASE Letter
  BY <1>3 DEF Letter, FwIOPrintLetter, Next
<1>4. CASE Text \/ Conversion \/ Unknown
  BY <1>4 DEF Text, Conversion, Unknown, Segment
<1>5. CASE Return \/ Leave
  BY <1>5 DEF Return, Leave
<1> QED
  BY <1>1, <1>2, <1>3, <1>4, <1>5 DEF PrintNext, Printing

\* Text output does with the display engine what module Console says of it.
THEOREM PrintsAsConsole == PrintSpec => Spec
<1>1. PrintInit => Init
  BY DEF PrintInit
<1> QED
  BY <1>1, PrintingPaints, PTL DEF PrintSpec, Spec

\* No call of print writes outside the framebuffer.
THEOREM PrintsInside == PrintSpec => []InsideFramebuffer
BY PrintsAsConsole, PaintsInside, PTL

-------------------------------------------------------------------------------
(* Numbers: what induction and recursion over them need. *)

\* A set of natural numbers that is not empty has a least element, and Min
\* returns it.
LEMMA LeastNumber ==
  ASSUME NEW T \in SUBSET Nat, T # {}
  PROVE  Min(T) \in T /\ \A y \in T : Min(T) <= y
<1> DEFINE R == {pair \in Nat \X Nat : pair[1] < pair[2]}
<1>1. IsWellFoundedOn(R, Nat)
  BY NatLessThanWellFounded DEF OpToRel
<1> HIDE DEF R
<1>2. PICK x \in T : \A y \in T : <<y, x>> \notin R
  BY <1>1, WFMin
<1>3. ASSUME NEW y \in T, y < x PROVE FALSE
  <2>1. <<y, x>> \in Nat \X Nat /\ <<y, x>>[1] = y /\ <<y, x>>[2] = x
    OBVIOUS
  <2>2. <<y, x>> \in R
    BY <1>3, <2>1 DEF R
  <2> QED
    BY <1>2, <2>2
<1>4. \A y \in T : x <= y
  BY <1>3
<1> QED
  BY <1>4 DEF Min

\* Induction: a number is in T if all smaller ones are.
LEMMA AllNumbers ==
  ASSUME NEW T, \A n \in Nat : (\A m \in 0 .. n - 1 : m \in T) => n \in T
  PROVE  \A n \in Nat : n \in T
<1> DEFINE Out == {n \in Nat : n \notin T}
<1> SUFFICES ASSUME Out # {} PROVE FALSE
  OBVIOUS
<1>1. Out \in SUBSET Nat
  OBVIOUS
<1>2. PICK x \in Out : \A y \in Out : x <= y
  <2> HIDE DEF Out
  <2> QED
    BY <1>1, LeastNumber
<1>3. \A m \in 0 .. x - 1 : m \in T
  <2>1. ASSUME NEW m \in 0 .. x - 1, m \notin T PROVE FALSE
    <3>1. m \in Out /\ m < x
      BY <1>2, <2>1
    <3> QED
      BY <1>2, <3>1
  <2> QED
    BY <2>1
<1> QED
  BY <1>2, <1>3

\* Induction from each number to the next.
LEMMA NextNumber ==
  ASSUME NEW T, 0 \in T, \A n \in Nat : n \in T => n + 1 \in T
  PROVE  \A n \in Nat : n \in T
<1>1. ASSUME NEW n \in Nat, \A m \in 0 .. n - 1 : m \in T PROVE n \in T
  <2>1. CASE n = 0
    BY <2>1
  <2>2. CASE n # 0
    <3>1. n - 1 \in Nat /\ n - 1 \in 0 .. n - 1 /\ n - 1 + 1 = n
      BY <2>2
    <3> QED
      BY <1>1, <3>1
  <2> QED
    BY <2>1, <2>2
<1> QED
  BY <1>1, AllNumbers

\* For each number a smaller one, from which its value is computed
Downward == {d \in [Nat -> Nat] : \A n \in Nat \ {0} : d[n] < n}

\* f is a at 0, and computed by S from the value at d elsewhere.
Recurs(f, X, a, S, d) ==
  /\ f \in [Nat -> X] /\ f[0] = a
  /\ \A n \in Nat \ {0} : f[n] = S[<<n, f[d[n]]>>]

\* The same up to n only
RecursTo(n, X, a, S, d) ==
  {g \in [0 .. n -> X] : g[0] = a /\ \A k \in 1 .. n : g[k] = S[<<k, g[d[k]]>>]}

\* Two recursions from the same start agree as far as both go.
LEMMA RecursOnce ==
  ASSUME NEW X, NEW a, NEW S, NEW d \in Downward,
         NEW m \in Nat, NEW n \in Nat,
         NEW g \in RecursTo(m, X, a, S, d), NEW h \in RecursTo(n, X, a, S, d)
  PROVE  \A k \in Nat : k <= m /\ k <= n => g[k] = h[k]
<1> DEFINE T == {k \in Nat : k <= m /\ k <= n => g[k] = h[k]}
<1>1. ASSUME NEW k \in Nat, \A i \in 0 .. k - 1 : i \in T PROVE k \in T
  <2> SUFFICES ASSUME k <= m, k <= n PROVE g[k] = h[k]
    OBVIOUS
  <2>1. CASE k = 0
    BY <2>1 DEF RecursTo
  <2>2. CASE k # 0
    <3>1. d[k] \in 0 .. k - 1 /\ k \in 1 .. m /\ k \in 1 .. n
      BY <2>2 DEF Downward
    <3>2. g[d[k]] = h[d[k]]
      BY <1>1, <3>1
    <3>3. g[k] = S[<<k, g[d[k]]>>] /\ h[k] = S[<<k, h[d[k]]>>]
      BY <3>1 DEF RecursTo
    <3> QED
      BY <3>2, <3>3
  <2> QED
    BY <2>1, <2>2
<1>2. \A k \in Nat : k \in T
  <2> HIDE DEF T
  <2> QED
    BY <1>1, AllNumbers
<1> QED
  BY <1>2

\* A recursion can be followed to any number.
LEMMA RecursUpTo ==
  ASSUME NEW X, NEW a \in X, NEW S \in [Nat \X X -> X], NEW d \in Downward
  PROVE  \A n \in Nat : RecursTo(n, X, a, S, d) # {}
<1> DEFINE T == {n \in Nat : RecursTo(n, X, a, S, d) # {}}
<1>1. 0 \in T
  <2> DEFINE g == [k \in 0 .. 0 |-> a]
  <2>1. g \in [0 .. 0 -> X] /\ g[0] = a /\ 1 .. 0 = {}
    OBVIOUS
  <2> HIDE DEF g
  <2>2. g \in RecursTo(0, X, a, S, d)
    BY <2>1 DEF RecursTo
  <2> QED
    BY <2>2
<1>2. ASSUME NEW n \in Nat, n \in T PROVE n + 1 \in T
  <2>1. PICK g : g \in RecursTo(n, X, a, S, d)
    BY <1>2
  <2> DEFINE v == S[<<n + 1, g[d[n + 1]]>>]
             h == [k \in 0 .. n + 1 |-> IF k <= n THEN g[k] ELSE v]
  <2>2. d[n + 1] \in 0 .. n
    BY DEF Downward
  <2>3. g \in [0 .. n -> X] /\ g[0] = a
    BY <2>1 DEF RecursTo
  <2>4. v \in X
    BY <2>2, <2>3
  <2>5. h \in [0 .. n + 1 -> X] /\ h[0] = a /\ h[n + 1] = v /\ \A k \in 0 .. n : h[k] = g[k]
    <3> HIDE DEF v
    <3> QED
      BY <2>3, <2>4
  <2> HIDE DEF h
  <2>6. ASSUME NEW k \in 1 .. n + 1 PROVE h[k] = S[<<k, h[d[k]]>>]
    <3>1. CASE k = n + 1
      BY <3>1, <2>2, <2>5
    <3>2. CASE k # n + 1
      <4>1. k \in 1 .. n /\ k \in 0 .. n /\ k \in Nat \ {0}
        BY <3>2
      <4>2. d[k] \in 0 .. n
        <5>1. d[k] \in Nat /\ d[k] < k
          BY <4>1 DEF Downward
        <5> QED
          BY <4>1, <5>1
      <4>3. g[k] = S[<<k, g[d[k]]>>]
        BY <4>1, <2>1 DEF RecursTo
      <4> QED
        BY <4>1, <4>2, <4>3, <2>5
    <3> QED
      BY <3>1, <3>2
  <2>7. h \in RecursTo(n + 1, X, a, S, d)
    BY <2>5, <2>6 DEF RecursTo
  <2> QED
    BY <2>7
<1>3. \A n \in Nat : n \in T
  <2> HIDE DEF T
  <2> QED
    BY <1>1, <1>2, NextNumber
<1> QED
  BY <1>3

\* A recursion over the natural numbers has a solution.
LEMMA Recursion ==
  ASSUME NEW X, NEW a \in X, NEW S \in [Nat \X X -> X], NEW d \in Downward
  PROVE  \E f : Recurs(f, X, a, S, d)
<1> DEFINE Up(n) == RecursTo(n, X, a, S, d)
           g == [n \in Nat |-> CHOOSE h : h \in Up(n)]
           f == [n \in Nat |-> g[n][n]]
<1>1. \A n \in Nat : g[n] \in Up(n)
  BY RecursUpTo
<1> HIDE DEF g
<1>2. \A n \in Nat : g[n] \in [0 .. n -> X] /\ g[n][0] = a
  BY <1>1 DEF RecursTo
<1>3. \A n \in Nat : n \in 0 .. n
  OBVIOUS
<1>4. f \in [Nat -> X] /\ f[0] = a
  BY <1>2, <1>3
<1>5. ASSUME NEW n \in Nat \ {0} PROVE f[n] = S[<<n, f[d[n]]>>]
  <2>1. d[n] \in Nat /\ d[n] < n
    BY DEF Downward
  <2>2. g[n][d[n]] = g[d[n]][d[n]]
    <3> DEFINE e == d[n]
               p == g[n]
               q == g[e]
    <3>1. n \in Nat /\ e \in Nat /\ p \in RecursTo(n, X, a, S, d) /\ q \in RecursTo(e, X, a, S, d)
      BY <1>1, <2>1
    <3> HIDE DEF e, p, q
    <3>2. \A k \in Nat : k <= n /\ k <= e => p[k] = q[k]
      BY <3>1, RecursOnce
    <3> USE DEF e, p, q
    <3> QED
      BY <3>2, <2>1
  <2>3. g[n][n] = S[<<n, g[n][d[n]]>>]
    <3>1. n \in 1 .. n
      OBVIOUS
    <3> QED
      BY <1>1, <3>1 DEF RecursTo
  <2> QED
    BY <2>1, <2>2, <2>3
<1>6. Recurs(f, X, a, S, d)
  BY <1>4, <1>5 DEF Recurs
<1> HIDE DEF f
<1> QED
  BY <1>6

\* And only one.
LEMMA RecursionOnce ==
  ASSUME NEW X, NEW Y, NEW a, NEW S, NEW d \in Downward,
         NEW f, Recurs(f, X, a, S, d), NEW g, Recurs(g, Y, a, S, d)
  PROVE  \A n \in Nat : f[n] = g[n]
<1> DEFINE T == {n \in Nat : f[n] = g[n]}
<1>1. ASSUME NEW n \in Nat, \A m \in 0 .. n - 1 : m \in T PROVE n \in T
  <2>1. CASE n = 0
    BY <2>1 DEF Recurs
  <2>2. CASE n # 0
    <3>1. d[n] \in 0 .. n - 1
      BY <2>2 DEF Downward
    <3>2. f[n] = S[<<n, f[d[n]]>>] /\ g[n] = S[<<n, g[d[n]]>>]
      BY <2>2 DEF Recurs
    <3> QED
      BY <1>1, <3>1, <3>2
  <2> QED
    BY <2>1, <2>2
<1>2. \A n \in Nat : n \in T
  <2> HIDE DEF T
  <2> QED
    BY <1>1, AllNumbers
<1> QED
  BY <1>2

\* Every value is computed from the one before it.
Rises(f, X, a, S) ==
  /\ f \in [Nat -> X] /\ f[0] = a
  /\ \A n \in Nat \ {0} : f[n] = S[<<n, f[n - 1]>>]

\* A recursion upwards from 0 has a solution.
LEMMA Rising ==
  ASSUME NEW X, NEW a \in X, NEW S \in [Nat \X X -> X]
  PROVE  \E f : Rises(f, X, a, S)
<1> DEFINE d == [n \in Nat |-> IF n = 0 THEN 0 ELSE n - 1]
<1>1. d \in Downward /\ \A n \in Nat \ {0} : d[n] = n - 1
  BY DEF Downward
<1> HIDE DEF d
<1>2. PICK f : Recurs(f, X, a, S, d)
  BY <1>1, Recursion
<1>3. \A n \in Nat \ {0} : f[n] = S[<<n, f[n - 1]>>]
  BY <1>1, <1>2 DEF Recurs
<1>4. f \in [Nat -> X] /\ f[0] = a
  BY <1>2 DEF Recurs
<1> QED
  BY <1>3, <1>4 DEF Rises

-------------------------------------------------------------------------------
(* Sequences of sequences. *)

\* FlattenSeq is what concatenating one after the other comes to.
Concatenates(h, s, A) ==
  /\ h \in [Nat -> Seq(A)] /\ h[0] = << >>
  /\ \A n \in 1 .. Len(s) : h[n] = h[n - 1] \o s[n]

Joins(x, y, z) == x \o (y \o z) = (x \o y) \o z

\* Concatenation can be bracketed as one likes.
LEMMA Associative ==
  ASSUME NEW S, NEW x \in Seq(S), NEW y \in Seq(S), NEW z \in Seq(S)
  PROVE  Joins(x, y, z)
<1>1. (x \o y) \o z = x \o (y \o z)
  BY ConcatAssociative, SMTT(30)
<1> QED
  BY <1>1 DEF Joins

\* FlattenSeq concatenates one sequence after the other.
LEMMA FlattenIs ==
  ASSUME NEW A, NEW s \in Seq(Seq(A))
  PROVE  \E h : Concatenates(h, s, A) /\ FlattenSeq(s) = h[Len(s)]
<1> DEFINE L == Len(s)
           S == [p \in Nat \X Seq(A) |-> IF p[1] \in 1 .. L THEN p[2] \o s[p[1]] ELSE p[2]]
           Is(f) == f = [i \in 1 .. L |-> IF i = 1 THEN s[i] ELSE f[i - 1] \o s[i]]
<1>1. L \in Nat /\ \A i \in 1 .. L : s[i] \in Seq(A)
  OBVIOUS
<1>2. S \in [Nat \X Seq(A) -> Seq(A)]
  <2> SUFFICES ASSUME NEW n \in 1 .. L, NEW q \in Seq(A) PROVE q \o s[n] \in Seq(A)
    BY Zenon
  <2> QED
    BY <1>1, ConcatProperties
<1>3. PICK h : /\ h \in [Nat -> Seq(A)] /\ h[0] = << >>
               /\ \A n \in Nat \ {0} : h[n] = S[<<n, h[n - 1]>>]
  <2> HIDE DEF S
  <2>1. << >> \in Seq(A)
    OBVIOUS
  <2> DEFINE X == Seq(A)
  <2> HIDE DEF X
  <2>2. << >> \in X /\ S \in [Nat \X X -> X]
    BY <1>2, <2>1 DEF X
  <2>3. PICK h : Rises(h, X, << >>, S)
    BY <2>2, Rising
  <2> QED
    BY <2>3 DEF X, Rises
<1>4. ASSUME NEW n \in 1 .. L PROVE h[n] = h[n - 1] \o s[n]
  <2>1. n \in Nat \ {0} /\ n - 1 \in Nat
    BY <1>1
  <2>2. h[n] = S[<<n, h[n - 1]>>] /\ h[n - 1] \in Seq(A) /\ n \in Nat
    <3> HIDE DEF S, L
    <3> QED
      BY <1>3, <2>1
  <2> HIDE DEF L
  <2> QED
    BY <2>2
<1>5. Concatenates(h, s, A)
  BY <1>3, <1>4 DEF Concatenates
<1>7. 1 \in 1 .. L => h[1] = << >> \o s[1]
  <2>1. 1 - 1 = 0 /\ h[0] = << >>
    BY <1>3
  <2> QED
    BY <2>1, <1>4, Zenon
<1>6. FlattenSeq(s) = h[L]
  <2>1. CASE L = 0
    <3>1. s = << >>
      BY <2>1, EmptySeq
    <3> QED
      BY <2>1, <3>1, <1>3 DEF FlattenSeq
  <2>2. CASE L # 0
    <3> DEFINE f == [i \in 1 .. L |-> h[i]]
    <3>1. Is(f)
      <4>1. ASSUME NEW i \in 1 .. L PROVE f[i] = IF i = 1 THEN s[i] ELSE f[i - 1] \o s[i]
        <5>1. CASE i = 1
          <6>1. h[1] = << >> \o s[1] /\ s[1] \in Seq(A)
            BY <5>1, <1>1, <1>7
          <6> QED
            BY <5>1, <6>1
        <5>2. CASE i # 1
          <6>1. i - 1 \in 1 .. L
            BY <5>2, <1>1
          <6> HIDE DEF L
          <6>2. f[i] = h[i] /\ f[i - 1] = h[i - 1]
            BY <6>1
          <6> QED
            BY <5>2, <6>2, <1>4
        <5> QED
          BY <5>1, <5>2
      <4> HIDE DEF L
      <4> QED
        BY <4>1
    <3>2. PICK g : Is(g) /\ FlattenSeq(s) = g[L]
      <4>1. FlattenSeq(s) = (CHOOSE g : Is(g))[L]
        BY <2>2 DEF FlattenSeq
      <4> HIDE DEF Is, f
      <4> QED
        BY <3>1, <4>1
    <3> DEFINE T == {n \in Nat : n \in 1 .. L => g[n] = h[n]}
    <3>3. ASSUME NEW n \in Nat, \A m \in 0 .. n - 1 : m \in T PROVE n \in T
      <4> SUFFICES ASSUME n \in 1 .. L PROVE g[n] = h[n]
        OBVIOUS
      <4>1. CASE n = 1
        <5>1. h[1] = << >> \o s[1] /\ s[1] \in Seq(A)
          BY <4>1, <1>1, <1>7
        <5>2. g[1] = s[1]
          BY <3>2, <4>1
        <5> QED
          BY <5>1, <5>2, <4>1
      <4>2. CASE n # 1
        <5>1. n - 1 \in 0 .. n - 1 /\ n - 1 \in 1 .. L
          BY <4>2, <1>1
        <5>2. g[n - 1] = h[n - 1]
          BY <5>1, <3>3
        <5>3. g[n] = g[n - 1] \o s[n]
          <6> HIDE DEF L
          <6> QED
            BY <3>2, <4>2
        <5> QED
          BY <5>2, <5>3, <1>4
      <4> QED
        BY <4>1, <4>2
    <3>4. \A n \in Nat : n \in T
      <4> HIDE DEF T
      <4> QED
        BY <3>3, AllNumbers
    <3>5. L \in Nat /\ L \in 1 .. L
      BY <2>2, <1>1
    <3> QED
      BY <3>2, <3>4, <3>5
  <2> QED
    BY <2>1, <2>2
<1> QED
  BY <1>5, <1>6

\* The first sequence comes first.
LEMMA FlattenHead ==
  ASSUME NEW A, NEW s \in Seq(Seq(A))
  PROVE  /\ FlattenSeq(s) \in Seq(A)
         /\ s = << >> => FlattenSeq(s) = << >>
         /\ s # << >> => FlattenSeq(s) = s[1] \o FlattenSeq(Tail(s))
<1>1. PICK h : Concatenates(h, s, A) /\ FlattenSeq(s) = h[Len(s)]
  BY FlattenIs
<1>2. h \in [Nat -> Seq(A)] /\ h[0] = << >> /\ \A n \in 1 .. Len(s) : h[n] = h[n - 1] \o s[n]
  BY <1>1 DEF Concatenates
<1>3. ASSUME s # << >> PROVE FlattenSeq(s) = s[1] \o FlattenSeq(Tail(s))
  <2> DEFINE t == Tail(s)
             L == Len(t)
  <2>1. /\ t \in Seq(Seq(A)) /\ L \in Nat /\ Len(s) = L + 1 /\ s[1] \in Seq(A)
        /\ \A n \in 1 .. L : t[n] = s[n + 1] /\ t[n] \in Seq(A)
    BY <1>3, EmptySeq
  <2>2. PICK g : Concatenates(g, t, A) /\ FlattenSeq(t) = g[L]
    BY <2>1, FlattenIs
  <2>3. g \in [Nat -> Seq(A)] /\ g[0] = << >> /\ \A n \in 1 .. L : g[n] = g[n - 1] \o t[n]
    BY <2>2 DEF Concatenates
  <2>8. L \in Nat /\ Len(s) = L + 1
    BY <2>1
  <2>9. /\ \A k \in 1 .. Len(s) : h[k] = h[k - 1] \o s[k]
        /\ \A k \in 1 .. L : g[k] = g[k - 1] \o t[k]
    BY <1>2, <2>3
  <2> HIDE DEF t, L
  <2> DEFINE P(n) == n <= L => h[n + 1] = s[1] \o g[n]
             T == {n \in Nat : P(n)}
  <2>4. P(0)
    <3>1. 1 \in 1 .. Len(s) /\ 1 - 1 = 0 /\ 0 + 1 = 1
      BY <2>1
    <3>2. h[1] = << >> \o s[1]
      BY <3>1, <1>2, Zenon
    <3>3. << >> \o s[1] = s[1] /\ s[1] \o << >> = s[1]
      BY <2>1, ConcatEmptySeq
    <3>4. h[0 + 1] = s[1] \o g[0]
      BY <3>1, <3>2, <3>3, <2>3, Zenon
    <3> QED
      BY <3>4
  <2>5. ASSUME NEW n \in Nat, P(n) PROVE P(n + 1)
    <3> SUFFICES ASSUME n + 1 <= L PROVE h[n + 1 + 1] = s[1] \o g[n + 1]
      OBVIOUS
    <3>1. n + 1 \in 1 .. L /\ n + 2 \in 1 .. Len(s) /\ n <= L /\ n + 1 + 1 = n + 2
      BY <2>8
    <3>2. h[n + 2] = h[n + 1] \o s[n + 2]
      <4> DEFINE k == n + 2
      <4>1. k \in 1 .. Len(s) /\ k - 1 = n + 1
        BY <3>1
      <4> HIDE DEF k
      <4>2. h[k] = h[k - 1] \o s[k]
        BY <2>9, <4>1
      <4> QED
        BY <4>1, <4>2 DEF k
    <3>3. h[n + 1] = s[1] \o g[n]
      BY <2>5, <3>1
    <3>4. g[n + 1] = g[n] \o t[n + 1]
      <4> DEFINE k == n + 1
      <4>1. k \in 1 .. L /\ k - 1 = n
        BY <3>1
      <4> HIDE DEF k
      <4>2. g[k] = g[k - 1] \o t[k]
        BY <2>9, <4>1
      <4> QED
        BY <4>1, <4>2 DEF k
    <3>5. t[n + 1] = s[n + 1 + 1] /\ t[n + 1] \in Seq(A) /\ g[n] \in Seq(A) /\ s[1] \in Seq(A)
      BY <2>1, <2>3, <3>1
    <3>6. (s[1] \o g[n]) \o t[n + 1] = s[1] \o (g[n] \o t[n + 1])
      <4> DEFINE x == s[1]
                 y == g[n]
                 z == t[n + 1]
      <4>1. x \in Seq(A) /\ y \in Seq(A) /\ z \in Seq(A)
        BY <3>5
      <4> HIDE DEF x, y, z
      <4>2. Joins(x, y, z)
        BY <4>1, Associative
      <4> QED
        BY <4>2 DEF Joins, x, y, z
    <3> QED
      BY <3>1, <3>2, <3>3, <3>4, <3>5, <3>6, Zenon
  <2>6. \A n \in Nat : P(n)
    <3> HIDE DEF P
    <3>1. 0 \in T /\ \A n \in Nat : n \in T => n + 1 \in T
      BY <2>4, <2>5
    <3> HIDE DEF T
    <3>2. \A n \in Nat : n \in T
      BY <3>1, NextNumber
    <3> QED
      BY <3>2 DEF T
  <2>7. h[L + 1] = s[1] \o g[L]
    <3>1. P(L)
      <4> HIDE DEF P
      <4> QED
        BY <2>8, <2>6
    <3>2. L <= L
      BY <2>8
    <3> QED
      BY <3>1, <3>2
  <2> QED
    BY <1>1, <2>1, <2>2, <2>7 DEF t
<1>4. s = << >> => FlattenSeq(s) = << >>
  BY <1>1, <1>2
<1>5. FlattenSeq(s) \in Seq(A)
  BY <1>1, <1>2
<1> QED
  BY <1>3, <1>4, <1>5

-------------------------------------------------------------------------------
(* Numerals. *)

Letters36 == [0 .. 35 -> Nat]

\* Quotient and remainder by a radix; the quotient is less than the number.
LEMMA Dividing ==
  ASSUME NEW n \in Nat, NEW b \in 2 .. 36
  PROVE  /\ n \div b \in Nat /\ n % b \in 0 .. b - 1 /\ n % b \in 0 .. 35
         /\ n = b * (n \div b) + (n % b)
         /\ n # 0 => n \div b < n
         /\ n < b => n \div b = 0 /\ n % b = n
         /\ n >= b => n \div b # 0
<1>1. n \div b \in Nat /\ n % b \in 0 .. b - 1 /\ n = b * (n \div b) + (n % b)
  OBVIOUS
<1> DEFINE q == n \div b
           r == n % b
<1>2. q \in Nat /\ r \in 0 .. b - 1 /\ n = b * q + r
  BY <1>1
<1> HIDE DEF q, r
<1>3. q = 0 \/ (b * q >= 2 * q /\ b * q >= b)
  <2>1. ASSUME q # 0 PROVE b * q >= 2 * q
    BY <1>2, <2>1
  <2>2. ASSUME q # 0 PROVE b * q >= b
    BY <1>2, <2>2
  <2> QED
    BY <2>1, <2>2
<1>4. n # 0 => q < n
  BY <1>2, <1>3
<1>5. n < b => q = 0 /\ r = n
  BY <1>2, <1>3
<1>6. n >= b => q # 0
  BY <1>2
<1> QED
  BY <1>2, <1>4, <1>5, <1>6 DEF q, r

\* Both loops write the last digit behind the digits of the quotient.
LEMMA NumeralIs ==
  ASSUME NEW base \in 2 .. 36, NEW letter \in Letters36
  PROVE  /\ Numeral(base, letter) \in [Nat -> Seq(Nat)]
         /\ \A n \in Nat : Numeral(base, letter)[n] =
              IF n < base THEN <<letter[n]>>
              ELSE Numeral(base, letter)[n \div base] \o <<letter[n % base]>>
<1> DEFINE d == [n \in Nat |-> n \div base]
           S == [p \in Nat \X Seq(Nat) |-> IF p[1] < base THEN <<letter[p[1]]>>
                                           ELSE p[2] \o <<letter[p[1] % base]>>]
           Is(f) == f = [n \in Nat |-> (IF n \div base = 0 THEN << >> ELSE f[n \div base])
                                       \o <<letter[n % base]>>]
<1>1. \A n \in Nat : letter[n % base] \in Nat /\ (n < base => letter[n] \in Nat)
  BY Dividing DEF Letters36
<1>2. d \in Downward
  BY Dividing DEF Downward
<1>3. S \in [Nat \X Seq(Nat) -> Seq(Nat)]
  <2>1. ASSUME NEW n \in Nat, NEW x \in Seq(Nat)
        PROVE  (IF n < base THEN <<letter[n]>> ELSE x \o <<letter[n % base]>>) \in Seq(Nat)
    <3>1. ASSUME NEW c \in Nat PROVE <<c>> \in Seq(Nat) /\ x \o <<c>> \in Seq(Nat)
      OBVIOUS
    <3>2. n < base => <<letter[n]>> \in Seq(Nat)
      BY <1>1, <3>1
    <3>3. x \o <<letter[n % base]>> \in Seq(Nat)
      BY <1>1, <3>1
    <3> QED
      BY <3>2, <3>3
  <2>2. ASSUME NEW p \in Nat \X Seq(Nat) PROVE p[1] \in Nat /\ p[2] \in Seq(Nat)
    OBVIOUS
  <2> QED
    BY <2>1, <2>2
<1>4. <<letter[0]>> \in Seq(Nat)
  BY <1>1
<1>5. PICK f : Recurs(f, Seq(Nat), <<letter[0]>>, S, d)
  <2> DEFINE X == Seq(Nat)
  <2> HIDE DEF X, S, d
  <2>1. <<letter[0]>> \in X /\ S \in [Nat \X X -> X]
    BY <1>3, <1>4 DEF X
  <2> HIDE DEF X
  <2>2. \E f : Recurs(f, X, <<letter[0]>>, S, d)
    BY <1>2, <2>1, Recursion
  <2> QED
    BY <2>2 DEF X
<1>6. f \in [Nat -> Seq(Nat)]
  BY <1>5 DEF Recurs
<1>7. ASSUME NEW n \in Nat
      PROVE  f[n] = IF n < base THEN <<letter[n]>> ELSE f[n \div base] \o <<letter[n % base]>>
  <2>1. CASE n = 0
    <3>1. f[0] = <<letter[0]>>
      <4> HIDE DEF S, d
      <4> QED
        BY <1>5 DEF Recurs
    <3> QED
      BY <2>1, <3>1, 0 < base
  <2>2. CASE n # 0
    <3> DEFINE x == f[n \div base]
    <3>1. f[n] = S[<<n, f[d[n]]>>]
      <4> HIDE DEF S, d
      <4> QED
        BY <1>5, <2>2 DEF Recurs
    <3>2. d[n] = n \div base /\ x \in Seq(Nat) /\ f[n] = S[<<n, x>>]
      BY <1>6, <3>1, Dividing
    <3> HIDE DEF x, d
    <3>3. f[n] = IF n < base THEN <<letter[n]>> ELSE x \o <<letter[n % base]>>
      BY <3>2
    <3> QED
      BY <3>3 DEF x
  <2> QED
    BY <2>1, <2>2
<1>8. ASSUME NEW n \in Nat
      PROVE  f[n] = (IF n \div base = 0 THEN << >> ELSE f[n \div base]) \o <<letter[n % base]>>
  <2>1. CASE n < base
    <3>1. n \div base = 0 /\ n % base = n /\ f[n] = <<letter[n]>>
      BY <1>7, <2>1, Dividing
    <3>2. << >> \o <<letter[n]>> = <<letter[n]>>
      OBVIOUS
    <3> QED
      BY <3>1, <3>2
  <2>2. CASE ~(n < base)
    <3>1. n \div base # 0
      BY <2>2, Dividing
    <3> QED
      BY <1>7, <2>2, <3>1
  <2> QED
    BY <2>1, <2>2
<1>9. Is(f)
  BY <1>6, <1>8
<1>10. PICK g : Is(g) /\ Numeral(base, letter) = g
  <2>1. Numeral(base, letter) = CHOOSE g : Is(g)
    BY DEF Numeral
  <2> HIDE DEF Is
  <2> QED
    BY <1>9, <2>1
<1>11. ASSUME NEW n \in Nat
       PROVE  g[n] = (IF n \div base = 0 THEN << >> ELSE g[n \div base]) \o <<letter[n % base]>>
  BY <1>10
<1> DEFINE T == {n \in Nat : g[n] = f[n]}
<1>12. ASSUME NEW n \in Nat, \A m \in 0 .. n - 1 : m \in T PROVE n \in T
  <2>1. CASE n \div base = 0
    BY <2>1, <1>8, <1>11
  <2>2. CASE n \div base # 0
    <3>1. n # 0
      BY <2>2, Dividing, 0 < base
    <3>2. n \div base \in 0 .. n - 1
      BY <3>1, Dividing
    <3>3. g[n \div base] = f[n \div base]
      BY <1>12, <3>2
    <3> QED
      BY <2>2, <3>3, <1>8, <1>11
  <2> QED
    BY <2>1, <2>2
<1>13. \A n \in Nat : g[n] = f[n]
  <2>1. \A n \in Nat : n \in T
    <3> HIDE DEF T
    <3> QED
      BY <1>12, AllNumbers
  <2> QED
    BY <2>1
<1>14. g = f
  <2>1. g = [n \in Nat |-> g[n]]
    BY <1>10
  <2>2. f = [n \in Nat |-> f[n]]
    BY <1>6
  <2>3. [n \in Nat |-> g[n]] = [n \in Nat |-> f[n]]
    BY <1>13
  <2> QED
    BY <2>1, <2>2, <2>3, Zenon
<1> QED
  BY <1>6, <1>7, <1>10, <1>14

\* The digits of a number are what the two loops write.
LEMMA DigitsAre ==
  ASSUME NEW base \in 2 .. 36, NEW letter \in Letters36, NEW value \in Nat
  PROVE  Digits(value, base, letter) = Numeral(base, letter)[value]
<1> DEFINE f == Numeral(base, letter)
           Is(h) == h = [n \in Nat |-> IF n < base THEN <<letter[n]>>
                                       ELSE Append(h[n \div base], letter[n % base])]
<1>1. f \in [Nat -> Seq(Nat)]
  BY NumeralIs
<1>2. \A n \in Nat : f[n] = IF n < base THEN <<letter[n]>> ELSE f[n \div base] \o <<letter[n % base]>>
  BY NumeralIs
<1> HIDE DEF f
<1>3. \A n \in Nat : n \div base \in Nat /\ letter[n % base] \in Nat
  BY Dividing DEF Letters36
<1>4. ASSUME NEW n \in Nat
      PROVE  f[n] = IF n < base THEN <<letter[n]>> ELSE Append(f[n \div base], letter[n % base])
  <2>1. f[n \div base] \in Seq(Nat) /\ letter[n % base] \in Nat
    BY <1>1, <1>3
  <2>2. f[n \div base] \o <<letter[n % base]>> = Append(f[n \div base], letter[n % base])
    BY <2>1, AppendIsConcat
  <2> QED
    BY <1>2, <2>2
<1>5. Is(f)
  BY <1>1, <1>4
<1>6. PICK g : Is(g) /\ Digits(value, base, letter) = g[value]
  <2>1. Digits(value, base, letter) = (CHOOSE g : Is(g))[value]
    BY DEF Digits
  <2> HIDE DEF Is
  <2> QED
    BY <1>5, <2>1
<1>7. ASSUME NEW n \in Nat
      PROVE  g[n] = IF n < base THEN <<letter[n]>> ELSE Append(g[n \div base], letter[n % base])
  BY <1>6
<1> DEFINE T == {n \in Nat : g[n] = f[n]}
<1>8. ASSUME NEW n \in Nat, \A m \in 0 .. n - 1 : m \in T PROVE n \in T
  <2>1. CASE n < base
    BY <2>1, <1>4, <1>7
  <2>2. CASE ~(n < base)
    <3>1. n # 0
      BY <2>2
    <3>2. n \div base \in 0 .. n - 1
      BY <3>1, Dividing
    <3>3. g[n \div base] = f[n \div base]
      BY <1>8, <3>2
    <3> QED
      BY <2>2, <3>3, <1>4, <1>7
  <2> QED
    BY <2>1, <2>2
<1>9. \A n \in Nat : n \in T
  <2> HIDE DEF T
  <2> QED
    BY <1>8, AllNumbers
<1> QED
  BY <1>6, <1>9 DEF f

-------------------------------------------------------------------------------
(* Powers of two, and widths. *)

\* The recursion that defines Pow has its solution.
LEMMA PowIs ==
  /\ Pow \in [Nat -> Nat \ {0}] /\ Pow[0] = 1
  /\ \A n \in Nat : Pow[n + 1] = 2 * Pow[n]
<1> DEFINE X == Nat \ {0}
           S == [p \in Nat \X X |-> 2 * p[2]]
           Is(f) == f = [k \in Nat |-> IF k = 0 THEN 1 ELSE 2 * f[k - 1]]
<1>1. 1 \in X /\ S \in [Nat \X X -> X]
  OBVIOUS
<1>2. PICK f : Rises(f, X, 1, S)
  <2> HIDE DEF X, S
  <2> QED
    BY <1>1, Rising
<1>3. f \in [Nat -> Nat \ {0}] /\ f[0] = 1
  BY <1>2 DEF Rises
<1>4. ASSUME NEW n \in Nat \ {0} PROVE f[n] = 2 * f[n - 1]
  <2>1. f[n] = S[<<n, f[n - 1]>>]
    <3> HIDE DEF S
    <3> QED
      BY <1>2 DEF Rises
  <2>2. f[n - 1] \in X /\ n \in Nat
    BY <1>3, n - 1 \in Nat
  <2> QED
    BY <2>1, <2>2
<1>5. Is(f)
  BY <1>3, <1>4
<1>6. PICK g : Is(g) /\ Pow = g
  <2>1. Pow = CHOOSE g : Is(g)
    BY DEF Pow
  <2> HIDE DEF Is
  <2> QED
    BY <1>5, <2>1
<1>7. g[0] = 1 /\ \A n \in Nat \ {0} : g[n] = 2 * g[n - 1]
  BY <1>6
<1> DEFINE T == {n \in Nat : g[n] = f[n]}
<1>8. 0 \in T
  BY <1>3, <1>7
<1>9. ASSUME NEW n \in Nat, n \in T PROVE n + 1 \in T
  <2> DEFINE k == n + 1
  <2>1. k \in Nat \ {0} /\ k - 1 = n
    OBVIOUS
  <2> HIDE DEF k
  <2>2. g[k] = f[k]
    BY <1>4, <1>7, <1>9, <2>1
  <2> QED
    BY <2>1, <2>2 DEF k
<1>10. \A n \in Nat : g[n] = f[n]
  <2>1. \A n \in Nat : n \in T
    <3> HIDE DEF T
    <3> QED
      BY <1>8, <1>9, NextNumber
  <2> QED
    BY <2>1
<1>11. g \in [Nat -> Nat \ {0}]
  <2>1. g = [n \in Nat |-> g[n]] /\ \A n \in Nat : g[n] \in Nat \ {0}
    BY <1>3, <1>6, <1>10
  <2> QED
    BY <2>1
<1>12. ASSUME NEW n \in Nat PROVE g[n + 1] = 2 * g[n]
  <2> DEFINE k == n + 1
  <2>1. k \in Nat \ {0} /\ k - 1 = n
    OBVIOUS
  <2> HIDE DEF k
  <2>2. g[k] = 2 * g[k - 1]
    BY <1>7, <2>1
  <2> QED
    BY <2>1, <2>2 DEF k
<1> QED
  BY <1>6, <1>7, <1>11, <1>12

\* A power of two is a natural number of at least 1.
LEMMA PowPositive ==
  ASSUME NEW n \in Nat
  PROVE  Pow[n] \in Nat /\ Pow[n] >= 1 /\ Pow[n + 1] = 2 * Pow[n]
<1>1. Pow[n] \in Nat \ {0} /\ Pow[n + 1] = 2 * Pow[n]
  BY PowIs
<1> QED
  BY <1>1

\* The powers of two of a sum are products.
LEMMA PowSum ==
  ASSUME NEW m \in Nat, NEW n \in Nat
  PROVE  Pow[m + n] = Pow[m] * Pow[n]
<1> DEFINE P(k) == Pow[m + k] = Pow[m] * Pow[k]
           T == {k \in Nat : P(k)}
<1>1. P(0)
  <2>1. Pow[0] = 1 /\ m + 0 = m /\ Pow[m] \in Nat
    BY PowIs, PowPositive
  <2> QED
    BY <2>1
<1>2. ASSUME NEW k \in Nat, P(k) PROVE P(k + 1)
  <2>1. Pow[k + 1] = 2 * Pow[k] /\ Pow[k] \in Nat
    BY PowPositive
  <2>2. Pow[(m + k) + 1] = 2 * Pow[m + k] /\ m + k \in Nat /\ (m + k) + 1 = m + (k + 1)
    BY PowIs
  <2>3. Pow[m] \in Nat /\ Pow[m + k] = Pow[m] * Pow[k]
    BY <1>2, PowPositive
  <2>4. 2 * (Pow[m] * Pow[k]) = Pow[m] * (2 * Pow[k])
    BY <2>1, <2>3
  <2>5. Pow[m + (k + 1)] = Pow[m] * Pow[k + 1]
    BY <2>1, <2>2, <2>3, <2>4
  <2> QED
    BY <2>5
<1>3. \A k \in Nat : P(k)
  <2> HIDE DEF P
  <2>1. 0 \in T /\ \A k \in Nat : k \in T => k + 1 \in T
    BY <1>1, <1>2
  <2> HIDE DEF T
  <2>2. \A k \in Nat : k \in T
    BY <2>1, NextNumber
  <2> QED
    BY <2>2 DEF T
<1> QED
  BY <1>3

\* A word is two halves, and its width is even and at most 64.
LEMMA Widths ==
  /\ HalfBits \in Nat /\ HalfBits >= 2 /\ Bits \in Nat /\ Bits = 2 * HalfBits
  /\ Half \in Nat /\ Half >= 4 /\ Modulus \in Nat /\ Modulus = Half * Half
  /\ BufferDigits = HalfBits /\ IntMax \in Nat
<1>1. HalfBits \in Nat /\ HalfBits >= 2 /\ Bits = 2 * HalfBits /\ Bits \in Nat
  BY Arith64Assumption DEF Bits
<1>2. Half \in Nat /\ Half >= 4
  <2> DEFINE h == HalfBits - 2
  <2>1. h \in Nat /\ HalfBits = h + 2
    BY <1>1
  <2>2. Pow[0 + 1] = 2 * Pow[0] /\ Pow[1 + 1] = 2 * Pow[1] /\ Pow[0] = 1
    BY PowIs
  <2>3. Pow[2] = 4
    BY <2>2
  <2> HIDE DEF h
  <2>4. Pow[h + 2] = Pow[h] * Pow[2] /\ Pow[h] \in Nat /\ Pow[h] >= 1
    BY <2>1, PowSum, PowPositive
  <2> QED
    BY <2>1, <2>3, <2>4 DEF Half
<1>3. Modulus = Half * Half
  <2>1. Bits = HalfBits + HalfBits
    BY <1>1
  <2> QED
    BY <1>1, <2>1, PowSum DEF Modulus, Half
<1>4. Modulus \in Nat
  BY <1>2, <1>3
<1>5. BufferDigits = HalfBits
  BY <1>1, RtAssumption
<1>6. IntMax \in Nat
  <2> DEFINE k == IntBits - 1
  <2>1. k \in Nat
    BY <1>1, RtAssumption
  <2> HIDE DEF k
  <2>2. Pow[k] \in Nat /\ Pow[k] >= 1
    BY <2>1, PowPositive
  <2> QED
    BY <2>2 DEF IntMax, k
<1> QED
  BY <1>1, <1>2, <1>3, <1>4, <1>5, <1>6

-------------------------------------------------------------------------------
(* Division by any number. *)

\* Quotient and remainder are integers.
LEMMA DivisionIs ==
  ASSUME NEW a \in Int, NEW b \in Nat \ {0}
  PROVE  /\ a \div b \in Int /\ a % b \in Int /\ 0 <= a % b /\ a % b < b
         /\ a = b * (a \div b) + (a % b)
OBVIOUS

\* A product grows with each factor.
LEMMA Grows ==
  ASSUME NEW b \in Nat, NEW x \in Int, NEW y \in Int, x <= y
  PROVE  b * x <= b * y
<1> DEFINE d == y - x
<1>1. d \in Nat /\ y = x + d
  OBVIOUS
<1> HIDE DEF d
<1>2. b * y = b * x + b * d
  BY <1>1
<1>3. b * d >= 0
  BY <1>1
<1> QED
  BY <1>2, <1>3

\* They are the only ones with these bounds.
LEMMA DivisionOnce ==
  ASSUME NEW a \in Int, NEW b \in Nat \ {0}, NEW q \in Int, NEW r \in Int,
         0 <= r, r < b, a = b * q + r
  PROVE  a \div b = q /\ a % b = r
<1> DEFINE p == a \div b
           s == a % b
<1>1. p \in Int /\ s \in Int /\ 0 <= s /\ s < b /\ a = b * p + s
  BY DivisionIs
<1> HIDE DEF p, s
<1>2. ASSUME p < q PROVE FALSE
  <2>1. b * (p + 1) <= b * q
    BY <1>1, <1>2, Grows
  <2>2. b * (p + 1) = b * p + b
    BY <1>1
  <2> QED
    BY <1>1, <2>1, <2>2
<1>3. ASSUME q < p PROVE FALSE
  <2>1. b * (q + 1) <= b * p
    BY <1>1, <1>3, Grows
  <2>2. b * (q + 1) = b * q + b
    OBVIOUS
  <2> QED
    BY <1>1, <2>1, <2>2
<1>4. p = q /\ s = r
  BY <1>1, <1>2, <1>3
<1> QED
  BY <1>4 DEF p, s

\* Products of naturals
LEMMA Product ==
  ASSUME NEW x \in Nat, NEW y \in Nat
  PROVE  x * y \in Nat /\ (x # 0 /\ y # 0 => x * y # 0)
OBVIOUS

-------------------------------------------------------------------------------
(* Shifting a word H * h + l by p = 2 ^ b. *)

\* n times q is m times H and z times q.
Factors(p, q, H) == p \in Nat \ {0} /\ q \in Nat \ {0} /\ H = p * q

Scaled(n, p, q, H) ==
  /\ (n * p) % H = (n % q) * p /\ (n * p) \div H = n \div q
  /\ H \in Nat \ {0} /\ (n % q) * p \in Nat /\ (n % q) * p <= H - p

\* A number times p, where p * q is H: quotient and remainder by H.
LEMMA Multiple ==
  ASSUME NEW p, NEW q, NEW H, Factors(p, q, H), NEW n \in Int
  PROVE  Scaled(n, p, q, H)
<1> DEFINE w == n \div q
           z == n % q
<1>0. p \in Nat \ {0} /\ q \in Nat \ {0} /\ H = p * q
  BY DEF Factors
<1>1. w \in Int /\ z \in Int /\ 0 <= z /\ z < q /\ n = q * w + z
  BY <1>0, DivisionIs
<1> HIDE DEF w, z
<1>2. H \in Nat \ {0}
  BY <1>0, Product
<1>3. n * p = H * w + z * p
  BY <1>0, <1>1
<1>4. z * p \in Nat /\ z * p <= H - p
  <2>1. z \in Nat /\ z <= q - 1
    BY <1>0, <1>1
  <2>2. p * z <= p * (q - 1)
    BY <1>0, <2>1, Grows
  <2>3. p * (q - 1) = H - p /\ p * z = z * p
    BY <1>0, <2>1
  <2>4. z * p \in Nat
    BY <1>0, <2>1, Product
  <2> QED
    BY <1>0, <1>2, <2>2, <2>3, <2>4
<1>5. z * p < H /\ 0 <= z * p /\ z * p \in Int /\ n * p \in Int
  BY <1>0, <1>2, <1>4
<1>6. (n * p) \div H = w /\ (n * p) % H = z * p
  BY <1>1, <1>2, <1>3, <1>5, DivisionOnce
<1> QED
  BY <1>2, <1>4, <1>6 DEF w, z, Scaled

\* By at least half of the width
FarLeftIs(H, p, h, l) == ((H * h + l) * (H * p)) % (H * H) = H * ((l * p) % H)

\* Left by a half or more: the upper half is lost.
LEMMA FarLeft ==
  ASSUME NEW H \in Nat \ {0}, NEW p \in Nat \ {0}, NEW h \in Nat, NEW l \in Nat
  PROVE  FarLeftIs(H, p, h, l)
<1> DEFINE x == l * p
           q == x \div H
           r == x % H
           M == H * H
<1>0. x \in Nat
  BY Product
<1>1. q \in Int /\ r \in Int /\ 0 <= r /\ r < H /\ x = H * q + r
  <2> HIDE DEF x
  <2> QED
    BY <1>0, DivisionIs
<1>2. (H * h + l) * (H * p) = M * (h * p) + H * x
  OBVIOUS
<1>3. H * x = M * q + H * r
  <2> HIDE DEF x, q, r
  <2> QED
    BY <1>1
<1> HIDE DEF x, q, r
<1>4. H * r <= M - H /\ H * r >= 0 /\ H * r \in Int
  <2>1. r <= H - 1 /\ H - 1 \in Int /\ 0 <= r
    BY <1>1
  <2>2. H * r <= H * (H - 1) /\ H * 0 <= H * r
    BY <1>1, <2>1, Grows
  <2>3. H * (H - 1) = M - H
    OBVIOUS
  <2> QED
    BY <1>1, <2>2, <2>3
<1> DEFINE a == (H * h + l) * (H * p)
           k == h * p + q
<1>5. a = M * k + H * r /\ a \in Int /\ k \in Int
  <2>1. h * p \in Int
    OBVIOUS
  <2>2. M * k = M * (h * p) + M * q
    BY <1>1, <2>1
  <2> QED
    BY <1>1, <1>2, <1>3, <2>1, <2>2
<1>6. M \in Nat \ {0}
  BY Product
<1>7. H * r < M
  BY <1>4, <1>6
<1> HIDE DEF a, k, M
<1>8. a % M = H * r
  BY <1>4, <1>5, <1>6, <1>7, DivisionOnce
<1> QED
  BY <1>8 DEF a, M, r, x, FarLeftIs

FarRightIs(H, p, h, l) == (H * h + l) \div (H * p) = h \div p

\* Right by a half or more: the lower half is lost.
LEMMA FarRight ==
  ASSUME NEW H \in Nat \ {0}, NEW p \in Nat \ {0}, NEW h \in Int, NEW l \in Nat, l < H
  PROVE  FarRightIs(H, p, h, l)
<1> DEFINE u == h \div p
           v == h % p
           a == H * h + l
           N == H * p
<1>1. u \in Int /\ v \in Int /\ 0 <= v /\ v < p /\ h = p * u + v
  BY DivisionIs
<1> HIDE DEF u, v
<1>2. N \in Nat \ {0}
  BY Product
<1>3. H * h = N * u + H * v
  BY <1>1
<1>4. H * v <= N - H /\ H * v >= 0 /\ H * v \in Int
  <2>1. v <= p - 1 /\ p - 1 \in Int /\ 0 <= v
    BY <1>1
  <2>2. H * v <= H * (p - 1) /\ H * 0 <= H * v
    BY <1>1, <2>1, Grows
  <2>3. H * (p - 1) = N - H
    OBVIOUS
  <2> QED
    BY <1>1, <2>2, <2>3
<1> DEFINE r == H * v + l
<1>5. a = N * u + r /\ r \in Int /\ 0 <= r /\ r < N /\ a \in Int
  <2>1. H * h \in Int /\ N * u \in Int
    BY <1>1, <1>2
  <2> HIDE DEF N
  <2> QED
    BY <1>2, <1>3, <1>4, <2>1
<1> HIDE DEF a, r, N
<1>6. a \div N = u
  BY <1>1, <1>2, <1>5, DivisionOnce
<1> QED
  BY <1>6 DEF a, N, u, FarRightIs

\* By less
NearLeftIs(p, q, H, h, l) ==
  ((H * h + l) * p) % (H * H) = H * ((l \div q) + ((h * p) % H)) + ((l * p) % H)

\* Left by less than a half: what leaves the lower half goes into the upper.
LEMMA NearLeft ==
  ASSUME NEW p \in Nat \ {0}, NEW q \in Nat \ {0}, NEW H, Factors(p, q, H),
         NEW h \in Nat, NEW l \in Nat, l < H
  PROVE  NearLeftIs(p, q, H, h, l)
<1> DEFINE u == l \div q
           v == l % q
           w == h \div q
           z == h % q
           M == H * H
           y == z * p
           x == v * p
<1>0. H \in Nat \ {0} /\ H = p * q
  BY Product DEF Factors
<1>1. /\ (h * p) % H = y /\ (h * p) \div H = w /\ y \in Nat /\ y <= H - p
      /\ (l * p) % H = x /\ (l * p) \div H = u /\ x \in Nat /\ x <= H - p
  <2>1. Scaled(h, p, q, H) /\ Scaled(l, p, q, H)
    BY Multiple
  <2> QED
    BY <2>1 DEF Scaled
<1>2. w \in Int /\ u \in Int /\ v \in Int /\ 0 <= v /\ l = q * u + v
  BY DivisionIs
<1>3. h * p = H * w + y /\ l * p = H * u + x
  <2>1. h * p \in Int /\ l * p \in Int
    OBVIOUS
  <2>2. /\ h * p = H * ((h * p) \div H) + ((h * p) % H)
        /\ l * p = H * ((l * p) \div H) + ((l * p) % H)
    BY <1>0, <2>1, DivisionIs
  <2> QED
    BY <1>1, <2>2
<1> HIDE DEF u, v, w, z, y, x
<1>4. 0 <= u /\ u <= p - 1
  <2>1. ASSUME u < 0 PROVE FALSE
    <3>1. H * u <= H * (-1)
      BY <1>0, <1>2, <2>1, Grows
    <3>2. l * p >= 0 /\ l * p \in Nat
      BY Product
    <3> QED
      BY <1>0, <1>1, <1>2, <1>3, <3>1, <3>2
  <2>2. ASSUME u >= p PROVE FALSE
    <3>1. q * p <= q * u
      BY <1>2, <2>2, Grows
    <3>2. q * p = H /\ q * u \in Int
      BY <1>0, <1>2
    <3> QED
      BY <1>0, <1>2, <3>1, <3>2
  <2> QED
    BY <1>2, <2>1, <2>2
<1> DEFINE k == u + y
           r == H * k + x
           a == (H * h + l) * p
<1>5. k \in Nat /\ k <= H - 1
  BY <1>0, <1>1, <1>2, <1>4
<1>6. a = M * w + r
  <2>1. a = H * (h * p) + l * p
    BY <1>0
  <2>2. H * (h * p) = M * w + H * y
    BY <1>0, <1>1, <1>2, <1>3
  <2>3. H * k = H * u + H * y
    BY <1>0, <1>1, <1>2
  <2>4. H * y \in Int /\ M * w \in Int /\ H * u \in Int
    BY <1>0, <1>1, <1>2
  <2> HIDE DEF M, a, k
  <2> QED
    BY <1>1, <1>3, <2>1, <2>2, <2>3, <2>4
<1>7. M \in Nat \ {0} /\ a \in Int
  BY <1>0, Product
<1>8. 0 <= r /\ r < M /\ r \in Int
  <2>1. H * k <= H * (H - 1) /\ H * 0 <= H * k
    <3> HIDE DEF k
    <3> QED
      BY <1>0, <1>5, Grows
  <2>2. H * (H - 1) = M - H /\ H * k \in Int
    BY <1>0, <1>5
  <2> HIDE DEF M, k
  <2> QED
    BY <1>0, <1>1, <1>7, <2>1, <2>2
<1> HIDE DEF M, r, a
<1>9. a % M = r
  BY <1>2, <1>6, <1>7, <1>8, DivisionOnce
<1> QED
  BY <1>1, <1>9 DEF a, M, r, k, u, NearLeftIs

NearRightIs(p, q, H, h, l) ==
  /\ (H * h + l) \div p = H * (h \div p) + ((h * q) % H) + (l \div p)
  /\ ((h * q) % H) + (l \div p) \in 0 .. H - 1

\* Right by less than a half: what leaves the upper half goes into the lower.
LEMMA NearRight ==
  ASSUME NEW p \in Nat \ {0}, NEW q \in Nat \ {0}, NEW H, Factors(p, q, H),
         NEW h \in Int, NEW l \in Nat, l < H
  PROVE  NearRightIs(p, q, H, h, l)
<1> DEFINE u == l \div p
           v == l % p
           w == h \div p
           z == h % p
           y == z * q
<1>0. H \in Nat \ {0} /\ H = p * q
  BY Product DEF Factors
<1>1. w \in Int /\ u \in Int /\ v \in Int /\ 0 <= v /\ v < p /\ l = p * u + v /\ z \in Int /\ h = p * w + z
  BY DivisionIs
<1>2. (h * q) % H = y /\ y \in Nat /\ y <= H - q
  <2>1. Factors(q, p, H)
    BY <1>0 DEF Factors
  <2>2. Scaled(h, q, p, H)
    BY <2>1, Multiple
  <2> QED
    BY <2>2 DEF Scaled
<1> HIDE DEF u, v, w, z
<1>3. 0 <= u /\ u <= q - 1
  <2>1. ASSUME u < 0 PROVE FALSE
    <3>1. p * u <= p * (-1)
      BY <1>1, <2>1, Grows
    <3> QED
      BY <1>1, <3>1
  <2>2. ASSUME u >= q PROVE FALSE
    <3>1. p * q <= p * u
      BY <1>1, <2>2, Grows
    <3>2. p * u \in Int
      BY <1>1
    <3> QED
      BY <1>0, <1>1, <3>1, <3>2
  <2> QED
    BY <1>1, <2>1, <2>2
<1> DEFINE k == H * w + y + u
           a == H * h + l
<1>4. a = p * k + v
  <2>1. H * h = p * (q * h)
    BY <1>0, <1>1
  <2>2. q * h = H * w + y
    BY <1>0, <1>1
  <2>3. a = p * (q * h) + p * u + v
    BY <1>0, <1>1, <2>1
  <2>4. q * h \in Int
    OBVIOUS
  <2>5. p * k = p * (H * w + y) + p * u
    <3>1. H * w + y \in Int
      BY <2>2, <2>4
    <3> QED
      BY <1>1, <3>1
  <2>6. p * (q * h) \in Int /\ p * u \in Int
    BY <1>1
  <2> HIDE DEF a, k
  <2> QED
    BY <1>1, <2>2, <2>3, <2>5, <2>6
<1>5. k \in Int /\ a \in Int
  <2>1. H * w \in Int /\ H * h \in Int
    BY <1>0, <1>1
  <2> QED
    BY <1>1, <1>2, <2>1
<1> HIDE DEF k, a
<1>6. a \div p = k
  BY <1>1, <1>4, <1>5, DivisionOnce
<1>7. y + u \in 0 .. H - 1
  BY <1>0, <1>1, <1>2, <1>3
<1> QED
  BY <1>2, <1>6, <1>7 DEF k, a, u, w, NearRightIs

-------------------------------------------------------------------------------
(* Words and their halves. *)

\* Half of a half, the number at which its sign begins
Quarter == Half \div 2

\* A word is two halves, and a half has one bit more than Quarter.
LEMMA HalvesAre ==
  /\ Half \in Nat \ {0} /\ Modulus \in Nat \ {0} /\ Quarter \in Nat \ {0}
  /\ Half = 2 * Quarter /\ Modulus = Half * Half /\ Modulus \div 2 = Half * Quarter
  /\ Modulus = 2 * (Half * Quarter) /\ Quarter = Pow[HalfBits - 1]
  /\ Half * Quarter \in Nat \ {0}
<1>1. /\ HalfBits \in Nat /\ HalfBits >= 2 /\ Half \in Nat /\ Half >= 4 /\ Modulus = Half * Half
      /\ Modulus \in Nat
  BY Widths
<1> DEFINE k == HalfBits - 1
           g == Pow[k]
<1>2. k \in Nat /\ k + 1 = HalfBits
  BY <1>1
<1> HIDE DEF k
<1>3. g \in Nat /\ g >= 1 /\ Half = 2 * g
  BY <1>2, PowPositive DEF Half
<1> HIDE DEF g
<1>4. Half \div 2 = g
  BY <1>3
<1>5. Half * Half = 2 * (Half * g) /\ Half * g \in Nat \ {0}
  <2>1. Half * g \in Nat \ {0}
    BY <1>1, <1>3, Product
  <2> QED
    BY <1>3, <2>1
<1>6. Modulus \div 2 = Half * g
  <2> DEFINE y == Half * g
  <2>1. y \in Nat /\ Modulus = 2 * y
    BY <1>1, <1>5
  <2> HIDE DEF y
  <2>2. Modulus \div 2 = y
    BY <2>1
  <2> QED
    BY <2>2 DEF y
<1>7. Modulus # 0
  BY <1>1, <1>5
<1> QED
  BY <1>1, <1>3, <1>4, <1>5, <1>6, <1>7 DEF Quarter, g, k

\* Lesser halves make a lesser word.
LEMMA Joined ==
  ASSUME NEW H \in Nat \ {0}, NEW h \in Int, NEW l \in Int, 0 <= l, l < H, NEW n \in Int
  PROVE  /\ H * h + l \in Int /\ H * n \in Int
         /\ H * h + l < H * n <=> h < n
         /\ H * h + l >= H * n <=> h >= n
<1>1. H * h \in Int /\ H * n \in Int
  OBVIOUS
<1>2. ASSUME h < n PROVE H * h + l < H * n
  <2>1. h + 1 \in Int /\ h + 1 <= n
    BY <1>2
  <2>2. H * (h + 1) <= H * n
    BY <2>1, Grows
  <2>3. H * (h + 1) = H * h + H
    OBVIOUS
  <2> QED
    BY <1>1, <2>2, <2>3
<1>3. ASSUME h >= n PROVE H * h + l >= H * n
  <2>1. H * n <= H * h
    BY <1>3, Grows
  <2> QED
    BY <1>1, <2>1
<1> QED
  BY <1>1, <1>2, <1>3

\* A word is its upper half and its lower.
LEMMA WordIs ==
  ASSUME NEW a \in Word64
  PROVE  /\ a \in Nat /\ a < Modulus
         /\ hi(a) \in Nat /\ hi(a) < Half /\ lo(a) \in Nat /\ lo(a) < Half
         /\ a = Half * hi(a) + lo(a)
<1>1. a \in Nat /\ a < Modulus
  BY HalvesAre DEF Word64
<1> DEFINE h == hi(a)
           l == lo(a)
<1>2. h \in Int /\ l \in Int /\ 0 <= l /\ l < Half /\ a = Half * h + l
  <2>1. Half \in Nat \ {0} /\ a \in Int
    BY <1>1, HalvesAre
  <2>2. /\ a \div Half \in Int /\ a % Half \in Int /\ 0 <= a % Half /\ a % Half < Half
        /\ a = Half * (a \div Half) + (a % Half)
    BY <2>1, DivisionIs
  <2> QED
    BY <2>2 DEF hi, lo
<1> HIDE DEF h, l
<1>3. h < Half
  BY <1>1, <1>2, HalvesAre, Joined
<1>4. h >= 0
  <2>1. Half * h + l >= Half * 0
    BY <1>1, <1>2, HalvesAre
  <2> QED
    BY <1>2, <2>1, HalvesAre, Joined
<1> QED
  BY <1>1, <1>2, <1>3, <1>4 DEF h, l

\* Half a word with its sign
SignedHalf(h) == IF h < Quarter THEN h ELSE h - Half

\* The upper half of a word with a sign.
LEMMA SignedHalfIs ==
  ASSUME NEW h \in Nat, h < Half
  PROVE  SignedHalf(h) \in -Quarter .. Quarter - 1 /\ SignedHalf(h) % Half = h
<1>1. Half \in Nat \ {0} /\ Quarter \in Nat \ {0} /\ Half = 2 * Quarter
  BY HalvesAre
<1>2. CASE h < Quarter
  <2>1. SignedHalf(h) = h /\ h \in -Quarter .. Quarter - 1
    BY <1>1, <1>2 DEF SignedHalf
  <2>2. h = Half * 0 + h /\ h \in Int /\ 0 \in Int /\ 0 <= h
    BY <1>1
  <2>3. h % Half = h
    BY <1>1, <2>2, DivisionOnce
  <2> QED
    BY <2>1, <2>3
<1>3. CASE ~(h < Quarter)
  <2> DEFINE s == h - Half
  <2>1. SignedHalf(h) = s /\ s \in -Quarter .. Quarter - 1
    BY <1>1, <1>3 DEF SignedHalf
  <2>2. s = Half * (-1) + h /\ h \in Int /\ -1 \in Int /\ 0 <= h /\ s \in Int
    BY <1>1
  <2> HIDE DEF s
  <2>3. s % Half = h
    BY <1>1, <2>2, DivisionOnce
  <2> QED
    BY <2>1, <2>3
<1> QED
  BY <1>2, <1>3

\* A half of a number with a sign is the number again, or that much more.
LEMMA Wrapped ==
  ASSUME NEW x \in -Quarter .. Quarter - 1
  PROVE  /\ x % Half = IF x < 0 THEN x + Half ELSE x
         /\ x % Half \in Nat /\ x % Half < Half /\ SignedHalf(x % Half) = x
<1>1. Half \in Nat \ {0} /\ Quarter \in Nat \ {0} /\ Half = 2 * Quarter /\ x \in Int
  BY HalvesAre
<1>2. x % Half = IF x < 0 THEN x + Half ELSE x
  <2>1. CASE x < 0
    <3> DEFINE r == x + Half
    <3>1. x = Half * (-1) + r /\ r \in Int /\ 0 <= r /\ r < Half /\ -1 \in Int
      BY <1>1, <2>1
    <3> HIDE DEF r
    <3>2. x % Half = r
      BY <1>1, <3>1, DivisionOnce
    <3> QED
      BY <2>1, <3>2 DEF r
  <2>2. CASE ~(x < 0)
    <3>1. x = Half * 0 + x /\ 0 <= x /\ x < Half /\ 0 \in Int
      BY <1>1, <2>2
    <3>2. x % Half = x
      BY <1>1, <3>1, DivisionOnce
    <3> QED
      BY <2>2, <3>2
  <2> QED
    BY <2>1, <2>2
<1> DEFINE y == x % Half
<1> HIDE DEF y
<1>3. y = IF x < 0 THEN x + Half ELSE x
  BY <1>2 DEF y
<1>4. y \in Nat /\ y < Half /\ SignedHalf(y) = x
  BY <1>1, <1>3 DEF SignedHalf
<1> QED
  BY <1>2, <1>4 DEF y

\* A word is as signed as its high half.
LEMMA SignedWord ==
  ASSUME NEW h \in Nat, h < Half, NEW l \in Nat, l < Half
  PROVE  Signed(Half * h + l) = Half * SignedHalf(h) + l
<1>1. /\ Half \in Nat \ {0} /\ Quarter \in Nat \ {0} /\ Modulus = Half * Half
      /\ Modulus \div 2 = Half * Quarter
  BY HalvesAre
<1>2. /\ Half * h + l \in Int /\ Half * Quarter \in Int
      /\ Half * h + l < Half * Quarter <=> h < Quarter
  BY <1>1, Joined
<1>3. Half * (h - Half) = Half * h - Half * Half /\ Half * h \in Int /\ Half * Half \in Int
  BY <1>1
<1> DEFINE a == Half * h + l
<1>4. Signed(a) = IF h < Quarter THEN a ELSE a - Half * Half
  <2> HIDE DEF a
  <2>1. a < Modulus \div 2 <=> h < Quarter
    BY <1>1, <1>2 DEF a
  <2> QED
    BY <1>1, <2>1 DEF Signed
<1>5. Half * SignedHalf(h) = IF h < Quarter THEN Half * h ELSE Half * (h - Half)
  BY DEF SignedHalf
<1> QED
  BY <1>1, <1>3, <1>4, <1>5

\* Dividing brings a number nearer to 0, at most to -1 from below.
LEMMA Nearer ==
  ASSUME NEW g \in Nat, NEW s \in -g .. g - 1, NEW p \in Nat \ {0}
  PROVE  s \div p \in -g .. g - 1 /\ (s \div p < 0 <=> s < 0)
<1> DEFINE x == s \div p
           z == s % p
<1>1. x \in Int /\ z \in Int /\ 0 <= z /\ z < p /\ s = p * x + z /\ s \in Int
  BY DivisionIs
<1> HIDE DEF x, z
<1>2. ASSUME x < 0 PROVE s < 0
  <2>1. p * x + z < p * 0
    BY <1>1, <1>2, Joined
  <2> QED
    BY <1>1, <2>1
<1>3. ASSUME x >= 0 PROVE s >= 0 /\ x <= s
  <2>1. p * x + z >= p * 0
    BY <1>1, <1>3, Joined
  <2>2. x * 1 <= x * p /\ x * 1 = x /\ x * p = p * x
    <3>1. x \in Nat
      BY <1>1, <1>3
    <3> QED
      BY <1>1, <3>1, Grows
  <2>3. p * x \in Int
    BY <1>1
  <2> QED
    BY <1>1, <2>1, <2>2, <2>3
<1>4. ASSUME x < -g PROVE FALSE
  <2>1. p * x + z < p * (-g)
    BY <1>1, <1>4, Joined
  <2>2. g * 1 <= g * p
    BY Grows
  <2>3. p * (-g) = -(g * p) /\ g * p \in Int /\ g * 1 = g
    OBVIOUS
  <2> QED
    BY <1>1, <2>1, <2>2, <2>3
<1>5. x < 0 <=> s < 0
  BY <1>1, <1>2, <1>3
<1>6. x \in -g .. g - 1
  BY <1>1, <1>2, <1>3, <1>4
<1> QED
  BY <1>5, <1>6 DEF x

\* The powers of two that the shifts work with.
LEMMA NearPowers ==
  ASSUME NEW b \in Nat, b <= HalfBits
  PROVE  /\ Pow[b] \in Nat \ {0} /\ Pow[HalfBits - b] \in Nat \ {0}
         /\ Factors(Pow[b], Pow[HalfBits - b], Half)
<1> DEFINE c == HalfBits - b
<1>1. c \in Nat /\ b + c = HalfBits
  BY Widths
<1> HIDE DEF c
<1>2. Pow[b] \in Nat \ {0} /\ Pow[c] \in Nat \ {0}
  BY <1>1, PowIs
<1>3. Pow[b + c] = Pow[b] * Pow[c]
  BY <1>1, PowSum
<1> QED
  BY <1>1, <1>2, <1>3 DEF Factors, Half, c

\* An amount of at least a half is a half and the rest.
LEMMA FarPowers ==
  ASSUME NEW b \in Nat, b >= HalfBits
  PROVE  /\ Pow[b - HalfBits] \in Nat \ {0} /\ Pow[b] = Half * Pow[b - HalfBits]
<1> DEFINE c == b - HalfBits
<1>1. c \in Nat /\ HalfBits + c = b /\ HalfBits \in Nat
  BY Widths
<1> HIDE DEF c
<1>2. Pow[c] \in Nat \ {0} /\ Pow[HalfBits + c] = Half * Pow[c]
  BY <1>1, PowIs, PowSum DEF Half
<1> QED
  BY <1>1, <1>2 DEF c

\* The amounts that the mask & 63 leaves as they are.
LEMMA AmountIs ==
  ASSUME NEW b \in 0 .. Bits - 1
  PROVE  b \in Nat /\ HalfBits \in Nat /\ b % Bits = b /\ (b = 0 => Pow[b] = 1)
<1>1. Bits \in Nat \ {0} /\ b \in Nat /\ b < Bits /\ HalfBits \in Nat
  BY Widths
<1>2. b = Bits * 0 + b /\ b \in Int /\ 0 <= b /\ 0 \in Int
  BY <1>1
<1>3. b % Bits = b
  BY <1>1, <1>2, DivisionOnce
<1> QED
  BY <1>1, <1>3, PowIs

\* ashldi3 multiplies by a power of two.
LEMMA LeftIsExact ==
  ASSUME NEW a \in Word64, NEW b \in 0 .. Bits - 1
  PROVE  ashldi3(a, b) = (a * Pow[b]) % Modulus
<1> DEFINE h == hi(a)
           l == lo(a)
           p == Pow[b]
           q == Pow[HalfBits - b]
           r == Pow[b - HalfBits]
<1>1. /\ h \in Nat /\ h < Half /\ l \in Nat /\ l < Half /\ a = Half * h + l
      /\ Half \in Nat \ {0} /\ Modulus = Half * Half /\ a \in Nat /\ a < Modulus
  BY WordIs, HalvesAre
<1>2. b \in Nat /\ HalfBits \in Nat /\ b % Bits = b
  BY AmountIs
<1>3. CASE b >= HalfBits
  <2>1. ashldi3(a, b) = Half * ((l * r) % Half)
    BY <1>2, <1>3 DEF ashldi3, Left
  <2>2. r \in Nat \ {0} /\ p = Half * r
    BY <1>2, <1>3, FarPowers
  <2> HIDE DEF h, l, p, r
  <2>3. ((Half * h + l) * (Half * r)) % (Half * Half) = Half * ((l * r) % Half)
    <3>1. FarLeftIs(Half, r, h, l)
      BY <1>1, <2>2, FarLeft
    <3> QED
      BY <3>1 DEF FarLeftIs
  <2>4. (a * p) % Modulus = Half * ((l * r) % Half)
    BY <1>1, <2>2, <2>3
  <2> QED
    BY <2>1, <2>4 DEF p
<1>4. CASE b < HalfBits /\ b # 0
  <2>1. ashldi3(a, b) = Half * ((l \div q) + ((h * p) % Half)) + ((l * p) % Half)
    BY <1>2, <1>4 DEF ashldi3, Left, Right
  <2>2. p \in Nat \ {0} /\ q \in Nat \ {0} /\ Factors(p, q, Half)
    BY <1>2, <1>4, NearPowers
  <2> HIDE DEF h, l, p, q
  <2>3. ((Half * h + l) * p) % (Half * Half) = Half * ((l \div q) + ((h * p) % Half)) + ((l * p) % Half)
    <3>1. h \in Nat /\ l \in Nat /\ l < Half
      BY <1>1
    <3>2. NearLeftIs(p, q, Half, h, l)
      BY <2>2, <3>1, NearLeft
    <3> QED
      BY <3>2 DEF NearLeftIs
  <2>4. (a * p) % Modulus = Half * ((l \div q) + ((h * p) % Half)) + ((l * p) % Half)
    BY <1>1, <2>3
  <2> QED
    BY <2>1, <2>4 DEF p
<1>5. CASE b = 0
  <2>1. ashldi3(a, b) = a
    BY <1>2, <1>5, Widths DEF ashldi3
  <2>2. p = 1
    BY <1>5, AmountIs
  <2>3. a = Modulus * 0 + a /\ 0 <= a /\ 0 \in Int /\ a \in Int /\ Modulus \in Nat \ {0}
    BY <1>1, HalvesAre
  <2>4. a % Modulus = a
    BY <1>1, <2>3, DivisionOnce
  <2>5. a * p = a
    BY <2>2, <2>3
  <2> HIDE DEF p
  <2>6. (a * p) % Modulus = a
    BY <2>4, <2>5
  <2> QED
    BY <2>1, <2>6 DEF p
<1> QED
  BY <1>2, <1>3, <1>4, <1>5

\* lshrdi3 divides by a power of two.
LEMMA RightIsExact ==
  ASSUME NEW a \in Word64, NEW b \in 0 .. Bits - 1
  PROVE  lshrdi3(a, b) = a \div Pow[b]
<1> DEFINE h == hi(a)
           l == lo(a)
           p == Pow[b]
           q == Pow[HalfBits - b]
           r == Pow[b - HalfBits]
<1>1. /\ h \in Nat /\ h < Half /\ l \in Nat /\ l < Half /\ a = Half * h + l
      /\ Half \in Nat \ {0} /\ a \in Nat
  BY WordIs, HalvesAre
<1>2. b \in Nat /\ HalfBits \in Nat /\ b % Bits = b
  BY AmountIs
<1>3. CASE b >= HalfBits
  <2>1. lshrdi3(a, b) = h \div r
    BY <1>2, <1>3 DEF lshrdi3, Right
  <2>2. r \in Nat \ {0} /\ p = Half * r
    BY <1>2, <1>3, FarPowers
  <2> HIDE DEF h, l, p, r
  <2>3. (Half * h + l) \div (Half * r) = h \div r
    <3>1. Half \in Nat \ {0} /\ r \in Nat \ {0} /\ h \in Int /\ l \in Nat /\ l < Half
      BY <1>1, <2>2
    <3>2. FarRightIs(Half, r, h, l)
      BY <3>1, FarRight
    <3> QED
      BY <3>2 DEF FarRightIs
  <2>4. a \div p = h \div r
    BY <1>1, <2>2, <2>3
  <2> QED
    BY <2>1, <2>4 DEF p
<1>4. CASE b < HalfBits /\ b # 0
  <2>1. lshrdi3(a, b) = Half * (h \div p) + ((h * q) % Half) + (l \div p)
    BY <1>2, <1>4 DEF lshrdi3, Left, Right
  <2>2. p \in Nat \ {0} /\ q \in Nat \ {0} /\ Factors(p, q, Half)
    BY <1>2, <1>4, NearPowers
  <2> HIDE DEF h, l, p, q
  <2>3. (Half * h + l) \div p = Half * (h \div p) + ((h * q) % Half) + (l \div p)
    <3>1. h \in Int /\ l \in Nat /\ l < Half
      BY <1>1
    <3>2. NearRightIs(p, q, Half, h, l)
      BY <2>2, <3>1, NearRight
    <3> QED
      BY <3>2 DEF NearRightIs
  <2> QED
    BY <1>1, <2>1, <2>3 DEF p
<1>5. CASE b = 0
  <2>1. lshrdi3(a, b) = a
    BY <1>2, <1>5, Widths DEF lshrdi3
  <2>2. p = 1
    BY <1>5, AmountIs
  <2>3. a \div 1 = a
    BY <1>1
  <2> QED
    BY <2>1, <2>2, <2>3
<1> QED
  BY <1>2, <1>3, <1>4, <1>5

\* ashrdi3 divides by a power of two, rounded down, with the sign.
LEMMA SignedRightIsExact ==
  ASSUME NEW a \in Word64, NEW b \in 0 .. Bits - 1
  PROVE  Signed(ashrdi3(a, b)) = Signed(a) \div Pow[b]
<1> DEFINE h == hi(a)
           l == lo(a)
           s == SignedHalf(h)
           p == Pow[b]
           q == Pow[HalfBits - b]
           r == Pow[b - HalfBits]
<1>1. /\ h \in Nat /\ h < Half /\ l \in Nat /\ l < Half /\ a = Half * h + l
      /\ Half \in Nat \ {0} /\ a \in Nat /\ Quarter \in Nat \ {0}
  BY WordIs, HalvesAre
<1>2. b \in Nat /\ HalfBits \in Nat /\ b % Bits = b /\ HalfBits >= 2
  BY AmountIs, Widths
<1>s. \A k : SignedRight(h, k) = (s \div Pow[k]) % Half
  BY DEF SignedRight, SignedHalf, Quarter
<1>3. /\ s \in -Quarter .. Quarter - 1 /\ s \in Int
      /\ Signed(a) = Half * s + l
  <2> HIDE DEF h, l
  <2>1. s \in -Quarter .. Quarter - 1
    BY <1>1, SignedHalfIs
  <2>2. Signed(Half * h + l) = Half * s + l
    BY <1>1, SignedWord
  <2> QED
    BY <1>1, <2>1, <2>2
<1> DEFINE Joint(x, e) == Half * (x % Half) + e
<1>j. ASSUME NEW x \in -Quarter .. Quarter - 1, NEW e \in Nat, e < Half
      PROVE  Signed(Joint(x, e)) = Half * x + e
  <2> DEFINE y == x % Half
  <2>1. y \in Nat /\ y < Half /\ SignedHalf(y) = x
    BY Wrapped
  <2> HIDE DEF y
  <2>2. Signed(Half * y + e) = Half * SignedHalf(y) + e
    BY <1>j, <2>1, SignedWord
  <2> QED
    BY <2>1, <2>2 DEF y
<1>4. CASE b >= HalfBits
  <2> DEFINE x == s \div r
             y == s \div Quarter
             e == x % Half
  <2>1. ashrdi3(a, b) = Joint(y, e)
    <3>1. ashrdi3(a, b) = Half * SignedRight(h, HalfBits - 1) + SignedRight(h, b - HalfBits)
      BY <1>2, <1>4 DEF ashrdi3
    <3>2. SignedRight(h, HalfBits - 1) = (s \div Pow[HalfBits - 1]) % Half
          /\ SignedRight(h, b - HalfBits) = (s \div r) % Half
      BY <1>s
    <3>3. Quarter = Pow[HalfBits - 1]
      BY HalvesAre
    <3> QED
      BY <3>1, <3>2, <3>3
  <2>2. r \in Nat \ {0} /\ p = Half * r
    BY <1>2, <1>4, FarPowers
  <2> HIDE DEF h, s, r, p
  <2>3. /\ x \in -Quarter .. Quarter - 1 /\ y \in -Quarter .. Quarter - 1
        /\ x < 0 <=> s < 0
    BY <1>1, <1>3, <2>2, Nearer
  <2>4. y = IF s < 0 THEN -1 ELSE 0
    <3>1. CASE s < 0
      <4> DEFINE z == s + Quarter
      <4>1. s = Quarter * (-1) + z /\ z \in Int /\ 0 <= z /\ z < Quarter /\ -1 \in Int
        BY <1>1, <1>3, <3>1
      <4> HIDE DEF z
      <4>2. s \div Quarter = -1
        BY <1>1, <1>3, <4>1, DivisionOnce
      <4> QED
        BY <3>1, <4>2
    <3>2. CASE ~(s < 0)
      <4>1. s = Quarter * 0 + s /\ 0 <= s /\ s < Quarter /\ 0 \in Int
        BY <1>1, <1>3, <3>2
      <4>2. s \div Quarter = 0
        BY <1>1, <1>3, <4>1, DivisionOnce
      <4> QED
        BY <3>2, <4>2
    <3> QED
      BY <3>1, <3>2
  <2>5. e = (IF x < 0 THEN x + Half ELSE x) /\ e \in Nat /\ e < Half
    <3> HIDE DEF x
    <3> QED
      BY <2>3, Wrapped
  <2>6. (Half * s + l) \div (Half * r) = x
    <3> HIDE DEF l
    <3> QED
      BY <1>1, <1>3, <2>2, FarRight DEF FarRightIs
  <2> HIDE DEF x, y, e, l
  <2>7. Signed(Joint(y, e)) = Half * y + e
    BY <1>j, <2>3, <2>5
  <2>8. Half * y + e = x
    BY <1>1, <1>3, <2>3, <2>4, <2>5
  <2>9. Signed(a) \div p = x
    BY <1>3, <2>2, <2>6
  <2> HIDE DEF Joint
  <2> QED
    BY <2>1, <2>7, <2>8, <2>9 DEF p
<1>5. CASE b < HalfBits /\ b # 0
  <2> DEFINE x == s \div p
             e == ((h * q) % Half) + (l \div p)
  <2>1. ashrdi3(a, b) = Half * (x % Half) + ((h * q) % Half) + (l \div p)
    <3>1. ashrdi3(a, b) = Half * SignedRight(h, b) + ((h * q) % Half) + (l \div p)
      BY <1>2, <1>5 DEF ashrdi3, Left, Right
    <3>2. SignedRight(h, b) = x % Half
      BY <1>s
    <3> QED
      BY <3>1, <3>2
  <2>2. p \in Nat \ {0} /\ q \in Nat \ {0} /\ Factors(p, q, Half)
    BY <1>2, <1>5, NearPowers
  <2>0. s = h \/ s = h - Half
    BY DEF SignedHalf
  <2> HIDE DEF h, s, p, q, l
  <2>3. x \in -Quarter .. Quarter - 1
    BY <1>1, <1>3, <2>2, Nearer
  <2>4. (h * q) % Half = (s * q) % Half
    <3> DEFINE w == (h * q) \div Half
               z == (h * q) % Half
               n == h * q
    <3>1. n \in Int
      BY <1>1, <2>2
    <3>2. w \in Int /\ z \in Int /\ 0 <= z /\ z < Half /\ n = Half * w + z
      <4> HIDE DEF n
      <4> QED
        <5>1. Half \in Nat \ {0}
          BY <1>1
        <5>2. /\ n \div Half \in Int /\ n % Half \in Int /\ 0 <= n % Half /\ n % Half < Half
              /\ n = Half * (n \div Half) + (n % Half)
          BY <3>1, <5>1, DivisionIs
        <5> QED
          BY <5>2 DEF n
    <3>3. s * q = Half * w + z \/ s * q = Half * (w - q) + z
      <4>1. CASE s = h
        BY <3>2, <4>1
      <4>2. CASE s = h - Half
        <5>1. (h - Half) * q = h * q - Half * q
          BY <1>1, <2>2
        <5>2. Half * (w - q) = Half * w - Half * q
          BY <1>1, <2>2, <3>2
        <5>3. Half * w \in Int /\ Half * q \in Int
          BY <1>1, <2>2, <3>2
        <5> HIDE DEF w, z
        <5> QED
          BY <3>1, <3>2, <4>2, <5>1, <5>2, <5>3
      <4> QED
        BY <2>0, <4>1, <4>2
    <3>4. s * q \in Int /\ w - q \in Int
      BY <1>3, <2>2, <3>2
    <3> DEFINE m == s * q
               v == w - q
    <3>5. m \in Int /\ v \in Int /\ (m = Half * w + z \/ m = Half * v + z)
      BY <3>3, <3>4
    <3> HIDE DEF w, z, n, m, v
    <3>6. m % Half = z
      BY <1>1, <3>2, <3>5, DivisionOnce
    <3> QED
      BY <3>6 DEF m, z
  <2>5. /\ (Half * s + l) \div p = Half * x + ((s * q) % Half) + (l \div p)
        /\ ((s * q) % Half) + (l \div p) \in 0 .. Half - 1
    BY <1>1, <1>3, <2>2, NearRight DEF NearRightIs
  <2> HIDE DEF x
  <2>6. e \in 0 .. Half - 1 /\ e = ((s * q) % Half) + (l \div p)
    BY <2>4, <2>5
  <2>n. (h * q) % Half \in Int /\ l \div p \in Int
    <3>1. h * q \in Int /\ l \in Int
      BY <1>1, <2>2
    <3> DEFINE n == h * q
    <3> HIDE DEF n
    <3>2. n % Half \in Int /\ l \div p \in Int
      BY <1>1, <2>2, <3>1, DivisionIs DEF n
    <3> QED
      BY <3>2 DEF n
  <2>7. ashrdi3(a, b) = Joint(x, e)
    <3> DEFINE u == (h * q) % Half
               v == l \div p
               y == Half * (x % Half)
    <3>1. y \in Int
      <4>1. x % Half \in Nat
        BY <2>3, Wrapped
      <4> QED
        BY <1>1, <4>1
    <3>2. u \in Int /\ v \in Int
      BY <2>n
    <3> HIDE DEF u, v, y
    <3>3. y + u + v = y + (u + v)
      BY <3>1, <3>2
    <3> QED
      BY <2>1, <3>3 DEF u, v, y
  <2>8. Half * x + ((s * q) % Half) + (l \div p) = Half * x + e
    <3> DEFINE u == (s * q) % Half
               v == l \div p
               y == Half * x
    <3>1. y \in Int /\ u \in Int /\ v \in Int
      BY <1>1, <2>3, <2>4, <2>n
    <3> HIDE DEF u, v, y, e
    <3>2. y + u + v = y + (u + v) /\ e = u + v
      BY <2>6, <3>1 DEF u, v
    <3> QED
      BY <3>2 DEF u, v, y
  <2> HIDE DEF e
  <2>9. Signed(Joint(x, e)) = Half * x + e
    <3>1. e \in Nat /\ e < Half
      BY <1>1, <2>6
    <3> HIDE DEF Joint
    <3> QED
      BY <1>j, <2>3, <3>1
  <2>10. Signed(a) \div p = Half * x + e
    BY <1>3, <2>5, <2>8
  <2> HIDE DEF Joint
  <2> QED
    BY <2>7, <2>9, <2>10 DEF p
<1>6. CASE b = 0
  <2>1. ashrdi3(a, b) = a
    BY <1>2, <1>6, Widths DEF ashrdi3
  <2>2. p = 1
    BY <1>6, AmountIs
  <2>3. Signed(a) \in Int
    BY <1>1, <1>3
  <2>4. Signed(a) \div 1 = Signed(a)
    BY <2>3
  <2> QED
    BY <2>1, <2>2, <2>4
<1> QED
  BY <1>2, <1>4, <1>5, <1>6

\* All three shifts, of every word by every amount.
LEMMA ShiftsAre ==
  ASSUME NEW a \in Word64, NEW b \in 0 .. Bits - 1
  PROVE  Shifts(a, b)
BY LeftIsExact, RightIsExact, SignedRightIsExact DEF Shifts

-------------------------------------------------------------------------------
(* Counting the zeros before the first bit and after the last. *)

\* A common factor says nothing about which of two numbers is greater.
LEMMA Orders ==
  ASSUME NEW b \in Nat \ {0}, NEW x \in Int, NEW y \in Int
  PROVE  (b * x < b * y <=> x < y) /\ (b * x <= b * y <=> x <= y)
<1>1. b * x + 0 < b * y <=> x < y
  BY Joined
<1>2. b * y + 0 < b * x <=> y < x
  BY Joined
<1>3. b * x \in Int /\ b * y \in Int
  OBVIOUS
<1> QED
  BY <1>1, <1>2, <1>3

\* The powers of two are ordered as their exponents.
LEMMA PowOrder ==
  ASSUME NEW m \in Nat, NEW n \in Nat
  PROVE  Pow[m] \in Nat \ {0} /\ (m < n <=> Pow[m] < Pow[n]) /\ (m < n => Pow[n] = Pow[m] * Pow[n - m])
<1>0. Pow[m] \in Nat \ {0} /\ Pow[n] \in Nat \ {0}
  BY PowIs
<1>1. ASSUME NEW i \in Nat, NEW j \in Nat, i < j
      PROVE  Pow[j] = Pow[i] * Pow[j - i] /\ Pow[i] < Pow[j]
  <2> DEFINE d == j - i - 1
  <2>1. d \in Nat /\ j = i + (d + 1) /\ j - i = d + 1
    BY <1>1
  <2> HIDE DEF d
  <2>2. Pow[d] >= 1 /\ Pow[d] \in Nat /\ Pow[d + 1] = 2 * Pow[d]
    BY <2>1, PowPositive
  <2>3. Pow[i + (d + 1)] = Pow[i] * Pow[d + 1]
    BY <2>1, PowSum
  <2>4. Pow[i] \in Nat \ {0} /\ Pow[d + 1] >= 2 /\ Pow[d + 1] \in Int
    BY <2>2, PowIs
  <2>5. Pow[i] * 1 < Pow[i] * Pow[d + 1] /\ Pow[i] * 1 = Pow[i]
    BY <2>4, Orders
  <2> QED
    BY <2>1, <2>3, <2>5
<1>2. m < n => Pow[n] = Pow[m] * Pow[n - m] /\ Pow[m] < Pow[n]
  BY <1>1
<1>3. n < m => Pow[n] < Pow[m]
  BY <1>1
<1>4. m = n => Pow[n] = Pow[m]
  OBVIOUS
<1> QED
  BY <1>0, <1>2, <1>3, <1>4

\* A number is less than its power of two.
LEMMA PowExceeds == \A n \in Nat : n < Pow[n]
<1> DEFINE T == {n \in Nat : n < Pow[n]}
<1>1. 0 \in T
  BY PowIs
<1>2. ASSUME NEW n \in Nat, n \in T PROVE n + 1 \in T
  <2>1. Pow[n] \in Nat /\ Pow[n + 1] = 2 * Pow[n] /\ n < Pow[n]
    BY <1>2, PowPositive
  <2> QED
    BY <2>1
<1>3. \A n \in Nat : n \in T
  <2> HIDE DEF T
  <2> QED
    BY <1>1, <1>2, NextNumber
<1> QED
  BY <1>3

\* A width is halved as often as it was doubled from 1.
LEMMA HalvingsAre ==
  ASSUME NEW n \in Nat
  PROVE  /\ Halvings(Pow[n]) = n
         /\ \A k \in 0 .. n : Pow[n] \div Pow[k] = Pow[n - k]
<1>1. \A k \in Nat : Pow[k] = Pow[n] => k = n
  BY PowOrder
<1>2. n \in 0 .. Pow[n] /\ Pow[n] \in Nat
  BY PowExceeds, PowPositive
<1>3. Halvings(Pow[n]) = n
  BY <1>1, <1>2 DEF Halvings
<1>4. ASSUME NEW k \in 0 .. n PROVE Pow[n] \div Pow[k] = Pow[n - k]
  <2> DEFINE d == n - k
             q == Pow[d]
             p == Pow[k]
             w == Pow[n]
  <2>1. d \in Nat /\ k \in Nat /\ k + d = n
    OBVIOUS
  <2> HIDE DEF d
  <2>2. w = p * q /\ p \in Nat \ {0} /\ q \in Int /\ w \in Int
    <3>1. Pow[k + d] = Pow[k] * Pow[d]
      BY <2>1, PowSum
    <3>2. Pow[k] \in Nat \ {0} /\ Pow[d] \in Nat \ {0} /\ Pow[n] \in Nat \ {0}
      BY <2>1, PowIs
    <3> QED
      BY <2>1, <3>1, <3>2
  <2> HIDE DEF p, q, w
  <2>3. w = p * q + 0 /\ 0 < p
    BY <2>2
  <2>4. w \div p = q
    BY <2>2, <2>3, DivisionOnce
  <2> QED
    BY <2>4 DEF w, p, q, d
<1> QED
  BY <1>3, <1>4

\* The widths that words, halves and tables have
LEMMA WidthsArePowers ==
  /\ Pow[0] = 1 /\ Pow[1] = 2 /\ Pow[2] = 4 /\ Pow[3] = 8 /\ Pow[4] = 16 /\ Pow[5] = 32 /\ Pow[6] = 64
  /\ \E n \in 1 .. 5 : HalfBits = Pow[n] /\ Bits = Pow[n + 1]
<1>1. /\ Pow[0] = 1 /\ Pow[0 + 1] = 2 * Pow[0] /\ Pow[1 + 1] = 2 * Pow[1] /\ Pow[2 + 1] = 2 * Pow[2]
      /\ Pow[3 + 1] = 2 * Pow[3] /\ Pow[4 + 1] = 2 * Pow[4] /\ Pow[5 + 1] = 2 * Pow[5]
  BY PowIs
<1>2. /\ Pow[0] = 1 /\ Pow[1] = 2 /\ Pow[2] = 4 /\ Pow[3] = 8 /\ Pow[4] = 16 /\ Pow[5] = 32
      /\ Pow[6] = 64
  BY <1>1
<1>3. PICK n \in 1 .. 5 : HalfBits = Pow[n]
  BY <1>2, Arith64Assumption
<1>4. Bits = Pow[n + 1]
  <2>1. Pow[n + 1] = 2 * Pow[n]
    BY PowIs
  <2> QED
    BY <1>3, <2>1 DEF Bits
<1> QED
  BY <1>2, <1>3, <1>4

\* What one step does to a word and to the zeros that were counted
LeadingStep(s, b, W) ==
  IF s.a < Pow[W - b] THEN [a |-> (s.a * Pow[b]) % Pow[W], n |-> s.n + b] ELSE s

TrailingStep(s, b) ==
  IF s.a % Pow[b] = 0 THEN [a |-> s.a \div Pow[b], n |-> s.n + b] ELSE s

\* The fields of a count
Count == [a : Nat, n : Nat]

\* The widths of the steps: n steps from Pow[n], down to 1
LEMMA StepWidths ==
  ASSUME NEW n \in Nat, NEW k \in 1 .. n
  PROVE  \E b \in Nat : /\ b = Pow[n] \div Pow[k] /\ b = Pow[n - k] /\ b # 0 /\ 2 * b = Pow[n - (k - 1)]
                        /\ 2 * b <= Pow[n]
<1> DEFINE d == n - k
<1>1. d \in Nat /\ n - (k - 1) = d + 1 /\ d + 1 \in Nat /\ k \in 0 .. n /\ (d + 1 < n \/ d + 1 = n)
  OBVIOUS
<1>2. Pow[n] \div Pow[k] = Pow[d]
  BY <1>1, HalvingsAre
<1> HIDE DEF d
<1>3. Pow[d] \in Nat \ {0} /\ Pow[d + 1] = 2 * Pow[d]
  BY <1>1, PowIs
<1>4. Pow[d + 1] <= Pow[n]
  <2>1. Pow[n] \in Nat
    BY PowIs
  <2> QED
    BY <1>1, <1>3, <2>1, PowOrder
<1> QED
  BY <1>1, <1>2, <1>3, <1>4 DEF d

\* The states that Leading goes through.
LEMMA LeadingRuns ==
  ASSUME NEW n \in Nat, NEW a \in Nat
  PROVE  \E f : /\ Leading(a, Pow[n]) = f[n].n /\ f[0] = [a |-> a, n |-> 0]
                /\ \A k \in 1 .. n : f[k] = LeadingStep(f[k - 1], Pow[n] \div Pow[k], Pow[n])
<1> DEFINE W == Pow[n]
           S == [p \in Nat \X Count |-> LeadingStep(p[2], W \div Pow[p[1]], W)]
           Is(f) == f = [k \in Nat |->
                      IF k = 0 THEN [a |-> a, n |-> 0]
                      ELSE IF f[k - 1].a < Pow[W - (W \div Pow[k])]
                           THEN [a |-> (f[k - 1].a * Pow[W \div Pow[k]]) % Pow[W],
                                 n |-> f[k - 1].n + (W \div Pow[k])]
                           ELSE f[k - 1]]
<1>1. [a |-> a, n |-> 0] \in Count
  BY DEF Count
<1>2. S \in [Nat \X Count -> Count]
  <2>1. ASSUME NEW k \in Nat, NEW s \in Count PROVE LeadingStep(s, W \div Pow[k], W) \in Count
    <3> DEFINE b == W \div Pow[k]
    <3>1. b \in Nat
      <4>1. Pow[k] \in Nat \ {0} /\ W \in Nat
        BY PowIs
      <4> HIDE DEF W
      <4> QED
        BY <4>1
    <3> HIDE DEF b
    <3>2. Pow[b] \in Nat /\ Pow[W] \in Nat \ {0}
      BY <3>1, PowIs
    <3>3. s.a \in Nat /\ s.n \in Nat
      BY DEF Count
    <3>4. (s.a * Pow[b]) % Pow[W] \in Nat /\ s.n + b \in Nat
      <4> DEFINE x == s.a * Pow[b]
                 m == Pow[W]
      <4>1. x \in Nat /\ m \in Nat \ {0}
        BY <3>2, <3>3, Product
      <4> HIDE DEF x, m
      <4>2. x % m \in Nat
        BY <4>1
      <4> QED
        BY <3>1, <3>3, <4>2 DEF x, m
    <3>5. [a |-> (s.a * Pow[b]) % Pow[W], n |-> s.n + b] \in Count
      BY <3>4 DEF Count
    <3>6. LeadingStep(s, b, W) \in Count
      BY <3>5 DEF LeadingStep
    <3> QED
      BY <3>6 DEF b
  <2> QED
    BY <2>1, Zenon
<1>3. PICK g : Rises(g, Count, [a |-> a, n |-> 0], S)
  <2> HIDE DEF S
  <2> QED
    BY <1>1, <1>2, Rising
<1>4. g \in [Nat -> Count] /\ g[0] = [a |-> a, n |-> 0]
  BY <1>3 DEF Rises
<1>5. ASSUME NEW k \in Nat \ {0} PROVE g[k] = LeadingStep(g[k - 1], W \div Pow[k], W)
  <2>1. g[k] = S[<<k, g[k - 1]>>]
    <3> HIDE DEF S
    <3> QED
      BY <1>3 DEF Rises
  <2>2. k \in Nat /\ g[k - 1] \in Count
    BY <1>4, k - 1 \in Nat
  <2> HIDE DEF W
  <2> QED
    BY <2>1, <2>2
<1>6. Is(g)
  <2>1. ASSUME NEW k \in Nat
        PROVE  g[k] = IF k = 0 THEN [a |-> a, n |-> 0]
                      ELSE IF g[k - 1].a < Pow[W - (W \div Pow[k])]
                           THEN [a |-> (g[k - 1].a * Pow[W \div Pow[k]]) % Pow[W],
                                 n |-> g[k - 1].n + (W \div Pow[k])]
                           ELSE g[k - 1]
    <3>1. CASE k = 0
      BY <1>4, <3>1
    <3>2. CASE k # 0
      <4>1. g[k] = LeadingStep(g[k - 1], W \div Pow[k], W)
        BY <1>5, <3>2
      <4> QED
        BY <3>2, <4>1 DEF LeadingStep
    <3> QED
      BY <3>1, <3>2
  <2> QED
    BY <1>4, <2>1
<1>7. PICK f : Is(f) /\ Leading(a, W) = f[Halvings(W)].n
  <2>1. Leading(a, W) = (CHOOSE f : Is(f))[Halvings(W)].n
    BY DEF Leading
  <2> HIDE DEF Is
  <2> QED
    BY <1>6, <2>1
<1>8. Halvings(W) = n
  BY HalvingsAre
<1>9. f[0] = [a |-> a, n |-> 0]
  BY <1>7
<1>10. ASSUME NEW k \in 1 .. n PROVE f[k] = LeadingStep(f[k - 1], W \div Pow[k], W)
  <2>1. k \in Nat /\ k # 0
    OBVIOUS
  <2> QED
    BY <1>7, <2>1 DEF LeadingStep
<1> QED
  BY <1>7, <1>8, <1>9, <1>10

\* The states that Trailing goes through.
LEMMA TrailingRuns ==
  ASSUME NEW n \in Nat, NEW a \in Nat
  PROVE  \E f : /\ Trailing(a, Pow[n]) = f[n].n /\ f[0] = [a |-> a, n |-> 0]
                /\ \A k \in 1 .. n : f[k] = TrailingStep(f[k - 1], Pow[n] \div Pow[k])
<1> DEFINE W == Pow[n]
           S == [p \in Nat \X Count |-> TrailingStep(p[2], W \div Pow[p[1]])]
           Is(f) == f = [k \in Nat |->
                      IF k = 0 THEN [a |-> a, n |-> 0]
                      ELSE IF f[k - 1].a % Pow[W \div Pow[k]] = 0
                           THEN [a |-> f[k - 1].a \div Pow[W \div Pow[k]],
                                 n |-> f[k - 1].n + (W \div Pow[k])]
                           ELSE f[k - 1]]
<1>1. [a |-> a, n |-> 0] \in Count
  BY DEF Count
<1>2. S \in [Nat \X Count -> Count]
  <2>1. ASSUME NEW k \in Nat, NEW s \in Count PROVE TrailingStep(s, W \div Pow[k]) \in Count
    <3> DEFINE b == W \div Pow[k]
    <3>1. b \in Nat
      <4>1. Pow[k] \in Nat \ {0} /\ W \in Nat
        BY PowIs
      <4> HIDE DEF W
      <4> QED
        BY <4>1
    <3> HIDE DEF b
    <3>2. Pow[b] \in Nat \ {0}
      BY <3>1, PowIs
    <3>3. s.a \in Nat /\ s.n \in Nat
      BY DEF Count
    <3>4. s.a \div Pow[b] \in Nat /\ s.n + b \in Nat
      BY <3>1, <3>2, <3>3
    <3>5. [a |-> s.a \div Pow[b], n |-> s.n + b] \in Count
      BY <3>4 DEF Count
    <3>6. TrailingStep(s, b) \in Count
      BY <3>5 DEF TrailingStep
    <3> QED
      BY <3>6 DEF b
  <2> QED
    BY <2>1, Zenon
<1>3. PICK g : Rises(g, Count, [a |-> a, n |-> 0], S)
  <2> HIDE DEF S
  <2> QED
    BY <1>1, <1>2, Rising
<1>4. g \in [Nat -> Count] /\ g[0] = [a |-> a, n |-> 0]
  BY <1>3 DEF Rises
<1>5. ASSUME NEW k \in Nat \ {0} PROVE g[k] = TrailingStep(g[k - 1], W \div Pow[k])
  <2>1. g[k] = S[<<k, g[k - 1]>>]
    <3> HIDE DEF S
    <3> QED
      BY <1>3 DEF Rises
  <2>2. k \in Nat /\ g[k - 1] \in Count
    BY <1>4, k - 1 \in Nat
  <2> HIDE DEF W
  <2> QED
    BY <2>1, <2>2
<1>6. Is(g)
  <2>1. ASSUME NEW k \in Nat
        PROVE  g[k] = IF k = 0 THEN [a |-> a, n |-> 0]
                      ELSE IF g[k - 1].a % Pow[W \div Pow[k]] = 0
                           THEN [a |-> g[k - 1].a \div Pow[W \div Pow[k]],
                                 n |-> g[k - 1].n + (W \div Pow[k])]
                           ELSE g[k - 1]
    <3>1. CASE k = 0
      BY <1>4, <3>1
    <3>2. CASE k # 0
      <4>1. g[k] = TrailingStep(g[k - 1], W \div Pow[k])
        BY <1>5, <3>2
      <4> QED
        BY <3>2, <4>1 DEF TrailingStep
    <3> QED
      BY <3>1, <3>2
  <2> QED
    BY <1>4, <2>1
<1>7. PICK f : Is(f) /\ Trailing(a, W) = f[Halvings(W)].n
  <2>1. Trailing(a, W) = (CHOOSE f : Is(f))[Halvings(W)].n
    BY DEF Trailing
  <2> HIDE DEF Is
  <2> QED
    BY <1>6, <2>1
<1>8. Halvings(W) = n
  BY HalvingsAre
<1>9. f[0] = [a |-> a, n |-> 0]
  BY <1>7
<1>10. ASSUME NEW k \in 1 .. n PROVE f[k] = TrailingStep(f[k - 1], W \div Pow[k])
  <2>1. k \in Nat /\ k # 0
    OBVIOUS
  <2> QED
    BY <1>7, <2>1 DEF TrailingStep
<1> QED
  BY <1>7, <1>8, <1>9, <1>10

\* What is left of a word when its first bits but b have been looked at, and
\* when its last have been
LeadingHolds(s, a, b, W) ==
  s \in Count /\ s.n + b <= W /\ s.a = a * Pow[s.n] /\ s.a < Pow[W] /\ Pow[W - b] <= s.a

TrailingHolds(s, a, b, W) ==
  s \in Count /\ s.n + b <= W /\ a = s.a * Pow[s.n] /\ s.a % Pow[b] # 0

\* One step of Leading halves the field in which the first bit is.
LEMMA LeadingStepHolds ==
  ASSUME NEW a \in Nat, NEW W \in Nat, NEW b \in Nat, 2 * b <= W, NEW s, LeadingHolds(s, a, 2 * b, W)
  PROVE  LeadingHolds(LeadingStep(s, b, W), a, b, W)
<1>1. /\ s.a \in Nat /\ s.n \in Nat /\ s.n + 2 * b <= W /\ s.a = a * Pow[s.n] /\ s.a < Pow[W]
      /\ Pow[W - 2 * b] <= s.a
  BY DEF LeadingHolds, Count
<1>2. CASE s.a < Pow[W - b]
  <2> DEFINE x == s.a
             q == Pow[b]
             c == W - b
             d == W - 2 * b
             y == x * q
             m == s.n
             t == [a |-> y % Pow[W], n |-> m + b]
  <2>1. LeadingStep(s, b, W) = t
    BY <1>2 DEF LeadingStep
  <2>2. c \in Nat /\ d \in Nat /\ c + b = W /\ d + b = c
    OBVIOUS
  <2> HIDE DEF c, d
  <2>3. Pow[W] = Pow[c] * q /\ Pow[c] = Pow[d] * q /\ Pow[m + b] = Pow[m] * q
    <3>1. Pow[c + b] = Pow[c] * Pow[b] /\ Pow[d + b] = Pow[d] * Pow[b]
      BY <2>2, PowSum
    <3>2. m \in Nat /\ Pow[m + b] = Pow[m] * Pow[b]
      BY <1>1, PowSum
    <3> QED
      BY <2>2, <3>1, <3>2
  <2>4. /\ q \in Nat \ {0} /\ Pow[c] \in Nat \ {0} /\ Pow[d] \in Nat \ {0} /\ Pow[m] \in Nat \ {0}
        /\ Pow[W] \in Nat \ {0}
    BY <1>1, <2>2, PowIs
  <2>5. x \in Nat /\ x < Pow[c] /\ Pow[d] <= x
    BY <1>1, <1>2 DEF c, d
  <2>6. y \in Nat /\ y < Pow[W] /\ Pow[c] <= y
    <3>1. y = q * x /\ Pow[W] = q * Pow[c] /\ Pow[c] = q * Pow[d] /\ y \in Nat
      <4>1. x \in Nat /\ q \in Nat /\ Pow[c] \in Nat /\ Pow[d] \in Nat
        BY <2>4, <2>5
      <4> QED
        BY <2>3, <4>1, Product
    <3>2. q * x < q * Pow[c] /\ q * Pow[d] <= q * x
      BY <2>4, <2>5, Orders
    <3> QED
      BY <3>1, <3>2
  <2>7. y % Pow[W] = y
    <3> HIDE DEF y
    <3>1. y = Pow[W] * 0 + y /\ 0 <= y /\ 0 \in Int
      BY <2>4, <2>6
    <3> QED
      BY <2>4, <2>6, <3>1, DivisionOnce
  <2>8. y = a * Pow[m + b]
    <3>1. x = a * Pow[m]
      BY <1>1
    <3> HIDE DEF x, m, q
    <3>2. (a * Pow[m]) * q = a * (Pow[m] * q)
      BY <2>4
    <3> QED
      BY <2>3, <3>1, <3>2
  <2>9. t \in Count /\ t.a = y /\ t.n = m + b
    <3>1. m \in Nat
      BY <1>1
    <3> HIDE DEF y, m
    <3> QED
      BY <2>6, <2>7, <3>1 DEF Count
  <2>10. m + b + b <= W /\ Pow[W - b] <= y
    BY <1>1, <2>6 DEF c
  <2> HIDE DEF t, y, m
  <2> QED
    BY <2>1, <2>6, <2>8, <2>9, <2>10 DEF LeadingHolds
<1>3. CASE ~(s.a < Pow[W - b])
  <2>1. LeadingStep(s, b, W) = s
    BY <1>3 DEF LeadingStep
  <2>2. W - b \in Nat
    OBVIOUS
  <2>3. Pow[W - b] \in Nat
    BY <2>2, PowIs
  <2>4. s.n + b <= W /\ Pow[W - b] <= s.a
    BY <1>1, <1>3, <2>3
  <2> QED
    BY <2>1, <2>4 DEF LeadingHolds
<1> QED
  BY <1>2, <1>3

\* One step of Trailing halves the field in which the last bit is.
LEMMA TrailingStepHolds ==
  ASSUME NEW a \in Nat, NEW W \in Nat, NEW b \in Nat, 2 * b <= W, NEW s, TrailingHolds(s, a, 2 * b, W)
  PROVE  TrailingHolds(TrailingStep(s, b), a, b, W)
<1>1. /\ s.a \in Nat /\ s.n \in Nat /\ s.n + 2 * b <= W /\ a = s.a * Pow[s.n] /\ s.a % Pow[2 * b] # 0
  BY DEF TrailingHolds, Count
<1>2. CASE s.a % Pow[b] = 0
  <2> DEFINE x == s.a
             q == Pow[b]
             m == s.n
             y == x \div q
             t == [a |-> y, n |-> m + b]
  <2>1. TrailingStep(s, b) = t
    BY <1>2 DEF TrailingStep
  <2>2. q \in Nat \ {0} /\ Pow[m] \in Nat \ {0} /\ m \in Nat /\ x \in Nat
    BY <1>1, PowIs
  <2>3. Pow[m + b] = Pow[m] * q /\ Pow[2 * b] = q * q
    <3>1. Pow[b + b] = Pow[b] * Pow[b]
      BY PowSum
    <3>2. Pow[m + b] = Pow[m] * Pow[b]
      BY <2>2, PowSum
    <3>3. b + b = 2 * b
      OBVIOUS
    <3> QED
      BY <3>1, <3>2, <3>3
  <2>4. y \in Nat /\ x = q * y
    <3>1. y \in Nat
      <4> HIDE DEF q, x
      <4> QED
        BY <2>2
    <3>2. x = q * (x \div q) + (x % q)
      <4> HIDE DEF q, x
      <4> QED
        BY <2>2, DivisionIs
    <3>3. x % q = 0 /\ q * y \in Int
      BY <1>2, <2>2, <3>1
    <3> HIDE DEF x, q
    <3> QED
      BY <3>1, <3>2, <3>3
  <2> HIDE DEF x, q, m, y
  <2>5. a = y * Pow[m + b]
    <3>1. a = x * Pow[m]
      BY <1>1 DEF x, m
    <3>2. (q * y) * Pow[m] = y * (Pow[m] * q)
      BY <2>2, <2>4
    <3> QED
      BY <2>3, <2>4, <3>1, <3>2
  <2>6. ASSUME y % q = 0 PROVE FALSE
    <3> DEFINE z == y \div q
    <3>1. z \in Int /\ y = q * z
      <4>1. y = q * (y \div q) + (y % q) /\ y \div q \in Int
        BY <2>2, <2>4, DivisionIs
      <4>2. q * z \in Int
        BY <2>2, <4>1
      <4> QED
        BY <2>6, <4>1, <4>2
    <3> HIDE DEF z
    <3> DEFINE p == q * q
    <3>2. p \in Nat \ {0} /\ x = p * z
      BY <2>2, <2>4, <3>1, Product
    <3> HIDE DEF p
    <3>3. x = p * z + 0 /\ x \in Int
      BY <2>2, <3>1, <3>2
    <3>4. x % p = 0
      BY <3>1, <3>2, <3>3, DivisionOnce
    <3> QED
      BY <1>1, <2>3, <3>4 DEF p, x
  <2>7. t \in Count /\ t.a = y /\ t.n = m + b
    BY <2>2, <2>4 DEF Count
  <2>8. m + b + b <= W
    BY <1>1 DEF m
  <2> HIDE DEF t
  <2> QED
    BY <2>1, <2>5, <2>6, <2>7, <2>8 DEF TrailingHolds, q
<1>3. CASE s.a % Pow[b] # 0
  <2>1. TrailingStep(s, b) = s
    BY <1>3 DEF TrailingStep
  <2>2. s.n + b <= W
    BY <1>1
  <2> QED
    BY <1>3, <2>1, <2>2 DEF TrailingHolds
<1> QED
  BY <1>2, <1>3

\* The bits of a number
LEMMA HighestIs ==
  ASSUME NEW W \in Nat, NEW a \in Nat, NEW e \in 0 .. W - 1, Pow[e] <= a, a < Pow[e + 1]
  PROVE  HighestOf(Ones(a, W)) = e
<1> DEFINE p == Pow[e]
<1>1. p \in Nat \ {0} /\ Pow[e + 1] = 2 * p /\ e \in Nat
  BY PowIs
<1>2. a \div p = 1
  <2> DEFINE r == a - p
  <2>1. a = p * 1 + r /\ 0 <= r /\ r < p /\ r \in Int /\ 1 \in Int
    BY <1>1
  <2> HIDE DEF r, p
  <2> QED
    BY <1>1, <2>1, DivisionOnce
<1>3. e \in Ones(a, W)
  <2>1. (a \div Pow[e]) % 2 = 1
    <3>1. 1 % 2 = 1
      OBVIOUS
    <3> QED
      BY <1>2, <3>1
  <2> QED
    BY <2>1 DEF Ones
<1>4. ASSUME NEW j \in Ones(a, W) PROVE j <= e
  <2> SUFFICES ASSUME j > e PROVE FALSE
    BY <1>4 DEF Ones
  <2>1. j \in Nat /\ e + 1 \in Nat /\ (e + 1 < j \/ e + 1 = j) /\ (a \div Pow[j]) % 2 = 1
    BY <1>1 DEF Ones
  <2>2. Pow[j] \in Nat \ {0} /\ Pow[e + 1] <= Pow[j]
    <3>1. Pow[j] \in Nat \ {0} /\ Pow[e + 1] \in Nat \ {0}
      BY <2>1, PowIs
    <3> QED
      BY <2>1, <3>1, PowOrder
  <2> DEFINE q == Pow[j]
  <2>3. a = q * 0 + a /\ 0 <= a /\ a < q /\ 0 \in Int /\ a \in Int /\ q \in Nat \ {0}
    BY <1>1, <2>2
  <2> HIDE DEF q
  <2>4. a \div q = 0
    BY <2>3, DivisionOnce, Zenon
  <2>5. 0 % 2 = 0
    OBVIOUS
  <2> QED
    BY <2>1, <2>4, <2>5 DEF q
<1>5. \A j \in Ones(a, W) : j \in Int
  BY DEF Ones
<1> DEFINE B == Ones(a, W)
<1>6. e \in B /\ e \in Int /\ \A j \in B : j <= e /\ j \in Int
  BY <1>3, <1>4, <1>5
<1> HIDE DEF B
<1>7. HighestOf(B) \in B /\ HighestOf(B) >= e
  BY <1>6 DEF HighestOf
<1> DEFINE v == HighestOf(B)
<1>8. v \in B /\ v \in Int /\ (v <= e /\ v >= e)
  BY <1>6, <1>7
<1> HIDE DEF v
<1>9. v = e
  BY <1>6, <1>8
<1> QED
  BY <1>9 DEF v, B

\* The last bit of an odd number, shifted.
LEMMA LowestIs ==
  ASSUME NEW W \in Nat, NEW a \in Nat, NEW e \in 0 .. W - 1, NEW x \in Nat, a = x * Pow[e], x % 2 # 0
  PROVE  LowestOf(Ones(a, W)) = e
<1> DEFINE p == Pow[e]
<1>1. p \in Nat \ {0} /\ e \in Nat
  BY PowIs
<1>2. a \div p = x
  <2>1. a = p * x + 0 /\ 0 < p /\ 0 \in Int /\ x \in Int
    BY <1>1
  <2> HIDE DEF p
  <2> QED
    BY <1>1, <2>1, DivisionOnce
<1>3. e \in Ones(a, W)
  <2>1. (a \div Pow[e]) % 2 = 1
    BY <1>2
  <2> QED
    BY <2>1 DEF Ones
<1>4. ASSUME NEW j \in Ones(a, W) PROVE e <= j
  <2> SUFFICES ASSUME j < e PROVE FALSE
    BY <1>4 DEF Ones
  <2> DEFINE d == e - j - 1
  <2>1. d \in Nat /\ j \in Nat /\ j + (d + 1) = e /\ (a \div Pow[j]) % 2 = 1
    BY <1>1 DEF Ones
  <2> HIDE DEF d
  <2>2. Pow[j] \in Nat \ {0} /\ Pow[d] \in Nat \ {0} /\ Pow[d + 1] = 2 * Pow[d]
    BY <2>1, PowIs
  <2>3. Pow[e] = Pow[j] * Pow[d + 1]
    <3>1. d + 1 \in Nat /\ j \in Nat
      BY <2>1
    <3>2. Pow[j + (d + 1)] = Pow[j] * Pow[d + 1]
      BY <3>1, PowSum
    <3> QED
      BY <2>1, <3>2
  <2> DEFINE q == Pow[j]
             y == x * Pow[d]
  <2>4. y \in Nat /\ a = q * (2 * y)
    <3>1. y \in Nat
      BY <2>2, Product
    <3>2. x * (q * (2 * Pow[d])) = q * (2 * (x * Pow[d]))
      BY <2>2
    <3> QED
      BY <2>2, <2>3, <3>1, <3>2
  <2>5. q \in Nat \ {0}
    BY <2>2
  <2> HIDE DEF q, y
  <2>6. a = q * (2 * y) + 0 /\ 2 * y \in Int /\ 0 < q
    BY <2>4, <2>5
  <2>7. a \div q = 2 * y
    BY <2>5, <2>6, DivisionOnce
  <2>8. (2 * y) % 2 = 0
    BY <2>4
  <2> QED
    BY <2>1, <2>7, <2>8 DEF q
<1>5. \A j \in Ones(a, W) : j \in Int
  BY DEF Ones
<1> DEFINE B == Ones(a, W)
<1>6. e \in B /\ e \in Int /\ \A j \in B : e <= j /\ j \in Int
  BY <1>3, <1>4, <1>5
<1> HIDE DEF B
<1>7. LowestOf(B) \in B /\ LowestOf(B) <= e
  BY <1>6 DEF LowestOf
<1> DEFINE v == LowestOf(B)
<1>8. v \in B /\ v \in Int /\ (v <= e /\ v >= e)
  BY <1>6, <1>7
<1> HIDE DEF v
<1>9. v = e
  BY <1>6, <1>8
<1> QED
  BY <1>9 DEF v, B

\* clz: so many shifts to the left bring the first bit to the front.
LEMMA LeadingIs ==
  ASSUME NEW n \in Nat, NEW a \in Nat, a # 0, a < Pow[Pow[n]]
  PROVE  \E z \in 0 .. Pow[n] - 1 : /\ Leading(a, Pow[n]) = z
                                   /\ Pow[Pow[n] - 1 - z] <= a /\ a < Pow[Pow[n] - z]
                                   /\ HighestOf(Ones(a, Pow[n])) = Pow[n] - 1 - z
<1> DEFINE W == Pow[n]
<1>1. W \in Nat \ {0} /\ Pow[W] \in Nat \ {0} /\ Pow[0] = 1 /\ W <= W
  BY PowIs
<1>2. PICK f : /\ Leading(a, W) = f[n].n /\ f[0] = [a |-> a, n |-> 0]
               /\ \A k \in 1 .. n : f[k] = LeadingStep(f[k - 1], W \div Pow[k], W)
  BY LeadingRuns
<1> DEFINE P(k) == k <= n => LeadingHolds(f[k], a, Pow[n - k], W)
<1>3. P(0)
  <2>1. f[0] \in Count /\ f[0].a = a /\ f[0].n = 0
    BY <1>2 DEF Count
  <2>2. n - 0 = n /\ W - W = 0 /\ 0 + W <= W /\ a * 1 = a /\ Pow[0] <= a
    BY <1>1
  <2> QED
    BY <1>1, <2>1, <2>2 DEF LeadingHolds
<1>4. ASSUME NEW m \in Nat, P(m) PROVE P(m + 1)
  <2> SUFFICES ASSUME m + 1 <= n PROVE LeadingHolds(f[m + 1], a, Pow[n - (m + 1)], W)
    OBVIOUS
  <2> DEFINE k == m + 1
  <2>1. k \in 1 .. n /\ k - 1 = m /\ m <= n
    OBVIOUS
  <2> HIDE DEF k
  <2>2. PICK b \in Nat : b = W \div Pow[k] /\ b = Pow[n - k] /\ 2 * b = Pow[n - (k - 1)] /\ 2 * b <= W
    BY <2>1, StepWidths
  <2>3. LeadingHolds(f[m], a, 2 * b, W)
    BY <1>4, <2>1, <2>2
  <2> HIDE DEF P, W
  <2>4. LeadingHolds(LeadingStep(f[m], b, W), a, b, W)
    <3>1. W \in Nat
      BY <1>1
    <3> QED
      BY <2>2, <2>3, <3>1, LeadingStepHolds
  <2>5. f[k] = LeadingStep(f[m], b, W)
    BY <1>2, <2>1, <2>2
  <2>6. LeadingHolds(f[k], a, Pow[n - k], W)
    BY <2>2, <2>4, <2>5
  <2> QED
    BY <2>6 DEF k
<1>5. P(n)
  <2> DEFINE T == {k \in Nat : P(k)}
  <2> HIDE DEF P
  <2>1. 0 \in T /\ \A k \in Nat : k \in T => k + 1 \in T
    BY <1>3, <1>4
  <2> HIDE DEF T
  <2>2. \A k \in Nat : k \in T
    BY <2>1, NextNumber
  <2> QED
    BY <2>2 DEF T
<1>6. LeadingHolds(f[n], a, 1, W)
  <2>1. n <= n /\ n - n = 0
    OBVIOUS
  <2> HIDE DEF W
  <2> QED
    BY <1>1, <1>5, <2>1
<1> DEFINE z == f[n].n
           e == W - 1 - z
<1>7. /\ z \in Nat /\ e \in 0 .. W - 1 /\ e \in Nat /\ e + z = W - 1 /\ (e + 1) + z = W
      /\ a * Pow[z] < Pow[W] /\ Pow[W - 1] <= a * Pow[z]
  BY <1>1, <1>6 DEF LeadingHolds, Count
<1> HIDE DEF z, W
<1>8. /\ Pow[z] \in Nat \ {0} /\ Pow[e] \in Nat \ {0} /\ Pow[e + 1] \in Nat \ {0}
      /\ Pow[W - 1] = Pow[e] * Pow[z] /\ Pow[W] = Pow[e + 1] * Pow[z]
  <2> HIDE DEF e
  <2>1. Pow[z] \in Nat \ {0} /\ Pow[e] \in Nat \ {0} /\ Pow[e + 1] \in Nat \ {0}
    BY <1>7, PowIs
  <2>2. Pow[e + z] = Pow[e] * Pow[z] /\ Pow[(e + 1) + z] = Pow[e + 1] * Pow[z]
    <3>1. e \in Nat /\ z \in Nat /\ e + 1 \in Nat
      BY <1>7
    <3> QED
      BY <3>1, PowSum
  <2> QED
    BY <1>7, <2>1, <2>2
<1>9. Pow[e] <= a /\ a < Pow[e + 1]
  <2> DEFINE g == Pow[z]
             lower == Pow[e]
             upper == Pow[e + 1]
  <2>1. /\ g \in Nat \ {0} /\ lower \in Int /\ upper \in Int
        /\ g * a < g * upper /\ g * lower <= g * a
    <3>1. a * g = g * a /\ lower * g = g * lower /\ upper * g = g * upper
      BY <1>8
    <3> QED
      BY <1>7, <1>8, <3>1
  <2> HIDE DEF g, lower, upper
  <2>2. lower <= a /\ a < upper
    BY <2>1, Orders
  <2> QED
    BY <2>2 DEF lower, upper
<1>10. HighestOf(Ones(a, W)) = e
  <2> HIDE DEF e
  <2> QED
    BY <1>1, <1>7, <1>9, HighestIs
<1>11. e + 1 = W - z /\ z \in 0 .. W - 1
  BY <1>1, <1>7
<1>12. \E y \in 0 .. W - 1 : Leading(a, W) = y /\ Pow[W - 1 - y] <= a /\ a < Pow[W - y]
                            /\ HighestOf(Ones(a, W)) = W - 1 - y
  <2>1. Leading(a, W) = z
    BY <1>2 DEF z
  <2> QED
    BY <1>9, <1>10, <1>11, <2>1
<1> QED
  BY <1>12 DEF W

\* ctz
LEMMA TrailingIs ==
  ASSUME NEW n \in Nat, NEW a \in Nat, a # 0, a < Pow[Pow[n]]
  PROVE  Trailing(a, Pow[n]) = LowestOf(Ones(a, Pow[n]))
<1> DEFINE W == Pow[n]
<1>1. W \in Nat \ {0} /\ Pow[W] \in Nat \ {0} /\ Pow[0] = 1 /\ W <= W
  BY PowIs
<1>2. PICK f : /\ Trailing(a, W) = f[n].n /\ f[0] = [a |-> a, n |-> 0]
               /\ \A k \in 1 .. n : f[k] = TrailingStep(f[k - 1], W \div Pow[k])
  BY TrailingRuns
<1> DEFINE P(k) == k <= n => TrailingHolds(f[k], a, Pow[n - k], W)
<1>3. P(0)
  <2>1. f[0] \in Count /\ f[0].a = a /\ f[0].n = 0
    BY <1>2 DEF Count
  <2>2. n - 0 = n /\ 0 + W <= W /\ a * 1 = a
    BY <1>1
  <2>3. a % Pow[W] = a
    <3> DEFINE m == Pow[W]
    <3>1. a = m * 0 + a /\ 0 <= a /\ a < m /\ 0 \in Int /\ m \in Nat \ {0}
      BY <1>1
    <3> HIDE DEF m
    <3>2. a % m = a
      BY <3>1, DivisionOnce
    <3> QED
      BY <3>2 DEF m
  <2> QED
    BY <1>1, <2>1, <2>2, <2>3 DEF TrailingHolds
<1>4. ASSUME NEW m \in Nat, P(m) PROVE P(m + 1)
  <2> SUFFICES ASSUME m + 1 <= n PROVE TrailingHolds(f[m + 1], a, Pow[n - (m + 1)], W)
    OBVIOUS
  <2> DEFINE k == m + 1
  <2>1. k \in 1 .. n /\ k - 1 = m /\ m <= n
    OBVIOUS
  <2> HIDE DEF k
  <2>2. PICK b \in Nat : b = W \div Pow[k] /\ b = Pow[n - k] /\ 2 * b = Pow[n - (k - 1)] /\ 2 * b <= W
    BY <2>1, StepWidths
  <2>3. TrailingHolds(f[m], a, 2 * b, W)
    BY <1>4, <2>1, <2>2
  <2> HIDE DEF P, W
  <2>4. TrailingHolds(TrailingStep(f[m], b), a, b, W)
    <3>1. W \in Nat
      BY <1>1
    <3> QED
      BY <2>2, <2>3, <3>1, TrailingStepHolds
  <2>5. f[k] = TrailingStep(f[m], b)
    BY <1>2, <2>1, <2>2
  <2>6. TrailingHolds(f[k], a, Pow[n - k], W)
    BY <2>2, <2>4, <2>5
  <2> QED
    BY <2>6 DEF k
<1>5. P(n)
  <2> DEFINE T == {k \in Nat : P(k)}
  <2> HIDE DEF P
  <2>1. 0 \in T /\ \A k \in Nat : k \in T => k + 1 \in T
    BY <1>3, <1>4
  <2> HIDE DEF T
  <2>2. \A k \in Nat : k \in T
    BY <2>1, NextNumber
  <2> QED
    BY <2>2 DEF T
<1>6. TrailingHolds(f[n], a, 1, W) /\ Pow[1] = 2
  <2>1. n <= n /\ n - n = 0
    OBVIOUS
  <2> HIDE DEF W
  <2> QED
    BY <1>1, <1>5, <2>1, WidthsArePowers
<1> DEFINE x == f[n].a
           e == f[n].n
<1>7. x \in Nat /\ e \in 0 .. W - 1 /\ a = x * Pow[e] /\ x % 2 # 0
  BY <1>1, <1>6 DEF TrailingHolds, Count
<1> HIDE DEF x, e, W
<1>8. LowestOf(Ones(a, W)) = e
  BY <1>1, <1>7, LowestIs
<1> QED
  BY <1>2, <1>8 DEF e, W

-------------------------------------------------------------------------------
(* Long division. *)

\* One bit more of a number
BitOf(a, p) == (a \div p) - 2 * (a \div (2 * p))

\* A number less its first bits, with one bit taken off.
LEMMA BitOff ==
  ASSUME NEW a \in Nat, NEW p \in Nat \ {0}
  PROVE  /\ BitOf(a, p) \in {0, 1} /\ a \div p = 2 * (a \div (2 * p)) + BitOf(a, p)
         /\ a % (2 * p) = BitOf(a, p) * p + (a % p)
<1> DEFINE P == 2 * p
           t == a \div P
           u == a % P
           v == a \div p
           w == a % p
<1>1. P \in Nat \ {0} /\ P = 2 * p
  OBVIOUS
<1> HIDE DEF P
<1>2. /\ t \in Int /\ u \in Int /\ 0 <= u /\ u < P /\ a = P * t + u
      /\ v \in Int /\ w \in Int /\ 0 <= w /\ w < p /\ a = p * v + w
  <2>1. a \in Int
    OBVIOUS
  <2> QED
    BY <1>1, <2>1, DivisionIs
<1> HIDE DEF t, u, v, w
<1>3. CASE u < p
  <2> DEFINE e == 2 * t
  <2>1. a \in Int /\ a = p * e + u /\ e \in Int /\ u \in Int /\ 0 <= u /\ u < p
    BY <1>1, <1>2, <1>3
  <2> HIDE DEF e
  <2>2. a \div p = e /\ a % p = u
    BY <2>1, DivisionOnce
  <2>3. BitOf(a, p) = 0
    BY <1>2, <2>2 DEF BitOf, t, P, e
  <2>4. 0 * p + u = u
    BY <1>2
  <2> QED
    BY <1>2, <2>2, <2>3, <2>4 DEF t, u, P, e
<1>4. CASE ~(u < p)
  <2> DEFINE r == u - p
             d == 2 * t + 1
  <2>1. a = p * d + r /\ d \in Int /\ r \in Int /\ 0 <= r /\ r < p
    <3>1. p * d = P * t + p
      BY <1>1, <1>2
    <3>2. P * t \in Int
      BY <1>1, <1>2
    <3> QED
      BY <1>1, <1>2, <1>4, <3>1, <3>2
  <2> HIDE DEF r, d
  <2>2. a \div p = d /\ a % p = r
    <3>1. a \in Int
      OBVIOUS
    <3> QED
      BY <2>1, <3>1, DivisionOnce
  <2>3. BitOf(a, p) = 1
    BY <1>2, <2>2 DEF BitOf, t, P, d
  <2>4. 1 * p + r = u
    BY <1>2 DEF r
  <2> QED
    BY <1>2, <2>2, <2>3, <2>4 DEF t, u, P, d
<1> QED
  BY <1>3, <1>4

\* The first bit of (bit * p + r) * q + c, and what comes of the others when
\* it is shifted out
ShiftedOut(x, bit, r, q, c, G) == x \div G = bit /\ (2 * x) % (2 * G) = r * (2 * q) + 2 * c

\* The first bit of a word and what is left when it is shifted out.
LEMMA FirstBit ==
  ASSUME NEW p \in Nat \ {0}, NEW q \in Nat \ {0}, NEW G, Factors(p, q, G),
         NEW bit \in {0, 1}, NEW r \in Nat, r < p, NEW c \in Nat, c < q
  PROVE  ShiftedOut((bit * p + r) * q + c, bit, r, q, c, G)
<1> DEFINE y == r * q + c
           x == (bit * p + r) * q + c
<1>0. G = p * q /\ G \in Nat \ {0}
  BY Product DEF Factors
<1>1. r * q \in Nat /\ r * q <= G - q
  <2>1. q * r <= q * (p - 1) /\ q * (p - 1) = q * p - q /\ q * r = r * q /\ q * p = p * q
    BY Grows
  <2>2. r * q \in Nat
    BY Product
  <2> QED
    BY <1>0, <2>1, <2>2
<1>2. y \in Nat /\ y < G
  BY <1>0, <1>1
<1>3. x = G * bit + y
  <2>1. (bit * p + r) * q = (p * q) * bit + r * q
    OBVIOUS
  <2>2. G * bit \in Int
    BY <1>0
  <2> QED
    BY <1>0, <1>1, <2>1, <2>2
<1>4. 2 * x = (2 * G) * bit + 2 * y /\ 2 * y = r * (2 * q) + 2 * c
  <2>1. 2 * (r * q) = r * (2 * q)
    OBVIOUS
  <2>2. 2 * (G * bit) = (2 * G) * bit /\ G * bit \in Int
    BY <1>0
  <2> HIDE DEF x
  <2> QED
    BY <1>1, <1>2, <1>3, <2>1, <2>2
<1>5. x \in Int
  BY <1>0, <1>2, <1>3
<1> DEFINE M == 2 * G
           d == 2 * x
           e == 2 * y
<1>6. M \in Nat \ {0} /\ d \in Int /\ e \in Int /\ 0 <= e /\ e < M /\ d = M * bit + e /\ bit \in Int
  BY <1>0, <1>2, <1>4, <1>5
<1>7. y \in Int /\ 0 <= y
  BY <1>2
<1> HIDE DEF x, y, M, d, e
<1>8. x \div G = bit
  BY <1>0, <1>2, <1>3, <1>5, <1>6, <1>7, DivisionOnce
<1>9. d % M = e
  BY <1>6, DivisionOnce
<1> QED
  BY <1>4, <1>8, <1>9 DEF ShiftedOut, x, M, d, e

\* Whether b goes into x, as the code finds out: by the sign of b - x - 1
LEMMA Comparing ==
  ASSUME NEW b \in Nat \ {0}, b <= Modulus, NEW x \in Nat, x < Modulus,
         b <= Modulus \div 2 => x < 2 * b, b > Modulus \div 2 => x >= b
  PROVE  Signed((b - x - 1) % Modulus) < 0 <=> x >= b
<1> DEFINE G == Modulus \div 2
           M == Modulus
           d == b - x - 1
<1>1. M \in Nat \ {0} /\ G \in Nat \ {0} /\ M = 2 * G
  <2>1. Modulus = 2 * (Half * Quarter) /\ Half * Quarter \in Nat \ {0} /\ Modulus \div 2 = Half * Quarter
    BY HalvesAre
  <2> DEFINE y == Half * Quarter
  <2> HIDE DEF y
  <2>2. Modulus = 2 * y /\ y \in Nat \ {0} /\ G = y
    BY <2>1 DEF y
  <2> QED
    BY <2>2
<1> HIDE DEF G, M
<1>2. b <= M /\ x < M /\ (b <= G => x < 2 * b) /\ (b > G => x >= b)
  BY DEF G, M
<1>3. \A y \in Int : Signed(y) < 0 <=> (IF y < G THEN y ELSE y - M) < 0
  BY DEF Signed, G, M
<1>4. CASE x >= b
  <2>1. d \in Int /\ d < 0 /\ d >= -G
    BY <1>1, <1>2, <1>4
  <2> DEFINE y == d + M
  <2>2. d = M * (-1) + y /\ y \in Int /\ 0 <= y /\ y < M /\ -1 \in Int /\ y >= G
    BY <1>1, <2>1
  <2> HIDE DEF y, d
  <2>3. d % M = y
    BY <1>1, <2>1, <2>2, DivisionOnce
  <2>4. Signed(y) < 0
    BY <1>1, <1>3, <2>2
  <2> QED
    BY <1>4, <2>3, <2>4 DEF d, M
<1>5. CASE ~(x >= b)
  <2>1. d = M * 0 + d /\ d \in Int /\ 0 <= d /\ d < M /\ 0 \in Int /\ d < G
    BY <1>1, <1>2, <1>5
  <2> HIDE DEF d
  <2>2. d % M = d
    BY <1>1, <2>1, DivisionOnce
  <2>3. ~(Signed(d) < 0)
    BY <1>1, <1>3, <2>1
  <2> QED
    BY <1>5, <2>2, <2>3 DEF d, M
<1> QED
  BY <1>4, <1>5

\* A number below the modulus is itself.
LEMMA Within ==
  ASSUME NEW x \in Int, 0 <= x, x < Modulus
  PROVE  x % Modulus = x
<1> DEFINE M == Modulus
<1>1. M \in Nat \ {0}
  BY HalvesAre
<1>2. x < M
  OBVIOUS
<1> HIDE DEF M
<1>3. x = M * 0 + x /\ 0 \in Int
  BY <1>1
<1>4. x % M = x
  BY <1>1, <1>2, <1>3, DivisionOnce
<1> QED
  BY <1>4 DEF M

\* What the rounds have found when m bits of the numerator are left: their
\* quotient Q, whose last bit is still in wrap, and the remainder.
RoundHolds(s, a, b, m, Q) ==
  /\ Q \in Nat /\ Q < Pow[Bits - m] /\ s.rem \in Nat /\ s.rem < b
  /\ a \div Pow[m] = Q * b + s.rem
  /\ s.a = (a % Pow[m]) * Pow[Bits - m] + (Q \div 2) /\ s.wrap = Q % 2

\* The powers of two at which a round splits the numerator.
LEMMA PowsOfRound ==
  ASSUME NEW m \in 1 .. Bits
  PROVE  \E p, q \in Nat \ {0} :
           /\ p = Pow[m - 1] /\ q = Pow[Bits - m] /\ Pow[m] = 2 * p /\ Pow[Bits - (m - 1)] = 2 * q
           /\ Factors(p, q, Modulus \div 2) /\ Modulus = 2 * (Modulus \div 2)
<1> DEFINE i == m - 1
           j == Bits - m
           p == Pow[i]
           q == Pow[j]
<1>1. i \in Nat /\ j \in Nat /\ m = i + 1 /\ Bits - (m - 1) = j + 1 /\ Bits = (i + j) + 1 /\ i + j \in Nat
  BY Widths
<1> HIDE DEF i, j
<1>2. p \in Nat \ {0} /\ q \in Nat \ {0} /\ Pow[i + 1] = 2 * p /\ Pow[j + 1] = 2 * q
  BY <1>1, PowIs
<1>3. Pow[i + j] = p * q
  BY <1>1, PowSum
<1>4. Modulus = 2 * (p * q)
  <2>1. Pow[(i + j) + 1] = 2 * Pow[i + j]
    BY <1>1, PowIs
  <2> QED
    BY <1>1, <1>3, <2>1 DEF Modulus
<1> HIDE DEF p, q
<1>5. Modulus \div 2 = p * q
  <2> DEFINE y == p * q
  <2>1. y \in Nat /\ Modulus = 2 * y
    BY <1>2, <1>4, Product
  <2> HIDE DEF y
  <2>2. Modulus \div 2 = y
    BY <2>1
  <2> QED
    BY <2>2 DEF y
<1>6. Factors(p, q, Modulus \div 2)
  BY <1>2, <1>5 DEF Factors
<1> QED
  BY <1>1, <1>2, <1>4, <1>5, <1>6 DEF p, q, i, j

\* One round of the long division takes one bit of the numerator.
LEMMA RoundStep ==
  ASSUME NEW a \in Nat, a < Modulus, NEW b \in Nat \ {0}, b < Modulus, NEW m \in 1 .. Bits,
         NEW s, NEW Q, RoundHolds(s, a, b, m, Q), b > Modulus \div 2 => m = 1 /\ Q = 0 /\ a >= b
  PROVE  \E R : RoundHolds(Round(s, b), a, b, m - 1, R)
<1> DEFINE G == Modulus \div 2
<1>1. PICK p, q \in Nat \ {0} :
        /\ p = Pow[m - 1] /\ q = Pow[Bits - m] /\ Pow[m] = 2 * p /\ Pow[Bits - (m - 1)] = 2 * q
        /\ Factors(p, q, G) /\ Modulus = 2 * G
  BY PowsOfRound
<1>2. /\ Q \in Nat /\ Q < q /\ s.rem \in Nat /\ s.rem < b /\ a \div (2 * p) = Q * b + s.rem
      /\ s.a = (a % (2 * p)) * q + (Q \div 2) /\ s.wrap = Q % 2
  BY <1>1 DEF RoundHolds
<1> DEFINE bit == BitOf(a, p)
           v == a \div p
           r == a % p
           c == Q \div 2
           w == Q % 2
           y == Q * b
           x == 2 * s.rem + bit
<1>3. bit \in {0, 1} /\ v = 2 * (y + s.rem) + bit /\ a % (2 * p) = bit * p + r
  BY <1>2, BitOff
<1>4. v \in Nat /\ v <= a /\ r \in Nat /\ r < p
  <2>1. v \in Int /\ r \in Int /\ 0 <= r /\ r < p /\ a = p * v + r
    BY DivisionIs
  <2>2. y \in Nat
    BY <1>2, Product
  <2> HIDE DEF v, r, bit, y
  <2>3. v \in Nat
    BY <1>2, <1>3, <2>1, <2>2
  <2>4. v * 1 <= v * p /\ v * p = p * v /\ v * 1 = v /\ p * v \in Int
    BY <2>3, Grows
  <2> QED
    BY <2>1, <2>3, <2>4
<1>5. c \in Nat /\ c < q /\ w \in {0, 1} /\ Q = 2 * c + w
  BY <1>2
<1>6. y \in Nat
  BY <1>2, Product
<1>7. x \in Nat /\ v = 2 * y + x /\ x < Modulus /\ 2 * s.rem \in Nat /\ 2 * s.rem < Modulus /\ x < 2 * b
  <2>1. Modulus \in Nat
    BY HalvesAre
  <2> HIDE DEF y, v, bit
  <2> QED
    BY <1>2, <1>3, <1>4, <1>6, <2>1
<1>8. s.a \div G = bit /\ (2 * s.a) % Modulus = r * (2 * q) + 2 * c
  <2> HIDE DEF bit, r, c, G
  <2>1. ShiftedOut((bit * p + r) * q + c, bit, r, q, c, G)
    BY <1>1, <1>3, <1>4, <1>5, FirstBit
  <2>2. s.a = (bit * p + r) * q + c
    BY <1>2, <1>3 DEF c
  <2>3. ShiftedOut(s.a, bit, r, q, c, G)
    BY <2>1, <2>2
  <2> QED
    BY <1>1, <2>3 DEF ShiftedOut
<1>9. b > G => x >= b
  <2> SUFFICES ASSUME b > G PROVE x >= b
    OBVIOUS
  <2>1. m = 1 /\ Q = 0 /\ a >= b /\ Pow[0] = 1
    BY PowIs
  <2>2. p = 1
    BY <1>1, <2>1
  <2>3. v = a
    BY <2>2
  <2>4. y = 0
    BY <2>1
  <2> HIDE DEF v, y, x
  <2> QED
    BY <1>4, <1>7, <2>1, <2>3, <2>4
<1> DEFINE wrap == IF x >= b THEN 1 ELSE 0
           t == Round(s, b)
<1> HIDE DEF bit, v, r, c, w, y
<1>10. t.rem = x - b * wrap /\ t.a = r * (2 * q) + 2 * c + w /\ t.wrap = wrap
  <2>1. ((2 * s.rem) % Modulus) + s.a \div (Modulus \div 2) = x
    <3>1. (2 * s.rem) % Modulus = 2 * s.rem
      BY <1>7, Within
    <3> QED
      BY <1>8, <3>1
  <2> HIDE DEF x
  <2>2. (IF Signed((b - x - 1) % Modulus) < 0 THEN 1 ELSE 0) = wrap
    <3>1. b <= Modulus /\ (b <= Modulus \div 2 => x < 2 * b) /\ (b > Modulus \div 2 => x >= b)
      <4>1. Modulus \in Nat
        BY HalvesAre
      <4> QED
        BY <1>7, <1>9, <4>1
    <3>2. x \in Nat /\ x < Modulus
      BY <1>7
    <3>3. Signed((b - x - 1) % Modulus) < 0 <=> x >= b
      BY <3>1, <3>2, Comparing
    <3> QED
      BY <3>3
  <2>3. (x - b * wrap) % Modulus = x - b * wrap
    <3> DEFINE d == x - b * wrap
    <3>1. d \in Int /\ 0 <= d /\ d < Modulus
      <4>1. Modulus \in Nat
        BY HalvesAre
      <4>2. CASE x >= b
        BY <1>7, <4>1, <4>2
      <4>3. CASE ~(x >= b)
        BY <1>7, <4>1, <4>3
      <4> QED
        BY <4>2, <4>3
    <3> HIDE DEF d
    <3>2. d % Modulus = d
      BY <3>1, Within
    <3> QED
      BY <3>2 DEF d
  <2> HIDE DEF wrap
  <2>4. t = [rem |-> (x - b * wrap) % Modulus, a |-> ((2 * s.a) % Modulus) + s.wrap, wrap |-> wrap]
    BY <2>1, <2>2 DEF Round
  <2>5. t.rem = (x - b * wrap) % Modulus /\ t.a = ((2 * s.a) % Modulus) + s.wrap /\ t.wrap = wrap
    BY <2>4
  <2> QED
    BY <1>2, <1>8, <2>3, <2>5 DEF w
<1> HIDE DEF x, t
<1> DEFINE R == 2 * Q + wrap
<1>11. wrap \in {0, 1} /\ R \in Nat /\ R < 2 * q /\ R \div 2 = Q /\ R % 2 = wrap
  BY <1>2
<1>12. t.rem \in Nat /\ t.rem < b /\ v = R * b + t.rem
  <2>1. CASE x >= b
    <3>1. wrap = 1 /\ R = 2 * Q + 1 /\ b * 1 = b
      BY <2>1
    <3>2. (2 * Q + 1) * b = 2 * y + b
      BY <1>2 DEF y
    <3>3. t.rem = x - b
      BY <1>10, <3>1
    <3> HIDE DEF R, wrap
    <3>4. R * b = 2 * y + b
      BY <3>1, <3>2
    <3> QED
      BY <1>6, <1>7, <2>1, <3>3, <3>4
  <2>2. CASE ~(x >= b)
    <3>1. wrap = 0 /\ R = 2 * Q /\ b * 0 = 0
      BY <1>2, <2>2
    <3>2. (2 * Q) * b = 2 * y
      BY <1>2 DEF y
    <3>3. t.rem = x
      BY <1>7, <1>10, <3>1
    <3> HIDE DEF R, wrap
    <3>4. R * b = 2 * y
      BY <3>1, <3>2
    <3> QED
      BY <1>6, <1>7, <2>2, <3>3, <3>4
  <2> QED
    BY <2>1, <2>2
<1> HIDE DEF R, wrap
<1>13. t.a = r * (2 * q) + (R \div 2)
  <2> DEFINE z == r * (2 * q)
  <2>1. z \in Int
    <3>1. r \in Nat
      BY <1>4
    <3> QED
      BY <3>1, Product
  <2> HIDE DEF z
  <2> QED
    BY <1>5, <1>10, <1>11, <2>1 DEF z
<1>14. RoundHolds(t, a, b, m - 1, R)
  BY <1>1, <1>10, <1>11, <1>12, <1>13 DEF RoundHolds, v, r
<1> QED
  BY <1>14 DEF t

RoundState == [rem : Int, a : Int, wrap : Int]

\* The recursion of LongDivision
LEMMA RoundsRun ==
  ASSUME NEW a \in Nat, NEW b \in Nat, NEW n \in 0 .. Bits, n = clzdi2(b) - clzdi2(a) + 1
  PROVE  \E f : /\ f[0] = [rem |-> a \div Pow[n], a |-> (a * Pow[Bits - n]) % Modulus, wrap |-> 0]
                /\ \A k \in Nat \ {0} : f[k] = Round(f[k - 1], b)
                /\ LongDivision(a, b) = [quotient |-> ((2 * f[n].a) % Modulus) + f[n].wrap,
                                         remainder |-> f[n].rem]
<1> DEFINE first == [rem |-> a \div Pow[n], a |-> (a * Pow[Bits - n]) % Modulus, wrap |-> 0]
           S == [p \in Nat \X RoundState |-> Round(p[2], b)]
           Is(f) == f = [k \in Nat |-> IF k = 0 THEN first ELSE Round(f[k - 1], b)]
<1>0. Modulus \in Nat \ {0}
  BY HalvesAre
<1>m. \A x \in Int : x % Modulus \in Int
  <2> DEFINE M == Modulus
  <2>1. M \in Nat \ {0}
    BY <1>0
  <2> HIDE DEF M
  <2>2. \A x \in Int : x % M \in Int
    BY <2>1, DivisionIs
  <2> QED
    BY <2>2 DEF M
<1>1. S \in [Nat \X RoundState -> RoundState]
  <2>1. ASSUME NEW s \in RoundState PROVE Round(s, b) \in RoundState
    <3> DEFINE rem == ((2 * s.rem) % Modulus) + s.a \div (Modulus \div 2)
               wrap == IF Signed((b - rem - 1) % Modulus) < 0 THEN 1 ELSE 0
    <3>1. s.rem \in Int /\ s.a \in Int /\ s.wrap \in Int
      BY DEF RoundState
    <3>2. rem \in Int
      <4> DEFINE G == Modulus \div 2
                 y == Half * Quarter
      <4>1. G = y /\ y \in Nat \ {0}
        BY HalvesAre
      <4> HIDE DEF y
      <4>2. G \in Nat \ {0}
        BY <4>1
      <4> HIDE DEF G
      <4>3. s.a \div G \in Int
        BY <3>1, <4>2, DivisionIs
      <4>4. (2 * s.rem) % Modulus \in Int
        <5>1. 2 * s.rem \in Int
          BY <3>1
        <5> QED
          BY <1>m, <5>1
      <4>5. (s.a \div G) + ((2 * s.rem) % Modulus) \in Int
        BY <4>3, <4>4
      <4> QED
        BY <4>3, <4>4 DEF G
    <3> HIDE DEF rem
    <3>3. wrap \in Int
      OBVIOUS
    <3> HIDE DEF wrap
    <3>4. (rem - b * wrap) % Modulus \in Int
      <4>1. rem - b * wrap \in Int
        BY <3>2, <3>3
      <4> QED
        BY <1>m, <4>1
    <3>5. ((2 * s.a) % Modulus) + s.wrap \in Int
      <4>1. 2 * s.a \in Int
        BY <3>1
      <4>2. (2 * s.a) % Modulus \in Int
        BY <1>m, <4>1
      <4> QED
        BY <3>1, <4>2
    <3>6. Round(s, b) = [rem |-> (rem - b * wrap) % Modulus, a |-> ((2 * s.a) % Modulus) + s.wrap,
                         wrap |-> wrap]
      BY DEF Round, rem, wrap
    <3> QED
      BY <3>3, <3>4, <3>5, <3>6 DEF RoundState
  <2> QED
    BY <2>1, Zenon
<1>2. first \in RoundState
  <2>1. Pow[n] \in Nat \ {0}
    BY PowIs
  <2>2. a \div Pow[n] \in Int
    BY <2>1
  <2>3. (a * Pow[Bits - n]) % Modulus \in Int
    <3>1. Bits - n \in Nat
      BY Widths
    <3>2. Pow[Bits - n] \in Nat
      BY <3>1, PowIs
    <3>3. a * Pow[Bits - n] \in Int
      BY <3>2
    <3> QED
      BY <1>m, <3>3
  <2> QED
    BY <2>2, <2>3 DEF RoundState
<1>3. PICK g : Rises(g, RoundState, first, S)
  <2> HIDE DEF S, first
  <2> QED
    BY <1>1, <1>2, Rising
<1>4. g \in [Nat -> RoundState] /\ g[0] = first
  BY <1>3 DEF Rises
<1> HIDE DEF first
<1>5. ASSUME NEW k \in Nat \ {0} PROVE g[k] = Round(g[k - 1], b)
  <2>1. g[k] = S[<<k, g[k - 1]>>]
    <3> HIDE DEF S
    <3> QED
      BY <1>3 DEF Rises
  <2>2. k \in Nat /\ g[k - 1] \in RoundState
    BY <1>4, k - 1 \in Nat
  <2> QED
    BY <2>1, <2>2
<1>6. Is(g)
  BY <1>4, <1>5
<1> DEFINE Result(f) == [quotient |-> ((2 * f[n].a) % Modulus) + f[n].wrap, remainder |-> f[n].rem]
<1>7. PICK f : Is(f) /\ LongDivision(a, b) = Result(f)
  <2>1. LongDivision(a, b) = Result(CHOOSE f : Is(f))
    BY DEF LongDivision, first
  <2> HIDE DEF Is, Result
  <2> QED
    BY <1>6, <2>1
<1>8. f[0] = first /\ \A k \in Nat \ {0} : f[k] = Round(f[k - 1], b)
  BY <1>7
<1> QED
  BY <1>7, <1>8 DEF first

\* How many rounds there are: before them the remainder is below b.
LEMMA Rounds ==
  ASSUME NEW a \in Nat, a < Modulus, NEW b \in Nat, b # 0, b <= a
  PROVE  \E n \in 1 .. Bits : /\ n = clzdi2(b) - clzdi2(a) + 1 /\ a \div Pow[n] < b
                              /\ (b > Modulus \div 2 => n = 1)
<1>1. PICK w \in 1 .. 5 : Bits = Pow[w + 1]
  BY WidthsArePowers
<1> DEFINE L == w + 1
<1>2. L \in Nat /\ Bits = Pow[L] /\ Modulus = Pow[Pow[L]] /\ Bits \in Nat /\ Bits # 0
  BY <1>1, Widths DEF Modulus
<1> HIDE DEF L
<1>3. PICK x \in 0 .. Bits - 1 : clzdi2(a) = x /\ Pow[Bits - 1 - x] <= a /\ a < Pow[Bits - x]
  BY <1>2, LeadingIs DEF clzdi2
<1>4. PICK y \in 0 .. Bits - 1 : clzdi2(b) = y /\ Pow[Bits - 1 - y] <= b /\ b < Pow[Bits - y]
  <2>1. b < Pow[Pow[L]]
    <3>1. Modulus \in Nat
      BY HalvesAre
    <3> QED
      BY <1>2, <3>1
  <2> QED
    BY <1>2, <2>1, LeadingIs DEF clzdi2
<1> DEFINE i == Bits - x
           j == Bits - 1 - y
           n == y - x + 1
<1>5. i \in Nat /\ j \in Nat /\ Bits - 1 - x \in Nat /\ n \in Int /\ i = j + n /\ x \in Nat /\ y \in Nat
  BY <1>2
<1>6. Pow[i] \in Nat \ {0} /\ Pow[j] \in Nat \ {0}
  BY <1>5, PowIs
<1>7. j < i
  <2>1. Pow[j] < Pow[i]
    BY <1>3, <1>4, <1>6
  <2> HIDE DEF i, j
  <2> QED
    BY <1>5, <2>1, PowOrder
<1>8. n \in 1 .. Bits /\ n \in Nat
  BY <1>2, <1>5, <1>7
<1>9. a \div Pow[n] < b
  <2> DEFINE p == Pow[n]
             v == a \div p
             r == a % p
             q == Pow[j]
  <2>1. p \in Nat \ {0} /\ Pow[i] = q * p
    <3> HIDE DEF i, j, n
    <3>1. Pow[j + n] = Pow[j] * Pow[n] /\ Pow[n] \in Nat \ {0}
      BY <1>5, <1>8, PowSum, PowIs
    <3> QED
      BY <1>5, <3>1
  <2> HIDE DEF p
  <2>2. v \in Int /\ r \in Int /\ 0 <= r /\ r < p /\ a = p * v + r
    BY <2>1, DivisionIs
  <2>3. q \in Int /\ a < p * q
    <3>1. q * p = p * q
      BY <1>6, <2>1
    <3> QED
      BY <1>3, <1>6, <2>1, <3>1
  <2> HIDE DEF v, r, q
  <2>4. v < q
    <3>1. p * v + r < p * q
      BY <2>2, <2>3
    <3> QED
      BY <2>1, <2>2, <2>3, <3>1, Joined
  <2> QED
    BY <1>4, <2>2, <2>3, <2>4 DEF v, p, q
<1>10. b > Modulus \div 2 => n = 1
  <2> SUFFICES ASSUME b > Modulus \div 2 PROVE y = 0
    BY <1>5, <1>8
  <2> DEFINE k == Bits - 1
             l == Bits - y
  <2>1. k \in Nat /\ l \in Nat /\ (y # 0 => l = k \/ l < k)
    BY <1>2, <1>5
  <2>2. Modulus \div 2 = Pow[k]
    <3>1. Modulus = 2 * Pow[k] /\ Pow[k] \in Nat
      <4>1. k + 1 = Bits
        BY <1>2
      <4> HIDE DEF k
      <4> QED
        BY <2>1, <4>1, PowIs DEF Modulus
    <3> HIDE DEF k
    <3> QED
      BY <3>1
  <2>3. Pow[k] < Pow[l] /\ Pow[k] \in Nat /\ Pow[l] \in Nat
    <3>1. Pow[k] \in Nat /\ Pow[l] \in Nat
      BY <2>1, PowIs
    <3> QED
      BY <1>4, <2>2, <3>1
  <2>4. k < l
    <3> HIDE DEF k, l
    <3> QED
      BY <2>1, <2>3, PowOrder
  <2> HIDE DEF k, l
  <2> QED
    BY <2>1, <2>4
<1> QED
  BY <1>3, <1>4, <1>8, <1>9, <1>10

\* The rounds begin with the bits of the numerator that cannot hold the divisor.
LEMMA FirstRound ==
  ASSUME NEW a \in Nat, NEW b \in Nat, NEW n \in 1 .. Bits, a \div Pow[n] < b,
         NEW s, s = [rem |-> a \div Pow[n], a |-> (a * Pow[Bits - n]) % Modulus, wrap |-> 0]
  PROVE  RoundHolds(s, a, b, n, 0)
<1> DEFINE p == Pow[Bits - n]
           q == Pow[n]
<1>1. p \in Nat \ {0} /\ q \in Nat \ {0} /\ Factors(p, q, Modulus)
  <2> DEFINE i == Bits - n
  <2>1. i \in Nat /\ n \in Nat /\ i + n = Bits
    BY Widths
  <2> HIDE DEF i
  <2>2. Pow[i] \in Nat \ {0} /\ Pow[n] \in Nat \ {0} /\ Pow[i + n] = Pow[i] * Pow[n]
    BY <2>1, PowIs, PowSum
  <2> QED
    BY <2>1, <2>2 DEF Factors, Modulus, i
<1>2. s.rem = a \div q /\ s.a = (a * p) % Modulus /\ s.wrap = 0
  OBVIOUS
<1> HIDE DEF p, q
<1>3. (a * p) % Modulus = (a % q) * p /\ (a % q) * p \in Int
  <2>1. Scaled(a, p, q, Modulus)
    <3>1. a \in Int
      OBVIOUS
    <3> QED
      BY <1>1, <3>1, Multiple
  <2> QED
    BY <2>1 DEF Scaled
<1>4. a \div q \in Nat /\ a \div q < b
  BY <1>1 DEF q
<1>5. /\ 0 \in Nat /\ 0 < p /\ s.rem \in Nat /\ s.rem < b
      /\ s.wrap = 0 % 2
  BY <1>1, <1>2, <1>4
<1>6. a \div q = 0 * b + s.rem
  <2>1. 0 * b = 0
    OBVIOUS
  <2> QED
    BY <1>2, <1>4, <2>1
<1>7. s.a = (a % q) * p + (0 \div 2)
  BY <1>2, <1>3
<1> QED
  BY <1>5, <1>6, <1>7 DEF RoundHolds, p, q

\* The last round leaves the quotient, but for its last bit.
LEMMA LongDivisionIs ==
  ASSUME NEW a \in Nat, a < Modulus, NEW b \in Nat, b # 0, b <= a
  PROVE  LongDivision(a, b) = [quotient |-> a \div b, remainder |-> a % b]
<1>1. PICK n \in 1 .. Bits : /\ n = clzdi2(b) - clzdi2(a) + 1 /\ a \div Pow[n] < b
                             /\ (b > Modulus \div 2 => n = 1)
  BY Rounds
<1>2. PICK f : /\ f[0] = [rem |-> a \div Pow[n], a |-> (a * Pow[Bits - n]) % Modulus, wrap |-> 0]
               /\ \A k \in Nat \ {0} : f[k] = Round(f[k - 1], b)
               /\ LongDivision(a, b) = [quotient |-> ((2 * f[n].a) % Modulus) + f[n].wrap,
                                        remainder |-> f[n].rem]
  <2>1. n \in 0 .. Bits
    OBVIOUS
  <2> QED
    BY <1>1, <2>1, RoundsRun
<1> DEFINE P(k) == k <= n => \E Q : RoundHolds(f[k], a, b, n - k, Q) /\ (k = 0 => Q = 0)
<1>3. P(0)
  <2>1. RoundHolds(f[0], a, b, n, 0) /\ n - 0 = n
    BY <1>1, <1>2, FirstRound
  <2> QED
    BY <2>1
<1>4. ASSUME NEW k \in Nat, P(k) PROVE P(k + 1)
  <2> SUFFICES ASSUME k + 1 <= n PROVE \E Q : RoundHolds(f[k + 1], a, b, n - (k + 1), Q)
    OBVIOUS
  <2> DEFINE m == n - k
             i == k + 1
  <2>1. m \in 1 .. Bits /\ i \in Nat \ {0} /\ i - 1 = k /\ n - (k + 1) = m - 1 /\ k <= n
        /\ (n = 1 => m = 1 /\ k = 0)
    BY Widths
  <2>2. PICK Q : RoundHolds(f[k], a, b, m, Q) /\ (k = 0 => Q = 0)
    BY <1>4, <2>1
  <2> HIDE DEF P, m, i
  <2>3. b > Modulus \div 2 => m = 1 /\ Q = 0 /\ a >= b
    BY <1>1, <2>1, <2>2
  <2>4. b \in Nat \ {0} /\ b < Modulus
    <3>1. Modulus \in Nat
      BY HalvesAre
    <3> QED
      BY <3>1
  <2>5. \E R : RoundHolds(Round(f[k], b), a, b, m - 1, R)
    BY <2>1, <2>2, <2>3, <2>4, RoundStep
  <2>6. f[i] = Round(f[k], b)
    BY <1>2, <2>1
  <2> QED
    BY <2>1, <2>5, <2>6 DEF i
<1>5. P(n)
  <2> DEFINE T == {k \in Nat : P(k)}
  <2> HIDE DEF P
  <2>1. 0 \in T /\ \A k \in Nat : k \in T => k + 1 \in T
    BY <1>3, <1>4
  <2> HIDE DEF T
  <2>2. \A k \in Nat : k \in T
    BY <2>1, NextNumber
  <2> QED
    BY <2>2 DEF T
<1>6. PICK Q : RoundHolds(f[n], a, b, 0, Q)
  <2>1. n <= n /\ n - n = 0
    OBVIOUS
  <2> QED
    BY <1>5, <2>1
<1> DEFINE s == f[n]
           c == Q \div 2
           y == b * Q
<1>7. /\ Q \in Nat /\ s.rem \in Nat /\ s.rem < b /\ a \div 1 = Q * b + s.rem
      /\ s.a = (a % 1) * Modulus + c /\ s.wrap = Q % 2
  <2>1. Pow[0] = 1 /\ Pow[Bits - 0] = Modulus
    <3>1. Bits - 0 = Bits /\ Pow[0] = 1
      BY Widths, PowIs
    <3> QED
      BY <3>1 DEF Modulus
  <2> QED
    BY <1>6, <2>1 DEF RoundHolds
<1>8. a \div 1 = a /\ a % 1 = 0 /\ 0 * Modulus = 0 /\ c \in Nat /\ Q * b = y /\ y \in Nat
  <2>1. Modulus \in Nat
    BY HalvesAre
  <2>2. y \in Nat
    BY <1>7, Product
  <2> QED
    BY <1>7, <2>1, <2>2
<1> HIDE DEF s
<1>9. s.a = c /\ a = y + s.rem
  <2> HIDE DEF c, y
  <2> QED
    BY <1>7, <1>8
<1>10. a \div b = Q /\ a % b = s.rem
  <2> DEFINE e == s.rem
  <2>1. a \in Int /\ b \in Nat \ {0} /\ Q \in Int /\ e \in Int /\ 0 <= e /\ e < b
    BY <1>7
  <2>2. a = b * Q + e
    BY <1>9
  <2> HIDE DEF e
  <2>3. a \div b = Q /\ a % b = e
    BY <2>1, <2>2, DivisionOnce
  <2> QED
    BY <2>3 DEF e
<1>11. Q <= a
  <2>1. Q * 1 <= Q * b /\ Q * 1 = Q
    BY <1>7, Grows
  <2> HIDE DEF y
  <2> QED
    BY <1>7, <1>8, <1>9, <2>1
<1>12. ((2 * c) % Modulus) + (Q % 2) = Q
  <2>1. 2 * c \in Int /\ 0 <= 2 * c /\ 2 * c <= Q /\ 2 * c + (Q % 2) = Q
    BY <1>7
  <2>2. 2 * c < Modulus
    <3>1. Modulus \in Nat
      BY HalvesAre
    <3> HIDE DEF c
    <3> QED
      BY <1>7, <1>11, <2>1, <3>1
  <2> DEFINE d == 2 * c
  <2>3. d \in Int /\ 0 <= d /\ d < Modulus
    BY <2>1, <2>2
  <2> HIDE DEF d
  <2>4. d % Modulus = d
    BY <2>3, Within
  <2> QED
    BY <2>1, <2>4 DEF d
<1> QED
  BY <1>2, <1>7, <1>9, <1>10, <1>12 DEF s

\* udivdi3 and umoddi3
LEMMA DivmodIs ==
  ASSUME NEW a \in Nat, a < Modulus, NEW b \in Nat, b # 0, b < Modulus
  PROVE  divmoddi4(a, b) = [quotient |-> a \div b, remainder |-> a % b]
<1>1. CASE b > a
  <2>1. a = b * 0 + a /\ 0 <= a /\ 0 \in Int
    OBVIOUS
  <2>2. a \div b = 0 /\ a % b = a
    BY <1>1, <2>1, DivisionOnce
  <2> QED
    BY <1>1, <2>2 DEF divmoddi4
<1>2. CASE ~(b > a) /\ hi(b) = 0 /\ b = 1
  <2>1. a \div b = a /\ a % b = 0
    BY <1>2
  <2> QED
    BY <1>2, <2>1 DEF divmoddi4
<1>3. CASE ~(b > a) /\ ~(hi(b) = 0 /\ b = 1) /\ hi(b) = 0 /\ hi(a) = 0
  <2>1. a \in Word64 /\ b \in Word64
    BY HalvesAre DEF Word64
  <2>2. lo(a) = a /\ lo(b) = b
    <3>1. /\ Half \in Nat /\ lo(a) \in Nat /\ a = Half * hi(a) + lo(a)
          /\ lo(b) \in Nat /\ b = Half * hi(b) + lo(b)
      BY <2>1, WordIs, HalvesAre
    <3>2. Half * 0 = 0
      BY <3>1
    <3> QED
      BY <1>3, <3>1, <3>2
  <2> QED
    BY <1>3, <2>2 DEF divmoddi4
<1>4. CASE ~(b > a) /\ ~(hi(b) = 0 /\ b = 1) /\ ~(hi(b) = 0 /\ hi(a) = 0)
  <2>1. divmoddi4(a, b) = LongDivision(a, b)
    BY <1>4 DEF divmoddi4
  <2>2. b <= a
    BY <1>4
  <2> QED
    BY <2>1, <2>2, LongDivisionIs
<1> QED
  BY <1>1, <1>2, <1>3, <1>4

\* A word with its sign, by cases: its magnitude is what absvdi2 makes of it.
LEMMA MagnitudeIs ==
  ASSUME NEW a \in Word64
  PROVE  \E x \in Nat : /\ absvdi2(a) = x /\ Magnitude(Signed(a)) = x /\ x <= Modulus \div 2
                        /\ Signed(a) = (IF Signed(a) < 0 THEN -x ELSE x) /\ (Signed(a) < 0 => x # 0)
                        /\ (a # 0 => x # 0)
<1> DEFINE G == Modulus \div 2
           M == Modulus
<1>1. M \in Nat \ {0} /\ G \in Nat \ {0} /\ M = 2 * G
  <2> DEFINE y == Half * Quarter
  <2>1. M = 2 * y /\ y \in Nat \ {0} /\ G = y
    BY HalvesAre
  <2> HIDE DEF y
  <2> QED
    BY <2>1
<1> HIDE DEF G, M
<1>2. a \in Nat /\ a < M
  BY <1>1 DEF Word64, M
<1>3. Signed(a) = IF a < G THEN a ELSE a - M
  BY DEF Signed, G, M
<1>4. CASE a < G
  <2>1. Signed(a) = a /\ ~(a < 0)
    BY <1>2, <1>3, <1>4
  <2>2. absvdi2(a) = a /\ Magnitude(Signed(a)) = a
    BY <2>1 DEF absvdi2, neg, Magnitude
  <2> QED
    BY <1>1, <1>2, <1>4, <2>1, <2>2 DEF G
<1>5. CASE ~(a < G)
  <2> DEFINE x == M - a
  <2>1. x \in Nat /\ x # 0 /\ x <= G /\ Signed(a) = -x /\ Signed(a) < 0
    BY <1>1, <1>2, <1>3, <1>5
  <2>2. x % M = x
    <3>1. x \in Int /\ 0 <= x /\ x < M
      BY <1>1, <1>2, <1>5
    <3> HIDE DEF x
    <3> QED
      BY <3>1, Within DEF M
  <2>3. absvdi2(a) = x
    BY <2>1, <2>2 DEF absvdi2, neg, M
  <2> HIDE DEF x
  <2>4. Magnitude(Signed(a)) = x
    BY <2>1 DEF Magnitude
  <2> QED
    BY <2>1, <2>3, <2>4 DEF G
<1> QED
  BY <1>4, <1>5

\* The sign of what neg returns
LEMMA Negated ==
  ASSUME NEW x \in Nat, x <= Modulus \div 2
  PROVE  /\ (Modulus - x) % Modulus = (-x) % Modulus
         /\ x < Modulus \div 2 => Signed(x) = x
         /\ Signed((Modulus - x) % Modulus) = -x
         /\ x < Modulus /\ x % Modulus = x
<1> DEFINE G == Modulus \div 2
           M == Modulus
<1>1. M \in Nat \ {0} /\ G \in Nat \ {0} /\ M = 2 * G
  <2> DEFINE y == Half * Quarter
  <2>1. M = 2 * y /\ y \in Nat \ {0} /\ G = y
    BY HalvesAre
  <2> HIDE DEF y
  <2> QED
    BY <2>1
<1>s. \A y : Signed(y) = IF y < G THEN y ELSE y - M
  BY DEF Signed
<1> HIDE DEF G, M
<1>2. x <= G /\ x < M
  BY <1>1 DEF G
<1>3. x < G => Signed(x) = x
  BY <1>s
<1>4. x % M = x
  BY <1>2, Within DEF M
<1>5. CASE x = 0
  <2>1. M - x = M * 1 + 0 /\ -x = M * 0 + 0 /\ 0 < M /\ 0 \in Int /\ 1 \in Int /\ M - x \in Int /\ -x \in Int
    BY <1>1, <1>5
  <2>2. (M - x) % M = 0
    BY <1>1, <2>1, DivisionOnce
  <2>3. (-x) % M = 0
    BY <1>1, <2>1, DivisionOnce
  <2>4. Signed(0) = 0
    BY <1>1, <1>s
  <2>5. -x = 0
    <3> DEFINE z == -x
    <3>1. x \in Int /\ z \in Int /\ z + x = 0
      OBVIOUS
    <3> HIDE DEF z
    <3>2. z = 0
      BY <1>5, <3>1
    <3> QED
      BY <3>2 DEF z
  <2> QED
    BY <1>2, <1>3, <1>4, <2>2, <2>3, <2>4, <2>5 DEF M, G
<1>6. CASE x # 0
  <2> DEFINE y == M - x
             z == -x
  <2>1. y \in Int /\ 0 <= y /\ y < M /\ z \in Int /\ z = M * (-1) + y /\ -1 \in Int /\ y >= G /\ y - M = z
    BY <1>1, <1>2, <1>6
  <2> HIDE DEF y, z
  <2>2. y % M = y
    BY <2>1, Within DEF M
  <2>3. z % M = y
    BY <1>1, <2>1, DivisionOnce
  <2>4. Signed(y) = z
    BY <1>1, <1>s, <2>1
  <2> QED
    BY <1>2, <1>3, <1>4, <2>2, <2>3, <2>4 DEF y, z, M, G
<1> QED
  BY <1>5, <1>6

\* Quotients and remainders of all four division routines.
LEMMA DivisionIsExact ==
  ASSUME NEW a \in Word64, NEW b \in Word64 \ {0}
  PROVE  Divides(a, b)
<1> DEFINE G == Modulus \div 2
<1>1. a \in Nat /\ a < Modulus /\ b \in Nat /\ b # 0 /\ b < Modulus
  BY WordIs
<1>2. udivdi3(a, b) = a \div b /\ umoddi3(a, b) = a % b
  BY <1>1, DivmodIs DEF udivdi3, umoddi3
<1>3. PICK x \in Nat : /\ absvdi2(a) = x /\ Magnitude(Signed(a)) = x /\ x <= Modulus \div 2
                       /\ Signed(a) = (IF Signed(a) < 0 THEN -x ELSE x)
  BY MagnitudeIs
<1>4. PICK y \in Nat : /\ absvdi2(b) = y /\ Magnitude(Signed(b)) = y /\ y <= Modulus \div 2
                       /\ Signed(b) = (IF Signed(b) < 0 THEN -y ELSE y) /\ y # 0
  <2>1. b \in Word64 /\ b # 0
    OBVIOUS
  <2> QED
    BY <2>1, MagnitudeIs
<1>5. x < Modulus /\ y < Modulus
  BY <1>3, <1>4, Negated
<1> DEFINE q == x \div y
           r == x % y
<1>6. udivdi3(x, y) = q /\ umoddi3(x, y) = r
  BY <1>4, <1>5, DivmodIs DEF udivdi3, umoddi3
<1>7. q \in Int /\ r \in Int /\ 0 <= r /\ r < y /\ x = y * q + r
  <2>1. x \in Int /\ y \in Nat \ {0}
    BY <1>4
  <2> QED
    BY <2>1, DivisionIs
<1>8. q \in Nat
  BY <1>4
<1> HIDE DEF q, r
<1>9. q <= x
  <2>1. q * 1 <= q * y /\ q * y = y * q /\ q * 1 = q /\ y * q \in Int
    BY <1>4, <1>8, Grows
  <2> QED
    BY <1>7, <1>8, <2>1
<1>h. G \in Nat /\ G # 0
  <2> DEFINE d == Half * Quarter
  <2>1. d \in Nat \ {0} /\ G = d
    BY HalvesAre
  <2> HIDE DEF d
  <2> QED
    BY <2>1
<1>10. q <= G /\ r < G /\ r \in Nat
  <2> HIDE DEF G
  <2>1. x <= G /\ y <= G
    BY <1>3, <1>4 DEF G
  <2> QED
    BY <1>7, <1>8, <1>9, <1>h, <2>1
<1> DEFINE opposed == (Signed(a) < 0) # (Signed(b) < 0)
           t == IF opposed THEN -q ELSE q
<1>11. Truncated(a, b) = t
  BY <1>3, <1>4 DEF Truncated, q
<1>12. divdi3(a, b) = t % Modulus
  <2>1. Signed(0) = 0 /\ Signed(Modulus - 1) < 0
    <3>1. Signed(0) = 0
      BY <1>h, Negated
    <3>2. Signed((Modulus - 1) % Modulus) = -1
      <4>1. 1 <= G
        BY <1>h
      <4> QED
        BY <4>1, Negated
    <3>3. (Modulus - 1) % Modulus = Modulus - 1
      <4> DEFINE d == Modulus - 1
      <4>1. d \in Int /\ 0 <= d /\ d < Modulus
        BY HalvesAre
      <4> HIDE DEF d
      <4>2. d % Modulus = d
        BY <4>1, Within
      <4> QED
        BY <4>2 DEF d
    <3> QED
      BY <3>1, <3>2, <3>3
  <2>2. divdi3(a, b) = neg(q, IF opposed THEN Modulus - 1 ELSE 0)
    BY <1>3, <1>4, <1>6 DEF divdi3
  <2>3. (Modulus - q) % Modulus = (-q) % Modulus /\ q % Modulus = q
    BY <1>8, <1>10, Negated
  <2>4. CASE opposed
    <3>1. divdi3(a, b) = (Modulus - q) % Modulus
      BY <2>1, <2>2, <2>4 DEF neg
    <3> QED
      BY <2>3, <2>4, <3>1
  <2>5. CASE ~opposed
    <3>1. divdi3(a, b) = q
      BY <2>1, <2>2, <2>5 DEF neg
    <3> QED
      BY <2>3, <2>5, <3>1
  <2> QED
    BY <2>4, <2>5
<1>13. Signed(moddi3(a, b)) = IF Signed(a) < 0 THEN -r ELSE r
  <2>1. moddi3(a, b) = neg(r, a)
    BY <1>3, <1>4, <1>6 DEF moddi3
  <2>2. Signed(r) = r /\ Signed((Modulus - r) % Modulus) = -r
    <3>1. r <= Modulus \div 2 /\ r < Modulus \div 2
      BY <1>10, <1>h
    <3> QED
      BY <1>10, <3>1, Negated
  <2> QED
    BY <2>1, <2>2 DEF neg
<1>14. (IF Signed(a) < 0 THEN -r ELSE r) = Signed(a) - Signed(b) * t
  <2> DEFINE z == y * q
  <2>1. z \in Nat /\ x = z + r
    BY <1>4, <1>7, <1>8, Product
  <2>2. (-y) * q = -z /\ y * (-q) = -z /\ (-y) * (-q) = z /\ y * q = z
    BY <1>4, <1>8
  <2> HIDE DEF z
  <2>3. CASE Signed(a) < 0 /\ Signed(b) < 0
    <3>1. Signed(a) = -x /\ Signed(b) = -y /\ t = q
      BY <1>3, <1>4, <2>3
    <3>2. Signed(b) * t = -z
      BY <2>2, <3>1
    <3> QED
      BY <1>7, <2>1, <2>3, <3>1, <3>2
  <2>4. CASE Signed(a) < 0 /\ ~(Signed(b) < 0)
    <3>1. Signed(a) = -x /\ Signed(b) = y /\ t = -q
      BY <1>3, <1>4, <2>4
    <3>2. Signed(b) * t = -z
      BY <2>2, <3>1
    <3> QED
      BY <1>7, <2>1, <2>4, <3>1, <3>2
  <2>5. CASE ~(Signed(a) < 0) /\ Signed(b) < 0
    <3>1. Signed(a) = x /\ Signed(b) = -y /\ t = -q
      BY <1>3, <1>4, <2>5
    <3>2. Signed(b) * t = z
      BY <2>2, <3>1
    <3> QED
      BY <1>7, <2>1, <2>5, <3>1, <3>2
  <2>6. CASE ~(Signed(a) < 0) /\ ~(Signed(b) < 0)
    <3>1. Signed(a) = x /\ Signed(b) = y /\ t = q
      BY <1>3, <1>4, <2>6
    <3>2. Signed(b) * t = z
      BY <2>2, <3>1
    <3> QED
      BY <1>7, <2>1, <2>6, <3>1, <3>2
  <2> QED
    BY <2>3, <2>4, <2>5, <2>6
<1> HIDE DEF t
<1> QED
  BY <1>2, <1>11, <1>12, <1>13, <1>14 DEF Divides

-------------------------------------------------------------------------------
(* Counting the bits that are 1. *)

\* Fields keeps the last k bits of each 2 * k.
LEMMA FieldsAre ==
  ASSUME NEW k \in {1, 2, 4}
  PROVE  /\ Fields(k) \in [Nat -> Nat]
         /\ \A a \in Nat : Fields(k)[a] = (a % Pow[k]) + Pow[2 * k] * Fields(k)[a \div Pow[2 * k]]
<1> DEFINE p == Pow[k]
           q == Pow[2 * k]
           d == [n \in Nat |-> IF n = 0 THEN 0 ELSE n \div q]
           S == [x \in Nat \X Nat |-> (x[1] % p) + q * x[2]]
           Is(f) == f = [a \in Nat |-> IF a = 0 THEN 0 ELSE (a % p) + q * f[a \div q]]
<1>1. p \in Nat \ {0} /\ q \in Nat /\ q >= 2
  <2>1. /\ Pow[1] = 2 /\ Pow[2] = 4 /\ Pow[4] = 16
        /\ Pow[8] = Pow[4] * Pow[4]
    <3>1. Pow[4 + 4] = Pow[4] * Pow[4]
      BY PowSum
    <3> QED
      BY <3>1, WidthsArePowers
  <2>2. 2 * k = 2 \/ 2 * k = 4 \/ 2 * k = 8
    OBVIOUS
  <2> QED
    BY <2>1, <2>2
<1> HIDE DEF p, q
<1>2. \A n \in Nat : n \div q \in Nat /\ (n # 0 => n \div q < n)
  <2> SUFFICES ASSUME NEW n \in Nat PROVE n \div q \in Nat /\ (n # 0 => n \div q < n)
    OBVIOUS
  <2> DEFINE t == n \div q
             u == n % q
  <2>1. t \in Nat /\ u \in Nat /\ n = q * t + u
    BY <1>1
  <2> HIDE DEF t, u
  <2>2. t * 2 <= t * q /\ t * q = q * t /\ q * t \in Nat
    BY <1>1, <2>1, Grows
  <2>3. t \in Nat /\ (n # 0 => t < n)
    BY <2>1, <2>2
  <2> QED
    BY <2>3 DEF t
<1>3. d \in Downward
  BY <1>2 DEF Downward
<1>4. S \in [Nat \X Nat -> Nat]
  <2>1. ASSUME NEW n \in Nat, NEW v \in Nat PROVE (n % p) + q * v \in Nat
    BY <1>1
  <2> QED
    BY <2>1, Zenon
<1>5. PICK g : Recurs(g, Nat, 0, S, d)
  <2> HIDE DEF S, d
  <2> QED
    BY <1>3, <1>4, Recursion
<1>6. g \in [Nat -> Nat] /\ g[0] = 0
  BY <1>5 DEF Recurs
<1>7. ASSUME NEW n \in Nat \ {0} PROVE g[n] = (n % p) + q * g[n \div q]
  <2>1. g[n] = S[<<n, g[d[n]]>>] /\ d[n] = n \div q
    <3>1. g[n] = S[<<n, g[d[n]]>>]
      <4> HIDE DEF S, d
      <4> QED
        BY <1>5 DEF Recurs
    <3> QED
      BY <3>1
  <2>2. n \in Nat /\ g[n \div q] \in Nat
    BY <1>2, <1>6
  <2> QED
    BY <2>1, <2>2
<1>8. Is(g)
  BY <1>6, <1>7
<1>9. PICK f : Is(f) /\ Fields(k) = f
  <2>1. Fields(k) = CHOOSE f : Is(f)
    BY DEF Fields, p, q
  <2> HIDE DEF Is
  <2> QED
    BY <1>8, <2>1
<1>10. f[0] = 0 /\ \A n \in Nat \ {0} : f[n] = (n % p) + q * f[n \div q]
  BY <1>9
<1> DEFINE T == {n \in Nat : f[n] = g[n]}
<1>11. ASSUME NEW n \in Nat, \A m \in 0 .. n - 1 : m \in T PROVE n \in T
  <2>1. CASE n = 0
    BY <1>6, <1>10, <2>1
  <2>2. CASE n # 0
    <3> DEFINE m == n \div q
    <3>1. m \in 0 .. n - 1
      BY <1>2, <2>2
    <3>2. f[n] = (n % p) + q * f[m] /\ g[n] = (n % p) + q * g[m]
      BY <1>7, <1>10, <2>2
    <3>3. f[m] = g[m]
      BY <1>11, <3>1
    <3> QED
      BY <3>2, <3>3
  <2> QED
    BY <2>1, <2>2
<1>12. \A n \in Nat : f[n] = g[n]
  <2>1. \A n \in Nat : n \in T
    <3> HIDE DEF T
    <3> QED
      BY <1>11, AllNumbers
  <2> QED
    BY <2>1
<1>13. f = g
  <2>1. f = [a \in Nat |-> f[a]]
    BY <1>9
  <2> QED
    BY <1>6, <1>12, <2>1
<1>14. ASSUME NEW a \in Nat PROVE g[a] = (a % p) + q * g[a \div q]
  <2>1. CASE a = 0
    <3>1. 0 % p = 0 /\ 0 \div q = 0
      BY <1>1
    <3>2. q * 0 = 0
      BY <1>1
    <3> QED
      BY <1>6, <2>1, <3>1, <3>2
  <2>2. CASE a # 0
    BY <1>7, <2>2
  <2> QED
    BY <2>1, <2>2
<1> QED
  BY <1>6, <1>9, <1>13, <1>14 DEF p, q

\* The sums of Population, and what the sums of two, four and eight bits are
PairsOf(a)  == a - Fields(1)[a \div 2]
FoursOf(a)  == Fields(2)[PairsOf(a) \div 4] + Fields(2)[PairsOf(a)]
EightsOf(a) == Fields(4)[FoursOf(a) + FoursOf(a) \div 16]

OfPair(d)   == d - (d \div 2)
OfNibble(e) == OfPair(e % 4) + OfPair(e \div 4)

\* The first field of a number, and the others
MaskOfOnes(a)  == Fields(1)[a] \in Nat /\ Fields(1)[a] = (a % 2) + 4 * Fields(1)[a \div 4]
MaskOfPairs(a) == Fields(2)[a] \in Nat /\ Fields(2)[a] = (a % 4) + 16 * Fields(2)[a \div 16]
MaskOfFours(a) == Fields(4)[a] \in Nat /\ Fields(4)[a] = (a % 16) + 256 * Fields(4)[a \div 256]

\* The masks of counting bits, field by field.
LEMMA FieldsOfTwo ==
  /\ \A a \in Nat : MaskOfOnes(a) /\ MaskOfPairs(a) /\ MaskOfFours(a)
  /\ Pow[8] = 256
<1>1. Pow[8] = 256
  <2>1. Pow[4 + 4] = Pow[4] * Pow[4]
    BY PowSum
  <2> QED
    BY <2>1, WidthsArePowers
<1>2. /\ Pow[1] = 2 /\ Pow[2] = 4 /\ Pow[4] = 16 /\ Pow[2 * 1] = 4 /\ Pow[2 * 2] = 16 /\ Pow[2 * 4] = 256
  <2>1. 2 * 1 = 2 /\ 2 * 2 = 4 /\ 2 * 4 = 8
    OBVIOUS
  <2> QED
    BY <1>1, <2>1, WidthsArePowers
<1>3. ASSUME NEW a \in Nat
      PROVE  MaskOfOnes(a)
  <2> DEFINE F == Fields(1)
             p == Pow[1]
             q == Pow[2 * 1]
  <2>1. F \in [Nat -> Nat] /\ F[a] = (a % p) + q * F[a \div q]
    BY FieldsAre
  <2>2. p = 2 /\ q = 4
    BY <1>2
  <2> HIDE DEF F, p, q
  <2>3. F[a] \in Nat /\ F[a] = (a % 2) + 4 * F[a \div 4]
    BY <2>1, <2>2
  <2> QED
    BY <2>3 DEF MaskOfOnes, F
<1>4. ASSUME NEW a \in Nat
      PROVE  MaskOfPairs(a)
  <2> DEFINE F == Fields(2)
             p == Pow[2]
             q == Pow[2 * 2]
  <2>1. F \in [Nat -> Nat] /\ F[a] = (a % p) + q * F[a \div q]
    BY FieldsAre
  <2>2. p = 4 /\ q = 16
    BY <1>2
  <2> HIDE DEF F, p, q
  <2>3. F[a] \in Nat /\ F[a] = (a % 4) + 16 * F[a \div 16]
    BY <2>1, <2>2
  <2> QED
    BY <2>3 DEF MaskOfPairs, F
<1>5. ASSUME NEW a \in Nat
      PROVE  MaskOfFours(a)
  <2> DEFINE F == Fields(4)
             p == Pow[4]
             q == Pow[2 * 4]
  <2>1. F \in [Nat -> Nat] /\ F[a] = (a % p) + q * F[a \div q]
    BY FieldsAre
  <2>2. p = 16 /\ q = 256
    BY <1>2
  <2> HIDE DEF F, p, q
  <2>3. F[a] \in Nat /\ F[a] = (a % 16) + 256 * F[a \div 256]
    BY <2>1, <2>2
  <2> QED
    BY <2>3 DEF MaskOfFours, F
<1> QED
  BY <1>1, <1>3, <1>4, <1>5

\* The sums of pairs, four bits at a time.
LEMMA PairsStep ==
  ASSUME NEW c \in Nat, NEW d \in 0 .. 3
  PROVE  PairsOf(4 * c + d) = OfPair(d) + 4 * PairsOf(c)
<1> DEFINE a == 4 * c + d
           h == a \div 2
           F(x) == Fields(1)[x]
<1>1. h \in Nat /\ h % 2 = d \div 2 /\ h \div 4 = c \div 2 /\ c \div 2 \in Nat
  OBVIOUS
<1>2. F(h) = (h % 2) + 4 * F(h \div 4) /\ F(c \div 2) \in Nat
  <2>1. MaskOfOnes(h) /\ MaskOfOnes(c \div 2)
    BY <1>1, FieldsOfTwo
  <2> QED
    BY <2>1 DEF MaskOfOnes
<1>3. F(h) = (d \div 2) + 4 * F(c \div 2)
  BY <1>1, <1>2
<1> HIDE DEF F, h
<1>4. PairsOf(a) = a - F(h) /\ PairsOf(c) = c - F(c \div 2)
  BY DEF PairsOf, F, h
<1>5. a - F(h) = OfPair(d) + 4 * (c - F(c \div 2))
  <2> DEFINE g == F(c \div 2)
  <2>1. g \in Nat /\ F(h) = (d \div 2) + 4 * g
    BY <1>2, <1>3
  <2> HIDE DEF g
  <2> QED
    BY <2>1 DEF OfPair, g
<1> QED
  BY <1>4, <1>5

\* They are natural numbers.
LEMMA PairsNatural == \A a \in Nat : PairsOf(a) \in Nat
<1> DEFINE T == {a \in Nat : PairsOf(a) \in Nat}
<1>1. ASSUME NEW a \in Nat, \A m \in 0 .. a - 1 : m \in T PROVE a \in T
  <2>1. CASE a = 0
    <3>1. Fields(1)[0] = (0 % 2) + 4 * Fields(1)[0 \div 4] /\ Fields(1)[0] \in Nat
      <4>1. MaskOfOnes(0)
        BY FieldsOfTwo
      <4> QED
        BY <4>1 DEF MaskOfOnes
    <3>2. 0 % 2 = 0 /\ 0 \div 4 = 0 /\ 0 \div 2 = 0
      OBVIOUS
    <3>3. Fields(1)[0] = 0
      BY <3>1, <3>2
    <3>4. PairsOf(0) = 0
      BY <3>2, <3>3 DEF PairsOf
    <3> QED
      BY <2>1, <3>4
  <2>2. CASE a # 0
    <3> DEFINE c == a \div 4
               d == a % 4
    <3>1. c \in 0 .. a - 1 /\ c \in Nat /\ d \in 0 .. 3 /\ a = 4 * c + d
      BY <2>2
    <3>2. PairsOf(c) \in Nat
      BY <1>1, <3>1
    <3>3. OfPair(d) \in Nat
      BY <3>1 DEF OfPair
    <3> HIDE DEF c, d
    <3>4. PairsOf(4 * c + d) = OfPair(d) + 4 * PairsOf(c)
      BY <3>1, PairsStep
    <3>5. PairsOf(a) \in Nat
      BY <3>1, <3>2, <3>3, <3>4
    <3> QED
      BY <3>5
  <2> QED
    BY <2>1, <2>2
<1>2. \A a \in Nat : a \in T
  <2> HIDE DEF T
  <2> QED
    BY <1>1, AllNumbers
<1> QED
  BY <1>2

\* The sums of fours, a nibble at a time.
LEMMA FoursStep ==
  ASSUME NEW c \in Nat, NEW e \in 0 .. 15
  PROVE  FoursOf(16 * c + e) = OfNibble(e) + 16 * FoursOf(c) /\ OfNibble(e) \in 0 .. 4
<1> DEFINE d0 == e % 4
           d1 == e \div 4
           p0 == OfPair(d0)
           p1 == OfPair(d1)
           F(x) == Fields(2)[x]
           y == PairsOf(c)
           x == PairsOf(16 * c + e)
<1>1. d0 \in 0 .. 3 /\ d1 \in 0 .. 3 /\ e = 4 * d1 + d0
  OBVIOUS
<1>2. p0 \in 0 .. 2 /\ p1 \in 0 .. 2
  BY <1>1 DEF OfPair
<1>3. y \in Nat
  BY PairsNatural
<1>4. x = p0 + 4 * p1 + 16 * y
  <2> HIDE DEF d0, d1
  <2> DEFINE m == 4 * c + d1
  <2>1. m \in Nat /\ 16 * c + e = 4 * m + d0
    BY <1>1
  <2>2. PairsOf(m) = OfPair(d1) + 4 * PairsOf(c)
    BY <1>1, PairsStep
  <2> HIDE DEF m
  <2>3. PairsOf(4 * m + d0) = OfPair(d0) + 4 * PairsOf(m)
    BY <1>1, <2>1, PairsStep
  <2> HIDE DEF p0, p1, y
  <2>4. x = p0 + 4 * (p1 + 4 * y)
    BY <2>1, <2>2, <2>3 DEF p0, p1, y
  <2> QED
    BY <1>2, <1>3, <2>4
<1> HIDE DEF p0, p1, y, x, d0, d1
<1>5. /\ x \in Nat /\ x % 4 = p0 /\ x \div 16 = y /\ x \div 4 = p1 + 4 * y
      /\ (x \div 4) % 4 = p1 /\ (x \div 4) \div 16 = y \div 4 /\ x \div 4 \in Nat /\ y \div 4 \in Nat
  <2>1. x \in Nat /\ x = 4 * (p1 + 4 * y) + p0 /\ p0 \in 0 .. 3
    BY <1>2, <1>3, <1>4
  <2>2. x % 4 = p0 /\ x \div 4 = p1 + 4 * y /\ x \div 16 = y
    BY <1>2, <1>3, <2>1
  <2>3. (p1 + 4 * y) % 4 = p1 /\ (p1 + 4 * y) \div 16 = y \div 4 /\ y \div 4 \in Nat
    BY <1>2, <1>3
  <2> QED
    BY <1>2, <1>3, <2>1, <2>2, <2>3
<1>6. /\ F(x) = (x % 4) + 16 * F(x \div 16) /\ F(x \div 4) = ((x \div 4) % 4) + 16 * F((x \div 4) \div 16)
      /\ F(y) \in Nat /\ F(y \div 4) \in Nat
  <2> DEFINE w == x \div 4
             u == y \div 4
  <2>1. x \in Nat /\ y \in Nat /\ w \in Nat /\ u \in Nat
    BY <1>3, <1>5
  <2> HIDE DEF w, u
  <2>2. MaskOfPairs(x) /\ MaskOfPairs(w) /\ MaskOfPairs(y) /\ MaskOfPairs(u)
    BY <2>1, FieldsOfTwo
  <2>3. F(x) = (x % 4) + 16 * F(x \div 16)
    BY <2>2 DEF MaskOfPairs
  <2>4. F(w) = (w % 4) + 16 * F(w \div 16)
    BY <2>2 DEF MaskOfPairs
  <2>5. F(y) \in Nat /\ F(u) \in Nat
    BY <2>2 DEF MaskOfPairs
  <2> QED
    BY <2>3, <2>4, <2>5 DEF w, u
<1>7. F(x \div 4) + F(x) = (p0 + p1) + 16 * (F(y \div 4) + F(y))
  <2> HIDE DEF F
  <2>1. F(x) = p0 + 16 * F(y) /\ F(x \div 4) = p1 + 16 * F(y \div 4)
    BY <1>5, <1>6
  <2> QED
    BY <1>2, <1>6, <2>1
<1>8. FoursOf(16 * c + e) = F(x \div 4) + F(x) /\ FoursOf(c) = F(y \div 4) + F(y)
  BY DEF FoursOf, F, x, y
<1>9. OfNibble(e) = p0 + p1
  BY DEF OfNibble, p0, p1, d0, d1
<1> QED
  BY <1>2, <1>7, <1>8, <1>9

\* They are natural numbers.
LEMMA FoursNatural == \A a \in Nat : FoursOf(a) \in Nat
<1> SUFFICES ASSUME NEW a \in Nat PROVE FoursOf(a) \in Nat
  OBVIOUS
<1> DEFINE x == PairsOf(a)
<1>1. x \in Nat
  BY PairsNatural
<1> HIDE DEF x
<1>2. x \div 4 \in Nat
  BY <1>1
<1>3. Fields(2)[x] \in Nat /\ Fields(2)[x \div 4] \in Nat
  <2>1. MaskOfPairs(x) /\ MaskOfPairs(x \div 4)
    BY <1>1, <1>2, FieldsOfTwo
  <2> QED
    BY <2>1 DEF MaskOfPairs
<1> QED
  BY <1>3 DEF FoursOf, x

ByteFirst(c, g, e) ==
  /\ EightsOf(256 * c + 16 * g + e) = (OfNibble(e) + OfNibble(g)) + 256 * EightsOf(c)
  /\ EightsOf(c) \in Nat /\ OfNibble(e) + OfNibble(g) \in 0 .. 8

\* The sums of eights, a byte at a time.
LEMMA EightsStep ==
  ASSUME NEW c \in Nat, NEW e \in 0 .. 15, NEW g \in 0 .. 15
  PROVE  ByteFirst(c, g, e)
<1> DEFINE a == 256 * c + 16 * g + e
           b == 16 * c + g
           n0 == OfNibble(e)
           n1 == OfNibble(g)
           y == FoursOf(c)
           x == FoursOf(a)
           F(w) == Fields(4)[w]
<1>1. y \in Nat /\ b \in Nat /\ a = 16 * b + e
  BY FoursNatural
<1>2. n0 \in 0 .. 4 /\ n1 \in 0 .. 4 /\ FoursOf(b) = n1 + 16 * y
  BY FoursStep
<1>3. FoursOf(16 * b + e) = n0 + 16 * FoursOf(b)
  <2> HIDE DEF b
  <2> QED
    BY <1>1, FoursStep
<1>4. x = n0 + 16 * n1 + 256 * y
  <2>1. x = n0 + 16 * (n1 + 16 * y)
    BY <1>1, <1>2, <1>3
  <2> HIDE DEF x, n0, n1, y
  <2> QED
    BY <1>1, <1>2, <2>1
<1> HIDE DEF x, n0, n1, y
<1> DEFINE v == y + y \div 16
           z == x + x \div 16
<1>5. v \in Nat /\ z \in Nat /\ z % 16 = n0 + n1 /\ z \div 256 = v
  <2>1. x \in Nat /\ x \div 16 = n1 + 16 * y
    BY <1>1, <1>2, <1>4
  <2>2. z = (n0 + n1) + 16 * (n1 + 17 * y)
    BY <1>1, <1>2, <1>4, <2>1
  <2> DEFINE q == y \div 16
             r == y % 16
  <2>3. q \in Nat /\ r \in 0 .. 4 /\ y = 16 * q + r
    <3>1. r \in 0 .. 4
      <4> DEFINE u == c \div 16
                 d == c % 16
      <4>1. u \in Nat /\ d \in 0 .. 15 /\ c = 16 * u + d
        OBVIOUS
      <4> HIDE DEF u, d
      <4>2. FoursOf(16 * u + d) = OfNibble(d) + 16 * FoursOf(u) /\ OfNibble(d) \in 0 .. 4 /\ FoursOf(u) \in Nat
        BY <4>1, FoursStep, FoursNatural
      <4>3. y = OfNibble(d) + 16 * FoursOf(u)
        BY <4>1, <4>2 DEF y
      <4> QED
        BY <4>2, <4>3
    <3> QED
      BY <1>1, <3>1
  <2> HIDE DEF z, q, r
  <2>4. z % 16 = n0 + n1 /\ z \div 256 = y + ((n1 + y) \div 16)
    <3>1. z \in Nat /\ n0 + n1 \in 0 .. 15
      BY <1>1, <1>2, <2>2
    <3>2. z % 16 = n0 + n1
      BY <1>1, <1>2, <2>2, <3>1
    <3>3. z \div 16 = n1 + 17 * y
      BY <1>1, <1>2, <2>2, <3>1
    <3>4. z \div 256 = (z \div 16) \div 16
      BY <3>1
    <3>5. (n1 + 17 * y) \div 16 = y + ((n1 + y) \div 16)
      BY <1>1, <1>2
    <3> QED
      BY <3>2, <3>3, <3>4, <3>5
  <2>5. (n1 + y) \div 16 = q
    BY <1>2, <2>3
  <2> QED
    BY <1>1, <1>2, <2>2, <2>3, <2>4, <2>5 DEF q
<1>6. F(z) = (z % 16) + 256 * F(z \div 256) /\ F(v) \in Nat
  <2>1. z \in Nat /\ v \in Nat
    BY <1>5
  <2> HIDE DEF z, v
  <2>2. MaskOfFours(z) /\ MaskOfFours(v)
    BY <2>1, FieldsOfTwo
  <2> QED
    BY <2>2 DEF MaskOfFours
<1> HIDE DEF F, v, z
<1>7. F(z) = (n0 + n1) + 256 * F(v)
  BY <1>5, <1>6
<1>8. EightsOf(a) = F(z) /\ EightsOf(c) = F(v)
  BY DEF EightsOf, F, z, v, x, y
<1>9. n0 + n1 \in 0 .. 8
  BY <1>2
<1> QED
  BY <1>6, <1>7, <1>8, <1>9 DEF n0, n1, a, ByteFirst

\* How many bits of a are 1
OnesOf(a, w) == Cardinality(Ones(a, w))

\* The ones of a number can be counted.
LEMMA OnesFinite ==
  ASSUME NEW a \in Nat, NEW w \in Nat
  PROVE  IsFiniteSet(Ones(a, w)) /\ OnesOf(a, w) \in Nat /\ OnesOf(a, 0) = 0
<1>1. IsFiniteSet(0 .. w - 1) /\ Ones(a, w) \in SUBSET (0 .. w - 1)
  BY FS_Interval DEF Ones
<1>2. Ones(a, 0) = {}
  BY DEF Ones
<1>3. IsFiniteSet(Ones(a, w))
  BY <1>1, FS_Subset
<1> QED
  BY <1>2, <1>3, FS_CardinalityType, FS_EmptySet DEF OnesOf

\* One bit more at the end.
LEMMA OnesStep ==
  ASSUME NEW c \in Nat, NEW d \in {0, 1}, NEW w \in Nat
  PROVE  OnesOf(2 * c + d, w + 1) = d + OnesOf(c, w)
<1> DEFINE a == 2 * c + d
           B == Ones(c, w)
           S == {i \in 1 .. w : i - 1 \in B}
           A == Ones(a, w + 1)
<1>1. IsFiniteSet(B) /\ OnesOf(c, w) \in Nat
  BY OnesFinite
<1>2. IsFiniteSet(S) /\ Cardinality(S) = Cardinality(B)
  <2> DEFINE f == [i \in B |-> i + 1]
  <2>1. \A i \in B : i \in Int /\ i >= 0 /\ i < w /\ i + 1 \in 1 .. w /\ (i + 1) - 1 = i
    BY DEF Ones
  <2> HIDE DEF B
  <2>2. f \in [B -> S] /\ \A i \in B : f[i] = i + 1
    BY <2>1
  <2>3. \A j \in S : j - 1 \in B /\ f[j - 1] = j
    BY <2>1
  <2> HIDE DEF f, S
  <2>4. f \in Injection(B, S)
    BY <2>1, <2>2 DEF Injection, IsInjective
  <2>5. f \in Surjection(B, S)
    BY <2>2, <2>3 DEF Surjection
  <2>6. ExistsBijection(B, S)
    BY <2>4, <2>5 DEF ExistsBijection, Bijection
  <2> QED
    BY <1>1, <2>6, FS_Bijection
<1>3. (a \div Pow[0]) % 2 = d
  <2>1. Pow[0] = 1
    BY PowIs
  <2>2. a \div 1 = a /\ a % 2 = d
    OBVIOUS
  <2> QED
    BY <2>1, <2>2
<1>4. ASSUME NEW i \in 1 .. w PROVE a \div Pow[i] = c \div Pow[i - 1]
  <2> DEFINE k == i - 1
  <2>1. k \in Nat /\ k + 1 = i
    OBVIOUS
  <2> HIDE DEF k
  <2>2. Pow[k] \in Nat \ {0} /\ Pow[i] = 2 * Pow[k]
    BY <2>1, PowIs
  <2>3. FarRightIs(2, Pow[k], c, d)
    <3>1. 2 \in Nat \ {0} /\ c \in Int /\ d \in Nat /\ d < 2
      OBVIOUS
    <3> QED
      BY <2>2, <3>1, FarRight
  <2> QED
    BY <2>2, <2>3 DEF FarRightIs, k
<1>5. \A i \in 0 .. w : i \in A <=> (i = 0 /\ d = 1) \/ i \in S
  <2> SUFFICES ASSUME NEW i \in 0 .. w PROVE i \in A <=> (i = 0 /\ d = 1) \/ i \in S
    OBVIOUS
  <2>1. i \in A <=> (a \div Pow[i]) % 2 = 1
    BY DEF Ones
  <2>2. CASE i = 0
    <3> HIDE DEF A, B
    <3> QED
      BY <1>3, <2>1, <2>2
  <2>3. CASE i # 0
    <3>1. i \in 1 .. w /\ i - 1 \in 0 .. w - 1
      BY <2>3
    <3>2. i \in S <=> (c \div Pow[i - 1]) % 2 = 1
      BY <3>1 DEF Ones
    <3> HIDE DEF A, S
    <3> QED
      BY <1>4, <2>1, <2>3, <3>1, <3>2
  <2> QED
    BY <2>2, <2>3
<1>6. A \in SUBSET (0 .. w) /\ S \in SUBSET (1 .. w)
  BY DEF Ones
<1> HIDE DEF A, S, B
<1>7. CASE d = 1
  <2>1. A = S \cup {0} /\ 0 \notin S
    <3>1. \A i \in A : i \in S \/ i = 0
      BY <1>5, <1>6
    <3>2. \A i \in S : i \in 0 .. w /\ i # 0
      BY <1>6
    <3>3. \A i \in S : i \in A
      BY <1>5, <3>2
    <3>4. 0 \in A
      <4>1. 0 \in 0 .. w
        OBVIOUS
      <4> QED
        BY <1>5, <1>7, <4>1
    <3> QED
      BY <3>1, <3>2, <3>3, <3>4
  <2>2. Cardinality(A) = Cardinality(S) + 1
    BY <1>2, <2>1, FS_AddElement
  <2> QED
    BY <1>1, <1>2, <1>7, <2>2 DEF OnesOf, A, B
<1>8. CASE d = 0
  <2>1. A = S
    <3>1. \A i \in A : i \in S
      BY <1>5, <1>6, <1>8
    <3>2. \A i \in S : i \in 0 .. w
      BY <1>6
    <3>3. \A i \in S : i \in A
      BY <1>5, <3>2
    <3> QED
      BY <3>1, <3>3
  <2> QED
    BY <1>1, <1>2, <1>8, <2>1 DEF OnesOf, A, B
<1> QED
  BY <1>7, <1>8

\* Two bits, a nibble or half of one, at the end of a word
PairLast(m, y, x, v) == OnesOf(4 * m + 2 * y + x, v + 2) = x + y + OnesOf(m, v)

NibbleLast(c, e, w) ==
  /\ OnesOf(16 * c + e, w + 4) = OfNibble(e) + OnesOf(c, w)
  /\ e < 4 => OnesOf(4 * c + e, w + 2) = OfNibble(e) + OnesOf(c, w)

\* Four bits more at the end, or two.
LEMMA OnesOfNibble ==
  ASSUME NEW c \in Nat, NEW e \in 0 .. 15, NEW w \in Nat
  PROVE  NibbleLast(c, e, w)
<1> DEFINE d0 == e % 2
           d1 == (e \div 2) % 2
           d2 == (e \div 4) % 2
           d3 == e \div 8
           k == OnesOf(c, w)
<1>0. k \in Nat
  BY OnesFinite
<1> HIDE DEF k
<1>1. /\ d0 \in {0, 1} /\ d1 \in {0, 1} /\ d2 \in {0, 1} /\ d3 \in {0, 1}
      /\ e = d0 + 2 * d1 + 4 * d2 + 8 * d3 /\ (e < 4 => d2 = 0 /\ d3 = 0)
      /\ OfNibble(e) = d0 + d1 + d2 + d3
  BY DEF OfNibble, OfPair
<1> HIDE DEF d0, d1, d2, d3
<1>2. ASSUME NEW m \in Nat, NEW x \in {0, 1}, NEW y \in {0, 1}, NEW v \in Nat
      PROVE  PairLast(m, y, x, v)
  <2> DEFINE n == 2 * m + y
             u == v + 1
  <2>1. n \in Nat /\ u \in Nat /\ 4 * m + 2 * y + x = 2 * n + x /\ v + 2 = u + 1
    OBVIOUS
  <2>2. OnesOf(n, u) = y + OnesOf(m, v)
    BY OnesStep
  <2> HIDE DEF n, u
  <2>3. OnesOf(2 * n + x, u + 1) = x + OnesOf(n, u)
    BY <2>1, OnesStep
  <2>4. OnesOf(m, v) \in Nat
    BY OnesFinite
  <2> QED
    BY <2>1, <2>2, <2>3, <2>4 DEF PairLast
<1>3. OnesOf(16 * c + e, w + 4) = OfNibble(e) + k
  <2> DEFINE m == 4 * c + 2 * d3 + d2
             v == w + 2
  <2>1. m \in Nat /\ v \in Nat /\ 16 * c + e = 4 * m + 2 * d1 + d0 /\ w + 4 = v + 2
    BY <1>1
  <2>2. OnesOf(m, v) = d2 + d3 + k
    <3>1. PairLast(c, d3, d2, w)
      BY <1>1, <1>2
    <3> QED
      BY <1>0, <1>1, <3>1 DEF PairLast, k
  <2> HIDE DEF m, v
  <2>3. OnesOf(4 * m + 2 * d1 + d0, v + 2) = d0 + d1 + OnesOf(m, v)
    <3>1. PairLast(m, d1, d0, v)
      BY <1>1, <1>2, <2>1
    <3> QED
      BY <3>1 DEF PairLast
  <2>4. OnesOf(16 * c + e, w + 4) = d0 + d1 + (d2 + d3 + k)
    BY <2>1, <2>2, <2>3
  <2> QED
    BY <1>0, <1>1, <2>4
<1>4. ASSUME e < 4 PROVE OnesOf(4 * c + e, w + 2) = OfNibble(e) + k
  <2>1. OnesOf(4 * c + 2 * d1 + d0, w + 2) = d0 + d1 + k
    <3>1. PairLast(c, d1, d0, w)
      BY <1>1, <1>2
    <3> QED
      BY <3>1 DEF PairLast, k
  <2>2. 4 * c + 2 * d1 + d0 = 4 * c + e /\ OfNibble(e) = d0 + d1
    BY <1>1, <1>4
  <2> QED
    BY <2>1, <2>2
<1> QED
  BY <1>3, <1>4 DEF NibbleLast, k

\* The powers of two that bytes, words and double words have.
LEMMA GreatPowers ==
  Pow[8] = 256 /\ Pow[16] = 65536 /\ Pow[32] = 65536 * 65536 /\ Pow[64] = Pow[32] * Pow[32]
<1>1. Pow[8] = 256
  BY FieldsOfTwo
<1>2. Pow[16] = 65536
  <2>1. Pow[8 + 8] = Pow[8] * Pow[8]
    BY PowSum
  <2> QED
    BY <1>1, <2>1
<1>3. Pow[32] = 65536 * 65536
  <2>1. Pow[16 + 16] = Pow[16] * Pow[16]
    BY PowSum
  <2> QED
    BY <1>2, <2>1
<1>4. Pow[64] = Pow[32] * Pow[32]
  <2>1. Pow[32 + 32] = Pow[32] * Pow[32]
    BY PowSum
  <2> QED
    BY <2>1
<1> QED
  BY <1>1, <1>2, <1>3, <1>4


\* No carry leaves a word when its fours are added.
LEMMA FoursBelow ==
  \A n \in Nat : \A a \in Nat : a < Pow[4 * n] => 2 * FoursOf(a) < Pow[4 * n]
<1> DEFINE P(p) == \A a \in Nat : a < p => 2 * FoursOf(a) < p
           T == {n \in Nat : P(Pow[4 * n])}
<1>1. 0 \in T
  <2>1. Pow[4 * 0] = 1
    <3>1. 4 * 0 = 0
      OBVIOUS
    <3> QED
      BY <3>1, PowIs
  <2>2. FoursOf(0) = 0
    <3>1. FoursOf(16 * 0 + 0) = OfNibble(0) + 16 * FoursOf(0) /\ FoursOf(0) \in Nat
      BY FoursStep, FoursNatural
    <3>2. OfNibble(0) = 0 /\ 16 * 0 + 0 = 0
      BY DEF OfNibble, OfPair
    <3> QED
      BY <3>1, <3>2
  <2>3. P(1)
    BY <2>2
  <2> QED
    BY <2>1, <2>3
<1>2. ASSUME NEW n \in Nat, n \in T PROVE n + 1 \in T
  <2> DEFINE p == Pow[4 * n]
  <2>1. p \in Nat /\ Pow[4 * (n + 1)] = 16 * p /\ P(p)
    <3> DEFINE k == 4 * n
    <3>1. k \in Nat /\ 4 * (n + 1) = k + 4
      OBVIOUS
    <3> HIDE DEF k
    <3>2. Pow[k + 4] = Pow[k] * Pow[4] /\ Pow[k] \in Nat
      <4>1. 4 \in Nat
        OBVIOUS
      <4> QED
        BY <3>1, <4>1, PowSum, PowPositive
    <3>3. Pow[4] = 16
      BY WidthsArePowers
    <3> QED
      BY <1>2, <3>1, <3>2, <3>3 DEF k
  <2> HIDE DEF p
  <2>2. ASSUME NEW a \in Nat, a < 16 * p PROVE 2 * FoursOf(a) < 16 * p
    <3> DEFINE c == a \div 16
               e == a % 16
    <3>1. c \in Nat /\ e \in 0 .. 15 /\ a = 16 * c + e /\ c < p
      BY <2>1, <2>2
    <3> HIDE DEF c, e
    <3>2. FoursOf(16 * c + e) = OfNibble(e) + 16 * FoursOf(c) /\ OfNibble(e) \in 0 .. 4
          /\ FoursOf(c) \in Nat
      BY <3>1, FoursStep, FoursNatural
    <3>3. 2 * FoursOf(c) < p
      BY <2>1, <3>1
    <3> QED
      BY <2>1, <3>1, <3>2, <3>3
  <2> QED
    BY <2>1, <2>2
<1>3. \A n \in Nat : n \in T
  <2> HIDE DEF T
  <2> QED
    BY <1>1, <1>2, NextNumber
<1> QED
  BY <1>3

\* One byte of a word
ByteOff(a, v, c, n) ==
  /\ EightsOf(a) = n + 256 * EightsOf(c) /\ EightsOf(c) \in Nat
  /\ OnesOf(a, v + 8) = n + OnesOf(c, v) /\ (a < Pow[v + 8] => c < Pow[v])

\* A byte of a word.
LEMMA ByteTaken ==
  ASSUME NEW a \in Nat, NEW v \in Nat
  PROVE  \E c \in Nat, n \in 0 .. 8 : ByteOff(a, v, c, n)
<1> DEFINE c == a \div 256
           g == (a \div 16) % 16
           e == a % 16
           n == OfNibble(e) + OfNibble(g)
           b == 16 * c + g
           u == v + 4
<1>1. c \in Nat /\ g \in 0 .. 15 /\ e \in 0 .. 15 /\ a = 256 * c + 16 * g + e /\ 256 * c <= a
  OBVIOUS
<1> HIDE DEF c, g, e
<1>d. c \in Nat /\ g \in 0 .. 15 /\ e \in 0 .. 15
  BY <1>1
<1>2. EightsOf(a) = n + 256 * EightsOf(c) /\ EightsOf(c) \in Nat /\ n \in 0 .. 8
  <2>1. ByteFirst(c, g, e)
    BY <1>d, EightsStep
  <2> QED
    BY <1>1, <2>1 DEF ByteFirst
<1>3. b \in Nat /\ u \in Nat /\ a = 16 * b + e /\ v + 8 = u + 4
  BY <1>1
<1>4. OnesOf(b, u) = OfNibble(g) + OnesOf(c, v)
  <2>1. NibbleLast(c, g, v)
    BY <1>d, OnesOfNibble
  <2> QED
    BY <2>1 DEF NibbleLast
<1>5. OnesOf(a, v + 8) = n + OnesOf(c, v)
  <2> HIDE DEF b, u
  <2>1. OnesOf(16 * b + e, u + 4) = OfNibble(e) + OnesOf(b, u)
    <3>1. NibbleLast(b, e, u)
      BY <1>1, <1>3, OnesOfNibble
    <3> QED
      BY <3>1 DEF NibbleLast
  <2>2. OfNibble(e) \in 0 .. 4 /\ OfNibble(g) \in 0 .. 4
    BY <1>d, FoursStep
  <2>3. OnesOf(c, v) \in Nat
    BY <1>d, OnesFinite
  <2> QED
    BY <1>3, <1>4, <2>1, <2>2, <2>3
<1>6. a < Pow[v + 8] => c < Pow[v]
  <2>1. Pow[v + 8] = Pow[v] * Pow[8] /\ Pow[v] \in Nat
    <3>1. 8 \in Nat
      OBVIOUS
    <3> QED
      BY <3>1, PowSum, PowPositive
  <2>2. Pow[8] = 256
    BY FieldsOfTwo
  <2> QED
    BY <1>1, <2>1, <2>2
<1>7. ByteOff(a, v, c, n) /\ n \in 0 .. 8 /\ c \in Nat
  BY <1>1, <1>2, <1>5, <1>6 DEF ByteOff
<1> QED
  BY <1>7

\* A word of no bits.
LEMMA NothingLeft ==
  ASSUME NEW c \in Nat, c < Pow[0]
  PROVE  EightsOf(c) = 0 /\ OnesOf(c, 0) = 0
<1>1. c = 0
  BY PowIs
<1>2. EightsOf(0) = 0
  <2>1. ByteFirst(0, 0, 0)
    BY EightsStep
  <2>2. OfNibble(0) = 0 /\ 256 * 0 + 16 * 0 + 0 = 0
    BY DEF OfNibble, OfPair
  <2> QED
    BY <2>1, <2>2 DEF ByteFirst
<1> QED
  BY <1>1, <1>2, OnesFinite

\* Two bytes and four
TwoBytes(x, y) == x + 256 * y

TwoOff(a, v, c, x, y) ==
  /\ EightsOf(a) = TwoBytes(x, y) + 65536 * EightsOf(c) /\ EightsOf(c) \in Nat
  /\ OnesOf(a, v + 16) = x + y + OnesOf(c, v) /\ (a < Pow[v + 16] => c < Pow[v])

FourOff(a, v, c, x, y, z, w) ==
  /\ EightsOf(a) = TwoBytes(x, y) + 65536 * TwoBytes(z, w) + Pow[32] * EightsOf(c)
  /\ EightsOf(c) \in Nat /\ OnesOf(a, v + 32) = x + y + z + w + OnesOf(c, v)
  /\ (a < Pow[v + 32] => c < Pow[v])

\* Two bytes of a word.
LEMMA TwoTaken ==
  ASSUME NEW a \in Nat, NEW v \in Nat
  PROVE  \E c \in Nat, x \in 0 .. 8, y \in 0 .. 8 : TwoOff(a, v, c, x, y)
<1> DEFINE u == v + 8
<1>1. u \in Nat /\ u + 8 = v + 16
  OBVIOUS
<1> HIDE DEF u
<1>p. PICK b \in Nat, x \in 0 .. 8 : ByteOff(a, u, b, x)
  BY <1>1, ByteTaken
<1>q. PICK c \in Nat, y \in 0 .. 8 : ByteOff(b, v, c, y)
  BY ByteTaken
<1>2. /\ EightsOf(a) = x + 256 * EightsOf(b) /\ EightsOf(b) \in Nat
      /\ OnesOf(a, u + 8) = x + OnesOf(b, u) /\ (a < Pow[u + 8] => b < Pow[u])
  BY <1>p DEF ByteOff
<1>3. /\ EightsOf(b) = y + 256 * EightsOf(c) /\ EightsOf(c) \in Nat
      /\ OnesOf(b, v + 8) = y + OnesOf(c, v) /\ (b < Pow[v + 8] => c < Pow[v])
  BY <1>q DEF ByteOff
<1>4. EightsOf(a) = TwoBytes(x, y) + 65536 * EightsOf(c)
  BY <1>2, <1>3 DEF TwoBytes
<1>5. OnesOf(a, v + 16) = x + y + OnesOf(c, v)
  <2>1. OnesOf(c, v) \in Nat
    BY OnesFinite
  <2> QED
    BY <1>1, <1>2, <1>3, <2>1 DEF u
<1>6. a < Pow[v + 16] => c < Pow[v]
  BY <1>1, <1>2, <1>3 DEF u
<1>7. TwoOff(a, v, c, x, y)
  BY <1>3, <1>4, <1>5, <1>6 DEF TwoOff
<1> QED
  BY <1>7

\* Four bytes of a word.
LEMMA FourTaken ==
  ASSUME NEW a \in Nat, NEW v \in Nat
  PROVE  \E c \in Nat, x \in 0 .. 8, y \in 0 .. 8, z \in 0 .. 8, w \in 0 .. 8 :
           FourOff(a, v, c, x, y, z, w)
<1> DEFINE u == v + 16
<1>1. u \in Nat /\ u + 16 = v + 32
  OBVIOUS
<1> HIDE DEF u
<1>2. PICK b \in Nat, x \in 0 .. 8, y \in 0 .. 8 : TwoOff(a, u, b, x, y)
  BY <1>1, TwoTaken
<1>3. PICK c \in Nat, z \in 0 .. 8, w \in 0 .. 8 : TwoOff(b, v, c, z, w)
  BY TwoTaken
<1>p. /\ EightsOf(a) = TwoBytes(x, y) + 65536 * EightsOf(b) /\ EightsOf(b) \in Nat
      /\ OnesOf(a, u + 16) = x + y + OnesOf(b, u) /\ (a < Pow[u + 16] => b < Pow[u])
  BY <1>2 DEF TwoOff
<1>q. /\ EightsOf(b) = TwoBytes(z, w) + 65536 * EightsOf(c) /\ EightsOf(c) \in Nat
      /\ OnesOf(b, v + 16) = z + w + OnesOf(c, v) /\ (b < Pow[v + 16] => c < Pow[v])
  BY <1>3 DEF TwoOff
<1>4. EightsOf(a) = TwoBytes(x, y) + 65536 * TwoBytes(z, w) + Pow[32] * EightsOf(c)
  <2>1. TwoBytes(x, y) \in Nat /\ TwoBytes(z, w) \in Nat
    BY DEF TwoBytes
  <2>2. Pow[32] = 65536 * 65536
    BY GreatPowers
  <2> DEFINE b1 == EightsOf(b)
             c1 == EightsOf(c)
             l == TwoBytes(x, y)
             h == TwoBytes(z, w)
  <2>3. b1 = h + 65536 * c1 /\ EightsOf(a) = l + 65536 * b1 /\ c1 \in Nat /\ l \in Nat /\ h \in Nat
    BY <1>p, <1>q, <2>1
  <2> HIDE DEF b1, c1, l, h
  <2>4. 65536 * b1 = 65536 * h + (65536 * 65536) * c1
    BY <2>3
  <2>5. EightsOf(a) = l + 65536 * h + (65536 * 65536) * c1
    BY <2>3, <2>4
  <2> QED
    BY <2>2, <2>5 DEF c1, l, h
<1>5. OnesOf(a, v + 32) = x + y + z + w + OnesOf(c, v)
  <2>1. OnesOf(c, v) \in Nat
    BY OnesFinite
  <2> QED
    BY <1>1, <1>p, <1>q, <2>1 DEF u
<1>6. a < Pow[v + 32] => c < Pow[v]
  BY <1>1, <1>p, <1>q DEF u
<1>7. FourOff(a, v, c, x, y, z, w)
  BY <1>q, <1>4, <1>5, <1>6 DEF FourOff
<1> QED
  BY <1>7

\* One step onto the lowest byte
OntoStep(s, b, W) == IF b >= 8 THEN (s + s \div Pow[b]) % Pow[W] ELSE s

\* The sums that Population adds the bytes up in.
LEMMA OntoRuns ==
  ASSUME NEW n \in Nat, NEW a \in Nat
  PROVE  \E f : /\ Population(a, Pow[n]) = f[n] % (2 * Pow[n])
                /\ f[0] = Fields(4)[(FoursOf(a) + FoursOf(a) \div 16) % Pow[Pow[n]]]
                /\ \A k \in 1 .. n : f[k] = OntoStep(f[k - 1], Pow[n - k], Pow[n])
<1> DEFINE W == Pow[n]
           first == Fields(4)[(FoursOf(a) + FoursOf(a) \div 16) % Pow[W]]
           S == [p \in Nat \X Nat |-> OntoStep(p[2], W \div Pow[p[1]], W)]
           Is(f) == f = [k \in Nat |->
                      IF k = 0 THEN first
                      ELSE IF W \div Pow[k] >= 8
                           THEN (f[k - 1] + f[k - 1] \div Pow[W \div Pow[k]]) % Pow[W]
                           ELSE f[k - 1]]
<1>0. Pow[W] \in Nat \ {0} /\ W \in Nat
  BY PowIs
<1>1. first \in Nat
  <2> DEFINE x == FoursOf(a)
             y == (x + x \div 16) % Pow[W]
  <2>1. x \in Nat
    BY FoursNatural
  <2> HIDE DEF x
  <2>2. y \in Nat
    <3> DEFINE z == x + x \div 16
               m == Pow[W]
    <3>1. z \in Nat /\ m \in Nat \ {0}
      BY <1>0, <2>1
    <3> HIDE DEF z, m
    <3>2. z % m \in Nat
      BY <3>1
    <3> QED
      BY <3>2 DEF z, m
  <2> HIDE DEF y
  <2>3. Fields(4)[y] \in Nat
    <3>1. MaskOfFours(y)
      BY <2>2, FieldsOfTwo
    <3> QED
      BY <3>1 DEF MaskOfFours
  <2> QED
    BY <2>3 DEF x, y
<1> HIDE DEF first
<1>2. S \in [Nat \X Nat -> Nat]
  <2>1. ASSUME NEW k \in Nat, NEW s \in Nat PROVE OntoStep(s, W \div Pow[k], W) \in Nat
    <3> DEFINE b == W \div Pow[k]
               m == Pow[W]
    <3>1. b \in Nat
      <4>1. Pow[k] \in Nat \ {0} /\ W \in Nat
        BY PowIs
      <4> HIDE DEF W
      <4> QED
        BY <4>1
    <3> HIDE DEF b
    <3>2. Pow[b] \in Nat \ {0} /\ m \in Nat \ {0}
      BY <1>0, <3>1, PowIs
    <3> HIDE DEF m
    <3>3. s \div Pow[b] \in Nat
      BY <3>2
    <3> DEFINE z == s + s \div Pow[b]
    <3>4. z \in Nat
      BY <3>3
    <3> HIDE DEF z
    <3>5. z % m \in Nat
      BY <3>2, <3>4
    <3>6. OntoStep(s, b, W) \in Nat
      BY <3>5 DEF OntoStep, z, m
    <3> QED
      BY <3>6 DEF b
  <2> QED
    BY <2>1, Zenon
<1>3. PICK g : Rises(g, Nat, first, S)
  <2> HIDE DEF S
  <2> QED
    BY <1>1, <1>2, Rising
<1>4. g \in [Nat -> Nat] /\ g[0] = first
  BY <1>3 DEF Rises
<1>5. ASSUME NEW k \in Nat \ {0} PROVE g[k] = OntoStep(g[k - 1], W \div Pow[k], W)
  <2>1. g[k] = S[<<k, g[k - 1]>>]
    <3> HIDE DEF S
    <3> QED
      BY <1>3 DEF Rises
  <2>2. k \in Nat /\ g[k - 1] \in Nat
    BY <1>4, k - 1 \in Nat
  <2> HIDE DEF W
  <2> QED
    BY <2>1, <2>2
<1>6. Is(g)
  <2>1. ASSUME NEW k \in Nat
        PROVE  g[k] = IF k = 0 THEN first
                      ELSE IF W \div Pow[k] >= 8
                           THEN (g[k - 1] + g[k - 1] \div Pow[W \div Pow[k]]) % Pow[W]
                           ELSE g[k - 1]
    <3>1. CASE k = 0
      BY <1>4, <3>1
    <3>2. CASE k # 0
      <4>1. g[k] = OntoStep(g[k - 1], W \div Pow[k], W)
        BY <1>5, <3>2
      <4> QED
        BY <3>2, <4>1 DEF OntoStep
    <3> QED
      BY <3>1, <3>2
  <2> QED
    BY <1>4, <2>1
<1>7. PICK f : Is(f) /\ Population(a, W) = f[Halvings(W)] % (2 * W)
  <2>1. Population(a, W) = (CHOOSE f : Is(f))[Halvings(W)] % (2 * W)
    BY DEF Population, first, FoursOf, PairsOf
  <2> HIDE DEF Is
  <2> QED
    BY <1>6, <2>1
<1>8. Halvings(W) = n
  BY HalvingsAre
<1>9. f[0] = first
  BY <1>7
<1>10. ASSUME NEW k \in 1 .. n PROVE f[k] = OntoStep(f[k - 1], Pow[n - k], W)
  <2>1. k \in Nat /\ k # 0 /\ k \in 0 .. n
    OBVIOUS
  <2>2. W \div Pow[k] = Pow[n - k]
    BY <2>1, HalvingsAre
  <2>3. f[k] = OntoStep(f[k - 1], W \div Pow[k], W)
    BY <1>7, <2>1 DEF OntoStep
  <2> QED
    BY <2>2, <2>3
<1> QED
  BY <1>7, <1>8, <1>9, <1>10 DEF first

\* Both halves of 2 * b bits are added in the lower one.
Repeats(M, p, k)        == p \in Nat \ {0} /\ k \in Nat \ {0} /\ M = p * (p * k)
EndsWith(s, p, high, low) == s % (p * p) = p * high + low
AddedUp(s, p, M, sum)   == (s + s \div p) % M \in Nat /\ ((s + s \div p) % M) % p = sum

\* Adding the upper half of a field to the lower.
LEMMA OntoHalf ==
  ASSUME NEW p, NEW k, NEW M, Repeats(M, p, k), NEW s \in Nat,
         NEW low \in Nat, NEW high \in Nat, low + high < p, EndsWith(s, p, high, low)
  PROVE  AddedUp(s, p, M, low + high)
<1> DEFINE q == p * p
           u == s \div q
           n == p * k
<1>0. p \in Nat \ {0} /\ k \in Nat \ {0} /\ M = p * (p * k) /\ s % q = p * high + low
  BY DEF Repeats, EndsWith
<1>1. q \in Nat \ {0} /\ n \in Nat \ {0}
  BY <1>0, Product
<1>2. M \in Nat \ {0} /\ M = p * n
  <2>1. p * n \in Nat /\ p * n # 0
    BY <1>0, <1>1, Product
  <2> QED
    BY <1>0, <2>1
<1>3. u \in Int /\ s = q * u + (p * high + low)
  <2>1. s = q * (s \div q) + (s % q) /\ s \div q \in Int
    <3> HIDE DEF q
    <3> QED
      BY <1>1, DivisionIs
  <2> QED
    BY <1>0, <2>1
<1> HIDE DEF u, n
<1> DEFINE d == p * u + high
           e == d + u
           y == s + s \div p
<1>4. d \in Int /\ e \in Int /\ s = p * d + low
  <2>1. p * u \in Int
    BY <1>0, <1>3
  <2>2. p * d = q * u + p * high
    BY <1>0, <1>3
  <2>3. q * u \in Int /\ p * high \in Int
    BY <1>0, <1>1, <1>3
  <2> HIDE DEF q
  <2> QED
    BY <1>3, <2>1, <2>2, <2>3
<1> HIDE DEF d, e
<1>5. s \div p = d
  <2>1. s \in Int /\ low \in Int /\ 0 <= low /\ low < p /\ p \in Nat \ {0}
    BY <1>0
  <2> QED
    BY <1>4, <2>1, DivisionOnce
<1>6. y = p * e + (low + high) /\ y \in Int
  <2>1. e = d + u /\ d = p * u + high /\ p * u \in Int /\ p * d \in Int
    BY <1>0, <1>3, <1>4 DEF d, e
  <2>2. p * e = p * d + p * u
    BY <1>0, <1>3, <1>4, <2>1
  <2> QED
    BY <1>4, <1>5, <2>1, <2>2
<1> DEFINE t == y \div M
           z == y % M
<1>7. t \in Int /\ z \in Int /\ 0 <= z /\ y = M * t + z
  <2> HIDE DEF y
  <2> QED
    BY <1>2, <1>6, DivisionIs
<1> HIDE DEF t, z, y
<1> DEFINE v == e - n * t
<1>8. v \in Int /\ z = p * v + (low + high)
  <2>1. n * t \in Int
    BY <1>0, <1>1, <1>7
  <2>2. M * t = p * (n * t)
    BY <1>0, <1>1, <1>2, <1>7
  <2>3. p * v = p * e - p * (n * t)
    BY <1>0, <1>4, <2>1
  <2>4. p * e \in Int /\ p * (n * t) \in Int /\ v \in Int
    BY <1>0, <1>4, <2>1
  <2> HIDE DEF v
  <2> QED
    BY <1>6, <1>7, <2>2, <2>3, <2>4
<1> HIDE DEF v
<1> DEFINE r == low + high
<1>9. r \in Int /\ 0 <= r /\ r < p /\ z = p * v + r
  BY <1>8
<1> HIDE DEF r
<1>10. z % p = r
  BY <1>0, <1>7, <1>8, <1>9, DivisionOnce
<1> QED
  BY <1>7, <1>10 DEF z, y, r, AddedUp

\* A word of one nibble, or of half of one.
LEMMA NibbleOnly ==
  ASSUME NEW a \in 0 .. 15
  PROVE  /\ FoursOf(a) = OfNibble(a) /\ EightsOf(a) = OfNibble(a) /\ OnesOf(a, 4) = OfNibble(a)
         /\ OfNibble(a) \in 0 .. 4 /\ (a < 4 => OnesOf(a, 2) = OfNibble(a) /\ OfNibble(a) <= 2)
<1>1. EightsOf(0) = 0 /\ OnesOf(0, 0) = 0 /\ Pow[0] = 1
  <2>1. 0 < Pow[0] /\ Pow[0] = 1
    BY PowIs
  <2> QED
    BY <2>1, NothingLeft
<1>2. FoursOf(0) = 0
  <2>1. FoursOf(16 * 0 + 0) = OfNibble(0) + 16 * FoursOf(0) /\ FoursOf(0) \in Nat
    BY FoursStep, FoursNatural
  <2>2. OfNibble(0) = 0 /\ 16 * 0 + 0 = 0
    BY DEF OfNibble, OfPair
  <2> QED
    BY <2>1, <2>2
<1>3. FoursOf(a) = OfNibble(a) /\ OfNibble(a) \in 0 .. 4
  <2>1. FoursOf(16 * 0 + a) = OfNibble(a) + 16 * FoursOf(0) /\ OfNibble(a) \in 0 .. 4
    BY FoursStep
  <2>2. 16 * 0 + a = a
    OBVIOUS
  <2> QED
    BY <1>2, <2>1, <2>2
<1>4. EightsOf(a) = OfNibble(a)
  <2>1. ByteFirst(0, 0, a)
    BY EightsStep
  <2>2. OfNibble(0) = 0 /\ 256 * 0 + 16 * 0 + a = a
    BY DEF OfNibble, OfPair
  <2> QED
    BY <1>1, <1>3, <2>1, <2>2 DEF ByteFirst
<1>5. OnesOf(a, 4) = OfNibble(a) /\ (a < 4 => OnesOf(a, 2) = OfNibble(a))
  <2>1. /\ OnesOf(16 * 0 + a, 0 + 4) = OfNibble(a) + OnesOf(0, 0)
        /\ a < 4 => OnesOf(4 * 0 + a, 0 + 2) = OfNibble(a) + OnesOf(0, 0)
    <3>1. NibbleLast(0, a, 0)
      BY OnesOfNibble
    <3> QED
      BY <3>1 DEF NibbleLast
  <2>2. 16 * 0 + a = a /\ 4 * 0 + a = a /\ 0 + 4 = 4 /\ 0 + 2 = 2
    OBVIOUS
  <2> QED
    BY <1>1, <1>3, <2>1, <2>2
<1>6. a < 4 => OfNibble(a) <= 2
  BY DEF OfNibble, OfPair
<1> QED
  BY <1>3, <1>4, <1>5, <1>6

\* The mask of eights loses nothing.
LEMMA EightsAre ==
  ASSUME NEW n \in 1 .. 6, NEW a \in Nat, a < Pow[Pow[n]]
  PROVE  Fields(4)[(FoursOf(a) + FoursOf(a) \div 16) % Pow[Pow[n]]] = EightsOf(a)
<1> DEFINE x == FoursOf(a)
           y == x + x \div 16
           M == Pow[Pow[n]]
<1>1. x \in Nat /\ M \in Nat \ {0}
  BY FoursNatural, PowIs
<1>2. y \in Nat /\ y <= 2 * x /\ (x < 16 => y = x)
  <2> HIDE DEF x
  <2> QED
    BY <1>1
<1>3. y < M
  <2>1. CASE n = 1
    <3>1. M = 4
      BY <2>1, WidthsArePowers
    <3>2. a \in 0 .. 15 /\ a < 4
      BY <3>1
    <3>3. x <= 2
      BY <3>2, NibbleOnly
    <3> HIDE DEF x, y, M
    <3> QED
      BY <1>1, <1>2, <3>1, <3>3
  <2>2. CASE n # 1
    <3> DEFINE k == n - 2
               m == Pow[k]
    <3>1. k \in Nat /\ n = k + 2
      BY <2>2
    <3> HIDE DEF k
    <3>2. m \in Nat /\ Pow[n] = 4 * m
      <4>1. Pow[k + 2] = Pow[k] * Pow[2] /\ Pow[k] \in Nat
        <5>1. 2 \in Nat
          OBVIOUS
        <5> QED
          BY <3>1, <5>1, PowSum, PowPositive
      <4>2. Pow[2] = 4
        BY WidthsArePowers
      <4> QED
        BY <3>1, <4>1, <4>2
    <3> HIDE DEF m
    <3>3. a < Pow[4 * m] => 2 * FoursOf(a) < Pow[4 * m]
      BY <3>2, FoursBelow
    <3>4. 2 * x < M
      BY <3>2, <3>3
    <3> HIDE DEF x, y, M
    <3> QED
      BY <1>1, <1>2, <3>4
  <2> QED
    BY <2>1, <2>2
<1>4. y % M = y
  <2> HIDE DEF y, M
  <2>1. y = M * 0 + y /\ 0 <= y /\ y < M /\ 0 \in Int /\ y \in Int /\ M \in Nat \ {0}
    BY <1>1, <1>2, <1>3
  <2> QED
    BY <2>1, DivisionOnce
<1> QED
  BY <1>4 DEF EightsOf

\* The bytes of two, four and eight are added in the lowest.
Remains(s, p, rest) == s \in Nat /\ s % p = rest
EndsInTwo(s, x, y) == Remains(s, 65536, TwoBytes(x, y))

\* Two bytes are added in the lowest.
LEMMA TwoAdded ==
  ASSUME NEW s, NEW k, NEW M, Repeats(M, 256, k),
         NEW x \in 0 .. 64, NEW y \in 0 .. 64, EndsInTwo(s, x, y)
  PROVE  AddedUp(s, 256, M, x + y)
<1>0. s \in Nat /\ s % 65536 = TwoBytes(x, y)
  BY DEF Remains, EndsInTwo
<1>1. x + y < 256 /\ x \in Nat /\ y \in Nat
  OBVIOUS
<1>2. EndsWith(s, 256, y, x)
  <2>1. 256 * 256 = 65536 /\ TwoBytes(x, y) = 256 * y + x
    BY DEF TwoBytes
  <2> QED
    BY <1>0, <2>1 DEF EndsWith
<1> QED
  BY <1>0, <1>1, <1>2, OntoHalf

FourBytes(x, y, z, w) == TwoBytes(x, y) + 65536 * TwoBytes(z, w)
EndsInFour(s, x, y, z, w) == Remains(s, Pow[32], FourBytes(x, y, z, w))

MadeOfTwos(M) == \E k : Repeats(M, 65536, k)
TwosAdded(s, M, x, y) == AddedUp(s, 65536, M, TwoBytes(x, y))

\* Four bytes are added in the lowest two.
LEMMA FourAdded ==
  ASSUME NEW s, NEW M, MadeOfTwos(M),
         NEW x \in 0 .. 32, NEW y \in 0 .. 32, NEW z \in 0 .. 32, NEW w \in 0 .. 32,
         EndsInFour(s, x, y, z, w)
  PROVE  TwosAdded(s, M, x + z, y + w)
<1> DEFINE low == TwoBytes(x, y)
           high == TwoBytes(z, w)
<1>0. s \in Nat /\ s % Pow[32] = low + 65536 * high
  BY DEF Remains, FourBytes, EndsInFour
<1>1. low \in Nat /\ high \in Nat /\ low + high < 65536 /\ low + high = TwoBytes(x + z, y + w)
  BY DEF TwoBytes
<1> HIDE DEF low, high
<1>2. EndsWith(s, 65536, high, low)
  <2>1. Pow[32] = 65536 * 65536 /\ s % Pow[32] = 65536 * high + low
    BY <1>0, <1>1, GreatPowers
  <2> DEFINE d == 65536
  <2>2. s % (d * d) = d * high + low
    BY <2>1
  <2> HIDE DEF d
  <2>3. EndsWith(s, d, high, low)
    BY <2>2 DEF EndsWith
  <2> QED
    BY <2>3 DEF d
<1>3. low \in Nat /\ high \in Nat /\ low + high < 65536
  BY <1>1
<1>k. PICK k : Repeats(M, 65536, k)
  BY DEF MadeOfTwos
<1>4. AddedUp(s, 65536, M, low + high)
  BY <1>0, <1>2, <1>3, <1>k, OntoHalf
<1> QED
  BY <1>1, <1>4 DEF TwosAdded

\* Eight bytes are added in the lowest four.
LEMMA EightAdded ==
  ASSUME NEW s \in Nat, NEW k, NEW M, Repeats(M, Pow[32], k),
         NEW low \in Nat, NEW high \in Nat, low + high < Pow[32], s = low + Pow[32] * high
  PROVE  AddedUp(s, Pow[32], M, low + high)
<1> DEFINE p == Pow[32]
           q == p * p
<1>1. p \in Nat \ {0} /\ low + high < p /\ s = p * high + low
  <2>1. Pow[32] \in Nat \ {0}
    BY PowIs
  <2> QED
    BY <2>1
<1>2. Repeats(M, p, k)
  OBVIOUS
<1> HIDE DEF p
<1>3. s < q /\ q \in Nat \ {0}
  <2>1. q \in Nat \ {0}
    BY <1>1, Product
  <2>2. low < p /\ high < p
    BY <1>1
  <2>3. p * high + low < p * p
    BY <1>1, <2>2, Joined
  <2> QED
    BY <1>1, <2>1, <2>3
<1>4. s % q = s
  <2>1. s = q * 0 + s /\ s \in Int /\ 0 <= s /\ 0 \in Int
    BY <1>3
  <2> HIDE DEF q
  <2> QED
    BY <1>3, <2>1, DivisionOnce
<1>5. EndsWith(s, p, high, low)
  BY <1>1, <1>4 DEF EndsWith
<1>6. AddedUp(s, p, M, low + high)
  BY <1>1, <1>2, <1>5, OntoHalf
<1> QED
  BY <1>6 DEF p

\* A width that is halved n times: what the steps make of the sums of eight
StepsOnto(f, n) == \A k \in 1 .. n : f[k] = OntoStep(f[k - 1], Pow[n - k], Pow[n])

\* The steps by less than a byte do nothing.
LEMMA SmallSteps ==
  ASSUME NEW n \in Nat, NEW f, StepsOnto(f, n)
  PROVE  /\ n >= 3 => f[n] = f[n - 3]
         /\ n = 2 => f[2] = f[0]
         /\ n = 1 => f[1] = f[0]
<1>1. ASSUME NEW k \in 1 .. n, n - k < 3 PROVE f[k] = f[k - 1]
  <2> DEFINE d == n - k
  <2>1. d = 0 \/ d = 1 \/ d = 2
    BY <1>1
  <2>2. ~(Pow[d] >= 8)
    BY <2>1, WidthsArePowers
  <2>3. f[k] = OntoStep(f[k - 1], Pow[d], Pow[n])
    BY DEF StepsOnto
  <2> QED
    BY <2>2, <2>3 DEF OntoStep
<1>2. ASSUME n >= 3 PROVE f[n] = f[n - 3]
  <2> DEFINE a == n - 1
             b == n - 2
             c == n - 3
  <2>1. /\ n \in 1 .. n /\ n - n < 3 /\ a \in 1 .. n /\ n - a < 3 /\ b \in 1 .. n /\ n - b < 3
        /\ n - 1 = a /\ a - 1 = b /\ b - 1 = c
    BY <1>2
  <2> HIDE DEF a, b, c
  <2>2. f[n] = f[n - 1] /\ f[a] = f[a - 1] /\ f[b] = f[b - 1]
    BY <1>1, <2>1
  <2> QED
    BY <2>1, <2>2 DEF c
<1>3. ASSUME n = 2 PROVE f[2] = f[0]
  <2>1. /\ 2 \in 1 .. n /\ n - 2 < 3 /\ 1 \in 1 .. n /\ n - 1 < 3 /\ 2 - 1 = 1 /\ 1 - 1 = 0
    BY <1>3
  <2>2. f[2] = f[2 - 1] /\ f[1] = f[1 - 1]
    BY <1>1, <2>1
  <2> QED
    BY <2>1, <2>2
<1>4. ASSUME n = 1 PROVE f[1] = f[0]
  <2>1. 1 \in 1 .. n /\ n - 1 < 3 /\ 1 - 1 = 0
    BY <1>4
  <2>2. f[1] = f[1 - 1]
    BY <1>1, <2>1
  <2> QED
    BY <2>1, <2>2
<1> QED
  BY <1>2, <1>3, <1>4

\* One step of adding up leaves the sum in the lower half.
LEMMA StepIs ==
  ASSUME NEW n \in Nat, NEW f, StepsOnto(f, n), NEW k \in 1 .. n, NEW p, NEW sum,
         Pow[n - k] >= 8, Pow[Pow[n - k]] = p, AddedUp(f[k - 1], p, Pow[Pow[n]], sum)
  PROVE  Remains(f[k], p, sum)
<1>1. f[k] = OntoStep(f[k - 1], Pow[n - k], Pow[n])
  BY DEF StepsOnto
<1>2. f[k] = (f[k - 1] + f[k - 1] \div p) % Pow[Pow[n]]
  BY <1>1 DEF OntoStep
<1> QED
  BY <1>2 DEF AddedUp, Remains

\* The last sum is at most the width.
LEMMA LowestByte ==
  ASSUME NEW s \in Nat, NEW t \in Nat, s % 256 = t, NEW w \in {8, 16, 32, 64}, t <= w
  PROVE  s % (2 * w) = t
<1> DEFINE q == s \div 256
<1>1. q \in Nat /\ s = 256 * q + t
  OBVIOUS
<1> HIDE DEF q
<1>2. CASE w = 8
  BY <1>1, <1>2
<1>3. CASE w = 16
  BY <1>1, <1>3
<1>4. CASE w = 32
  BY <1>1, <1>4
<1>5. CASE w = 64
  BY <1>1, <1>5
<1> QED
  BY <1>2, <1>3, <1>4, <1>5

\* Population adds up the sums of eights.
LEMMA PopulationRuns ==
  ASSUME NEW n \in 1 .. 6, NEW a \in Nat, a < Pow[Pow[n]]
  PROVE  \E f : Population(a, Pow[n]) = f[n] % (2 * Pow[n]) /\ f[0] = EightsOf(a) /\ StepsOnto(f, n)
<1>1. n \in Nat
  OBVIOUS
<1>2. PICK f : /\ Population(a, Pow[n]) = f[n] % (2 * Pow[n])
               /\ f[0] = Fields(4)[(FoursOf(a) + FoursOf(a) \div 16) % Pow[Pow[n]]]
               /\ \A k \in 1 .. n : f[k] = OntoStep(f[k - 1], Pow[n - k], Pow[n])
  BY <1>1, OntoRuns
<1>3. f[0] = EightsOf(a)
  BY <1>2, EightsAre
<1>4. StepsOnto(f, n)
  BY <1>2 DEF StepsOnto
<1> QED
  BY <1>2, <1>3, <1>4

\* Two halves of a byte, and less
LEMMA PopulationSmall ==
  ASSUME NEW n \in 1 .. 3, NEW a \in Nat, a < Pow[Pow[n]]
  PROVE  Population(a, Pow[n]) = OnesOf(a, Pow[n])
<1>1. n \in 1 .. 6 /\ n \in Nat
  OBVIOUS
<1>2. PICK f : Population(a, Pow[n]) = f[n] % (2 * Pow[n]) /\ f[0] = EightsOf(a) /\ StepsOnto(f, n)
  BY <1>1, PopulationRuns
<1>3. f[n] = EightsOf(a)
  <2>1. n = 3 => n - 3 = 0
    OBVIOUS
  <2> QED
    BY <1>1, <1>2, <2>1, SmallSteps
<1>4. CASE n = 1
  <2>1. Pow[n] = 2 /\ Pow[2] = 4
    BY <1>4, WidthsArePowers
  <2>2. a \in 0 .. 15 /\ a < 4
    BY <2>1
  <2>3. EightsOf(a) = OnesOf(a, 2) /\ EightsOf(a) \in 0 .. 2
    BY <2>2, NibbleOnly
  <2>4. EightsOf(a) % (2 * 2) = EightsOf(a)
    BY <2>3
  <2> QED
    BY <1>2, <1>3, <2>1, <2>3, <2>4
<1>5. CASE n = 2
  <2>1. Pow[n] = 4 /\ Pow[4] = 16
    BY <1>5, WidthsArePowers
  <2>2. a \in 0 .. 15
    BY <2>1
  <2>3. EightsOf(a) = OnesOf(a, 4) /\ EightsOf(a) \in 0 .. 4
    BY <2>2, NibbleOnly
  <2>4. EightsOf(a) % (2 * 4) = EightsOf(a)
    BY <2>3
  <2> QED
    BY <1>2, <1>3, <2>1, <2>3, <2>4
<1>6. CASE n = 3
  <2>1. Pow[n] = 8
    BY <1>6, WidthsArePowers
  <2>b. PICK c \in Nat, x \in 0 .. 8 : ByteOff(a, 0, c, x)
    BY ByteTaken
  <2>2. /\ EightsOf(a) = x + 256 * EightsOf(c) /\ EightsOf(c) \in Nat
        /\ OnesOf(a, 0 + 8) = x + OnesOf(c, 0) /\ (a < Pow[0 + 8] => c < Pow[0])
    BY <2>b DEF ByteOff
  <2>3. 0 + 8 = 8
    OBVIOUS
  <2>4. EightsOf(c) = 0 /\ OnesOf(c, 0) = 0
    <3>1. c < Pow[0]
      BY <2>1, <2>2, <2>3
    <3> QED
      BY <3>1, NothingLeft
  <2>5. EightsOf(a) = x /\ OnesOf(a, 8) = x
    BY <2>2, <2>3, <2>4
  <2>6. x % (2 * 8) = x
    OBVIOUS
  <2> QED
    BY <1>2, <1>3, <2>1, <2>5, <2>6
<1> QED
  BY <1>4, <1>5, <1>6

\* A word is made of bytes, of pairs of bytes, of fours.
LEMMA WordRepeats ==
  ASSUME NEW n \in 4 .. 6
  PROVE  /\ \E k : Repeats(Pow[Pow[n]], 256, k)
         /\ n \in 5 .. 6 => MadeOfTwos(Pow[Pow[n]])
         /\ n = 6 => Repeats(Pow[Pow[n]], Pow[32], 1)
<1> DEFINE P == Pow[32]
<1>1. P \in Nat \ {0} /\ P = 65536 * 65536
  BY PowIs, GreatPowers
<1>2. /\ n = 4 => Pow[n] = 16
      /\ n = 5 => Pow[n] = 32
      /\ n = 6 => Pow[n] = 64
  BY WidthsArePowers
<1>3. Pow[16] = 65536 /\ Pow[64] = P * P
  BY GreatPowers
<1> HIDE DEF P
<1>4. CASE n = 4
  <2>1. Repeats(65536, 256, 1)
    BY DEF Repeats
  <2> QED
    BY <1>2, <1>3, <1>4, <2>1
<1>5. CASE n = 5
  <2>1. Pow[Pow[n]] = P
    BY <1>2, <1>5 DEF P
  <2>2. Repeats(P, 256, 65536)
    BY <1>1 DEF Repeats
  <2>3. Repeats(P, 65536, 1)
    BY <1>1 DEF Repeats
  <2> QED
    BY <1>5, <2>1, <2>2, <2>3 DEF MadeOfTwos
<1>6. CASE n = 6
  <2> DEFINE Q == P * P
             d == 65536
             k == d * P
  <2>1. Pow[Pow[n]] = Q
    BY <1>2, <1>3, <1>6
  <2>2. d \in Nat \ {0} /\ P = d * d /\ d = 256 * 256
    BY <1>1
  <2> HIDE DEF d
  <2>3. k \in Nat \ {0}
    BY <1>1, <2>2, Product
  <2>4. Q = d * k
    BY <1>1, <2>2
  <2>5. Repeats(Q, d, P)
    BY <1>1, <2>2, <2>4 DEF Repeats
  <2>6. Repeats(Q, 256, k)
    <3> HIDE DEF Q, k
    <3>1. 256 * (256 * k) = d * k
      BY <2>2, <2>3
    <3> QED
      BY <2>3, <2>4, <3>1 DEF Repeats
  <2>7. Repeats(Q, P, 1)
    <3>1. P * 1 = P
      BY <1>1
    <3> QED
      BY <1>1, <3>1 DEF Repeats
  <2> HIDE DEF Q
  <2> QED
    BY <1>6, <2>1, <2>5, <2>6, <2>7 DEF d, P, MadeOfTwos
<1> QED
  BY <1>4, <1>5, <1>6

\* From two bytes on
LEMMA FromTwo ==
  ASSUME NEW n \in 4 .. 6, NEW f, StepsOnto(f, n), 
         NEW x \in 0 .. 32, NEW y \in 0 .. 32, EndsInTwo(f[n - 4], x, y)
  PROVE  Remains(f[n], 256, x + y)
<1> DEFINE j == n - 3
<1>1. n \in Nat /\ j \in 1 .. n /\ n - j = 3 /\ j - 1 = n - 4 /\ n >= 3
  OBVIOUS
<1>2. f[n] = f[j]
  BY <1>1, SmallSteps
<1> HIDE DEF j
<1>3. PICK k : Repeats(Pow[Pow[n]], 256, k)
  BY WordRepeats
<1>4. x \in 0 .. 64 /\ y \in 0 .. 64
  OBVIOUS
<1>5. AddedUp(f[j - 1], 256, Pow[Pow[n]], x + y)
  <2> DEFINE s == f[n - 4]
             M == Pow[Pow[n]]
  <2>1. EndsInTwo(s, x, y) /\ Repeats(M, 256, k)
    BY <1>3
  <2> HIDE DEF s, M
  <2>2. AddedUp(s, 256, M, x + y)
    BY <1>4, <2>1, TwoAdded
  <2> QED
    BY <1>1, <2>2 DEF s, M
<1>6. Pow[n - j] >= 8 /\ Pow[Pow[n - j]] = 256
  BY <1>1, WidthsArePowers, GreatPowers
<1>7. Remains(f[j], 256, x + y)
  BY <1>1, <1>5, <1>6, StepIs
<1> QED
  BY <1>2, <1>7

\* From four bytes on
LEMMA FromFour ==
  ASSUME NEW n \in 5 .. 6, NEW f, StepsOnto(f, n), 
         NEW x \in 0 .. 16, NEW y \in 0 .. 16, NEW z \in 0 .. 16, NEW w \in 0 .. 16,
         EndsInFour(f[n - 5], x, y, z, w)
  PROVE  Remains(f[n], 256, (x + z) + (y + w))
<1> DEFINE j == n - 4
           X == x + z
           Y == y + w
<1>1. n \in Nat /\ n \in 4 .. 6 /\ j \in 1 .. n /\ n - j = 4 /\ j - 1 = n - 5
  OBVIOUS
<1>2. MadeOfTwos(Pow[Pow[n]])
  BY <1>1, WordRepeats
<1>3. /\ x \in 0 .. 32 /\ y \in 0 .. 32 /\ z \in 0 .. 32 /\ w \in 0 .. 32
      /\ X \in 0 .. 32 /\ Y \in 0 .. 32
  OBVIOUS
<1>4. TwosAdded(f[n - 5], Pow[Pow[n]], X, Y)
  <2> DEFINE s == f[n - 5]
             M == Pow[Pow[n]]
  <2>1. /\ EndsInFour(s, x, y, z, w)
        /\ MadeOfTwos(M)
    BY <1>2
  <2> HIDE DEF s, M
  <2>2. /\ x \in 0 .. 32 /\ y \in 0 .. 32 /\ z \in 0 .. 32 /\ w \in 0 .. 32
        /\ EndsInFour(s, x, y, z, w) /\ MadeOfTwos(M)
    BY <1>3, <2>1
  <2>3. TwosAdded(s, M, x + z, y + w)
    BY <2>2, FourAdded, Zenon
  <2> QED
    BY <2>3 DEF s, M
<1> HIDE DEF X, Y
<1>5. Pow[n - j] >= 8 /\ Pow[Pow[n - j]] = 65536
  BY <1>1, WidthsArePowers, GreatPowers
<1>6. EndsInTwo(f[j], X, Y)
  <2>1. AddedUp(f[j - 1], 65536, Pow[Pow[n]], TwoBytes(X, Y)) /\ n \in Nat /\ j \in 1 .. n
    BY <1>1, <1>4 DEF TwosAdded
  <2> HIDE DEF j
  <2> QED
    BY <1>5, <2>1, StepIs DEF EndsInTwo
<1>7. Remains(f[n], 256, X + Y)
  <2>1. n \in 4 .. 6 /\ X \in 0 .. 32 /\ Y \in 0 .. 32 /\ EndsInTwo(f[n - 4], X, Y)
    BY <1>1, <1>3, <1>6
  <2> QED
    BY <2>1, FromTwo, Zenon
<1> QED
  BY <1>7 DEF X, Y

\* Population counts the ones of a word of any of the widths.
LEMMA PopulationIs ==
  ASSUME NEW n \in 1 .. 6, NEW a \in Nat, a < Pow[Pow[n]]
  PROVE  Population(a, Pow[n]) = OnesOf(a, Pow[n])
<1>1. PICK f : Population(a, Pow[n]) = f[n] % (2 * Pow[n]) /\ f[0] = EightsOf(a) /\ StepsOnto(f, n)
  BY PopulationRuns
<1>2. 0 \in Nat /\ 0 + 16 = 16 /\ 0 + 32 = 32
  OBVIOUS
<1>3. CASE n \in 1 .. 3
  BY <1>3, PopulationSmall
<1>4. CASE n = 4
  <2>1. Pow[n] = 16
    BY <1>4, WidthsArePowers
  <2>2. PICK c \in Nat, x \in 0 .. 8, y \in 0 .. 8 : TwoOff(a, 0, c, x, y)
    BY <1>2, TwoTaken
  <2>3. EightsOf(c) = 0 /\ OnesOf(c, 0) = 0
    <3>1. c < Pow[0]
      BY <1>2, <2>1, <2>2 DEF TwoOff
    <3> QED
      BY <3>1, NothingLeft
  <2>4. EightsOf(a) = TwoBytes(x, y) /\ OnesOf(a, 16) = x + y
    BY <1>2, <2>2, <2>3 DEF TwoOff, TwoBytes
  <2>5. EndsInTwo(f[n - 4], x, y)
    <3>1. n - 4 = 0
      BY <1>4
    <3>2. TwoBytes(x, y) \in Nat /\ TwoBytes(x, y) % 65536 = TwoBytes(x, y)
      BY DEF TwoBytes, FourBytes
    <3> QED
      BY <1>1, <2>4, <3>1, <3>2 DEF Remains, EndsInTwo
  <2>6. x \in 0 .. 32 /\ y \in 0 .. 32 /\ n \in 4 .. 6
    BY <1>4
  <2>7. Remains(f[n], 256, x + y)
    BY <1>1, <2>5, <2>6, FromTwo
  <2>8. x + y \in Nat /\ x + y <= 16 /\ 16 \in {8, 16, 32, 64}
    OBVIOUS
  <2>9. f[n] % (2 * 16) = x + y
    BY <2>7, <2>8, LowestByte DEF Remains
  <2> QED
    BY <1>1, <2>1, <2>4, <2>9
<1>5. CASE n = 5
  <2>1. Pow[n] = 32
    BY <1>5, WidthsArePowers
  <2>2. PICK c \in Nat, x \in 0 .. 8, y \in 0 .. 8, z \in 0 .. 8, w \in 0 .. 8 :
          FourOff(a, 0, c, x, y, z, w)
    BY <1>2, FourTaken
  <2>3. EightsOf(c) = 0 /\ OnesOf(c, 0) = 0
    <3>1. c < Pow[0]
      BY <1>2, <2>1, <2>2 DEF FourOff, FourBytes
    <3> QED
      BY <3>1, NothingLeft
  <2> DEFINE low == FourBytes(x, y, z, w)
             P == Pow[32]
  <2>4. EightsOf(a) = low /\ OnesOf(a, 32) = (x + z) + (y + w)
    <3>1. EightsOf(a) = low + P * 0 /\ OnesOf(a, 32) = x + y + z + w + 0
      BY <1>2, <2>2, <2>3 DEF FourOff, FourBytes
    <3>2. P \in Nat /\ low \in Nat
      BY PowIs DEF TwoBytes, FourBytes
    <3>3. x + y + z + w + 0 = (x + z) + (y + w)
      OBVIOUS
    <3> HIDE DEF P, low
    <3> QED
      BY <3>1, <3>2, <3>3
  <2>5. EndsInFour(f[n - 5], x, y, z, w)
    <3>1. n - 5 = 0
      BY <1>5
    <3>2. low \in Nat /\ low < 65536 * 65536
      BY DEF TwoBytes, FourBytes
    <3>3. P = 65536 * 65536 /\ P \in Nat \ {0}
      BY GreatPowers, PowIs
    <3>4. low < P
      BY <3>2, <3>3
    <3> HIDE DEF low, P
    <3>5. low = P * 0 + low /\ 0 <= low /\ 0 \in Int /\ low \in Int
      BY <3>2, <3>3
    <3>6. low % P = low
      BY <3>3, <3>4, <3>5, DivisionOnce
    <3> QED
      BY <1>1, <2>4, <3>1, <3>2, <3>6 DEF Remains, EndsInFour, low, P
  <2>6. x \in 0 .. 16 /\ y \in 0 .. 16 /\ z \in 0 .. 16 /\ w \in 0 .. 16 /\ n \in 5 .. 6
    BY <1>5
  <2>7. Remains(f[n], 256, (x + z) + (y + w))
    BY <1>1, <2>5, <2>6, FromFour, ZenonT(60)
  <2> DEFINE t == (x + z) + (y + w)
  <2>8. t \in Nat /\ t <= 32 /\ 32 \in {8, 16, 32, 64}
    OBVIOUS
  <2>9. f[n] \in Nat /\ f[n] % 256 = t
    BY <2>7 DEF Remains
  <2> HIDE DEF t
  <2>10. f[n] % (2 * 32) = t
    BY <2>8, <2>9, LowestByte
  <2> QED
    BY <1>1, <2>1, <2>4, <2>10 DEF t
<1>6. CASE n = 6
  <2>1. Pow[n] = 64 /\ 32 \in Nat /\ 32 + 32 = 64
    BY <1>6, WidthsArePowers
  <2>2. PICK b \in Nat, x \in 0 .. 8, y \in 0 .. 8, z \in 0 .. 8, w \in 0 .. 8 :
          FourOff(a, 32, b, x, y, z, w)
    BY <2>1, FourTaken
  <2>3. PICK c \in Nat, X \in 0 .. 8, Y \in 0 .. 8, Z \in 0 .. 8, W \in 0 .. 8 :
          FourOff(b, 0, c, X, Y, Z, W)
    BY <1>2, FourTaken
  <2>4. EightsOf(c) = 0 /\ OnesOf(c, 0) = 0
    <3>1. a < Pow[64]
      BY <2>1
    <3>2. b < Pow[32]
      BY <2>1, <2>2, <3>1 DEF FourOff, FourBytes
    <3>3. c < Pow[0]
      BY <1>2, <2>3, <3>2 DEF FourOff, FourBytes
    <3> QED
      BY <3>3, NothingLeft
  <2> DEFINE low == FourBytes(x, y, z, w)
             high == FourBytes(X, Y, Z, W)
             P == Pow[32]
             x1 == x + X
             y1 == y + Y
             z1 == z + Z
             w1 == w + W
             t == (x1 + z1) + (y1 + w1)
  <2>5. P = 65536 * 65536 /\ P \in Nat \ {0}
    BY GreatPowers, PowIs
  <2>6. low \in Nat /\ high \in Nat /\ low + high < 65536 * 65536
        /\ low + high = FourBytes(x1, y1, z1, w1)
    BY DEF TwoBytes, FourBytes
  <2>7. EightsOf(b) = high /\ OnesOf(b, 32) = X + Y + Z + W
    <3>1. EightsOf(b) = high + P * 0 /\ OnesOf(b, 32) = X + Y + Z + W + 0
      BY <1>2, <2>3, <2>4 DEF FourOff, FourBytes
    <3>2. X + Y + Z + W + 0 = X + Y + Z + W
      OBVIOUS
    <3> HIDE DEF P, low, high
    <3> QED
      BY <2>5, <2>6, <3>1, <3>2
  <2>8. EightsOf(a) = low + P * high
    BY <2>2, <2>7 DEF FourOff, FourBytes
  <2>9. OnesOf(a, 64) = t
    <3>1. OnesOf(a, 64) = x + y + z + w + OnesOf(b, 32)
      BY <2>1, <2>2 DEF FourOff, FourBytes
    <3> QED
      BY <2>7, <3>1
  <2>10. x1 \in 0 .. 16 /\ y1 \in 0 .. 16 /\ z1 \in 0 .. 16 /\ w1 \in 0 .. 16 /\ n \in 5 .. 6
    BY <1>6
  <2>11. t \in Nat /\ t <= 64 /\ 64 \in {8, 16, 32, 64}
    OBVIOUS
  <2> HIDE DEF x1, y1, z1, w1
  <2>12. Remains(f[1], P, FourBytes(x1, y1, z1, w1))
    <3> HIDE DEF low, high
    <3>1. f[1 - 1] \in Nat /\ f[1 - 1] = low + P * high
      <4>1. 1 - 1 = 0 /\ P * high \in Nat
        BY <2>5, <2>6
      <4> QED
        BY <1>1, <2>6, <2>8, <4>1
    <3>2. Repeats(Pow[Pow[n]], Pow[32], 1)
      BY <1>6, WordRepeats
    <3>3. AddedUp(f[1 - 1], P, Pow[Pow[n]], low + high)
      <4> DEFINE s == f[1 - 1]
                 M == Pow[Pow[n]]
      <4>1. low + high < Pow[32] /\ s = low + Pow[32] * high /\ s \in Nat /\ Repeats(M, Pow[32], 1)
        BY <2>5, <2>6, <3>1, <3>2
      <4> HIDE DEF s, M
      <4>2. AddedUp(s, Pow[32], M, low + high)
        BY <2>6, <4>1, EightAdded
      <4> QED
        BY <4>2 DEF s, M
    <3>4. n \in Nat /\ 1 \in 1 .. n /\ n - 1 = 5
      BY <1>6
    <3>5. Pow[n - 1] >= 8 /\ Pow[Pow[n - 1]] = P
      BY <3>4, WidthsArePowers
    <3>6. Remains(f[1], P, low + high)
      <4> HIDE DEF P
      <4> QED
        BY <1>1, <3>3, <3>4, <3>5, StepIs
    <3> QED
      BY <2>6, <3>6
  <2>13. Remains(f[n], 256, t)
    <3>1. EndsInFour(f[n - 5], x1, y1, z1, w1)
      <4>1. n - 5 = 1
        BY <1>6
      <4> QED
        BY <2>12, <4>1 DEF EndsInFour
    <3> QED
      BY <1>1, <2>10, <3>1, FromFour, ZenonT(60)
  <2> HIDE DEF t
  <2>14. f[n] % (2 * 64) = t
    BY <2>11, <2>13, LowestByte DEF Remains
  <2> QED
    BY <1>1, <2>1, <2>9, <2>14
<1> QED
  BY <1>3, <1>4, <1>5, <1>6

\* The zeros before and after, the first bit set, the ones: of every word.
LEMMA CountsAre ==
  ASSUME NEW a \in Word64
  PROVE  Counts(a)
<1>1. PICK n \in 1 .. 5 : HalfBits = Pow[n] /\ Bits = Pow[n + 1]
  BY WidthsArePowers
<1> DEFINE k == n + 1
<1>2. n \in Nat /\ k \in Nat /\ n \in 1 .. 6 /\ k \in 1 .. 6 /\ Bits = Pow[k]
  BY <1>1
<1>3. a \in Nat /\ a < Pow[Pow[k]]
  BY <1>1, Widths DEF Word64, Modulus
<1>4. lo(a) \in Nat /\ lo(a) < Pow[Pow[n]]
  <2>1. Half = Pow[Pow[n]] /\ Half \in Nat \ {0}
    BY <1>1, Widths DEF Half
  <2>2. a % Half \in Nat /\ a % Half < Half
    BY <1>3, <2>1
  <2> QED
    BY <2>1, <2>2 DEF lo
<1> HIDE DEF k
<1>5. ASSUME NEW m \in 1 .. 6, NEW x \in Nat, x < Pow[Pow[m]], x # 0
      PROVE  /\ Leading(x, Pow[m]) = Pow[m] - 1 - HighestOf(Ones(x, Pow[m]))
             /\ Trailing(x, Pow[m]) = LowestOf(Ones(x, Pow[m]))
  <2> DEFINE W == Pow[m]
             H == HighestOf(Ones(x, W))
  <2>1. m \in Nat /\ W \in Nat
    BY PowIs
  <2>2. PICK z \in 0 .. Pow[m] - 1 : Leading(x, Pow[m]) = z /\ H = Pow[m] - 1 - z
    BY <1>5, <2>1, LeadingIs
  <2>3. Trailing(x, Pow[m]) = LowestOf(Ones(x, Pow[m]))
    BY <1>5, <2>1, TrailingIs
  <2>4. W - 1 - H = z
    <3> HIDE DEF W, H
    <3>1. H = W - 1 - z /\ z \in Int
      BY <2>1, <2>2 DEF W
    <3> QED
      BY <2>1, <3>1
  <2> QED
    BY <2>2, <2>3, <2>4
<1>6. ASSUME a # 0
      PROVE  /\ clzdi2(a) = Bits - 1 - HighestOf(Ones(a, Bits))
             /\ ctzdi2(a) = LowestOf(Ones(a, Bits)) /\ ffsdi2(a) = ctzdi2(a) + 1
  BY <1>2, <1>3, <1>5, <1>6 DEF clzdi2, ctzdi2, ffsdi2
<1>7. ASSUME lo(a) # 0
      PROVE  /\ clzsi2(lo(a)) = HalfBits - 1 - HighestOf(Ones(lo(a), HalfBits))
             /\ ctzsi2(lo(a)) = LowestOf(Ones(lo(a), HalfBits))
  BY <1>1, <1>2, <1>4, <1>5, <1>7 DEF clzsi2, ctzsi2
<1>8. ffsdi2(0) = 0
  BY DEF ffsdi2
<1>9. popcountdi2(a) = Cardinality(Ones(a, Bits))
  BY <1>2, <1>3, PopulationIs DEF popcountdi2, OnesOf
<1>10. popcountsi2(lo(a)) = Cardinality(Ones(lo(a), HalfBits))
  BY <1>1, <1>2, <1>4, PopulationIs DEF popcountsi2, OnesOf
<1> QED
  BY <1>6, <1>7, <1>8, <1>9, <1>10 DEF Counts

\* Nothing is assumed but the widths.
LEMMA AllExact == Exact
<1>1. ASSUME NEW a \in 0 .. Pow[16] - 1 PROVE Population(a, 16) = Cardinality(Ones(a, 16))
  <2>1. Pow[4] = 16 /\ 4 \in 1 .. 6 /\ Pow[16] \in Nat
    BY WidthsArePowers, PowIs
  <2>2. a \in Nat /\ a < Pow[Pow[4]]
    BY <2>1
  <2>3. Population(a, Pow[4]) = OnesOf(a, Pow[4])
    BY <2>1, <2>2, PopulationIs
  <2> QED
    BY <2>1, <2>3 DEF OnesOf
<1> QED
  BY <1>1, DivisionIsExact, ShiftsAre, CountsAre DEF Exact

\* Division, shifts and counts of Arith64 are exact for every word of a
\* width of 4, 8, 16, 32 or 64 bits.
THEOREM ArithmeticIsExact == PrintSpec => []ArithmeticExact
<1>1. ArithmeticExact
  BY AllExact DEF ArithmeticExact
<1> QED
  BY <1>1, PTL

-------------------------------------------------------------------------------
(* itoa and ultoa. *)

\* The letters of itoa and those of ultoa.
LEMMA LettersAre == Smalls \in Letters36 /\ Larges \in Letters36
<1>1. \A d \in 0 .. 35 : Small(d) \in Nat /\ Large(d) \in Nat
  BY DEF Small, Large, Zero
<1> QED
  BY <1>1 DEF Letters36, Smalls, Larges

\* itoa writes the digits, and the sign in front of them in radix 10.
LEMMA Itoa ==
  ASSUME NEW value \in Nat, NEW base \in 2 .. 36
  PROVE  /\ itoa(value, base) = Digits(value, base, Smalls)
         /\ itoa(value, base) \in Seq(Nat)
         /\ value # 0 => /\ itoa(-value, 10) = <<Minus>> \o Digits(value, 10, Smalls)
                         /\ itoa(-value, 10) \in Seq(Nat)
<1> DEFINE f == Numeral(base, Smalls)[value]
           g == Numeral(10, Smalls)[value]
<1>1. f \in Seq(Nat) /\ f = Digits(value, base, Smalls)
  BY LettersAre, NumeralIs, DigitsAre
<1>2. g \in Seq(Nat) /\ g = Digits(value, 10, Smalls)
  <2>1. 10 \in 2 .. 36
    OBVIOUS
  <2> QED
    BY <2>1, LettersAre, NumeralIs, DigitsAre
<1>3. itoa(value, base) = << >> \o f
  <2>1. ~(base < 2) /\ ~(base > 36) /\ ~(value < 0)
    OBVIOUS
  <2> QED
    BY <2>1 DEF itoa
<1>4. ASSUME value # 0 PROVE itoa(-value, 10) = <<Minus>> \o g
  <2>1. -value < 0 /\ -(-value) = value
    BY <1>4
  <2> QED
    BY <2>1 DEF itoa
<1>5. Minus \in Nat
  BY DEF Minus
<1> HIDE DEF f, g
<1>6. << >> \o f = f
  BY <1>1, ConcatEmptySeq
<1>7. <<Minus>> \in Seq(Nat) /\ <<Minus>> \o g \in Seq(Nat)
  <2>1. <<Minus>> \in Seq(Nat)
    BY <1>5
  <2> QED
    BY <1>2, <2>1, ConcatProperties
<1> QED
  BY <1>1, <1>2, <1>3, <1>4, <1>6, <1>7

\* A number below 4 ^ k has at most k digits.
LEMMA FewDigits ==
  ASSUME NEW base \in 4 .. 36, NEW letter \in Letters36
  PROVE  \A k \in Nat : \A n \in 0 .. Pow[2 * (k + 1)] - 1 : Len(Numeral(base, letter)[n]) <= k + 1
<1> DEFINE f == Numeral(base, letter)
           P(k) == \A n \in 0 .. Pow[2 * (k + 1)] - 1 : Len(f[n]) <= k + 1
           T == {k \in Nat : P(k)}
<1>0. base \in 2 .. 36
  OBVIOUS
<1>1. /\ f \in [Nat -> Seq(Nat)]
      /\ \A n \in Nat : f[n] = IF n < base THEN <<letter[n]>> ELSE f[n \div base] \o <<letter[n % base]>>
  BY <1>0, NumeralIs
<1> HIDE DEF f
<1>2. ASSUME NEW n \in Nat, n < base PROVE Len(f[n]) = 1
  <2>1. f[n] = <<letter[n]>>
    BY <1>1, <1>2
  <2> QED
    BY <2>1
<1>3. ASSUME NEW n \in Nat, ~(n < base)
      PROVE  n \div base \in Nat /\ Len(f[n]) = Len(f[n \div base]) + 1 /\ Len(f[n \div base]) \in Nat
  <2>1. n \div base \in Nat /\ letter[n % base] \in Nat
    BY <1>0, Dividing DEF Letters36
  <2> DEFINE x == f[n \div base]
             c == letter[n % base]
  <2>2. x \in Seq(Nat) /\ c \in Nat /\ f[n] = x \o <<c>>
    BY <1>1, <1>3, <2>1
  <2> HIDE DEF x, c
  <2>3. Len(x \o <<c>>) = Len(x) + 1 /\ Len(x) \in Nat
    BY <2>2
  <2> QED
    BY <2>1, <2>2, <2>3 DEF x
<1>4. P(0)
  <2>1. Pow[2 * (0 + 1)] = 4
    <3>1. Pow[0 + 1] = 2 * Pow[0] /\ Pow[1 + 1] = 2 * Pow[1] /\ Pow[0] = 1
      BY PowIs
    <3> QED
      BY <3>1
  <2>2. ASSUME NEW n \in 0 .. 3 PROVE Len(f[n]) <= 0 + 1
    <3>1. n \in Nat /\ n < base
      OBVIOUS
    <3>2. Len(f[n]) = 1
      BY <1>2, <3>1
    <3> QED
      BY <3>2
  <2> QED
    BY <2>1, <2>2
<1>5. ASSUME NEW k \in Nat, P(k) PROVE P(k + 1)
  <2> DEFINE p == Pow[2 * (k + 1)]
  <2>1. p \in Nat /\ p >= 1 /\ Pow[2 * ((k + 1) + 1)] = 4 * p
    <3> DEFINE j == 2 * (k + 1)
    <3>1. j \in Nat /\ (j + 1) + 1 = 2 * ((k + 1) + 1)
      OBVIOUS
    <3> HIDE DEF j
    <3>2. Pow[j] \in Nat /\ Pow[j] >= 1 /\ Pow[j + 1] = 2 * Pow[j] /\ Pow[(j + 1) + 1] = 2 * Pow[j + 1]
      BY <3>1, PowPositive
    <3>3. Pow[(j + 1) + 1] = 4 * Pow[j]
      BY <3>2
    <3> QED
      BY <3>1, <3>2, <3>3 DEF j
  <2>2. \A n \in 0 .. p - 1 : Len(f[n]) <= k + 1
    BY <1>5
  <2> HIDE DEF p
  <2>3. ASSUME NEW n \in 0 .. 4 * p - 1 PROVE Len(f[n]) <= (k + 1) + 1
    <3>1. CASE n < base
      <4>1. n \in Nat
        BY <2>1
      <4>2. Len(f[n]) = 1
        BY <1>2, <3>1, <4>1
      <4> QED
        BY <4>2
    <3>2. CASE ~(n < base)
      <4>1. n \in Nat /\ n \div base \in Nat /\ n >= base * (n \div base)
        <5>1. n \div base \in Nat /\ n % base \in 0 .. base - 1 /\ n = base * (n \div base) + (n % base)
          BY <1>0, Dividing, n \in Nat
        <5> QED
          BY <5>1
      <4> DEFINE q == n \div base
      <4> HIDE DEF q
      <4>2. q \in Nat /\ n >= base * q
        BY <4>1 DEF q
      <4>3. base * q >= 4 * q
        BY <4>2
      <4>4. q \in 0 .. p - 1
        BY <2>1, <4>1, <4>2, <4>3
      <4>5. Len(f[q]) <= k + 1 /\ Len(f[n]) = Len(f[q]) + 1 /\ Len(f[q]) \in Nat
        BY <1>3, <2>2, <3>2, <4>1, <4>4 DEF q
      <4> QED
        BY <4>5
    <3> QED
      BY <3>1, <3>2
  <2> QED
    BY <2>1, <2>3
<1>6. \A k \in Nat : P(k)
  <2> HIDE DEF P
  <2>1. 0 \in T /\ \A k \in Nat : k \in T => k + 1 \in T
    BY <1>4, <1>5
  <2> HIDE DEF T
  <2>2. \A k \in Nat : k \in T
    BY <2>1, NextNumber
  <2> QED
    BY <2>2 DEF T
<1> QED
  BY <1>6 DEF f

\* The buffer of ultoa has room for every word in a radix of four or more.
LEMMA Ultoa ==
  ASSUME NEW value \in 0 .. Modulus - 1, NEW radix \in 4 .. 36
  PROVE  ultoa(value, radix) = Digits(value, radix, Larges) /\ ultoa(value, radix) \in Seq(Nat)
<1> DEFINE digits == Numeral(radix, Larges)[value]
           k == HalfBits - 1
<1>1. radix \in 2 .. 36 /\ value \in Nat
  BY Widths
<1>2. digits \in Seq(Nat) /\ digits = Digits(value, radix, Larges)
  BY <1>1, LettersAre, NumeralIs, DigitsAre
<1>3. k \in Nat /\ k + 1 = BufferDigits /\ 2 * (k + 1) = Bits
  BY Widths
<1>4. Len(digits) <= BufferDigits
  <2>1. \A i \in Nat : \A n \in 0 .. Pow[2 * (i + 1)] - 1 : Len(Numeral(radix, Larges)[n]) <= i + 1
    BY LettersAre, FewDigits
  <2> HIDE DEF k
  <2>2. value \in 0 .. Pow[2 * (k + 1)] - 1
    BY <1>3 DEF Modulus
  <2> QED
    BY <1>3, <2>1, <2>2
<1>5. ultoa(value, radix) = digits
  BY <1>4 DEF ultoa
<1> QED
  BY <1>2, <1>5

-------------------------------------------------------------------------------
(* Formats, piece by piece. *)

Some == Byte \ {0}

\* An int is a 64-bit word, and one that is not negative is the same in both.
LEMMA IntsAre ==
  /\ Ints \subseteq Word64s
  /\ \A v \in Ints : v >= 0 => v % Pow[IntBits] = v /\ v % Modulus = v
<1> DEFINE k == IntBits - 1
           p == Pow[k]
<1>1. k \in Nat /\ IntBits \in Nat /\ Bits \in Nat /\ k < IntBits /\ k < Bits
  BY Widths, RtAssumption
<1>2. /\ p \in Nat /\ Pow[IntBits] \in Nat /\ Modulus \in Nat /\ p >= 1
      /\ p < Pow[IntBits] /\ p < Modulus
  <2> HIDE DEF k
  <2> QED
    BY <1>1, PowOrder, PowPositive, Widths DEF Modulus
<1>3. Ints = -p .. p - 1 /\ Word64s = 1 - Modulus .. Modulus - 1
  BY DEF Ints, IntMax, Word64s
<1> HIDE DEF k, p
<1>4. \A v \in -p .. p - 1 : v \in 1 - Modulus .. Modulus - 1
  BY <1>2
<1>5. ASSUME NEW v \in -p .. p - 1, v >= 0
      PROVE  v % Pow[IntBits] = v /\ v % Modulus = v
  <2>1. \A n, m \in Nat : n < m => n % m = n
    OBVIOUS
  <2>2. v \in Nat /\ v < Pow[IntBits] /\ v < Modulus
    BY <1>2, <1>5
  <2> QED
    BY <1>2, <2>1, <2>2
<1> QED
  BY <1>3, <1>4, <1>5

\* What the code prints for a piece: its meaning, and for x the digits of a
\* UInt64.
Spelled(p) == IF p.kind = "x" THEN Digits(p.value % Modulus, 16, Larges) ELSE Meaning(p)

\* What a piece of each kind is in the format, and what it means.
LEMMA PieceIs ==
  ASSUME NEW p \in Pieces
  PROVE  \/ p.kind = "text" /\ p.letters \in Seq(Byte \ {0, Percent})
         \/ p.kind = "percent"
         \/ p.kind = "c" /\ p.letters = <<99>> /\ p.value \in Byte
         \/ p.kind = "s" /\ p.letters = <<115>> /\ p.value \in Seq(Some)
         \/ p.kind = "i" /\ p.letters = <<105>> /\ p.value \in Ints /\ p.value \in Word64s
         \/ p.kind = "x" /\ p.letters = <<120>> /\ p.value \in Ints /\ p.value \in Word64s
         \/ /\ p.kind = "other" /\ p.letters \in Seq(Some)
            /\ p.letters # << >> => ~Converts(p.letters[1]) /\ p.letters[1] # Percent
<1>1. CASE p \in [kind : {"other"}, letters :
                 {s \in Seq(Some) : s # << >> => ~Converts(s[1]) /\ s[1] # Percent}]
  BY <1>1
<1>2. CASE p \in [kind : {"percent"}]
  BY <1>2
<1>3. CASE p \in [kind : {"text"}, letters : Seq(Byte \ {0, Percent})]
  BY <1>3
<1>4. CASE p \in [kind : {"c"}, letters : {<<99>>}, value : Byte]
  BY <1>4
<1>5. CASE p \in [kind : {"s"}, letters : {<<115>>}, value : Seq(Some)]
  BY <1>5
<1>6. CASE p \in [kind : {"i"}, letters : {<<105>>}, value : Ints]
  BY <1>6, IntsAre
<1>7. CASE p \in [kind : {"x"}, letters : {<<120>>}, value : Ints]
  BY <1>7, IntsAre
<1> QED
  BY <1>1, <1>2, <1>3, <1>4, <1>5, <1>6, <1>7 DEF Pieces, Some

\* What the conversions i and x print.
LEMMA WordDigits ==
  ASSUME NEW v \in Word64s
  PROVE  /\ v \in Int
         /\ itoa(v, 10) = (IF v < 0 THEN <<Minus>> \o Digits(-v, 10, Smalls) ELSE Digits(v, 10, Smalls))
         /\ itoa(v, 10) \in Seq(Nat)
         /\ v % Modulus \in 0 .. Modulus - 1
         /\ ultoa(v % Modulus, 16) = Digits(v % Modulus, 16, Larges)
         /\ ultoa(v % Modulus, 16) \in Seq(Nat)
<1>1. v \in Int /\ Modulus \in Nat /\ Modulus > 0
  <2>1. Half * Half > 0
    BY Widths
  <2> QED
    BY Widths, <2>1 DEF Word64s
<1>2. v % Modulus \in 0 .. Modulus - 1
  BY <1>1
<1>3. 10 \in 2 .. 36 /\ 16 \in 4 .. 36
  OBVIOUS
<1>4. CASE v < 0
  <2> DEFINE w == -v
  <2>1. w \in Nat /\ w # 0 /\ v = -w
    BY <1>1, <1>4
  <2> HIDE DEF w
  <2>2. itoa(-w, 10) = <<Minus>> \o Digits(w, 10, Smalls) /\ itoa(-w, 10) \in Seq(Nat)
    BY <1>3, <2>1, Itoa
  <2>3. -v = w
    BY DEF w
  <2>4. itoa(v, 10) = <<Minus>> \o Digits(-v, 10, Smalls) /\ itoa(v, 10) \in Seq(Nat)
    BY <2>1, <2>2, <2>3
  <2> QED
    BY <1>1, <1>2, <1>3, <1>4, <2>4, Ultoa
<1>5. CASE ~(v < 0)
  <2>1. v \in Nat
    BY <1>1, <1>5
  <2>2. itoa(v, 10) = Digits(v, 10, Smalls) /\ itoa(v, 10) \in Seq(Nat)
    BY <1>3, <2>1, Itoa
  <2> QED
    BY <1>1, <1>2, <1>3, <1>5, <2>2, Ultoa
<1> QED
  BY <1>4, <1>5

\* A piece of a format is text without a zero.
LEMMA SourceIs ==
  ASSUME NEW p \in Pieces
  PROVE  /\ Source(p) \in Seq(Some) /\ Spelled(p) \in Seq(Nat)
         /\ p.kind = "other" => Spelled(p) = Source(p)
<1>0. Percent \in Some /\ 99 \in Some /\ 115 \in Some /\ 105 \in Some /\ 120 \in Some
  BY DEF Some, Byte, Percent
<1>1. \A S, T : S \subseteq T => Seq(S) \subseteq Seq(T)
  OBVIOUS
<1>2. Some \subseteq Nat /\ Byte \subseteq Nat /\ Byte \ {0, Percent} \subseteq Some
  BY DEF Some, Byte
<1>3. Seq(Some) \subseteq Seq(Nat) /\ Seq(Byte \ {0, Percent}) \subseteq Seq(Some)
  BY <1>1, <1>2
<1>4. \A c \in Some : <<Percent>> \o <<c>> \in Seq(Some)
  BY <1>0
<1>5. CASE p.kind = "text"
  <2>1. p.letters \in Seq(Byte \ {0, Percent}) /\ Source(p) = p.letters /\ Spelled(p) = p.letters
    BY <1>5, PieceIs DEF Source, Spelled, Meaning
  <2> QED
    BY <1>3, <1>5, <2>1
<1>6. CASE p.kind = "percent"
  <2>1. Source(p) = <<Percent, Percent>> /\ Spelled(p) = <<Percent>>
    BY <1>6 DEF Source, Spelled, Meaning
  <2>2. <<Percent, Percent>> \in Seq(Some) /\ <<Percent>> \in Seq(Nat)
    BY <1>0, <1>2
  <2> QED
    BY <1>6, <2>1, <2>2
<1>7. CASE p.kind = "c"
  <2>1. p.letters = <<99>> /\ p.value \in Byte /\ Source(p) = <<Percent>> \o p.letters /\ Spelled(p) = <<p.value>>
    BY <1>7, PieceIs DEF Source, Spelled, Meaning
  <2>2. <<p.value>> \in Seq(Nat)
    <3>1. p.value \in Nat
      BY <1>2, <2>1
    <3> QED
      BY <3>1
  <2>3. <<Percent>> \o <<99>> \in Seq(Some)
    BY <1>0, <1>4
  <2> QED
    BY <1>7, <2>1, <2>2, <2>3
<1>8. CASE p.kind = "s"
  <2>1. p.letters = <<115>> /\ p.value \in Seq(Some) /\ Source(p) = <<Percent>> \o p.letters /\ Spelled(p) = p.value
    BY <1>8, PieceIs DEF Source, Spelled, Meaning
  <2> QED
    BY <1>0, <1>3, <1>4, <1>8, <2>1
<1>9. CASE p.kind = "i"
  <2>1. p.letters = <<105>> /\ p.value \in Word64s /\ Source(p) = <<Percent>> \o p.letters
    BY <1>9, PieceIs DEF Source
  <2>2. Spelled(p) = itoa(p.value, 10)
    BY <1>9, <2>1, WordDigits DEF Spelled, Meaning
  <2> QED
    BY <1>0, <1>4, <1>9, <2>1, <2>2, WordDigits
<1>10. CASE p.kind = "x"
  <2>1. p.letters = <<120>> /\ p.value \in Word64s /\ Source(p) = <<Percent>> \o p.letters
    BY <1>10, PieceIs DEF Source
  <2>2. Spelled(p) = ultoa(p.value % Modulus, 16)
    BY <1>10, <2>1, WordDigits DEF Spelled, Meaning
  <2> QED
    BY <1>0, <1>4, <1>10, <2>1, <2>2, WordDigits
<1>11. CASE p.kind = "other"
  <2>1. p.letters \in Seq(Some) /\ Source(p) = <<Percent>> \o p.letters /\ Spelled(p) = Source(p)
    BY <1>11, PieceIs DEF Source, Spelled, Meaning
  <2>2. <<Percent>> \in Seq(Some)
    BY <1>0
  <2>3. Source(p) \in Seq(Some)
    BY <2>1, <2>2, ConcatProperties
  <2> QED
    BY <1>3, <2>1, <2>3
<1> QED
  BY <1>5, <1>6, <1>7, <1>8, <1>9, <1>10, <1>11, PieceIs

\* The letters and the arguments of a format
Sources(ps) == [k \in DOMAIN ps |-> Source(ps[k])]
Given(p)    == IF HasArgument(p) THEN <<p.value>> ELSE << >>
Giving(ps)  == [k \in DOMAIN ps |-> Given(ps[k])]
Values      == Byte \cup Seq(Some) \cup Word64s

\* The arguments of a piece.
LEMMA GivenIs ==
  ASSUME NEW p \in Pieces
  PROVE  Given(p) \in Seq(Values) /\ (HasArgument(p) => p.value \in Values)
<1>1. HasArgument(p) => p.value \in Values
  BY PieceIs DEF HasArgument, Values
<1>2. CASE HasArgument(p)
  <2>1. p.value \in Values /\ Given(p) = <<p.value>>
    BY <1>1, <1>2 DEF Given
  <2> HIDE DEF Values
  <2> QED
    BY <2>1
<1>3. CASE ~HasArgument(p)
  <2>1. Given(p) = << >>
    BY <1>3 DEF Given
  <2> QED
    BY <1>1, <2>1
<1> QED
  BY <1>1, <1>2, <1>3

\* The tail of a sequence, element by element.
LEMMA TailIs ==
  ASSUME NEW S, NEW s \in Seq(S), s # << >>
  PROVE  /\ Len(s) \in Nat /\ Len(s) >= 1 /\ DOMAIN s = 1 .. Len(s)
         /\ Tail(s) = [k \in 1 .. Len(s) - 1 |-> s[k + 1]]
         /\ Tail(s) \in Seq(S) /\ DOMAIN Tail(s) = 1 .. Len(s) - 1
<1>1. Tail(s) \in Seq(S) /\ Len(Tail(s)) = Len(s) - 1 /\ \A k \in 1 .. Len(s) - 1 : Tail(s)[k] = s[k + 1]
  BY HeadTailProperties
<1>2. Len(s) \in Nat /\ Len(s) >= 1 /\ DOMAIN s = 1 .. Len(s)
  BY EmptySeq
<1>3. Tail(s) = [k \in 1 .. Len(s) - 1 |-> Tail(s)[k]] /\ DOMAIN Tail(s) = 1 .. Len(s) - 1
  <2> DEFINE t == Tail(s)
  <2>1. t \in Seq(S) /\ Len(t) = Len(s) - 1
    BY <1>1
  <2> HIDE DEF t
  <2>2. t \in [1 .. Len(t) -> S]
    BY <2>1, LenProperties
  <2>3. t = [k \in 1 .. Len(t) |-> t[k]] /\ DOMAIN t = 1 .. Len(t)
    BY <2>2
  <2> QED
    BY <2>1, <2>3 DEF t
<1> QED
  BY <1>1, <1>2, <1>3

\* What a format is of its first piece and of the others.
LEMMA FormatIs ==
  ASSUME NEW ps \in Seq(Pieces)
  PROVE  /\ Format(ps) \in Seq(Some)
         /\ ps = << >> => Format(ps) = << >>
         /\ ps # << >> => Format(ps) = Source(ps[1]) \o Format(Tail(ps))
<1>1. Sources(ps) \in Seq(Seq(Some)) /\ (ps = << >> <=> Sources(ps) = << >>)
  <2>1. \A k \in DOMAIN ps : Source(ps[k]) \in Seq(Some)
    BY SourceIs
  <2>2. DOMAIN ps = 1 .. Len(ps) /\ Len(ps) \in Nat
    OBVIOUS
  <2>3. Sources(ps) \in [1 .. Len(ps) -> Seq(Some)]
    BY <2>1, <2>2 DEF Sources
  <2>4. Sources(ps) \in Seq(Seq(Some)) /\ Len(Sources(ps)) = Len(ps)
    <3> DEFINE X == Seq(Some)
               s == Sources(ps)
    <3>1. s \in [1 .. Len(ps) -> X]
      BY <2>3
    <3> HIDE DEF X, s
    <3>2. s \in Seq(X) /\ Len(s) = Len(ps)
      BY <2>2, <3>1
    <3> QED
      BY <3>2 DEF X, s
  <2> QED
    BY <2>4, EmptySeq
<1>2. Format(ps) = FlattenSeq(Sources(ps))
  BY DEF Format, Sources
<1>3. ASSUME ps # << >>
      PROVE  Sources(ps)[1] = Source(ps[1]) /\ Tail(Sources(ps)) = Sources(Tail(ps))
  <2>1. 1 \in DOMAIN ps /\ DOMAIN ps = 1 .. Len(ps) /\ Len(ps) \in Nat /\ Len(ps) >= 1
    BY <1>3, TailIs
  <2>2. Sources(ps)[1] = Source(ps[1])
    BY <2>1 DEF Sources
  <2>3. DOMAIN Tail(ps) = 1 .. Len(ps) - 1 /\ \A k \in 1 .. Len(ps) - 1 : Tail(ps)[k] = ps[k + 1]
    BY <1>3, TailIs
  <2>4. Len(Sources(ps)) = Len(ps)
    BY <2>1 DEF Sources
  <2>5. Tail(Sources(ps)) = [k \in 1 .. Len(ps) - 1 |-> Sources(ps)[k + 1]]
    <3>1. Sources(ps) # << >>
      BY <1>1, <1>3
    <3> QED
      BY <1>1, <2>4, <3>1, TailIs
  <2>6. \A k \in 1 .. Len(ps) - 1 : Sources(ps)[k + 1] = Source(ps[k + 1])
    BY <2>1 DEF Sources
  <2>7. Sources(Tail(ps)) = [k \in 1 .. Len(ps) - 1 |-> Source(ps[k + 1])]
    BY <2>3 DEF Sources
  <2> QED
    BY <2>2, <2>5, <2>6, <2>7
<1>4. Format(Tail(ps)) = FlattenSeq(Sources(Tail(ps)))
  BY DEF Format, Sources
<1> QED
  BY <1>1, <1>2, <1>3, <1>4, FlattenHead

\* Flattening the first sequence and the others.
LEMMA FlattenNext ==
  ASSUME NEW A, NEW n \in Nat, NEW s \in [1 .. n -> Seq(A)]
  PROVE  /\ FlattenSeq(s) \in Seq(A)
         /\ n = 0 => FlattenSeq(s) = << >>
         /\ n # 0 => FlattenSeq(s) = s[1] \o FlattenSeq([k \in 1 .. n - 1 |-> s[k + 1]])
<1> DEFINE X == Seq(A)
<1>1. s \in Seq(X) /\ Len(s) = n
  <2> HIDE DEF X
  <2>1. s \in [1 .. n -> X]
    BY DEF X
  <2> QED
    BY <2>1
<1>2. s = << >> <=> n = 0
  <2> HIDE DEF X
  <2> QED
    BY <1>1, EmptySeq
<1>3. n # 0 => Tail(s) = [k \in 1 .. n - 1 |-> s[k + 1]]
  <2> HIDE DEF X
  <2> QED
    BY <1>1, <1>2, TailIs
<1> QED
  BY <1>1, <1>2, <1>3, FlattenHead

\* The arguments of a format, in the order of its pieces.
LEMMA ArgumentsAre ==
  ASSUME NEW ps \in Seq(Pieces)
  PROVE  /\ Arguments(ps) \in Seq(Values)
         /\ ps = << >> => Arguments(ps) = << >>
         /\ ps # << >> => Arguments(ps) = Given(ps[1]) \o Arguments(Tail(ps))
<1> DEFINE n == Len(ps)
<1>1. n \in Nat /\ DOMAIN ps = 1 .. n /\ (ps = << >> <=> n = 0)
  BY EmptySeq
<1>2. Arguments(ps) = FlattenSeq(Giving(ps))
  BY DEF Arguments, Giving, Given
<1>3. \A k \in 1 .. n : Given(ps[k]) \in Seq(Values)
  BY GivenIs
<1>4. Giving(ps) \in [1 .. n -> Seq(Values)]
  BY <1>1, <1>3 DEF Giving
<1>5. ASSUME n # 0
      PROVE  Giving(ps)[1] = Given(ps[1]) /\ Giving(Tail(ps)) = [k \in 1 .. n - 1 |-> Giving(ps)[k + 1]]
  <2>1. 1 \in 1 .. n
    BY <1>1, <1>5
  <2>2. ps # << >>
    BY <1>1, <1>5
  <2>3. DOMAIN Tail(ps) = 1 .. n - 1 /\ \A k \in 1 .. n - 1 : Tail(ps)[k] = ps[k + 1]
    BY <2>2, TailIs
  <2>4. Giving(Tail(ps)) = [k \in 1 .. n - 1 |-> Given(ps[k + 1])]
    BY <2>3 DEF Giving
  <2>5. \A k \in 1 .. n - 1 : Giving(ps)[k + 1] = Given(ps[k + 1])
    BY <1>1 DEF Giving
  <2>6. Giving(ps)[1] = Given(ps[1])
    BY <1>1, <2>1 DEF Giving
  <2> QED
    BY <2>4, <2>5, <2>6
<1>6. Arguments(Tail(ps)) = FlattenSeq(Giving(Tail(ps)))
  BY DEF Arguments, Giving, Given
<1> HIDE DEF n
<1>7. /\ FlattenSeq(Giving(ps)) \in Seq(Values)
      /\ n = 0 => FlattenSeq(Giving(ps)) = << >>
      /\ n # 0 => FlattenSeq(Giving(ps)) = Giving(ps)[1] \o FlattenSeq([k \in 1 .. n - 1 |-> Giving(ps)[k + 1]])
  BY <1>1, <1>4, FlattenNext
<1> QED
  BY <1>1, <1>2, <1>5, <1>6, <1>7, Zenon

\* What a format is printed as: behind a conversion that the code does not
\* know, the format itself.
Unknowns(ps) == {k \in DOMAIN ps : ps[k].kind = "other"}
Said(ps, k)  == IF \E u \in Unknowns(ps) : u < k THEN Source(ps[k]) ELSE Spelled(ps[k])
Saying(ps)   == [k \in DOMAIN ps |-> Said(ps, k)]
Shown(ps)    == FlattenSeq(Saying(ps))

\* If nothing is widened, that is what a reader expects.
LEMMA ShownAsExpected ==
  ASSUME NEW ps \in Seq(Pieces), ~Widened(ps)
  PROVE  Shown(ps) = Expected(ps)
<1>1. ASSUME NEW k \in DOMAIN ps PROVE Spelled(ps[k]) = Meaning(ps[k])
  <2>1. ps[k] \in Pieces
    OBVIOUS
  <2>2. CASE ps[k].kind = "x"
    <3>1. ps[k].value \in Ints /\ ps[k].value \in Word64s /\ ps[k].value >= 0
      <4>1. ps[k].value \in Ints /\ ps[k].value \in Word64s
        BY <2>1, <2>2, PieceIs
      <4>2. ps[k].value \in Int /\ ~(ps[k].value < 0)
        BY <2>2, <4>1, WordDigits DEF Widened
      <4> QED
        BY <4>1, <4>2
    <3>2. ps[k].value % Pow[IntBits] = ps[k].value /\ ps[k].value % Modulus = ps[k].value
      BY <3>1, IntsAre
    <3> QED
      BY <2>2, <3>2 DEF Spelled, Meaning
  <2> QED
    BY <2>2 DEF Spelled
<1>2. Saying(ps) = [k \in DOMAIN ps |-> IF \E u \in Unknowns(ps) : u < k THEN Source(ps[k])
                                        ELSE Meaning(ps[k])]
  BY <1>1 DEF Saying, Said
<1> QED
  BY <1>2 DEF Shown, Expected, Unknowns

\* What is printed of the first piece and of the others.
LEMMA ShownIs ==
  ASSUME NEW ps \in Seq(Pieces)
  PROVE  /\ Shown(ps) \in Seq(Nat)
         /\ ps = << >> => Shown(ps) = << >>
         /\ ps # << >> => IF ps[1].kind = "other" THEN Shown(ps) = Format(ps)
                          ELSE Shown(ps) = Spelled(ps[1]) \o Shown(Tail(ps))
<1> DEFINE n == Len(ps)
<1>1. n \in Nat /\ DOMAIN ps = 1 .. n /\ (ps = << >> <=> n = 0)
  BY EmptySeq
<1>2. \A qs : Shown(qs) = FlattenSeq(Saying(qs))
  BY DEF Shown
<1>3. ASSUME NEW k \in 1 .. n PROVE Said(ps, k) \in Seq(Nat)
  <2>1. Some \subseteq Nat
    BY DEF Some, Byte
  <2>2. Seq(Some) \subseteq Seq(Nat)
    BY <2>1, SeqMonotonic
  <2>3. ps[k] \in Pieces
    OBVIOUS
  <2> QED
    BY <2>2, <2>3, SourceIs DEF Said
<1>4. Saying(ps) \in [1 .. n -> Seq(Nat)]
  BY <1>1, <1>3 DEF Saying
<1>5. ASSUME n # 0, ps[1].kind = "other"
      PROVE  Shown(ps) = Format(ps)
  <2>1. 1 \in Unknowns(ps)
    BY <1>1, <1>5 DEF Unknowns
  <2>2. ASSUME NEW k \in 1 .. n PROVE Said(ps, k) = Source(ps[k])
    <3>1. CASE k = 1
      <4>1. Spelled(ps[1]) = Source(ps[1])
        BY <1>5, <3>1, SourceIs
      <4> QED
        BY <3>1, <4>1 DEF Said
    <3>2. CASE k # 1
      <4>1. 1 < k
        BY <3>2
      <4> QED
        BY <2>1, <4>1 DEF Said
    <3> QED
      BY <3>1, <3>2
  <2>3. Saying(ps) = Sources(ps)
    BY <1>1, <2>2 DEF Saying, Sources
  <2>4. Format(ps) = FlattenSeq(Sources(ps))
    BY DEF Format, Sources
  <2> QED
    BY <1>2, <2>3, <2>4
<1>6. ASSUME n # 0, ps[1].kind # "other"
      PROVE  Saying(ps)[1] = Spelled(ps[1]) /\ Saying(Tail(ps)) = [k \in 1 .. n - 1 |-> Saying(ps)[k + 1]]
  <2>1. 1 \in 1 .. n
    BY <1>1, <1>6
  <2>2. ps # << >>
    BY <1>1, <1>6
  <2>3. DOMAIN Tail(ps) = 1 .. n - 1 /\ \A k \in 1 .. n - 1 : Tail(ps)[k] = ps[k + 1]
    BY <2>2, TailIs
  <2>4. 1 \notin Unknowns(ps)
    BY <1>6 DEF Unknowns
  <2>5. ASSUME NEW k \in 1 .. n - 1 PROVE Said(Tail(ps), k) = Said(ps, k + 1)
    <3>1. (\E u \in Unknowns(Tail(ps)) : u < k) <=> (\E u \in Unknowns(ps) : u < k + 1)
      <4>1. ASSUME NEW u \in Unknowns(Tail(ps)), u < k PROVE u + 1 \in Unknowns(ps) /\ u + 1 < k + 1
        <5>1. u \in 1 .. n - 1 /\ Tail(ps)[u] = ps[u + 1] /\ Tail(ps)[u].kind = "other"
          BY <2>3, <4>1 DEF Unknowns
        <5> QED
          BY <1>1, <4>1, <5>1 DEF Unknowns
      <4>2. ASSUME NEW u \in Unknowns(ps), u < k + 1 PROVE u - 1 \in Unknowns(Tail(ps)) /\ u - 1 < k
        <5>1. u \in 1 .. n /\ u # 1 /\ ps[u].kind = "other"
          BY <1>1, <2>4, <4>2 DEF Unknowns
        <5>2. u - 1 \in 1 .. n - 1 /\ (u - 1) + 1 = u
          BY <1>1, <4>2, <5>1
        <5> DEFINE v == u - 1
        <5> HIDE DEF v
        <5>3. v \in 1 .. n - 1 /\ v + 1 = u
          BY <5>2 DEF v
        <5>4. Tail(ps)[v] = ps[v + 1]
          BY <2>3, <5>3
        <5>5. v \in Unknowns(Tail(ps))
          BY <2>3, <5>1, <5>3, <5>4 DEF Unknowns
        <5>6. v < k
          BY <4>2, <5>3
        <5> QED
          BY <5>5, <5>6 DEF v
      <4> QED
        BY <4>1, <4>2
    <3>2. Tail(ps)[k] = ps[k + 1]
      BY <2>3
    <3> QED
      BY <3>1, <3>2 DEF Said
  <2>6. Saying(Tail(ps)) = [k \in 1 .. n - 1 |-> Said(ps, k + 1)]
    BY <2>3, <2>5 DEF Saying
  <2>7. \A k \in 1 .. n - 1 : Saying(ps)[k + 1] = Said(ps, k + 1)
    BY <1>1 DEF Saying
  <2>8. Saying(ps)[1] = Spelled(ps[1])
    <3>1. ~\E u \in Unknowns(ps) : u < 1
      BY <1>1 DEF Unknowns
    <3> QED
      BY <1>1, <2>1, <3>1 DEF Saying, Said
  <2> QED
    BY <2>6, <2>7, <2>8
<1> HIDE DEF n
<1>7. /\ FlattenSeq(Saying(ps)) \in Seq(Nat)
      /\ n = 0 => FlattenSeq(Saying(ps)) = << >>
      /\ n # 0 => FlattenSeq(Saying(ps)) = Saying(ps)[1] \o FlattenSeq([k \in 1 .. n - 1 |-> Saying(ps)[k + 1]])
  BY <1>1, <1>4, FlattenNext
<1>8. ASSUME n # 0, ps[1].kind # "other" PROVE Shown(ps) = Spelled(ps[1]) \o Shown(Tail(ps))
  BY <1>2, <1>6, <1>7, <1>8, Zenon
<1> QED
  BY <1>1, <1>2, <1>5, <1>7, <1>8, Zenon

\* What is left of a format without its first piece is one.
LEMMA TailFormats ==
  ASSUME NEW ps \in Formats, ps # << >>
  PROVE  /\ ps \in Seq(Pieces) /\ ps[1] \in Pieces /\ Tail(ps) \in Formats
         /\ ps[1].kind = "other" /\ ps[1].letters = << >> => Tail(ps) = << >>
<1>1. ps \in Seq(Pieces)
  BY DEF Formats
<1>2. /\ Len(ps) \in Nat /\ Len(ps) >= 1 /\ DOMAIN ps = 1 .. Len(ps) /\ Tail(ps) \in Seq(Pieces)
      /\ DOMAIN Tail(ps) = 1 .. Len(ps) - 1 /\ \A k \in 1 .. Len(ps) - 1 : Tail(ps)[k] = ps[k + 1]
  BY <1>1, TailIs
<1>3. Len(Tail(ps)) = Len(ps) - 1
  BY <1>1, <1>2, HeadTailProperties
<1>4. ASSUME NEW k \in DOMAIN ps, ps[k].kind = "other", ps[k].letters = << >> PROVE k = Len(ps)
  BY <1>4 DEF Formats
<1>5. ASSUME NEW k \in DOMAIN Tail(ps), Tail(ps)[k].kind = "other", Tail(ps)[k].letters = << >>
      PROVE  k = Len(Tail(ps))
  <2>1. k \in 1 .. Len(ps) - 1 /\ k + 1 \in DOMAIN ps /\ Tail(ps)[k] = ps[k + 1]
    BY <1>2
  <2>2. k + 1 = Len(ps)
    BY <1>4, <1>5, <2>1
  <2> QED
    BY <1>2, <1>3, <2>1, <2>2
<1>6. Tail(ps) \in Formats
  BY <1>2, <1>5 DEF Formats
<1>7. ASSUME ps[1].kind = "other", ps[1].letters = << >> PROVE Tail(ps) = << >>
  <2>1. 1 \in DOMAIN ps
    BY <1>2
  <2>2. Len(ps) = 1
    BY <1>4, <1>7, <2>1
  <2>3. Len(Tail(ps)) = 0
    BY <1>3, <2>2
  <2> QED
    BY <1>2, <2>3, EmptySeq
<1> QED
  BY <1>1, <1>2, <1>6, <1>7

\* The two parts of a concatenation, as SubSeq takes them.
LEMMA Parts ==
  ASSUME NEW S, NEW x \in Seq(S), NEW y \in Seq(S)
  PROVE  /\ SubSeq(x \o y, 1, Len(x)) = x
         /\ SubSeq(x \o y, Len(x) + 1, Len(x \o y)) = y
<1> DEFINE z == x \o y
           m == Len(x)
           n == Len(y)
<1>1. /\ m \in Nat /\ n \in Nat /\ z \in Seq(S) /\ Len(z) = m + n
      /\ \A k \in 1 .. m + n : z[k] = IF k <= m THEN x[k] ELSE y[k - m]
  BY ConcatProperties
<1> HIDE DEF z, m, n
<1>2. SubSeq(z, 1, m) = x
  <2>1. \A k \in 1 .. m : z[k] \in S
    BY <1>1 DEF m
  <2>2. /\ SubSeq(z, 1, m) \in Seq(S) /\ Len(SubSeq(z, 1, m)) = m
        /\ \A k \in 1 .. m : SubSeq(z, 1, m)[k] = z[k]
    BY <1>1, <2>1, SubSeqProperties
  <2>3. \A k \in 1 .. m : SubSeq(z, 1, m)[k] = x[k]
    BY <1>1, <2>2
  <2> QED
    BY <2>2, <2>3, SeqEqual DEF m
<1>3. SubSeq(z, m + 1, m + n) = y
  <2>1. \A k \in m + 1 .. m + n : z[k] \in S
    BY <1>1
  <2> DEFINE w == SubSeq(z, m + 1, m + n)
  <2>2. /\ w \in Seq(S) /\ Len(w) = n
        /\ \A k \in 1 .. n : w[k] = z[m + k]
    <3>1. m + 1 \in Int /\ m + n \in Int /\ (m + n) - (m + 1) + 1 = n
      BY <1>1
    <3> QED
      BY <1>1, <2>1, <3>1, SubSeqProperties
  <2> HIDE DEF w
  <2>3. ASSUME NEW k \in 1 .. n PROVE w[k] = y[k]
    <3> DEFINE j == m + k
    <3>1. j \in 1 .. m + n /\ ~(j <= m) /\ j - m = k
      BY <1>1
    <3> HIDE DEF j
    <3>2. z[j] = y[j - m]
      BY <1>1, <3>1
    <3>3. w[k] = z[j]
      BY <2>2 DEF j
    <3> QED
      BY <3>1, <3>2, <3>3
  <2> QED
    BY <2>2, <2>3, SeqEqual DEF n, w
<1>4. Len(z) = m + n
  BY <1>1
<1> QED
  BY <1>2, <1>3, <1>4 DEF z, m

\* Where a run of text ends.
LEMMA TextLengthIs ==
  ASSUME NEW s \in Seq(Some), NEW n \in 1 .. Len(s),
         \A k \in 2 .. n : s[k] # Percent,
         n = Len(s) \/ s[n + 1] = Percent
  PROVE  TextLength(s) = n
<1> DEFINE ends == {k \in 1 .. Len(s) : At(s, k + 1) \in {0, Percent}}
<1>1. Len(s) \in Nat
  OBVIOUS
<1>2. n \in ends
  <2>1. CASE n = Len(s)
    BY <1>1, <2>1 DEF At
  <2>2. CASE n # Len(s)
    <3>1. s[n + 1] = Percent /\ n + 1 <= Len(s)
      BY <1>1, <2>2
    <3> QED
      BY <3>1 DEF At
  <2> QED
    BY <2>1, <2>2
<1>3. ASSUME NEW k \in ends PROVE n <= k
  <2> SUFFICES ASSUME k < n PROVE FALSE
    BY <1>1
  <2>1. k + 1 \in 2 .. n /\ k + 1 \in 1 .. Len(s) /\ k + 1 <= Len(s)
    BY <1>1
  <2> DEFINE j == k + 1
  <2>2. At(s, j) = s[j]
    BY <2>1 DEF At
  <2>3. j \in 2 .. n /\ j \in 1 .. Len(s) /\ At(s, j) \in {0, Percent}
    BY <2>1
  <2> HIDE DEF j
  <2>4. s[j] # Percent /\ s[j] \in Some
    BY <2>3
  <2>5. s[j] # 0
    BY <2>4 DEF Some
  <2> QED
    BY <2>2, <2>3, <2>4, <2>5
<1>4. ends \subseteq Nat
  OBVIOUS
<1>5. TextLength(s) = CHOOSE k \in ends : \A o \in ends : k <= o
  BY DEF TextLength
<1> HIDE DEF ends
<1>6. \A k \in ends : (\A o \in ends : k <= o) => k = n
  BY <1>2, <1>3, <1>4
<1> QED
  BY <1>2, <1>3, <1>5, <1>6

\* A format is a run of text and a format that does not begin with text.
LEMMA TextRun ==
  ASSUME NEW ps \in Formats
  PROVE  \E t \in Seq(Some), qs \in Formats :
           /\ \A k \in 1 .. Len(t) : t[k] # Percent
           /\ Format(ps) = t \o Format(qs)
           /\ Shown(ps) = t \o Shown(qs)
           /\ Arguments(ps) = Arguments(qs)
           /\ qs = << >> \/ qs[1].kind # "text"
<1> DEFINE Run(xs, t, qs) ==
             /\ \A k \in 1 .. Len(t) : t[k] # Percent
             /\ Format(xs) = t \o Format(qs)
             /\ Shown(xs) = t \o Shown(qs)
             /\ Arguments(xs) = Arguments(qs)
             /\ qs = << >> \/ qs[1].kind # "text"
           P(n) == \A xs \in Formats : Len(xs) = n => \E t \in Seq(Some), qs \in Formats : Run(xs, t, qs)
           T == {n \in Nat : P(n)}
<1>0. \A xs \in Formats : xs \in Seq(Pieces) /\ Len(xs) \in Nat
  BY DEF Formats
<1>1. ASSUME NEW xs \in Formats, xs = << >> \/ xs[1].kind # "text"
      PROVE  \E t \in Seq(Some), qs \in Formats : Run(xs, t, qs)
  <2>1. << >> \in Seq(Some) /\ Len(<< >>) = 0
    OBVIOUS
  <2>2. Format(xs) \in Seq(Some) /\ Shown(xs) \in Seq(Nat)
    BY <1>0, FormatIs, ShownIs
  <2>3. << >> \o Format(xs) = Format(xs) /\ << >> \o Shown(xs) = Shown(xs)
    BY <2>2, ConcatEmptySeq
  <2>4. Run(xs, << >>, xs)
    BY <1>1, <2>1, <2>3
  <2> HIDE DEF Run
  <2> QED
    BY <2>1, <2>4
<1>2. P(0)
  <2> SUFFICES ASSUME NEW xs \in Formats, Len(xs) = 0
               PROVE  \E t \in Seq(Some), qs \in Formats : Run(xs, t, qs)
    BY Zenon
  <2>1. xs = << >>
    BY <1>0, EmptySeq
  <2> HIDE DEF Run
  <2> QED
    BY <1>1, <2>1
<1>3. ASSUME NEW n \in Nat, P(n) PROVE P(n + 1)
  <2> SUFFICES ASSUME NEW xs \in Formats, Len(xs) = n + 1
               PROVE  \E t \in Seq(Some), qs \in Formats : Run(xs, t, qs)
    BY Zenon
  <2>1. CASE xs[1].kind # "text"
    <3> HIDE DEF Run
    <3> QED
      BY <1>1, <2>1
  <2>2. CASE xs[1].kind = "text"
    <3> DEFINE p == xs[1]
               ys == Tail(xs)
               l == p.letters
    <3>1. xs # << >> /\ xs \in Seq(Pieces)
      BY <1>0, EmptySeq
    <3>2. p \in Pieces /\ ys \in Formats /\ ys \in Seq(Pieces) /\ Len(ys) = n
      <4>1. p \in Pieces /\ ys \in Formats
        BY <3>1, TailFormats
      <4>2. Len(ys) = Len(xs) - 1
        BY <3>1, HeadTailProperties
      <4>3. (n + 1) - 1 = n
        OBVIOUS
      <4> QED
        BY <1>0, <4>1, <4>2, <4>3
    <3>3. l \in Seq(Some) /\ (\A k \in 1 .. Len(l) : l[k] # Percent) /\ Source(p) = l /\ Spelled(p) = l /\ Given(p) = << >>
      <4>1. l \in Seq(Byte \ {0, Percent})
        BY <2>2, <3>2, PieceIs
      <4>2. Byte \ {0, Percent} \subseteq Some
        BY DEF Some
      <4>3. l \in Seq(Some)
        BY <4>1, <4>2, SeqMonotonic
      <4>4. Source(p) = l /\ Spelled(p) = l
        BY <2>2 DEF Source, Spelled, Meaning
      <4>5. Given(p) = << >>
        BY <2>2 DEF Given, HasArgument
      <4>6. \A k \in 1 .. Len(l) : l[k] # Percent
        BY <4>1
      <4> QED
        BY <4>3, <4>4, <4>5, <4>6
    <3>4. PICK t \in Seq(Some), qs \in Formats : Run(ys, t, qs)
      <4> HIDE DEF Run, ys
      <4> QED
        BY <1>3, <3>2
    <3>5. Format(xs) = l \o Format(ys) /\ Shown(xs) = l \o Shown(ys) /\ Arguments(xs) = << >> \o Arguments(ys)
      BY <2>2, <3>1, <3>3, FormatIs, ShownIs, ArgumentsAre
    <3>6. Arguments(ys) \in Seq(Values) /\ Format(qs) \in Seq(Some) /\ Shown(qs) \in Seq(Nat)
      BY <1>0, <3>2, FormatIs, ShownIs, ArgumentsAre
    <3>7. << >> \o Arguments(ys) = Arguments(ys)
      BY <3>6, ConcatEmptySeq
    <3>8. l \o (t \o Format(qs)) = (l \o t) \o Format(qs)
      <4> DEFINE x == l
                 y == t
                 z == Format(qs)
      <4>1. x \in Seq(Some) /\ y \in Seq(Some) /\ z \in Seq(Some)
        BY <3>3, <3>4, <3>6
      <4> HIDE DEF x, y, z
      <4>2. Joins(x, y, z)
        BY <4>1, Associative
      <4> QED
        BY <4>2 DEF Joins, x, y, z
    <3>9. l \o (t \o Shown(qs)) = (l \o t) \o Shown(qs)
      <4>1. Some \subseteq Nat
        BY DEF Some, Byte
      <4>2. l \in Seq(Nat) /\ t \in Seq(Nat)
        BY <3>3, <3>4, <4>1, SeqMonotonic
      <4> DEFINE x == l
                 y == t
                 z == Shown(qs)
                 N == Nat
      <4>3. x \in Seq(N) /\ y \in Seq(N) /\ z \in Seq(N)
        BY <3>6, <4>2
      <4> HIDE DEF x, y, z, N
      <4>4. Joins(x, y, z)
        BY <4>3, Associative
      <4> QED
        BY <4>4 DEF Joins, x, y, z
    <3>10. l \o t \in Seq(Some) /\ \A k \in 1 .. Len(l \o t) : (l \o t)[k] # Percent
      <4> HIDE DEF l
      <4>1. l \o t \in Seq(Some) /\ Len(l \o t) = Len(l) + Len(t) /\ Len(l) \in Nat /\ Len(t) \in Nat
        BY <3>3, ConcatProperties
      <4>2. ASSUME NEW k \in 1 .. Len(l \o t) PROVE (l \o t)[k] # Percent
        <5>1. (l \o t)[k] = IF k <= Len(l) THEN l[k] ELSE t[k - Len(l)]
          BY <3>3, <4>1, ConcatProperties
        <5>2. k <= Len(l) => l[k] # Percent
          BY <3>3, <4>1
        <5>3. ~(k <= Len(l)) => t[k - Len(l)] # Percent
          <6>1. ~(k <= Len(l)) => k - Len(l) \in 1 .. Len(t)
            BY <4>1
          <6> QED
            BY <3>4, <6>1
        <5> QED
          BY <5>1, <5>2, <5>3
      <4> QED
        BY <4>1, <4>2
    <3>11. Run(xs, l \o t, qs)
      BY <3>4, <3>5, <3>7, <3>8, <3>9, <3>10
    <3> HIDE DEF Run, l
    <3> QED
      BY <3>4, <3>10, <3>11
  <2> QED
    BY <2>1, <2>2
<1>4. \A n \in Nat : P(n)
  <2> HIDE DEF P
  <2>1. 0 \in T /\ \A k \in Nat : k \in T => k + 1 \in T
    BY <1>2, <1>3
  <2> HIDE DEF T
  <2>2. \A k \in Nat : k \in T
    BY <2>1, NextNumber
  <2> QED
    BY <2>2 DEF T
<1> QED
  BY <1>0, <1>4

-------------------------------------------------------------------------------
(* One round of the loop over the format. *)

\* The format r as Text sees it.
OnText(r) == r[1] # Percent \/ At(r, 2) = Percent
From(r)   == IF r[1] = Percent THEN 1 ELSE 0
Body(r)   == SubSeq(r, From(r) + 1, Len(r))

\* What is printed of the format r of the pieces ps, and which pieces are left.
Handles(r, ps, printed, qs) ==
  /\ Shown(ps) = printed \o Shown(qs)
  /\ OnText(r) =>
       /\ printed = SubSeq(Body(r), 1, TextLength(Body(r)))
       /\ SubSeq(r, (From(r) + TextLength(Body(r))) + 1, Len(r)) = Format(qs)
       /\ Arguments(ps) = Arguments(qs)
  /\ ~OnText(r) /\ Converts(At(r, 2)) =>
       /\ printed = Rendered(r[2], Head(Arguments(ps)))
       /\ SubSeq(r, 3, Len(r)) = Format(qs)
       /\ Tail(Arguments(ps)) = Arguments(qs)
  /\ ~OnText(r) /\ ~Converts(At(r, 2)) =>
       printed = r /\ SubSeq(r, Len(r) + 1, Len(r)) = Format(qs) /\ qs = << >>

\* The head and the tail of what has been put in front.
LEMMA ConsIs ==
  ASSUME NEW S, NEW v \in S, NEW s \in Seq(S)
  PROVE  Head(<<v>> \o s) = v /\ Tail(<<v>> \o s) = s
<1>1. <<v>> \in Seq(S) /\ Len(<<v>>) = 1 /\ <<v>>[1] = v
  OBVIOUS
<1> DEFINE z == <<v>> \o s
           n == Len(s)
<1>2. /\ n \in Nat /\ z \in Seq(S) /\ Len(z) = 1 + n
      /\ \A k \in 1 .. 1 + n : z[k] = IF k <= 1 THEN <<v>>[k] ELSE s[k - 1]
  BY <1>1, ConcatProperties
<1> HIDE DEF z, n
<1>3. z # << >> /\ z[1] = v
  BY <1>1, <1>2, EmptySeq
<1>4. /\ Tail(z) \in Seq(S) /\ Len(Tail(z)) = n
      /\ Head(z) = z[1] /\ \A k \in 1 .. n : Tail(z)[k] = z[k + 1]
  BY <1>2, <1>3, HeadTailProperties
<1>5. ASSUME NEW k \in 1 .. n PROVE Tail(z)[k] = s[k]
  <2> DEFINE j == k + 1
  <2>1. j \in 1 .. 1 + n /\ ~(j <= 1) /\ j - 1 = k
    BY <1>2
  <2>2. Tail(z)[k] = z[j]
    BY <1>4
  <2> HIDE DEF j
  <2> QED
    BY <1>2, <2>1, <2>2
<1>6. Tail(z) = s
  BY <1>4, <1>5, SeqEqual DEF n
<1> QED
  BY <1>3, <1>4, <1>6 DEF z

\* The first letters of a concatenation.
LEMMA Beginning ==
  ASSUME NEW S, NEW x \in Seq(S), NEW y \in Seq(S)
  PROVE  /\ Len(x) \in Nat /\ Len(y) \in Nat /\ x \o y \in Seq(S) /\ Len(x \o y) = Len(x) + Len(y)
         /\ \A k \in 1 .. Len(x) : (x \o y)[k] = x[k]
         /\ Len(y) # 0 => (x \o y)[Len(x) + 1] = y[1]
<1> DEFINE z == x \o y
           m == Len(x)
           n == Len(y)
<1>1. /\ m \in Nat /\ n \in Nat /\ z \in Seq(S) /\ Len(z) = m + n
      /\ \A k \in 1 .. m + n : z[k] = IF k <= m THEN x[k] ELSE y[k - m]
  BY ConcatProperties
<1> HIDE DEF z, m, n
<1>2. n # 0 => z[m + 1] = y[1]
  <2> DEFINE j == m + 1
  <2>1. n # 0 => j \in 1 .. m + n /\ ~(j <= m) /\ j - m = 1
    BY <1>1
  <2> HIDE DEF j
  <2>2. n # 0 => z[j] = y[1]
    BY <1>1, <2>1
  <2> QED
    BY <2>2 DEF j
<1>3. \A k \in 1 .. m : z[k] = x[k]
  BY <1>1
<1> QED
  BY <1>1, <1>2, <1>3 DEF z, m, n

\* Every piece but text begins with a percent sign.
LEMMA Starts ==
  ASSUME NEW q \in Pieces, q.kind # "text"
  PROVE  Source(q) \in Seq(Some) /\ Len(Source(q)) \in Nat /\ Len(Source(q)) >= 1 /\ Source(q)[1] = Percent
<1>1. Source(q) \in Seq(Some)
  BY SourceIs
<1>2. CASE q.kind = "percent"
  <2>1. Source(q) = <<Percent, Percent>>
    BY <1>2 DEF Source
  <2> QED
    BY <1>1, <2>1
<1>3. CASE q.kind # "percent"
  <2>1. Source(q) = <<Percent>> \o q.letters
    BY <1>3 DEF Source
  <2>2. q.letters \in Seq(Nat)
    <3>1. Some \subseteq Nat
      BY DEF Some, Byte
    <3>2. Seq(Some) \subseteq Seq(Nat)
      BY <3>1, SeqMonotonic
    <3>3. <<99>> \in Seq(Nat) /\ <<115>> \in Seq(Nat) /\ <<105>> \in Seq(Nat) /\ <<120>> \in Seq(Nat)
      OBVIOUS
    <3> QED
      BY <1>2, <1>3, <3>2, <3>3, PieceIs
  <2>3. <<Percent>> \in Seq(Nat) /\ Len(<<Percent>>) = 1 /\ <<Percent>>[1] = Percent
    BY DEF Percent
  <2> DEFINE x == <<Percent>>
             y == q.letters
             N == Nat
  <2>4. x \in Seq(N) /\ y \in Seq(N) /\ Len(x) = 1 /\ x[1] = Percent
    BY <2>2, <2>3
  <2> HIDE DEF x, y, N
  <2>5. Len(x \o y) = 1 + Len(y) /\ Len(y) \in Nat /\ (x \o y)[1] = x[1]
    <3>1. /\ Len(y) \in Nat /\ Len(x \o y) = Len(x) + Len(y)
          /\ \A k \in 1 .. Len(x) : (x \o y)[k] = x[k]
      BY <2>4, Beginning
    <3>2. 1 \in 1 .. Len(x)
      BY <2>4
    <3> QED
      BY <2>4, <3>1, <3>2
  <2>6. Source(q) = x \o y
    BY <2>1 DEF x, y
  <2> QED
    BY <1>1, <2>4, <2>5, <2>6
<1> QED
  BY <1>2, <1>3

\* A run of text: the letters x, and behind them a format that begins with a
\* percent sign if it begins with anything.
LEMMA TextEnds ==
  ASSUME NEW x \in Seq(Some), x # << >>, \A k \in 2 .. Len(x) : x[k] # Percent,
         NEW qs \in Formats, qs = << >> \/ qs[1].kind # "text"
  PROVE  /\ TextLength(x \o Format(qs)) = Len(x)
         /\ SubSeq(x \o Format(qs), 1, Len(x)) = x
         /\ SubSeq(x \o Format(qs), Len(x) + 1, Len(x \o Format(qs))) = Format(qs)
<1> DEFINE y == Format(qs)
           r == x \o y
           n == Len(x)
<1>0. qs \in Seq(Pieces)
  BY DEF Formats
<1>1. y \in Seq(Some) /\ (y = << >> \/ (Len(y) # 0 /\ y[1] = Percent))
  <2>1. y \in Seq(Some)
    BY <1>0, FormatIs
  <2>2. CASE qs = << >>
    <3>1. Format(qs) = << >>
      BY <1>0, <2>2, FormatIs
    <3> QED
      BY <2>1, <3>1
  <2>3. CASE qs # << >>
    <3> DEFINE s == Source(qs[1])
               w == Format(Tail(qs))
    <3>1. qs[1] \in Pieces /\ qs[1].kind # "text" /\ Tail(qs) \in Seq(Pieces)
      BY <2>3, TailFormats DEF Formats
    <3>2. s \in Seq(Some) /\ Len(s) \in Nat /\ Len(s) >= 1 /\ s[1] = Percent
      BY <3>1, Starts
    <3>3. w \in Seq(Some) /\ y = s \o w
      BY <1>0, <2>3, <3>1, FormatIs
    <3> HIDE DEF s, w, y
    <3>4. Len(s \o w) = Len(s) + Len(w) /\ Len(w) \in Nat /\ (s \o w)[1] = s[1]
      BY <3>2, <3>3, Beginning
    <3> QED
      BY <2>1, <3>2, <3>3, <3>4
  <2> QED
    BY <2>2, <2>3
<1> HIDE DEF y
<1>2. n \in Nat /\ n >= 1
  BY EmptySeq
<1>3. /\ Len(y) \in Nat /\ r \in Seq(Some) /\ Len(r) = n + Len(y)
      /\ \A k \in 1 .. n : r[k] = x[k]
      /\ Len(y) # 0 => r[n + 1] = y[1]
  BY <1>1, Beginning
<1> HIDE DEF r
<1>4. n \in 1 .. Len(r) /\ (n = Len(r) \/ r[n + 1] = Percent)
  <2>1. CASE y = << >>
    <3>1. Len(y) = 0
      BY <2>1
    <3> QED
      BY <1>2, <1>3, <3>1
  <2>2. CASE y # << >>
    BY <1>1, <1>2, <1>3, <2>2
  <2> QED
    BY <2>1, <2>2
<1>5. \A k \in 2 .. n : r[k] # Percent
  BY <1>2, <1>3
<1> HIDE DEF n
<1>6. TextLength(r) = n
  BY <1>3, <1>4, <1>5, TextLengthIs
<1>7. SubSeq(x \o y, 1, Len(x)) = x /\ SubSeq(x \o y, Len(x) + 1, Len(x \o y)) = y
  BY <1>1, Parts
<1> QED
  BY <1>6, <1>7 DEF n, r, y

\* The letters of strings.
LEMMA Letters ==
  Seq(Some) \subseteq Seq(Nat) /\ Percent \in Some /\ Percent \in Nat
<1>1. Some \subseteq Nat /\ Percent \in Some
  BY DEF Some, Byte, Percent
<1> QED
  BY <1>1, SeqMonotonic

\* Text first.
LEMMA TextFirst ==
  ASSUME NEW ps \in Formats, NEW t \in Seq(Some), NEW qs \in Formats, t # << >>,
         \A k \in 1 .. Len(t) : t[k] # Percent,
         Format(ps) = t \o Format(qs), Shown(ps) = t \o Shown(qs),
         Arguments(ps) = Arguments(qs), qs = << >> \/ qs[1].kind # "text"
  PROVE  Handles(Format(ps), ps, t, qs)
<1> DEFINE r == Format(ps)
           n == Len(t)
<1>1. r = t \o Format(qs) /\ Format(qs) \in Seq(Some) /\ n \in Nat /\ n >= 1
  <2>1. qs \in Seq(Pieces)
    BY DEF Formats
  <2>2. n \in Nat /\ n >= 1
    BY EmptySeq
  <2> QED
    BY <2>1, <2>2, FormatIs
<1>2. r \in Seq(Some) /\ r[1] = t[1]
  <2>1. t \o Format(qs) \in Seq(Some) /\ \A k \in 1 .. n : (t \o Format(qs))[k] = t[k]
    BY <1>1, Beginning
  <2>2. 1 \in 1 .. n
    BY <1>1
  <2> QED
    BY <1>1, <2>1, <2>2
<1>3. r[1] # Percent
  <2>1. 1 \in 1 .. n
    BY <1>1
  <2> QED
    BY <1>2, <2>1
<1>4. TextLength(r) = n /\ SubSeq(r, 1, n) = t /\ SubSeq(r, n + 1, Len(r)) = Format(qs)
  <2>1. \A k \in 2 .. n : t[k] # Percent
    BY <1>1
  <2> QED
    BY <1>1, <2>1, TextEnds
<1> HIDE DEF r
<1>5. OnText(r) /\ From(r) = 0
  BY <1>3 DEF OnText, From
<1>6. Body(r) = r
  <2>1. From(r) + 1 = 1
    BY <1>5
  <2>2. SubSeq(r, 1, Len(r)) = r
    BY <1>2, SubSeqFull
  <2> QED
    BY <2>1, <2>2 DEF Body
<1>7. From(r) + TextLength(Body(r)) = n
  BY <1>1, <1>4, <1>5, <1>6
<1> HIDE DEF n
<1> QED
  BY <1>4, <1>5, <1>6, <1>7 DEF Handles, r

\* Two percent signs, and text behind them.
LEMMA PercentFirst ==
  ASSUME NEW ps \in Formats, ps # << >>, ps[1].kind = "percent",
         NEW t \in Seq(Some), NEW qs \in Formats,
         \A k \in 1 .. Len(t) : t[k] # Percent,
         Format(Tail(ps)) = t \o Format(qs), Shown(Tail(ps)) = t \o Shown(qs),
         Arguments(Tail(ps)) = Arguments(qs), qs = << >> \/ qs[1].kind # "text"
  PROVE  Handles(Format(ps), ps, <<Percent>> \o t, qs)
<1> DEFINE r == Format(ps)
           x == <<Percent>> \o t
           f == Format(qs)
           n == Len(x)
<1>1. ps \in Seq(Pieces) /\ qs \in Seq(Pieces) /\ Tail(ps) \in Formats
  BY TailFormats DEF Formats
<1>2. f \in Seq(Some) /\ r \in Seq(Some) /\ Shown(qs) \in Seq(Nat) /\ Arguments(qs) \in Seq(Values)
  BY <1>1, FormatIs, ShownIs, ArgumentsAre
<1>3. <<Percent>> \in Seq(Some) /\ Len(<<Percent>>) = 1 /\ <<Percent>>[1] = Percent
  BY Letters
<1>4. x \in Seq(Some) /\ n \in Nat /\ n >= 1 /\ (\A k \in 2 .. n : x[k] # Percent)
  <2>1. /\ x \in Seq(Some) /\ Len(t) \in Nat /\ n = 1 + Len(t)
        /\ \A k \in 1 .. 1 + Len(t) : x[k] = IF k <= 1 THEN <<Percent>>[k] ELSE t[k - 1]
    BY <1>3, ConcatProperties
  <2>2. ASSUME NEW k \in 2 .. n PROVE x[k] # Percent
    <3>1. k \in 1 .. 1 + Len(t) /\ ~(k <= 1) /\ k - 1 \in 1 .. Len(t)
      BY <2>1
    <3>2. x[k] = t[k - 1]
      BY <2>1, <3>1
    <3> QED
      BY <3>1, <3>2
  <2> HIDE DEF x
  <2> QED
    BY <2>1, <2>2
<1>5. r = <<Percent>> \o (x \o f)
  <2>1. Source(ps[1]) = <<Percent, Percent>>
    BY DEF Source
  <2>2. <<Percent, Percent>> = <<Percent>> \o <<Percent>>
    OBVIOUS
  <2>3. r = Source(ps[1]) \o (t \o f)
    BY <1>1, FormatIs
  <2>4. r = (<<Percent>> \o <<Percent>>) \o (t \o f)
    BY <2>1, <2>2, <2>3
  <2> DEFINE c == <<Percent>>
             z == t \o f
  <2>5. c \in Seq(Some) /\ t \in Seq(Some) /\ f \in Seq(Some) /\ z \in Seq(Some)
    BY <1>2, <1>3, ConcatProperties
  <2> HIDE DEF c, z, f
  <2>6. c \o (c \o z) = (c \o c) \o z
    <3>1. Joins(c, c, z)
      BY <2>5, Associative
    <3> QED
      BY <3>1 DEF Joins
  <2>7. c \o (t \o f) = (c \o t) \o f
    <3>1. Joins(c, t, f)
      BY <2>5, Associative
    <3> QED
      BY <3>1 DEF Joins
  <2> QED
    BY <2>4, <2>6, <2>7 DEF c, z
<1> HIDE DEF f
<1>6. x # << >>
  BY <1>4
<1>7. TextLength(x \o f) = n /\ SubSeq(x \o f, 1, n) = x /\ SubSeq(x \o f, n + 1, Len(x \o f)) = f
  <2> HIDE DEF x
  <2> QED
    BY <1>4, <1>6, TextEnds DEF f
<1> DEFINE b == x \o f
<1>8. b \in Seq(Some) /\ Len(b) \in Nat /\ Len(b) >= n /\ b[1] = Percent
  <2>1. x[1] = Percent
    <3>1. \A k \in 1 .. 1 + Len(t) : x[k] = IF k <= 1 THEN <<Percent>>[k] ELSE t[k - 1]
      BY <1>3, ConcatProperties
    <3>2. 1 \in 1 .. 1 + Len(t)
      OBVIOUS
    <3> HIDE DEF x
    <3> QED
      BY <1>3, <3>1, <3>2
  <2> HIDE DEF x
  <2>2. b \in Seq(Some) /\ Len(f) \in Nat /\ Len(b) = n + Len(f) /\ \A k \in 1 .. n : b[k] = x[k]
    BY <1>2, <1>4, Beginning
  <2>3. 1 \in 1 .. n
    BY <1>4
  <2> HIDE DEF b
  <2> QED
    BY <1>4, <2>1, <2>2, <2>3
<1>9. r = <<Percent>> \o b
  BY <1>5
<1> HIDE DEF b
<1>10. Len(r) = 1 + Len(b) /\ r[1] = Percent /\ r[2] = Percent
  <2>1. /\ Len(r) = 1 + Len(b)
        /\ \A k \in 1 .. 1 + Len(b) : r[k] = IF k <= 1 THEN <<Percent>>[k] ELSE b[k - 1]
    BY <1>3, <1>8, <1>9, ConcatProperties
  <2>2. 1 \in 1 .. 1 + Len(b) /\ 2 \in 1 .. 1 + Len(b) /\ 2 - 1 = 1
    BY <1>4, <1>8
  <2> QED
    BY <1>3, <1>8, <2>1, <2>2
<1>11. OnText(r) /\ From(r) = 1
  <2>1. 2 <= Len(r)
    BY <1>4, <1>8, <1>10
  <2> QED
    BY <1>10, <2>1 DEF OnText, From, At
<1>12. Body(r) = b
  <2>1. SubSeq(<<Percent>> \o b, Len(<<Percent>>) + 1, Len(<<Percent>> \o b)) = b
    BY <1>3, <1>8, Parts
  <2>2. From(r) + 1 = Len(<<Percent>>) + 1
    BY <1>3, <1>11
  <2> QED
    BY <1>9, <2>1, <2>2 DEF Body
<1>13. SubSeq(r, (From(r) + n) + 1, Len(r)) = f
  <2> DEFINE h == <<Percent>> \o x
  <2>1. h \in Seq(Some) /\ Len(h) = 1 + n
    <3> HIDE DEF x
    <3> QED
      BY <1>3, <1>4, ConcatProperties
  <2>2. r = h \o f
    <3> DEFINE c == <<Percent>>
    <3>1. c \in Seq(Some) /\ x \in Seq(Some) /\ f \in Seq(Some)
      BY <1>2, <1>3, <1>4
    <3>2. r = c \o (x \o f)
      BY <1>5
    <3> HIDE DEF c, x
    <3>3. c \o (x \o f) = (c \o x) \o f
      <4>1. Joins(c, x, f)
        BY <3>1, Associative
      <4> QED
        BY <4>1 DEF Joins
    <3> QED
      BY <3>2, <3>3 DEF c
  <2> HIDE DEF h
  <2>3. SubSeq(h \o f, Len(h) + 1, Len(h \o f)) = f
    BY <1>2, <2>1, Parts
  <2>4. (From(r) + n) + 1 = Len(h) + 1
    BY <1>4, <1>11, <2>1
  <2> QED
    BY <2>2, <2>3, <2>4
<1>14. Shown(ps) = x \o Shown(qs)
  <2>1. Shown(ps) = Spelled(ps[1]) \o Shown(Tail(ps))
    BY <1>1, ShownIs
  <2>2. Spelled(ps[1]) = <<Percent>>
    BY DEF Spelled, Meaning
  <2>3. <<Percent>> \in Seq(Nat) /\ t \in Seq(Nat)
    BY <1>3, Letters
  <2>4. <<Percent>> \o (t \o Shown(qs)) = (<<Percent>> \o t) \o Shown(qs)
    <3>1. Joins(<<Percent>>, t, Shown(qs))
      BY <1>2, <2>3, Associative
    <3> QED
      BY <3>1 DEF Joins
  <2> QED
    BY <2>1, <2>2, <2>4
<1>15. Arguments(ps) = Arguments(qs)
  <2>1. Given(ps[1]) = << >>
    BY DEF Given, HasArgument
  <2>2. Arguments(ps) = << >> \o Arguments(qs)
    BY <1>1, <2>1, ArgumentsAre
  <2> QED
    BY <1>2, <2>2, ConcatEmptySeq
<1> HIDE DEF r, x
<1> QED
  BY <1>7, <1>11, <1>12, <1>13, <1>14, <1>15 DEF Handles, r, x, b, f

\* Two letters.
LEMMA Pair ==
  ASSUME NEW S, NEW a \in S, NEW b \in S
  PROVE  <<a>> \o <<b>> = <<a, b>>
<1>1. <<a>> \in Seq(S) /\ <<b>> \in Seq(S) /\ <<a, b>> \in Seq(S)
  OBVIOUS
<1> DEFINE x == <<a>>
           y == <<b>>
           z == <<a, b>>
<1>2. Len(x) = 1 /\ Len(y) = 1 /\ x[1] = a /\ y[1] = b /\ Len(z) = 2 /\ z[1] = a /\ z[2] = b
  OBVIOUS
<1> HIDE DEF x, y, z
<1>3. x \in Seq(S) /\ y \in Seq(S) /\ z \in Seq(S)
  BY <1>1 DEF x, y, z
<1>4. /\ x \o y \in Seq(S) /\ Len(x \o y) = Len(x) + Len(y)
      /\ (\A k \in 1 .. Len(x) : (x \o y)[k] = x[k]) /\ (Len(y) # 0 => (x \o y)[Len(x) + 1] = y[1])
  BY <1>3, Beginning
<1> DEFINE w == x \o y
<1>5. w \in Seq(S) /\ Len(w) = 2 /\ w[1] = a /\ w[2] = b
  <2>1. 1 \in 1 .. Len(x) /\ Len(x) + 1 = 2
    BY <1>2
  <2> QED
    BY <1>2, <1>4, <2>1
<1> HIDE DEF w
<1>6. \A k \in 1 .. 2 : w[k] = z[k]
  BY <1>2, <1>5
<1> QED
  BY <1>2, <1>3, <1>5, <1>6, SeqEqual DEF w, x, y, z

\* A conversion of a format with its argument.
LEMMA ConversionFirst ==
  ASSUME NEW ps \in Formats, ps # << >>, HasArgument(ps[1])
  PROVE  Handles(Format(ps), ps, Spelled(ps[1]), Tail(ps))
<1> DEFINE p == ps[1]
           l == p.letters[1]
           r == Format(ps)
           f == Format(Tail(ps))
           c == <<Percent, l>>
<1>1. ps \in Seq(Pieces) /\ p \in Pieces /\ Tail(ps) \in Formats /\ Tail(ps) \in Seq(Pieces)
  BY TailFormats DEF Formats
<1>2. p.letters = <<l>> /\ l \in Some /\ Converts(l) /\ l # Percent /\ Rendered(l, p.value) = Spelled(p)
  <2>1. CASE p.kind = "c"
    <3>1. p.letters = <<99>> /\ l = 99
      BY <1>1, <2>1, PieceIs
    <3>2. Rendered(99, p.value) = <<p.value>> /\ Spelled(p) = <<p.value>>
      BY <2>1 DEF Rendered, Spelled, Meaning
    <3> QED
      BY <3>1, <3>2 DEF Converts, Percent, Some, Byte
  <2>2. CASE p.kind = "s"
    <3>1. p.letters = <<115>> /\ l = 115
      BY <1>1, <2>2, PieceIs
    <3>2. Rendered(115, p.value) = p.value /\ Spelled(p) = p.value
      BY <2>2 DEF Rendered, Spelled, Meaning
    <3> QED
      BY <3>1, <3>2 DEF Converts, Percent, Some, Byte
  <2>3. CASE p.kind = "i"
    <3>1. p.letters = <<105>> /\ l = 105 /\ p.value \in Word64s
      BY <1>1, <2>3, PieceIs
    <3>2. Rendered(105, p.value) = itoa(p.value, 10)
      BY DEF Rendered
    <3>3. Spelled(p) = itoa(p.value, 10)
      BY <2>3, <3>1, WordDigits DEF Spelled, Meaning
    <3> QED
      BY <3>1, <3>2, <3>3 DEF Converts, Percent, Some, Byte
  <2>4. CASE p.kind = "x"
    <3>1. p.letters = <<120>> /\ l = 120 /\ p.value \in Word64s
      BY <1>1, <2>4, PieceIs
    <3>2. Rendered(120, p.value) = ultoa(p.value % Modulus, 16)
      BY DEF Rendered
    <3>3. Spelled(p) = ultoa(p.value % Modulus, 16)
      BY <2>4, <3>1, WordDigits DEF Spelled, Meaning
    <3> QED
      BY <3>1, <3>2, <3>3 DEF Converts, Percent, Some, Byte
  <2> QED
    BY <2>1, <2>2, <2>3, <2>4 DEF HasArgument
<1>3. Source(p) = c /\ c \in Seq(Some) /\ Len(c) = 2 /\ c[1] = Percent /\ c[2] = l
  <2>1. Source(p) = <<Percent>> \o <<l>>
    BY <1>2 DEF Source, HasArgument
  <2>2. <<Percent>> \o <<l>> = c
    <3> HIDE DEF l
    <3>1. <<Percent>> \o <<l>> = <<Percent, l>>
      BY <1>2, Letters, Pair
    <3> QED
      BY <3>1
  <2>3. Percent \in Some /\ l \in Some
    BY <1>2, Letters
  <2> HIDE DEF l, p
  <2>4. c \in Seq(Some) /\ Len(c) = 2 /\ c[1] = Percent /\ c[2] = l
    BY <2>3
  <2> QED
    BY <2>1, <2>2, <2>4
<1>4. f \in Seq(Some) /\ r = c \o f /\ Len(f) \in Nat /\ Len(r) = 2 + Len(f) /\ r[1] = Percent /\ r[2] = l
  <2>1. f \in Seq(Some) /\ r = c \o f
    BY <1>1, <1>3, FormatIs
  <2> HIDE DEF c, f, r
  <2>2. Len(f) \in Nat /\ Len(c \o f) = Len(c) + Len(f) /\ \A k \in 1 .. Len(c) : (c \o f)[k] = c[k]
    <3>1. c \in Seq(Some) /\ f \in Seq(Some)
      BY <1>3, <2>1
    <3> QED
      BY <3>1, Beginning
  <2>3. 1 \in 1 .. Len(c) /\ 2 \in 1 .. Len(c)
    BY <1>3
  <2> QED
    BY <1>3, <2>1, <2>2, <2>3
<1>5. At(r, 2) = l
  <2>1. 2 <= Len(r)
    BY <1>4
  <2> HIDE DEF r, l
  <2> QED
    BY <1>4, <2>1 DEF At
<1>6. ~OnText(r)
  BY <1>2, <1>4, <1>5 DEF OnText
<1>7. SubSeq(r, 3, Len(r)) = f
  <2> HIDE DEF c, f, r
  <2>1. SubSeq(c \o f, Len(c) + 1, Len(c \o f)) = f
    BY <1>3, <1>4, Parts
  <2>2. Len(c) + 1 = 3
    BY <1>3
  <2> QED
    BY <1>4, <2>1, <2>2
<1>8. Head(Arguments(ps)) = p.value /\ Tail(Arguments(ps)) = Arguments(Tail(ps))
  <2>1. Given(p) = <<p.value>> /\ p.value \in Values
    BY <1>1, GivenIs DEF Given
  <2>2. Arguments(ps) = <<p.value>> \o Arguments(Tail(ps)) /\ Arguments(Tail(ps)) \in Seq(Values)
    BY <1>1, <2>1, ArgumentsAre
  <2> HIDE DEF p
  <2> QED
    BY <2>1, <2>2, ConsIs
<1>9. Shown(ps) = Spelled(p) \o Shown(Tail(ps))
  BY <1>1, ShownIs DEF HasArgument
<1> HIDE DEF r, f, l
<1>10. Converts(At(r, 2)) /\ Rendered(r[2], Head(Arguments(ps))) = Spelled(p)
  BY <1>2, <1>4, <1>5, <1>8
<1> QED
  BY <1>6, <1>7, <1>8, <1>9, <1>10 DEF Handles, r, f

\* A conversion that the code does not know.
LEMMA UnknownFirst ==
  ASSUME NEW ps \in Formats, ps # << >>, ps[1].kind = "other"
  PROVE  Handles(Format(ps), ps, Format(ps), << >>)
<1> DEFINE p == ps[1]
           l == p.letters
           r == Format(ps)
           f == Format(Tail(ps))
<1>1. ps \in Seq(Pieces) /\ p \in Pieces /\ Tail(ps) \in Formats /\ Tail(ps) \in Seq(Pieces)
  BY TailFormats DEF Formats
<1>2. << >> \in Seq(Pieces)
  OBVIOUS
<1>3. Format(<< >>) = << >> /\ Shown(<< >>) = << >> /\ r \in Seq(Some) /\ f \in Seq(Some)
  BY <1>1, <1>2, FormatIs, ShownIs
<1>4. Shown(ps) = r /\ r \in Seq(Nat)
  BY <1>1, ShownIs
<1>5. Shown(ps) = r \o << >>
  <2> HIDE DEF r
  <2> QED
    BY <1>3, <1>4, ConcatEmptySeq
<1>6. l \in Seq(Some) /\ Source(p) = <<Percent>> \o l /\ (l # << >> => ~Converts(l[1]) /\ l[1] # Percent)
  BY <1>1, PieceIs DEF Source
<1>7. r = (<<Percent>> \o l) \o f
  BY <1>1, <1>6, FormatIs
<1> DEFINE c == <<Percent>>
<1>8. c \in Seq(Some) /\ Len(c) = 1 /\ c[1] = Percent
  BY Letters
<1>9. ~OnText(r) /\ ~Converts(At(r, 2))
  <2>1. CASE l = << >>
    <3>1. Tail(ps) = << >> /\ f = << >>
      BY <1>3, <2>1, TailFormats
    <3>2. r = <<Percent>>
      <4>1. <<Percent>> \o << >> = <<Percent>>
        OBVIOUS
      <4> QED
        BY <1>7, <2>1, <3>1, <4>1
    <3>3. r[1] = Percent /\ Len(r) = 1
      BY <3>2
    <3> HIDE DEF r
    <3>4. At(r, 2) = 0
      BY <3>3 DEF At
    <3>5. ~Converts(0) /\ 0 # Percent
      BY DEF Converts, Percent
    <3> QED
      BY <3>3, <3>4, <3>5 DEF OnText
  <2>2. CASE l # << >>
    <3> HIDE DEF c, l, f, r
    <3> DEFINE h == c \o l
    <3>1. Len(l) \in Nat /\ Len(l) >= 1
      BY <1>6, <2>2, EmptySeq
    <3>2. h \in Seq(Some) /\ Len(h) = Len(c) + Len(l) /\ (\A k \in 1 .. Len(c) : h[k] = c[k]) /\ h[Len(c) + 1] = l[1]
      <4>1. c \in Seq(Some) /\ l \in Seq(Some)
        BY <1>6, <1>8
      <4>2. h \in Seq(Some) /\ Len(h) = Len(c) + Len(l) /\ (\A k \in 1 .. Len(c) : h[k] = c[k])
            /\ (Len(l) # 0 => h[Len(c) + 1] = l[1])
        BY <4>1, Beginning
      <4> QED
        BY <3>1, <4>2
    <3>3. r = h \o f
      BY <1>7 DEF c
    <3>4. Len(h) \in Nat /\ Len(h) >= 2 /\ h[1] = Percent /\ h[2] = l[1]
      <4>1. Len(c) + 1 = 2 /\ 1 \in 1 .. Len(c)
        BY <1>8
      <4> HIDE DEF h
      <4>2. Len(h) = 1 + Len(l)
        BY <1>8, <3>2
      <4> QED
        BY <1>8, <3>1, <3>2, <4>1, <4>2
    <3> HIDE DEF h
    <3>5. Len(h \o f) = Len(h) + Len(f) /\ Len(f) \in Nat /\ \A k \in 1 .. Len(h) : (h \o f)[k] = h[k]
      <4>1. h \in Seq(Some) /\ f \in Seq(Some)
        BY <1>3, <3>2
      <4> QED
        BY <4>1, Beginning
    <3>6. 1 \in 1 .. Len(h) /\ 2 \in 1 .. Len(h) /\ Len(r) >= 2
      BY <3>3, <3>4, <3>5
    <3>7. r[1] = Percent /\ r[2] = l[1] /\ At(r, 2) = r[2]
      BY <3>3, <3>4, <3>5, <3>6 DEF At
    <3> QED
      BY <1>6, <2>2, <3>7 DEF OnText
  <2> QED
    BY <2>1, <2>2
<1>10. SubSeq(r, Len(r) + 1, Len(r)) = << >>
  <2> HIDE DEF r
  <2>1. << >> \in Seq(Some) /\ r \o << >> = r
    BY <1>3, ConcatEmptySeq
  <2> QED
    BY <1>3, <2>1, Parts
<1> HIDE DEF r
<1> QED
  BY <1>3, <1>5, <1>9, <1>10 DEF Handles, r

\* One round of the loop.
LEMMA RoundIs ==
  ASSUME NEW ps \in Formats, Format(ps) # << >>
  PROVE  \E printed \in Seq(Nat), qs \in Formats : Handles(Format(ps), ps, printed, qs)
<1>1. PICK t \in Seq(Some), qs \in Formats :
         /\ \A k \in 1 .. Len(t) : t[k] # Percent
         /\ Format(ps) = t \o Format(qs)
         /\ Shown(ps) = t \o Shown(qs)
         /\ Arguments(ps) = Arguments(qs)
         /\ qs = << >> \/ qs[1].kind # "text"
  BY TextRun
<1>2. qs \in Seq(Pieces) /\ << >> \in Formats /\ t \in Seq(Nat)
  <2>1. << >> \in Seq(Pieces) /\ DOMAIN << >> = {}
    OBVIOUS
  <2>2. << >> \in Formats
    BY <2>1 DEF Formats
  <2>3. qs \in Seq(Pieces)
    BY DEF Formats
  <2> QED
    BY <2>2, <2>3, Letters
<1>3. CASE t # << >>
  <2>1. Handles(Format(ps), ps, t, qs)
    BY <1>1, <1>3, TextFirst
  <2> QED
    BY <1>2, <2>1
<1>4. CASE t = << >>
  <2> DEFINE q == qs[1]
  <2>1. Format(qs) \in Seq(Some) /\ Shown(qs) \in Seq(Nat)
    BY <1>2, FormatIs, ShownIs
  <2>2. Format(ps) = Format(qs) /\ Shown(ps) = Shown(qs) /\ Arguments(ps) = Arguments(qs)
    BY <1>1, <1>4, <2>1, ConcatEmptySeq
  <2>3. qs # << >>
    BY <1>2, <2>2, FormatIs
  <2>4. q \in Pieces /\ q.kind # "text" /\ Tail(qs) \in Formats
    BY <1>1, <2>3, TailFormats
  <2>5. \A printed, rs : Handles(Format(qs), qs, printed, rs) => Handles(Format(ps), ps, printed, rs)
    BY <2>2 DEF Handles
  <2>6. CASE q.kind = "percent"
    <3>1. PICK u \in Seq(Some), rs \in Formats :
             /\ \A k \in 1 .. Len(u) : u[k] # Percent
             /\ Format(Tail(qs)) = u \o Format(rs)
             /\ Shown(Tail(qs)) = u \o Shown(rs)
             /\ Arguments(Tail(qs)) = Arguments(rs)
             /\ rs = << >> \/ rs[1].kind # "text"
      BY <2>4, TextRun
    <3>2. Handles(Format(qs), qs, <<Percent>> \o u, rs)
      BY <2>3, <2>6, <3>1, PercentFirst
    <3>3. <<Percent>> \o u \in Seq(Nat)
      <4>1. u \in Seq(Nat) /\ <<Percent>> \in Seq(Nat)
        BY Letters
      <4> QED
        BY <4>1, ConcatProperties
    <3> QED
      BY <2>5, <3>2, <3>3
  <2>7. CASE HasArgument(q)
    <3>1. Handles(Format(qs), qs, Spelled(q), Tail(qs)) /\ Spelled(q) \in Seq(Nat)
      BY <2>3, <2>4, <2>7, ConversionFirst, SourceIs
    <3> QED
      BY <2>4, <2>5, <3>1
  <2>8. CASE q.kind = "other"
    <3>1. Handles(Format(qs), qs, Format(qs), << >>) /\ Format(qs) \in Seq(Nat)
      BY <2>1, <2>3, <2>8, UnknownFirst, Letters
    <3> QED
      BY <1>2, <2>5, <3>1
  <2> QED
    BY <2>4, <2>6, <2>7, <2>8, PieceIs DEF HasArgument
<1> QED
  BY <1>3, <1>4

-------------------------------------------------------------------------------
(* What a call has printed and what it still has to print make up the message. *)

Whole(m) == Prefix[m.how] \o Shown(m.pieces)

\* A call in progress has these fields.
Record(c) ==
  c = [pc |-> c.pc, message |-> c.message, left |-> c.left, rest |-> c.rest,
       arguments |-> c.arguments, written |-> c.written, out |-> c.out]

\* The format that is left is that of the pieces ps.
Goes(c, ps) ==
  /\ c.rest = Format(ps)
  /\ ps # << >> => c.arguments = Arguments(ps)
  /\ (c.out \o c.left) \o Shown(ps) = Whole(c.message)
  /\ Len(c.out) + Len(c.left) = Len(Prefix[c.message.how]) + c.written
  /\ c.written \in 0 .. IntMax

Ended(c) ==
  IF Len(Shown(c.message.pieces)) <= IntMax
  THEN c.out = Whole(c.message) /\ c.written = Len(Shown(c.message.pieces))
  ELSE IsPrefix(c.out, Whole(c.message)) /\ c.written = -1

Formatted(c) ==
  /\ c.out \in Seq(Nat) /\ c.left \in Seq(Nat)
  /\ c.pc \in {"letters", "return"}
  /\ c.pc = "letters" => \E ps \in Formats : Goes(c, ps)
  /\ c.pc = "return" => Ended(c)

CallInv ==
  call.pc # "idle" =>
    /\ Record(call) /\ call.message \in Messages
    /\ IF call.message.how \in Formatting THEN Formatted(call) ELSE call.rest = << >>

\* A format without letters says nothing.
LEMMA EmptyFormat ==
  ASSUME NEW ps \in Formats, Format(ps) = << >>
  PROVE  Shown(ps) = << >>
<1>1. PICK t \in Seq(Some), qs \in Formats :
         /\ Format(ps) = t \o Format(qs)
         /\ Shown(ps) = t \o Shown(qs)
         /\ qs = << >> \/ qs[1].kind # "text"
  BY TextRun
<1>2. qs \in Seq(Pieces)
  BY DEF Formats
<1> DEFINE f == Format(qs)
<1>3. f \in Seq(Some)
  BY <1>2, FormatIs
<1>4. t \o f = << >>
  BY <1>1
<1> HIDE DEF f
<1>5. Len(t) \in Nat /\ Len(f) \in Nat /\ Len(t \o f) = Len(t) + Len(f)
  BY <1>3, Beginning
<1>6. Len(t \o f) = 0
  BY <1>4
<1>7. Len(t) = 0 /\ Len(f) = 0
  BY <1>5, <1>6
<1>8. t = << >> /\ f = << >>
  BY <1>3, <1>7, EmptySeq
<1>9. qs = << >>
  <2> SUFFICES ASSUME qs # << >> PROVE FALSE
    OBVIOUS
  <2> DEFINE s == Source(qs[1])
             g == Format(Tail(qs))
  <2>1. qs[1] \in Pieces /\ qs[1].kind # "text" /\ Tail(qs) \in Seq(Pieces)
    BY <1>1, TailFormats DEF Formats
  <2>2. s \in Seq(Some) /\ g \in Seq(Some) /\ Len(s) \in Nat /\ Len(s) >= 1
    BY <2>1, Starts, FormatIs
  <2>3. f = s \o g
    BY <1>2, FormatIs DEF f
  <2> HIDE DEF s, g
  <2>4. Len(g) \in Nat /\ Len(s \o g) = Len(s) + Len(g)
    BY <2>2, Beginning
  <2> QED
    BY <1>7, <2>2, <2>3, <2>4
<1>10. Shown(qs) = << >>
  BY <1>2, <1>9, ShownIs
<1> QED
  BY <1>1, <1>8, <1>10

\* The next piece pr of what is expected.
Fits(o, pr, e, p, x, w) == o \o (pr \o e) = p \o x /\ Len(o) = Len(p) + w
Splits(o, pr, e, p, x, w) ==
  /\ (o \o pr) \o e = p \o x /\ IsPrefix(o, p \o x)
  /\ Len(pr) \in Nat /\ Len(e) \in Nat /\ Len(x) = w + Len(pr) + Len(e)

\* What was printed and what is left stay the whole when a piece is printed.
LEMMA PieceFits ==
  ASSUME NEW o \in Seq(Nat), NEW pr \in Seq(Nat), NEW e \in Seq(Nat),
         NEW p \in Seq(Nat), NEW x \in Seq(Nat), NEW w \in Nat,
         Fits(o, pr, e, p, x, w)
  PROVE  Splits(o, pr, e, p, x, w)
<1>0. o \o (pr \o e) = p \o x /\ Len(o) = Len(p) + w
  BY DEF Fits
<1> DEFINE N == Nat
<1>1. o \in Seq(N) /\ pr \in Seq(N) /\ e \in Seq(N) /\ p \in Seq(N) /\ x \in Seq(N)
  OBVIOUS
<1> HIDE DEF N
<1> DEFINE y == pr \o e
           z == o \o y
<1>2. Len(pr) \in Nat /\ Len(e) \in Nat /\ y \in Seq(N) /\ Len(y) = Len(pr) + Len(e)
  BY <1>1, Beginning
<1> HIDE DEF y
<1>3. Len(o) \in Nat /\ Len(y) \in Nat /\ z \in Seq(N) /\ Len(z) = Len(o) + Len(y)
  BY <1>1, <1>2, Beginning
<1>4. Len(p) \in Nat /\ Len(x) \in Nat /\ Len(p \o x) = Len(p) + Len(x)
  BY <1>1, Beginning
<1>5. z = p \o x
  BY <1>0 DEF y
<1>6. SubSeq(z, 1, Len(o)) = o
  BY <1>1, <1>2, Parts
<1> HIDE DEF z
<1>7. SubSeq(o, 1, Len(o)) = o
  BY <1>1, SubSeqFull
<1>8. Len(o) <= Len(z) /\ IsPrefix(o, z)
  BY <1>3, <1>6, <1>7 DEF IsPrefix
<1>9. Len(x) = w + Len(pr) + Len(e)
  <2>1. Len(p) + Len(x) = (Len(p) + w) + (Len(pr) + Len(e))
    BY <1>0, <1>2, <1>3, <1>4, <1>5
  <2> QED
    BY <1>2, <1>4, <2>1
<1>10. (o \o pr) \o e = p \o x
  <2>1. o \o (pr \o e) = (o \o pr) \o e
    <3>1. Joins(o, pr, e)
      BY Associative
    <3> QED
      BY <3>1 DEF Joins
  <2> QED
    BY <1>0, <2>1
<1> QED
  BY <1>2, <1>5, <1>8, <1>9, <1>10 DEF Splits

\* A sequence is its head and its tail.
LEMMA HeadAndTail ==
  ASSUME NEW S, NEW s \in Seq(S), s # << >>
  PROVE  Head(s) \in S /\ Tail(s) \in Seq(S) /\ s = <<Head(s)>> \o Tail(s)
<1> DEFINE h == Head(s)
           t == Tail(s)
           n == Len(s)
<1>1. /\ h \in S /\ t \in Seq(S) /\ h = s[1] /\ Len(t) = n - 1
      /\ \A k \in 1 .. n - 1 : t[k] = s[k + 1]
  BY HeadTailProperties, EmptySeq
<1>2. n \in Nat /\ n >= 1
  BY EmptySeq
<1> DEFINE c == <<h>>
<1>3. c \in Seq(S) /\ Len(c) = 1 /\ c[1] = h
  BY <1>1
<1> HIDE DEF h, t, c
<1> DEFINE z == c \o t
<1>4. z \in Seq(S) /\ Len(z) = Len(c) + Len(t) /\ \A k \in 1 .. Len(c) + Len(t) : z[k] = IF k <= Len(c) THEN c[k] ELSE t[k - Len(c)]
  <2>1. c \in Seq(S) /\ t \in Seq(S)
    BY <1>1, <1>3
  <2> QED
    BY <2>1, ConcatProperties
<1> HIDE DEF z
<1>5. Len(z) = n
  BY <1>1, <1>2, <1>3, <1>4
<1>6. ASSUME NEW k \in 1 .. n PROVE z[k] = s[k]
  <2>1. CASE k = 1
    BY <1>1, <1>2, <1>3, <1>4, <2>1
  <2>2. CASE k # 1
    <3> DEFINE j == k - 1
    <3>1. j \in 1 .. n - 1 /\ ~(k <= 1) /\ j + 1 = k
      BY <1>2, <2>2
    <3>2. k \in 1 .. Len(c) + Len(t)
      BY <1>4, <1>5
    <3>3. z[k] = t[j]
      BY <1>3, <1>4, <3>1, <3>2
    <3> HIDE DEF j
    <3>4. t[j] = s[j + 1]
      BY <1>1, <3>1
    <3> QED
      BY <3>1, <3>3, <3>4
  <2> QED
    BY <2>1, <2>2
<1>7. z = s
  BY <1>4, <1>5, <1>6, SeqEqual DEF n
<1> QED
  BY <1>1, <1>7 DEF z, c, h, t

\* One letter on its way.
LEMMA LetterFits ==
  ASSUME NEW o \in Seq(Nat), NEW l \in Seq(Nat), l # << >>
  PROVE  /\ Append(o, Head(l)) \in Seq(Nat) /\ Tail(l) \in Seq(Nat)
         /\ Append(o, Head(l)) \o Tail(l) = o \o l
         /\ Len(Append(o, Head(l))) + Len(Tail(l)) = Len(o) + Len(l)
<1> DEFINE N == Nat
<1>1. o \in Seq(N) /\ l \in Seq(N)
  OBVIOUS
<1> HIDE DEF N
<1> DEFINE h == Head(l)
           t == Tail(l)
           c == <<h>>
<1>2. h \in N /\ t \in Seq(N) /\ l = c \o t
  BY <1>1, HeadAndTail
<1>3. c \in Seq(N) /\ Len(c) = 1
  BY <1>2
<1>4. Append(o, h) = o \o c
  BY <1>1, <1>2, AppendIsConcat
<1>5. Len(o) \in Nat /\ Len(l) \in Nat /\ Len(l) >= 1
  BY <1>1, EmptySeq
<1>6. Len(t) = Len(l) - 1
  BY <1>1, HeadTailProperties
<1>7. Append(o, h) \in Seq(N) /\ Len(Append(o, h)) = Len(o) + 1
  BY <1>1, <1>2, AppendProperties
<1> HIDE DEF h, t, c
<1>8. o \o (c \o t) = (o \o c) \o t
  <2>1. o \in Seq(N) /\ c \in Seq(N) /\ t \in Seq(N)
    BY <1>1, <1>2, <1>3
  <2>2. Joins(o, c, t)
    BY <2>1, Associative
  <2> QED
    BY <2>2 DEF Joins
<1>9. Append(o, h) \o t = o \o l
  BY <1>2, <1>4, <1>8
<1>10. Len(Append(o, h)) + Len(t) = Len(o) + Len(l)
  BY <1>5, <1>6, <1>7
<1> QED
  BY <1>2, <1>7, <1>9, <1>10 DEF h, t, N

\* What the assignments of the actions do to a call.
Handed(c, l, w, r, a) == [c EXCEPT !.left = l, !.written = w, !.rest = r, !.arguments = a]

\* The record after a piece was handed on.
LEMMA HandedIs ==
  ASSUME NEW c, Record(c), NEW l, NEW w, NEW r, NEW a, NEW d, d = Handed(c, l, w, r, a)
  PROVE  /\ Record(d) /\ d.pc = c.pc /\ d.message = c.message /\ d.left = l
         /\ d.rest = r /\ d.arguments = a /\ d.written = w /\ d.out = c.out
<1>1. ASSUME NEW q1, NEW q2, NEW q3, NEW q4, NEW q5, NEW q6, NEW q7,
             c = [pc |-> q1, message |-> q2, left |-> q3, rest |-> q4,
                  arguments |-> q5, written |-> q6, out |-> q7]
      PROVE  d = [pc |-> q1, message |-> q2, left |-> l, rest |-> r,
                 arguments |-> a, written |-> w, out |-> q7]
  BY <1>1 DEF Handed
<1>2. d = [pc |-> c.pc, message |-> c.message, left |-> l, rest |-> r,
           arguments |-> a, written |-> w, out |-> c.out]
  BY <1>1 DEF Record
<1> QED
  BY <1>2 DEF Record

Written(c, l, o) == [c EXCEPT !.left = l, !.out = o]

\* The record after a letter was written.
LEMMA WrittenIs ==
  ASSUME NEW c, Record(c), NEW l, NEW o, NEW d, d = Written(c, l, o)
  PROVE  /\ Record(d) /\ d.pc = c.pc /\ d.message = c.message /\ d.left = l
         /\ d.rest = c.rest /\ d.arguments = c.arguments /\ d.written = c.written /\ d.out = o
<1>1. ASSUME NEW q1, NEW q2, NEW q3, NEW q4, NEW q5, NEW q6, NEW q7,
             c = [pc |-> q1, message |-> q2, left |-> q3, rest |-> q4,
                  arguments |-> q5, written |-> q6, out |-> q7]
      PROVE  d = [pc |-> q1, message |-> q2, left |-> l, rest |-> q4,
                 arguments |-> q5, written |-> q6, out |-> o]
  BY <1>1 DEF Written
<1>2. d = [pc |-> c.pc, message |-> c.message, left |-> l, rest |-> c.rest,
           arguments |-> c.arguments, written |-> c.written, out |-> o]
  BY <1>1 DEF Record
<1> QED
  BY <1>2 DEF Record

Stopped(c, k, w) == [c EXCEPT !.pc = k, !.written = w]

\* The record after the count did not fit.
LEMMA StoppedIs ==
  ASSUME NEW c, Record(c), NEW k, NEW w, NEW d, d = Stopped(c, k, w)
  PROVE  /\ Record(d) /\ d.pc = k /\ d.message = c.message /\ d.left = c.left
         /\ d.rest = c.rest /\ d.arguments = c.arguments /\ d.written = w /\ d.out = c.out
<1>1. ASSUME NEW q1, NEW q2, NEW q3, NEW q4, NEW q5, NEW q6, NEW q7,
             c = [pc |-> q1, message |-> q2, left |-> q3, rest |-> q4,
                  arguments |-> q5, written |-> q6, out |-> q7]
      PROVE  d = [pc |-> k, message |-> q2, left |-> q3, rest |-> q4,
                 arguments |-> q5, written |-> w, out |-> q7]
  BY <1>1 DEF Stopped
<1>2. d = [pc |-> k, message |-> c.message, left |-> c.left, rest |-> c.rest,
           arguments |-> c.arguments, written |-> w, out |-> c.out]
  BY <1>1 DEF Record
<1> QED
  BY <1>2 DEF Record

Over(c, k) == [c EXCEPT !.pc = k]

\* The record at the end.
LEMMA OverIs ==
  ASSUME NEW c, Record(c), NEW k, NEW d, d = Over(c, k)
  PROVE  /\ Record(d) /\ d.pc = k /\ d.message = c.message /\ d.left = c.left
         /\ d.rest = c.rest /\ d.arguments = c.arguments /\ d.written = c.written /\ d.out = c.out
<1>1. ASSUME NEW q1, NEW q2, NEW q3, NEW q4, NEW q5, NEW q6, NEW q7,
             c = [pc |-> q1, message |-> q2, left |-> q3, rest |-> q4,
                  arguments |-> q5, written |-> q6, out |-> q7]
      PROVE  d = [pc |-> k, message |-> q2, left |-> q3, rest |-> q4,
                 arguments |-> q5, written |-> q6, out |-> q7]
  BY <1>1 DEF Over
<1>2. d = [pc |-> k, message |-> c.message, left |-> c.left, rest |-> c.rest,
           arguments |-> c.arguments, written |-> c.written, out |-> c.out]
  BY <1>1 DEF Record
<1> QED
  BY <1>2 DEF Record

\* The record at the beginning.
LEMMA Begins ==
  ASSUME NEW m, NEW left, NEW rest
  PROVE  LET d == Start(m, left, rest)
         IN  /\ Record(d) /\ d.pc = "letters" /\ d.message = m /\ d.left = left /\ d.rest = rest
             /\ d.arguments = Arguments(m.pieces) /\ d.written = 0 /\ d.out = << >>
BY DEF Start, Record

\* The messages that are formats.
LEMMA Message ==
  ASSUME NEW m \in Messages, m.how \in Formatting
  PROVE  /\ m.pieces \in Formats /\ Prefix[m.how] \in Seq(Nat) /\ Shown(m.pieces) \in Seq(Nat)
         /\ IntMax \in Nat
<1>1. m.pieces \in Formats /\ Prefix[m.how] \in Seq(Byte)
  BY OutputAssumption
<1>2. Byte \subseteq Nat
  BY DEF Byte
<1>3. Seq(Byte) \subseteq Seq(Nat)
  BY <1>2, SeqMonotonic
<1>4. m.pieces \in Seq(Pieces)
  BY <1>1 DEF Formats
<1> QED
  BY <1>1, <1>3, <1>4, ShownIs, Widths

\* No call is in progress.
LEMMA CallInit == PrintInit => CallInv
BY DEF PrintInit, Idle, CallInv

\* The beginning of every call.
LEMMA StartKeeps ==
  ASSUME NEW m \in Messages, NEW left, NEW rest, call' = Start(m, left, rest),
         IF m.how \in Formatting THEN left = Prefix[m.how] /\ rest = Format(m.pieces)
                                ELSE rest = << >>
  PROVE  CallInv'
<1> DEFINE d == Start(m, left, rest)
<1>1. /\ Record(d) /\ d.pc = "letters" /\ d.message = m /\ d.left = left /\ d.rest = rest
      /\ d.arguments = Arguments(m.pieces) /\ d.written = 0 /\ d.out = << >>
  BY Begins
<1> HIDE DEF d
<1>2. CASE m.how \in Formatting
  <2> DEFINE p == Prefix[m.how]
             x == Shown(m.pieces)
  <2>1. m.pieces \in Formats /\ p \in Seq(Nat) /\ x \in Seq(Nat) /\ IntMax \in Nat
    BY <1>2, Message
  <2>2. d.left = p /\ d.rest = Format(m.pieces)
    BY <1>1, <1>2
  <2> HIDE DEF p, x
  <2>3. << >> \o p = p /\ Len(p) \in Nat /\ Len(<< >>) = 0 /\ << >> \in Seq(Nat)
    BY <2>1, ConcatEmptySeq
  <2>4. Goes(d, m.pieces)
    <3>1. (d.out \o d.left) \o Shown(m.pieces) = Whole(m)
      BY <1>1, <2>2, <2>3 DEF Whole, p
    <3>2. Len(d.out) + Len(d.left) = Len(Prefix[m.how]) + d.written
      BY <1>1, <2>2, <2>3 DEF p
    <3>3. d.written \in 0 .. IntMax
      BY <1>1, <2>1
    <3> QED
      BY <1>1, <2>2, <3>1, <3>2, <3>3 DEF Goes
  <2>5. Formatted(d)
    BY <1>1, <2>1, <2>2, <2>3, <2>4 DEF Formatted
  <2>6. Record(call') /\ call'.message = m /\ Formatted(call')
    BY <1>1, <2>5 DEF d
  <2> QED
    BY <1>2, <2>6 DEF CallInv
<1>3. CASE m.how \notin Formatting
  <2>1. Record(call') /\ call'.message = m /\ call'.rest = << >>
    BY <1>1, <1>3 DEF d
  <2> QED
    BY <1>3, <2>1 DEF CallInv
<1> QED
  BY <1>2, <1>3

\* A piece is handed on, or the count of letters does not fit.
LEMMA SegmentKeeps ==
  ASSUME CallInv, Parsing, call.message.how \in Formatting,
         NEW ps \in Formats, Goes(call, ps), NEW printed \in Seq(Nat), NEW qs \in Formats,
         Shown(ps) = printed \o Shown(qs), NEW skip, NEW args, Segment(printed, skip, args),
         SubSeq(call.rest, skip + 1, Len(call.rest)) = Format(qs),
         qs # << >> => args = Arguments(qs)
  PROVE  CallInv'
<1> DEFINE m == call.message
           p == Prefix[m.how]
           x == Shown(m.pieces)
           e == Shown(qs)
           o == call.out
           w == call.written
<1>1. call.pc = "letters" /\ call.left = << >> /\ Record(call) /\ m \in Messages /\ o \in Seq(Nat)
  BY DEF Parsing, CallInv, Formatted
<1>2. p \in Seq(Nat) /\ x \in Seq(Nat) /\ IntMax \in Nat
  BY <1>1, Message
<1>3. e \in Seq(Nat)
  BY ShownIs DEF Formats
<1>4. w \in 0 .. IntMax /\ w \in Nat /\ w <= IntMax
  BY <1>2 DEF Goes
<1>5. o \o (printed \o e) = p \o x /\ Len(o) = Len(p) + w
  <2>1. o \o << >> = o
    BY <1>1, ConcatEmptySeq
  <2>2. Len(o) + Len(call.left) = Len(p) + w /\ (o \o call.left) \o Shown(ps) = p \o x
    BY DEF Goes, Whole
  <2>3. Len(call.left) = 0 /\ Len(o) \in Nat
    BY <1>1
  <2>4. o \o call.left = o
    BY <1>1, <2>1
  <2>5. o \o Shown(ps) = p \o x
    BY <2>2, <2>4
  <2>6. o \o (printed \o e) = p \o x
    BY <2>5
  <2> HIDE DEF o, p, x, e, w
  <2>7. Len(o) = Len(p) + w
    BY <2>2, <2>3
  <2> QED
    BY <2>6, <2>7
<1>6. Whole(m) = p \o x
  BY DEF Whole
<1> HIDE DEF p, x, e, o, w
<1>7. /\ (o \o printed) \o e = p \o x /\ IsPrefix(o, p \o x)
      /\ Len(printed) \in Nat /\ Len(e) \in Nat /\ Len(x) = w + Len(printed) + Len(e)
  <2>1. o \in Seq(Nat) /\ e \in Seq(Nat) /\ p \in Seq(Nat) /\ x \in Seq(Nat) /\ w \in Nat
    BY <1>1, <1>2, <1>3, <1>4
  <2>2. Fits(o, printed, e, p, x, w)
    BY <1>5 DEF Fits
  <2>3. Splits(o, printed, e, p, x, w)
    BY <2>1, <2>2, PieceFits
  <2> QED
    BY <2>3 DEF Splits
<1>8. CASE IntMax - w < Len(printed)
  <2> DEFINE d == Stopped(call, "return", -1)
  <2>1. call' = d
    BY <1>8 DEF Segment, Stopped, w
  <2>2. Record(d) /\ d.pc = "return" /\ d.message = m /\ d.left = << >> /\ d.written = -1 /\ d.out = o
    <3>1. d = Stopped(call, "return", -1)
      OBVIOUS
    <3> HIDE DEF d
    <3> QED
      <4>1. Record(d) /\ d.pc = "return" /\ d.message = m /\ d.left = call.left /\ d.written = -1 /\ d.out = call.out
        BY <1>1, <3>1, StoppedIs
      <4> QED
        BY <1>1, <4>1 DEF o
  <2> HIDE DEF d
  <2>3. ~(Len(x) <= IntMax)
    BY <1>2, <1>4, <1>7, <1>8
  <2>4. Ended(d)
    BY <1>6, <1>7, <2>2, <2>3 DEF Ended, x
  <2>5. << >> \in Seq(Nat)
    OBVIOUS
  <2>6. Formatted(d)
    BY <1>1, <2>2, <2>4, <2>5 DEF Formatted
  <2>7. Record(call') /\ call'.message = m /\ Formatted(call')
    BY <1>1, <2>1, <2>2, <2>6
  <2> QED
    BY <1>1, <2>7 DEF CallInv
<1>9. CASE ~(IntMax - w < Len(printed))
  <2> DEFINE r == SubSeq(call.rest, skip + 1, Len(call.rest))
             v == w + Len(printed)
             d == Handed(call, printed, v, r, args)
  <2>1. call' = d
    BY <1>9 DEF Segment, Handed, w
  <2>2. /\ Record(d) /\ d.pc = "letters" /\ d.message = m /\ d.left = printed /\ d.rest = Format(qs)
        /\ d.arguments = args /\ d.written = v /\ d.out = o
    <3>1. d = Handed(call, printed, v, r, args)
      OBVIOUS
    <3>2. r = Format(qs)
      OBVIOUS
    <3> HIDE DEF d, r, v
    <3> QED
      <4>1. /\ Record(d) /\ d.pc = call.pc /\ d.message = m /\ d.left = printed /\ d.rest = r
            /\ d.arguments = args /\ d.written = v /\ d.out = call.out
        BY <1>1, <3>1, HandedIs
      <4> QED
        BY <1>1, <3>2, <4>1 DEF o
  <2>3. v \in 0 .. IntMax
    BY <1>2, <1>4, <1>7, <1>9
  <2> HIDE DEF d
  <2>4. Goes(d, qs)
    <3>1. (d.out \o d.left) \o Shown(qs) = Whole(d.message)
      BY <1>6, <1>7, <2>2 DEF e
    <3>2. Len(d.out) + Len(d.left) = Len(Prefix[d.message.how]) + d.written
      <4>1. Len(p) \in Nat /\ Len(o) \in Nat
        BY <1>1, <1>2
      <4>2. Len(o) + Len(printed) = Len(p) + v
        BY <1>4, <1>5, <1>7, <4>1
      <4> QED
        BY <2>2, <4>2 DEF p
    <3> QED
      BY <2>2, <2>3, <3>1, <3>2 DEF Goes
  <2>5. Formatted(d)
    BY <1>1, <2>2, <2>4 DEF Formatted
  <2>6. Record(call') /\ call'.message = m /\ Formatted(call')
    BY <1>1, <2>1, <2>2, <2>5
  <2> QED
    BY <1>1, <2>6 DEF CallInv
<1> QED
  BY <1>8, <1>9

\* A letter moves from what is left to what was printed.
LEMMA LetterKeeps == CallInv /\ Letter => CallInv'
<1> SUFFICES ASSUME CallInv, Letter PROVE CallInv'
  OBVIOUS
<1> DEFINE l == Tail(call.left)
           o == Append(call.out, Head(call.left))
           d == Written(call, l, o)
           m == call.message
<1>1. call.pc = "letters" /\ call.left # << >> /\ call' = d /\ Record(call) /\ m \in Messages
  BY DEF Letter, Written, CallInv
<1>2. /\ Record(d) /\ d.pc = call.pc /\ d.message = m /\ d.left = l
      /\ d.rest = call.rest /\ d.arguments = call.arguments /\ d.written = call.written /\ d.out = o
  <2> HIDE DEF d, l, o
  <2>1. d = Written(call, l, o)
    BY DEF d
  <2> QED
    BY <1>1, <2>1, WrittenIs
<1>3. CASE m.how \in Formatting
  <2>1. call.out \in Seq(Nat) /\ call.left \in Seq(Nat)
    BY <1>1, <1>3 DEF CallInv, Formatted
  <2>2. PICK ps \in Formats : Goes(call, ps)
    BY <1>1, <1>3 DEF CallInv, Formatted
  <2>3. /\ o \in Seq(Nat) /\ l \in Seq(Nat) /\ o \o l = call.out \o call.left
        /\ Len(o) + Len(l) = Len(call.out) + Len(call.left)
    BY <1>1, <2>1, LetterFits
  <2> HIDE DEF d, l, o
  <2>4. Goes(d, ps)
    BY <1>2, <2>2, <2>3 DEF Goes
  <2>5. Formatted(d)
    BY <1>1, <1>2, <2>3, <2>4 DEF Formatted
  <2> QED
    BY <1>1, <1>2, <2>5 DEF CallInv
<1>4. CASE m.how \notin Formatting
  <2> HIDE DEF d
  <2> QED
    BY <1>1, <1>2, <1>4 DEF CallInv
<1> QED
  BY <1>3, <1>4

\* What Text, Conversion and Unknown hand to Segment.
LEMMA Segments ==
  /\ Text => /\ Parsing /\ OnText(call.rest)
             /\ Segment(SubSeq(Body(call.rest), 1, TextLength(Body(call.rest))),
                        From(call.rest) + TextLength(Body(call.rest)), call.arguments)
  /\ Conversion => /\ Parsing /\ ~OnText(call.rest) /\ Converts(At(call.rest, 2))
                   /\ Segment(Rendered(call.rest[2], Head(call.arguments)), 2, Tail(call.arguments))
  /\ Unknown => /\ Parsing /\ ~OnText(call.rest) /\ ~Converts(At(call.rest, 2))
                /\ Segment(call.rest, Len(call.rest), call.arguments)
<1>1. AtText <=> OnText(call.rest)
  BY DEF AtText, OnText
<1>2. ASSUME Text
      PROVE  Segment(SubSeq(Body(call.rest), 1, TextLength(Body(call.rest))),
                     From(call.rest) + TextLength(Body(call.rest)), call.arguments)
  BY <1>2 DEF Text, Body, From
<1>3. Text => Parsing /\ AtText
  BY DEF Text
<1> QED
  BY <1>1, <1>2, <1>3 DEF Conversion, Unknown

\* A round of the loop handles the first piece of the format that is left.
LEMMA ParsingKeeps ==
  ASSUME CallInv, Text \/ Conversion \/ Unknown
  PROVE  CallInv'
<1>1. Parsing
  BY Segments
<1>2. CASE call.message.how \notin Formatting
  BY <1>1, <1>2 DEF Parsing, CallInv
<1>3. CASE call.message.how \in Formatting
  <2>1. PICK ps \in Formats : Goes(call, ps)
    BY <1>1, <1>3 DEF Parsing, CallInv, Formatted
  <2> DEFINE r == call.rest
  <2>2. r = Format(ps) /\ r # << >>
    BY <1>1, <2>1 DEF Parsing, Goes
  <2>3. PICK printed \in Seq(Nat), qs \in Formats : Handles(r, ps, printed, qs)
    BY <2>2, RoundIs
  <2>4. ps # << >> /\ call.arguments = Arguments(ps)
    <3>1. ps \in Seq(Pieces)
      BY DEF Formats
    <3>2. ps # << >>
      BY <2>2, <3>1, FormatIs
    <3> QED
      BY <2>1, <3>2 DEF Goes
  <2>5. Shown(ps) = printed \o Shown(qs)
    BY <2>3 DEF Handles
  <2> HIDE DEF r
  <2>6. CASE Text
    <3> DEFINE skip == From(r) + TextLength(Body(r))
    <3>1. OnText(r) /\ Segment(SubSeq(Body(r), 1, TextLength(Body(r))), skip, call.arguments)
      BY <2>6, Segments DEF r
    <3>2. /\ printed = SubSeq(Body(r), 1, TextLength(Body(r)))
          /\ SubSeq(r, skip + 1, Len(r)) = Format(qs)
          /\ Arguments(ps) = Arguments(qs)
      BY <2>3, <3>1 DEF Handles
    <3> HIDE DEF skip
    <3>3. Segment(printed, skip, call.arguments) /\ SubSeq(call.rest, skip + 1, Len(call.rest)) = Format(qs)
      BY <3>1, <3>2 DEF r
    <3> QED
      BY <1>1, <1>3, <2>1, <2>4, <2>5, <3>2, <3>3, SegmentKeeps
  <2>7. CASE Conversion
    <3>1. ~OnText(r) /\ Converts(At(r, 2)) /\ Segment(Rendered(r[2], Head(call.arguments)), 2, Tail(call.arguments))
      BY <2>7, Segments DEF r
    <3>2. printed = Rendered(r[2], Head(Arguments(ps))) /\ SubSeq(r, 3, Len(r)) = Format(qs) /\ Tail(Arguments(ps)) = Arguments(qs)
      BY <2>3, <3>1 DEF Handles
    <3> DEFINE skip == 2
    <3>3. skip + 1 = 3
      OBVIOUS
    <3>4. Segment(printed, skip, Tail(call.arguments)) /\ SubSeq(call.rest, skip + 1, Len(call.rest)) = Format(qs)
      BY <2>4, <3>1, <3>2, <3>3 DEF r
    <3> HIDE DEF skip
    <3>5. Tail(call.arguments) = Arguments(qs)
      BY <2>4, <3>2
    <3> QED
      BY <1>1, <1>3, <2>1, <2>5, <3>4, <3>5, SegmentKeeps
  <2>8. CASE Unknown
    <3>1. ~OnText(r) /\ ~Converts(At(r, 2)) /\ Segment(r, Len(r), call.arguments)
      BY <2>8, Segments DEF r
    <3>2. printed = r /\ SubSeq(r, Len(r) + 1, Len(r)) = Format(qs) /\ qs = << >>
      BY <2>3, <3>1 DEF Handles
    <3> DEFINE skip == Len(r)
    <3>3. Segment(printed, skip, call.arguments) /\ SubSeq(call.rest, skip + 1, Len(call.rest)) = Format(qs)
      BY <3>1, <3>2 DEF r
    <3> HIDE DEF skip
    <3> QED
      BY <1>1, <1>3, <2>1, <2>5, <3>2, <3>3, SegmentKeeps
  <2> QED
    BY <2>6, <2>7, <2>8
<1> QED
  BY <1>2, <1>3

\* Nothing is left: the whole was printed.
LEMMA ReturnKeeps == CallInv /\ Return => CallInv'
<1> SUFFICES ASSUME CallInv, Return PROVE CallInv'
  OBVIOUS
<1> DEFINE m == call.message
           k == IF m.how \in {"crash", "stub"} THEN "halt" ELSE "return"
           d == Over(call, k)
<1>1. call.pc = "letters" /\ call.left = << >> /\ call.rest = << >> /\ call' = d /\ Record(call) /\ m \in Messages
  BY DEF Return, Over, CallInv
<1>2. /\ Record(d) /\ d.pc = k /\ d.message = m /\ d.left = call.left
      /\ d.rest = call.rest /\ d.written = call.written /\ d.out = call.out
  <2> HIDE DEF d, k
  <2>1. d = Over(call, k)
    BY DEF d
  <2> QED
    BY <1>1, <2>1, OverIs
<1>3. CASE m.how \in Formatting
  <2>1. call.out \in Seq(Nat) /\ call.left \in Seq(Nat)
    BY <1>1, <1>3 DEF CallInv, Formatted
  <2>2. PICK ps \in Formats : Goes(call, ps)
    BY <1>1, <1>3 DEF CallInv, Formatted
  <2> DEFINE p == Prefix[m.how]
             x == Shown(m.pieces)
             o == call.out
  <2>3. p \in Seq(Nat) /\ x \in Seq(Nat) /\ IntMax \in Nat
    BY <1>1, <1>3, Message
  <2>4. Shown(ps) = << >>
    BY <1>1, <2>2, EmptyFormat DEF Goes
  <2>5. o = p \o x
    <3>1. o \o << >> = o
      BY <2>1, ConcatEmptySeq
    <3>2. (o \o << >>) \o << >> = Whole(m)
      BY <1>1, <2>2, <2>4 DEF Goes
    <3> QED
      BY <3>1, <3>2 DEF Whole
  <2>6. Len(o) = Len(p) + call.written /\ call.written \in Nat /\ call.written <= IntMax
    <3>1. Len(o) + Len(call.left) = Len(p) + call.written /\ call.written \in 0 .. IntMax
      BY <2>2 DEF Goes
    <3>2. Len(call.left) = 0 /\ Len(o) \in Nat
      BY <1>1, <2>1
    <3> HIDE DEF o, p
    <3> QED
      BY <2>3, <3>1, <3>2
  <2> HIDE DEF o, p, x
  <2>7. call.written = Len(x)
    <3>1. p \in Seq(Nat) /\ x \in Seq(Nat)
      BY <2>3
    <3>2. Len(p) \in Nat /\ Len(x) \in Nat /\ Len(p \o x) = Len(p) + Len(x)
      BY <3>1, ConcatProperties
    <3> QED
      BY <2>5, <2>6, <3>2
  <2>8. d.pc = "return"
    <3>1. m.how \notin {"crash", "stub"}
      BY <1>3 DEF Formatting
    <3> QED
      BY <1>2, <3>1
  <2> HIDE DEF d, k
  <2>9. Ended(d)
    BY <1>2, <2>5, <2>6, <2>7 DEF Ended, Whole, o, p, x
  <2>10. Formatted(d)
    BY <1>2, <2>1, <2>8, <2>9 DEF Formatted
  <2> QED
    BY <1>1, <1>2, <2>10 DEF CallInv
<1>4. CASE m.how \notin Formatting
  <2> HIDE DEF d, k
  <2> QED
    BY <1>1, <1>2, <1>4 DEF CallInv
<1> QED
  BY <1>3, <1>4

\* Every step of printing keeps the invariant.
LEMMA CallNext == CallInv /\ [PrintNext]_printVars => CallInv'
<1> SUFFICES ASSUME CallInv, [PrintNext]_printVars PROVE CallInv'
  OBVIOUS
<1>1. CASE UNCHANGED call
  BY <1>1 DEF CallInv, Formatted, Goes, Ended, Record, Whole
<1>2. ASSUME NEW m \in Messages, FwDebugPrint(m) PROVE CallInv'
  BY <1>2, StartKeeps DEF FwDebugPrint
<1>3. ASSUME NEW m \in Messages, FwIOPrintLine(m) PROVE CallInv'
  <2>1. m.how \notin Formatting
    BY <1>3 DEF FwIOPrintLine, Formatting, Lines
  <2> QED
    BY <1>3, <2>1, StartKeeps DEF FwIOPrintLine
<1>4. ASSUME NEW m \in Messages, FwIOPrint(m) PROVE CallInv'
  <2>1. m.how \notin Formatting
    BY <1>4 DEF FwIOPrint, Formatting
  <2> QED
    BY <1>4, <2>1, StartKeeps DEF FwIOPrint
<1>5. ASSUME NEW m \in Messages, FwIOPrintNumerical(m) PROVE CallInv'
  <2>1. m.how \notin Formatting
    BY <1>5 DEF FwIOPrintNumerical, Formatting
  <2> QED
    BY <1>5, <2>1, StartKeeps DEF FwIOPrintNumerical
<1>6. CASE Letter
  BY <1>6, LetterKeeps
<1>7. CASE Text \/ Conversion \/ Unknown
  BY <1>7, ParsingKeeps
<1>8. CASE Return
  BY <1>8, ReturnKeeps
<1>9. CASE Leave
  BY <1>9 DEF Leave, Idle, CallInv
<1>10. CASE UNCHANGED printVars
  BY <1>1, <1>10 DEF printVars
<1> QED
  BY <1>1, <1>2, <1>3, <1>4, <1>5, <1>6, <1>7, <1>8, <1>9, <1>10 DEF PrintNext, Printing

\* FwDebugPrint and FwIoPrint print what format and arguments mean, of any
\* length and with any arguments but a negative one of %x, and answer how long
\* it was, or -1 if an int cannot say so.
THEOREM PrintsAsAsked == PrintSpec => []PrintedAsAsked
<1>1. CallInv => PrintedAsAsked
  <2> SUFFICES ASSUME CallInv, Returned(Formatting), ~Widened(call.message.pieces)
               PROVE  LET e == Expected(call.message.pieces)
                          w == Prefix[call.message.how] \o e
                      IN  IF Len(e) <= IntMax THEN call.out = w /\ call.written = Len(e)
                          ELSE IsPrefix(call.out, w) /\ call.written = -1
    BY DEF PrintedAsAsked
  <2>1. call.pc = "return" /\ call.pc # "idle" /\ call.message.how \in Formatting
    BY DEF Returned
  <2>2. Ended(call) /\ call.message \in Messages
    BY <2>1 DEF CallInv, Formatted
  <2>3. call.message.pieces \in Seq(Pieces)
    BY <2>1, <2>2, OutputAssumption DEF Formats
  <2>4. Shown(call.message.pieces) = Expected(call.message.pieces)
    BY <2>3, ShownAsExpected
  <2> QED
    BY <2>2, <2>4 DEF Ended, Whole
<1> QED
  BY <1>1, CallInit, CallNext, PTL DEF PrintSpec

-------------------------------------------------------------------------------
(* What digits denote. *)

\* The sums of the digits g up to each place, in a base.
Follows(f, g, base) == f[0] = 0 /\ \A n \in Nat : f[n + 1] = f[n] * base + g[n + 1]

Steps(f, g, base) == f \in [Nat -> Int] /\ Follows(f, g, base)

Agree(g, e, m) == \A n \in 1 .. m : g[n] = e[n]

\* Reading digits has a result.
LEMMA StepsExist ==
  ASSUME NEW g \in [Nat -> Int], NEW base \in Nat
  PROVE  \E f : Steps(f, g, base)
<1> DEFINE S == [p \in Nat \X Int |-> p[2] * base + g[p[1]]]
<1>1. S \in [Nat \X Int -> Int]
  <2>1. ASSUME NEW p \in Nat \X Int PROVE p[2] * base + g[p[1]] \in Int
    <3>1. p[1] \in Nat /\ p[2] \in Int
      OBVIOUS
    <3>2. g[p[1]] \in Int /\ p[2] * base \in Int
      BY <3>1
    <3> QED
      BY <3>2
  <2> QED
    BY <2>1
<1>2. PICK f : Rises(f, Int, 0, S)
  <2> HIDE DEF S
  <2>1. 0 \in Int
    OBVIOUS
  <2> QED
    BY <1>1, <2>1, Rising
<1>3. ASSUME NEW n \in Nat PROVE f[n + 1] = f[n] * base + g[n + 1]
  <2> DEFINE k == n + 1
  <2>1. k \in Nat \ {0} /\ k - 1 = n
    OBVIOUS
  <2> HIDE DEF k
  <2>2. f[k] = S[<<k, f[k - 1]>>]
    <3> HIDE DEF S
    <3> QED
      BY <1>2, <2>1 DEF Rises
  <2>3. f[n] \in Int
    BY <1>2 DEF Rises
  <2>4. f[k] = f[n] * base + g[k]
    BY <2>1, <2>2, <2>3
  <2> QED
    BY <2>4 DEF k
<1>4. f \in [Nat -> Int] /\ f[0] = 0
  BY <1>2 DEF Rises
<1>5. Steps(f, g, base)
  BY <1>3, <1>4 DEF Steps, Follows
<1> QED
  BY <1>5

\* They depend on the digits up to there only.
LEMMA StepsOnce ==
  ASSUME NEW base, NEW m \in Nat, NEW f, NEW h, NEW g, NEW e,
         Follows(f, g, base), Follows(h, e, base), Agree(g, e, m)
  PROVE  f[m] = h[m]
<1> USE DEF Follows, Agree
<1> DEFINE T == {n \in Nat : n <= m => f[n] = h[n]}
<1>1. 0 \in T
  OBVIOUS
<1>2. ASSUME NEW n \in Nat, n \in T PROVE n + 1 \in T
  <2> DEFINE k == n + 1
  <2>1. k \in Nat /\ (k <= m => k \in 1 .. m /\ n <= m)
    OBVIOUS
  <2>2. f[k] = f[n] * base + g[k] /\ h[k] = h[n] * base + e[k]
    OBVIOUS
  <2> HIDE DEF k
  <2>3. k <= m => f[k] = h[k]
    BY <1>2, <2>1, <2>2
  <2>4. k \in T
    BY <2>1, <2>3
  <2> QED
    BY <2>4 DEF k
<1>3. \A n \in Nat : n \in T
  <2> HIDE DEF T
  <2> QED
    BY <1>1, <1>2, NextNumber
<1> QED
  BY <1>3

DigitValue(c) == IF c < 58 THEN c - Zero ELSE IF c < 97 THEN c - 65 + 10 ELSE c - 97 + 10

\* The digits of a string, from the first on.
Digitwise(s) == [n \in Nat |-> IF n = 0 THEN 0 ELSE DigitValue(At(s, n))]
Decimals(s)  == [n \in Nat |-> IF n = 0 THEN 0 ELSE At(s, n) - Zero]

\* What each letter contributes.
LEMMA DigitwiseIs ==
  ASSUME NEW s \in Seq(Nat)
  PROVE  Digitwise(s) \in [Nat -> Int] /\ Decimals(s) \in [Nat -> Int]
<1>1. ASSUME NEW n \in Nat, n # 0 PROVE At(s, n) \in Nat
  <2>1. CASE n <= Len(s)
    <3>1. n \in 1 .. Len(s)
      BY <1>1, <2>1
    <3> QED
      BY <2>1, <3>1 DEF At
  <2>2. CASE ~(n <= Len(s))
    BY <2>2 DEF At
  <2> QED
    BY <2>1, <2>2
<1>2. \A c \in Nat : DigitValue(c) \in Int /\ c - Zero \in Int
  BY DEF DigitValue, Zero
<1> QED
  <2> DEFINE d == [n \in Nat |-> IF n = 0 THEN 0 ELSE DigitValue(At(s, n))]
             e == [n \in Nat |-> IF n = 0 THEN 0 ELSE At(s, n) - Zero]
  <2>1. d \in [Nat -> Int]
    BY <1>1, <1>2
  <2>2. e \in [Nat -> Int]
    BY <1>1, <1>2
  <2> QED
    BY <2>1, <2>2 DEF Digitwise, Decimals

\* Value reads digit by digit.
LEMMA ValueIs ==
  ASSUME NEW s \in Seq(Nat), NEW base \in Nat
  PROVE  \E f : Steps(f, Digitwise(s), base) /\ Value(s, base) = f[Len(s)]
<1> DEFINE g == Digitwise(s)
           Is(h) == h = [n \in Nat |-> IF n = 0 THEN 0 ELSE h[n - 1] * base + DigitValue(At(s, n))]
<1>1. PICK f : Steps(f, g, base)
  BY DigitwiseIs, StepsExist
<1>2. \A n \in Nat \ {0} : g[n] = DigitValue(At(s, n))
  BY DEF Digitwise
<1> HIDE DEF g
<1>3. ASSUME NEW n \in Nat \ {0} PROVE f[n] = f[n - 1] * base + DigitValue(At(s, n))
  <2> DEFINE k == n - 1
  <2>1. k \in Nat /\ k + 1 = n
    OBVIOUS
  <2> HIDE DEF k
  <2>2. f[k + 1] = f[k] * base + g[k + 1]
    BY <1>1, <2>1 DEF Steps, Follows
  <2>3. f[n] = f[k] * base + DigitValue(At(s, n))
    BY <1>2, <2>1, <2>2
  <2> QED
    BY <2>3 DEF k
<1>4. Is(f)
  <2>1. f = [n \in Nat |-> f[n]] /\ f[0] = 0
    BY <1>1 DEF Steps, Follows
  <2> QED
    BY <1>3, <2>1
<1>5. PICK h : Is(h) /\ Value(s, base) = h[Len(s)]
  <2>1. Value(s, base) = (CHOOSE h : Is(h))[Len(s)]
    BY DEF Value, DigitValue
  <2> HIDE DEF Is
  <2> QED
    BY <1>4, <2>1
<1>6. Follows(h, g, base)
  <2>1. ASSUME NEW n \in Nat PROVE h[n + 1] = h[n] * base + g[n + 1]
    <3> DEFINE k == n + 1
    <3>1. k \in Nat \ {0} /\ k - 1 = n
      OBVIOUS
    <3> HIDE DEF k
    <3>2. h[k] = h[k - 1] * base + DigitValue(At(s, k))
      BY <1>5, <3>1
    <3>3. h[k] = h[n] * base + g[k]
      BY <1>2, <3>1, <3>2
    <3> QED
      BY <3>3 DEF k
  <2>2. h[0] = 0
    BY <1>5
  <2> QED
    BY <2>1, <2>2 DEF Follows
<1>7. f[Len(s)] = h[Len(s)]
  <2> DEFINE m == Len(s)
  <2>1. m \in Nat /\ Agree(g, g, m) /\ Follows(f, g, base)
    BY <1>1 DEF Agree, Steps
  <2> HIDE DEF Is, m
  <2>2. f[m] = h[m]
    BY <1>6, <2>1, StepsOnce
  <2> QED
    BY <2>2 DEF m
<1> QED
  BY <1>1, <1>5, <1>7 DEF g

\* atoi reads digit by digit.
LEMMA AtoiIs ==
  ASSUME NEW s \in Seq(Nat)
  PROVE  \E f : Steps(f, Decimals(s), 10) /\ atoi(s) = f[Len(s)]
<1> DEFINE g == Decimals(s)
           Is(h) == h = [n \in Nat |-> IF n = 0 THEN 0 ELSE h[n - 1] * 10 + At(s, n) - Zero]
<1>1. PICK f : Steps(f, g, 10)
  <2>1. 10 \in Nat
    OBVIOUS
  <2> QED
    BY <2>1, DigitwiseIs, StepsExist
<1>2. \A n \in Nat \ {0} : g[n] = At(s, n) - Zero /\ At(s, n) \in Nat
  <2>1. ASSUME NEW n \in Nat \ {0} PROVE At(s, n) \in Nat
    <3>1. CASE n <= Len(s)
      <4>1. n \in 1 .. Len(s)
        BY <3>1
      <4> QED
        BY <3>1, <4>1 DEF At
    <3>2. CASE ~(n <= Len(s))
      BY <3>2 DEF At
    <3> QED
      BY <3>1, <3>2
  <2> QED
    BY <2>1 DEF Decimals
<1>s. ASSUME NEW n \in Nat \ {0}, NEW x \in Int
      PROVE  x * 10 + At(s, n) - Zero = x * 10 + g[n]
  BY <1>2 DEF Zero
<1> HIDE DEF g
<1>3. ASSUME NEW n \in Nat \ {0} PROVE f[n] = f[n - 1] * 10 + At(s, n) - Zero
  <2> DEFINE k == n - 1
  <2>1. k \in Nat /\ k + 1 = n
    OBVIOUS
  <2> HIDE DEF k
  <2>2. f[k + 1] = f[k] * 10 + g[k + 1] /\ f[k] \in Int
    BY <1>1, <2>1 DEF Steps, Follows
  <2>3. f[n] = f[k] * 10 + g[n]
    BY <2>1, <2>2
  <2>4. f[n] = f[k] * 10 + At(s, n) - Zero
    BY <1>s, <2>2, <2>3
  <2> QED
    BY <2>4 DEF k
<1>4. Is(f)
  <2>1. f = [n \in Nat |-> f[n]] /\ f[0] = 0
    BY <1>1 DEF Steps, Follows
  <2> QED
    BY <1>3, <2>1
<1>5. PICK h : Is(h) /\ atoi(s) = h[Len(s)]
  <2>1. atoi(s) = (CHOOSE h : Is(h))[Len(s)]
    BY DEF atoi
  <2> HIDE DEF Is
  <2> QED
    BY <1>4, <2>1
<1>6. ASSUME NEW n \in Nat PROVE h[n] = f[n]
  <2> DEFINE T == {k \in Nat : h[k] = f[k]}
  <2>1. 0 \in T
    BY <1>1, <1>5 DEF Steps, Follows
  <2>2. ASSUME NEW k \in Nat, k \in T PROVE k + 1 \in T
    <3> DEFINE j == k + 1
    <3>1. j \in Nat \ {0} /\ j - 1 = k
      OBVIOUS
    <3> HIDE DEF j
    <3>2. h[j] = h[j - 1] * 10 + At(s, j) - Zero
      BY <1>5, <3>1
    <3>3. f[j] = f[j - 1] * 10 + At(s, j) - Zero
      BY <1>3, <3>1
    <3>4. h[k] = f[k]
      BY <2>2
    <3>5. h[j] = f[j]
      BY <3>1, <3>2, <3>3, <3>4
    <3> QED
      BY <3>1, <3>5 DEF j
  <2>3. \A k \in Nat : k \in T
    <3> HIDE DEF T
    <3> QED
      BY <2>1, <2>2, NextNumber
  <2> QED
    BY <2>3
<1>7. atoi(s) = f[Len(s)]
  <2>1. Len(s) \in Nat
    OBVIOUS
  <2> QED
    BY <1>5, <1>6, <2>1
<1> QED
  BY <1>1, <1>7 DEF g

\* One more letter.
LEMMA AppendAgrees ==
  ASSUME NEW s \in Seq(Nat), NEW c \in Nat
  PROVE  LET t == Append(s, c)
         IN  /\ t \in Seq(Nat) /\ Len(t) = Len(s) + 1 /\ Len(s) \in Nat
             /\ Agree(Digitwise(s), Digitwise(t), Len(s)) /\ Agree(Decimals(s), Decimals(t), Len(s))
             /\ Digitwise(t)[Len(s) + 1] = DigitValue(c) /\ Decimals(t)[Len(s) + 1] = c - Zero
<1> DEFINE t == Append(s, c)
           m == Len(s)
           k == m + 1
<1>1. /\ t \in Seq(Nat) /\ Len(t) = k /\ m \in Nat /\ k \in Nat \ {0}
      /\ (\A n \in 1 .. m : t[n] = s[n]) /\ t[k] = c
  BY AppendProperties
<1> HIDE DEF t, k
<1>2. ASSUME NEW n \in 1 .. m PROVE At(t, n) = At(s, n) /\ n \in Nat \ {0}
  <2>1. n <= Len(t) /\ n <= Len(s)
    BY <1>1 DEF k
  <2> QED
    BY <1>1, <2>1 DEF At
<1>3. At(t, k) = c
  BY <1>1 DEF At
<1>4. Agree(Digitwise(s), Digitwise(t), m) /\ Agree(Decimals(s), Decimals(t), m)
  BY <1>2 DEF Agree, Digitwise, Decimals
<1>5. Digitwise(t)[k] = DigitValue(c) /\ Decimals(t)[k] = c - Zero
  BY <1>1, <1>3 DEF Digitwise, Decimals
<1> QED
  BY <1>1, <1>4, <1>5 DEF t, k

\* One digit more multiplies by the radix.
LEMMA ValueNext ==
  ASSUME NEW s \in Seq(Nat), NEW c \in Nat, NEW base \in Nat
  PROVE  Value(Append(s, c), base) = Value(s, base) * base + DigitValue(c)
<1> DEFINE t == Append(s, c)
           m == Len(s)
<1>1. /\ t \in Seq(Nat) /\ Len(t) = m + 1 /\ m \in Nat
      /\ Agree(Digitwise(s), Digitwise(t), m) /\ Digitwise(t)[m + 1] = DigitValue(c)
  BY AppendAgrees
<1> HIDE DEF t
<1>2. PICK f : Steps(f, Digitwise(s), base) /\ Value(s, base) = f[m]
  BY ValueIs
<1>3. PICK h : Steps(h, Digitwise(t), base) /\ Value(t, base) = h[m + 1]
  BY <1>1, ValueIs
<1>4. f[m] = h[m]
  <2>1. Follows(f, Digitwise(s), base) /\ Follows(h, Digitwise(t), base)
    BY <1>2, <1>3 DEF Steps
  <2> HIDE DEF m
  <2> QED
    BY <1>1, <2>1, StepsOnce
<1>5. h[m + 1] = h[m] * base + Digitwise(t)[m + 1]
  <2> HIDE DEF m
  <2> QED
    BY <1>1, <1>3 DEF Steps, Follows
<1> QED
  BY <1>1, <1>2, <1>3, <1>4, <1>5 DEF t

\* One digit more multiplies by ten.
LEMMA AtoiNext ==
  ASSUME NEW s \in Seq(Nat), NEW c \in Nat
  PROVE  atoi(Append(s, c)) = atoi(s) * 10 + (c - Zero)
<1> DEFINE t == Append(s, c)
           m == Len(s)
<1>1. /\ t \in Seq(Nat) /\ Len(t) = m + 1 /\ m \in Nat
      /\ Agree(Decimals(s), Decimals(t), m) /\ Decimals(t)[m + 1] = c - Zero
  BY AppendAgrees
<1> HIDE DEF t
<1>2. PICK f : Steps(f, Decimals(s), 10) /\ atoi(s) = f[m]
  BY AtoiIs
<1>3. PICK h : Steps(h, Decimals(t), 10) /\ atoi(t) = h[m + 1]
  BY <1>1, AtoiIs
<1>4. f[m] = h[m]
  <2>1. Follows(f, Decimals(s), 10) /\ Follows(h, Decimals(t), 10)
    BY <1>2, <1>3 DEF Steps
  <2> HIDE DEF m
  <2> QED
    BY <1>1, <2>1, StepsOnce
<1>5. h[m + 1] = h[m] * 10 + Decimals(t)[m + 1]
  <2> HIDE DEF m
  <2> QED
    BY <1>1, <1>3 DEF Steps, Follows
<1> QED
  BY <1>1, <1>2, <1>3, <1>4, <1>5 DEF t

\* No digits denote 0.
LEMMA NoDigits ==
  /\ \A base \in Nat : Value(<< >>, base) = 0
  /\ atoi(<< >>) = 0
<1>1. << >> \in Seq(Nat) /\ Len(<< >>) = 0
  OBVIOUS
<1>2. ASSUME NEW base \in Nat PROVE Value(<< >>, base) = 0
  <2>1. PICK f : Steps(f, Digitwise(<< >>), base) /\ Value(<< >>, base) = f[Len(<< >>)]
    BY <1>1, ValueIs
  <2> QED
    BY <1>1, <2>1 DEF Steps, Follows
<1>3. PICK f : Steps(f, Decimals(<< >>), 10) /\ atoi(<< >>) = f[Len(<< >>)]
  BY <1>1, AtoiIs
<1> QED
  BY <1>1, <1>2, <1>3 DEF Steps, Follows

\* The letters of a digit denote it.
LEMMA DigitLetters ==
  /\ \A d \in 0 .. 35 : Smalls[d] \in Nat /\ DigitValue(Smalls[d]) = d
  /\ \A d \in 0 .. 35 : Larges[d] \in Nat /\ DigitValue(Larges[d]) = d
  /\ \A d \in 0 .. 9 : Smalls[d] - Zero = d
BY DEF Smalls, Larges, Small, Large, DigitValue, Zero

\* The digits of a number denote it.
LEMMA Denotes ==
  ASSUME NEW base \in 2 .. 36, NEW letter \in Letters36,
         \A d \in 0 .. 35 : letter[d] \in Nat /\ DigitValue(letter[d]) = d
  PROVE  \A n \in Nat : Value(Digits(n, base, letter), base) = n
<1> DEFINE f == Numeral(base, letter)
           T == {n \in Nat : Value(f[n], base) = n}
<1>1. /\ f \in [Nat -> Seq(Nat)]
      /\ \A n \in Nat : f[n] = IF n < base THEN <<letter[n]>> ELSE f[n \div base] \o <<letter[n % base]>>
  BY NumeralIs
<1>2. \A n \in Nat : Digits(n, base, letter) = f[n]
  BY DigitsAre
<1> HIDE DEF f
<1>3. ASSUME NEW n \in Nat, \A k \in 0 .. n - 1 : k \in T PROVE n \in T
  <2>1. CASE n < base
    <3>1. n \in 0 .. 35
      BY <2>1
    <3> DEFINE c == letter[n]
    <3>2. c \in Nat /\ DigitValue(c) = n
      BY <3>1
    <3>3. f[n] = <<c>>
      BY <1>1, <2>1
    <3> HIDE DEF c
    <3>4. << >> \in Seq(Nat) /\ <<c>> = Append(<< >>, c) /\ base \in Nat
      BY <3>2
    <3>5. Value(Append(<< >>, c), base) = Value(<< >>, base) * base + DigitValue(c)
      BY <3>2, <3>4, ValueNext
    <3>6. Value(<< >>, base) = 0
      BY <3>4, NoDigits
    <3>7. Value(<<c>>, base) = 0 * base + n
      BY <3>2, <3>4, <3>5, <3>6
    <3> QED
      BY <3>3, <3>4, <3>7
  <2>2. CASE ~(n < base)
    <3> DEFINE q == n \div base
               c == letter[n % base]
    <3>1. q \in Nat /\ n % base \in 0 .. 35 /\ q < n /\ n = base * q + (n % base)
      <4>1. n # 0
        BY <2>2
      <4> QED
        BY <4>1, Dividing
    <3>2. c \in Nat /\ DigitValue(c) = n % base
      BY <3>1
    <3>3. f[n] = f[q] \o <<c>> /\ f[q] \in Seq(Nat)
      BY <1>1, <2>2, <3>1
    <3>4. Value(f[q], base) = q
      <4>1. q \in 0 .. n - 1
        BY <3>1
      <4>2. q \in T
        BY <1>3, <4>1
      <4> QED
        BY <4>2
    <3> HIDE DEF c, q
    <3> DEFINE x == f[q]
    <3>5. x \in Seq(Nat) /\ f[n] = x \o <<c>> /\ Value(x, base) = q
      BY <3>3, <3>4
    <3> HIDE DEF x
    <3>6. Append(x, c) = x \o <<c>>
      BY <3>2, <3>5, AppendIsConcat
    <3>7. Value(Append(x, c), base) = Value(x, base) * base + DigitValue(c)
      <4>1. base \in Nat
        OBVIOUS
      <4> QED
        BY <3>2, <3>5, <4>1, ValueNext
    <3>8. q * base = base * q
      BY <3>1
    <3>9. Value(f[n], base) = n
      BY <3>1, <3>2, <3>5, <3>6, <3>7, <3>8
    <3> QED
      BY <3>9
  <2> QED
    BY <2>1, <2>2
<1>4. \A n \in Nat : n \in T
  <2> HIDE DEF T
  <2> QED
    BY <1>3, AllNumbers
<1> QED
  BY <1>2, <1>4

\* atoi reads the decimal digits of itoa back.
LEMMA ReadsBack ==
  \A n \in Nat : atoi(Digits(n, 10, Smalls)) = n
<1> DEFINE f == Numeral(10, Smalls)
           T == {n \in Nat : atoi(f[n]) = n}
<1>0. 10 \in 2 .. 36
  OBVIOUS
<1>1. /\ f \in [Nat -> Seq(Nat)]
      /\ \A n \in Nat : f[n] = IF n < 10 THEN <<Smalls[n]>> ELSE f[n \div 10] \o <<Smalls[n % 10]>>
  BY <1>0, LettersAre, NumeralIs
<1>2. \A n \in Nat : Digits(n, 10, Smalls) = f[n]
  BY <1>0, LettersAre, DigitsAre
<1> HIDE DEF f
<1>d. \A d \in 0 .. 9 : Smalls[d] \in Nat /\ Smalls[d] - Zero = d
  BY DigitLetters
<1>3. ASSUME NEW n \in Nat, \A k \in 0 .. n - 1 : k \in T PROVE n \in T
  <2>1. CASE n < 10
    <3>1. n \in 0 .. 9
      BY <2>1
    <3> DEFINE c == Smalls[n]
    <3>2. c \in Nat /\ c - Zero = n
      BY <1>d, <3>1
    <3>3. f[n] = <<c>>
      BY <1>1, <2>1
    <3> HIDE DEF c
    <3>4. << >> \in Seq(Nat) /\ <<c>> = Append(<< >>, c)
      BY <3>2
    <3>5. atoi(Append(<< >>, c)) = atoi(<< >>) * 10 + (c - Zero)
      BY <3>2, <3>4, AtoiNext
    <3>7. atoi(<<c>>) = n
      BY <3>2, <3>4, <3>5, NoDigits
    <3> QED
      BY <3>3, <3>7
  <2>2. CASE ~(n < 10)
    <3> DEFINE q == n \div 10
               c == Smalls[n % 10]
    <3>1. q \in Nat /\ n % 10 \in 0 .. 9 /\ q < n /\ n = 10 * q + (n % 10)
      BY <2>2
    <3>2. c \in Nat /\ c - Zero = n % 10
      BY <1>d, <3>1
    <3>3. f[n] = f[q] \o <<c>> /\ f[q] \in Seq(Nat)
      BY <1>1, <2>2, <3>1
    <3>4. atoi(f[q]) = q
      <4>1. q \in 0 .. n - 1
        BY <3>1
      <4>2. q \in T
        BY <1>3, <4>1
      <4> QED
        BY <4>2
    <3> HIDE DEF c, q
    <3> DEFINE x == f[q]
    <3>5. x \in Seq(Nat) /\ f[n] = x \o <<c>> /\ atoi(x) = q
      BY <3>3, <3>4
    <3> HIDE DEF x
    <3>6. Append(x, c) = x \o <<c>>
      BY <3>2, <3>5, AppendIsConcat
    <3>7. atoi(Append(x, c)) = atoi(x) * 10 + (c - Zero)
      BY <3>2, <3>5, AtoiNext
    <3>8. atoi(f[n]) = q * 10 + (c - Zero)
      BY <3>5, <3>6, <3>7
    <3>9. atoi(f[n]) = n
      <4> DEFINE r == n % 10
                 e == c - Zero
      <4>1. r \in 0 .. 9 /\ n = 10 * q + r /\ e = r
        BY <3>1, <3>2
      <4>2. atoi(f[n]) = q * 10 + e
        BY <3>8
      <4> HIDE DEF r, e
      <4>3. q * 10 + e = n
        BY <3>1, <4>1
      <4> QED
        BY <4>2, <4>3
    <3> QED
      BY <3>9
  <2> QED
    BY <2>1, <2>2
<1>4. \A n \in Nat : n \in T
  <2> HIDE DEF T
  <2> QED
    BY <1>3, AllNumbers
<1> QED
  BY <1>2, <1>4

\* What itoa, ultoa and ltoa have written can be read back.
LEMMA Reading ==
  ASSUME NEW v \in Word64s
  PROVE  /\ v < 0 => /\ Head(itoa(v, 10)) = Minus /\ Value(Tail(itoa(v, 10)), 10) = -v
                     /\ Value(Tail(ltoa(v, 10).buffer), 10) = -v
         /\ v >= 0 => atoi(itoa(v, 10)) = v
         /\ \A base \in 2 .. 36 : v >= 0 => Value(itoa(v, base), base) = v
         /\ \A base \in 4 .. 36 : Value(ultoa(v % Modulus, base), base) = v % Modulus
<1>1. /\ v \in Int /\ v % Modulus \in 0 .. Modulus - 1
      /\ itoa(v, 10) = (IF v < 0 THEN <<Minus>> \o Digits(-v, 10, Smalls) ELSE Digits(v, 10, Smalls))
  BY WordDigits
<1>2. \A base \in 2 .. 36 : \A n \in Nat :
         Value(Digits(n, base, Smalls), base) = n /\ Value(Digits(n, base, Larges), base) = n
  BY LettersAre, DigitLetters, Denotes
<1>3. 10 \in 2 .. 36 /\ 10 \in 4 .. 36 /\ 4 .. 36 \subseteq 2 .. 36
  OBVIOUS
<1>4. ASSUME v < 0
      PROVE  /\ Head(itoa(v, 10)) = Minus /\ Value(Tail(itoa(v, 10)), 10) = -v
             /\ Value(Tail(ltoa(v, 10).buffer), 10) = -v
  <2> DEFINE w == -v
             s == Digits(w, 10, Smalls)
             u == ultoa(w, 10)
  <2>1. w \in Nat /\ w \in 0 .. Modulus - 1
    BY <1>1, <1>4, Widths DEF Word64s
  <2>2. s \in Seq(Nat)
    <3> HIDE DEF w
    <3>1. s = Numeral(10, Smalls)[w]
      BY <1>3, <2>1, LettersAre, DigitsAre
    <3>2. Numeral(10, Smalls) \in [Nat -> Seq(Nat)]
      BY <1>3, LettersAre, NumeralIs
    <3> QED
      BY <2>1, <3>1, <3>2
  <2>3. u = Digits(w, 10, Larges) /\ u \in Seq(Nat)
    BY <1>3, <2>1, Ultoa
  <2>4. itoa(v, 10) = <<Minus>> \o s /\ ltoa(v, 10).buffer = <<Minus>> \o u
    BY <1>1, <1>4 DEF ltoa
  <2>5. Minus \in Nat
    BY DEF Minus
  <2>6. Value(s, 10) = w /\ Value(u, 10) = w
    BY <1>2, <1>3, <2>1, <2>3
  <2> HIDE DEF s, u, w
  <2>7. Head(<<Minus>> \o s) = Minus /\ Tail(<<Minus>> \o s) = s /\ Tail(<<Minus>> \o u) = u
    BY <2>2, <2>3, <2>5, ConsIs
  <2> QED
    BY <2>4, <2>6, <2>7 DEF w
<1>5. ASSUME v >= 0
      PROVE  atoi(itoa(v, 10)) = v /\ \A base \in 2 .. 36 : Value(itoa(v, base), base) = v
  <2>1. v \in Nat /\ ~(v < 0)
    BY <1>1, <1>5
  <2>2. \A base \in 2 .. 36 : itoa(v, base) = Digits(v, base, Smalls)
    BY <2>1, Itoa
  <2> QED
    BY <1>2, <1>3, <2>1, <2>2, ReadsBack
<1>6. ASSUME NEW base \in 4 .. 36
      PROVE  Value(ultoa(v % Modulus, base), base) = v % Modulus
  <2> DEFINE n == v % Modulus
  <2>1. n \in 0 .. Modulus - 1 /\ n \in Nat
    BY <1>1, Widths
  <2> HIDE DEF n
  <2>2. ultoa(n, base) = Digits(n, base, Larges)
    BY <2>1, Ultoa
  <2>3. Value(Digits(n, base, Larges), base) = n
    BY <1>2, <1>3, <2>1
  <2> QED
    BY <2>2, <2>3 DEF n
<1> QED
  BY <1>4, <1>5, <1>6

\* The numerals of itoa, ultoa and ltoa denote the values they were made of,
\* for every word and radix, and atoi reads back what itoa wrote.
THEOREM NumeralsReadBack == PrintSpec => []NumbersReadBack
<1>1. CallInv => NumbersReadBack
  <2> SUFFICES ASSUME CallInv, Begun,
                      NEW k \in DOMAIN call.message.pieces, call.message.pieces[k].kind \in {"i", "x"},
                      NEW v, v = call.message.pieces[k].value
               PROVE  /\ v < 0 => /\ Head(itoa(v, 10)) = Minus /\ Value(Tail(itoa(v, 10)), 10) = -v
                                  /\ Value(Tail(ltoa(v, 10).buffer), 10) = -v
                      /\ v >= 0 => atoi(itoa(v, 10)) = v
                      /\ \A base \in 2 .. 36 : v >= 0 => Value(itoa(v, base), base) = v
                      /\ \A base \in 4 .. 36 : Value(ultoa(v % Modulus, base), base) = v % Modulus
    BY DEF NumbersReadBack
  <2>1. call.message \in Messages
    BY DEF Begun, CallInv
  <2>2. v \in Word64s
    BY <2>1, OutputAssumption
  <2> QED
    BY <2>2, Reading
<1> QED
  BY <1>1, CallInit, CallNext, PTL DEF PrintSpec

-------------------------------------------------------------------------------
(* Memory. *)

\* What q has to do with m if k cells were copied.
Moved(q, m, dest, src, k) ==
  /\ DOMAIN q = DOMAIN m /\ q = [a \in DOMAIN q |-> q[a]]
  /\ \A a \in DOMAIN m : q[a] = IF a \in dest .. dest + k - 1 THEN m[src + (a - dest)] ELSE m[a]

\* Memory after a copy, address by address.
LEMMA MoveIs ==
  ASSUME NEW m, NEW dest, NEW src, NEW k
  PROVE  Moved(Move(m, dest, src, k), m, dest, src, k)
BY DEF Move, Moved

\* Copying nothing changes nothing.
LEMMA MoveNothing ==
  ASSUME NEW m, NEW dest \in Int, NEW src \in Int, m = [a \in DOMAIN m |-> m[a]]
  PROVE  Move(m, dest, src, 0) = m
<1>1. \A a : a \notin dest .. dest + 0 - 1
  OBVIOUS
<1>2. Move(m, dest, src, 0) = [a \in DOMAIN m |-> m[a]]
  BY <1>1 DEF Move
<1> QED
  BY <1>2

\* Copying j cells and then the k behind them copies j + k, unless what is
\* read then was written before.
LEMMA MoveOn ==
  ASSUME NEW size \in Nat, NEW m, DOMAIN m = 0 .. size - 1,
         NEW dest \in Nat, NEW src \in Nat, NEW j \in Nat, NEW k \in Nat,
         dest + j + k <= size, src + j + k <= size,
         dest <= src \/ src + j + k <= dest
  PROVE  Move(Move(m, dest, src, j), dest + j, src + j, k) = Move(m, dest, src, j + k)
<1> DEFINE p == Move(m, dest, src, j)
           q == Move(p, dest + j, src + j, k)
           r == Move(m, dest, src, j + k)
<1>1. /\ DOMAIN p = 0 .. size - 1
      /\ \A a \in 0 .. size - 1 : p[a] = IF a \in dest .. dest + j - 1 THEN m[src + (a - dest)] ELSE m[a]
  <2>1. Moved(p, m, dest, src, j)
    BY MoveIs, Zenon
  <2> HIDE DEF p
  <2> QED
    BY <2>1 DEF Moved
<1> HIDE DEF p
<1>2. /\ DOMAIN q = 0 .. size - 1 /\ q = [a \in DOMAIN q |-> q[a]]
      /\ \A a \in 0 .. size - 1 : q[a] =
           IF a \in dest + j .. dest + j + k - 1 THEN p[src + j + (a - (dest + j))] ELSE p[a]
  <2>1. Moved(q, p, dest + j, src + j, k)
    BY MoveIs, Zenon
  <2> HIDE DEF q
  <2> QED
    BY <1>1, <2>1 DEF Moved
<1>3. /\ DOMAIN r = 0 .. size - 1 /\ r = [a \in DOMAIN r |-> r[a]]
      /\ \A a \in 0 .. size - 1 : r[a] = IF a \in dest .. dest + (j + k) - 1 THEN m[src + (a - dest)] ELSE m[a]
  <2>1. Moved(r, m, dest, src, j + k)
    BY MoveIs, Zenon
  <2> HIDE DEF r
  <2> QED
    BY <2>1 DEF Moved
<1> HIDE DEF q, r
<1>4. ASSUME NEW a \in 0 .. size - 1 PROVE q[a] = r[a]
  <2>1. CASE a \in dest + j .. dest + j + k - 1
    <3> DEFINE b == src + (a - dest)
    <3>1. src + j + (a - (dest + j)) = b /\ b \in 0 .. size - 1 /\ b \notin dest .. dest + j - 1
      BY <2>1
    <3>2. a \in dest .. dest + (j + k) - 1
      BY <2>1
    <3> HIDE DEF b
    <3>3. q[a] = p[b]
      BY <1>2, <2>1, <3>1
    <3>4. p[b] = m[b]
      BY <1>1, <3>1
    <3>5. r[a] = m[b]
      BY <1>3, <3>2 DEF b
    <3> QED
      BY <3>3, <3>4, <3>5
  <2>2. CASE a \notin dest + j .. dest + j + k - 1
    <3>1. a \in dest .. dest + (j + k) - 1 <=> a \in dest .. dest + j - 1
      BY <2>2
    <3> QED
      BY <1>1, <1>2, <1>3, <2>2, <3>1
  <2> QED
    BY <2>1, <2>2
<1>5. q = r
  BY <1>2, <1>3, <1>4
<1> QED
  BY <1>5 DEF p, q, r

\* The same from the end, one cell at a time.
LEMMA MoveBack ==
  ASSUME NEW size \in Nat, NEW m, DOMAIN m = 0 .. size - 1,
         NEW dest \in Nat, NEW src \in Nat, NEW k \in Nat,
         dest + k + 1 <= size, src + k + 1 <= size, src <= dest
  PROVE  Move(Move(m, dest + 1, src + 1, k), dest, src, 1) = Move(m, dest, src, k + 1)
<1> DEFINE p == Move(m, dest + 1, src + 1, k)
           q == Move(p, dest, src, 1)
           r == Move(m, dest, src, k + 1)
<1>1. /\ DOMAIN p = 0 .. size - 1
      /\ \A a \in 0 .. size - 1 : p[a] = IF a \in dest + 1 .. dest + 1 + k - 1 THEN m[src + 1 + (a - (dest + 1))] ELSE m[a]
  <2>1. Moved(p, m, dest + 1, src + 1, k)
    BY MoveIs, Zenon
  <2> HIDE DEF p
  <2> QED
    BY <2>1 DEF Moved
<1> HIDE DEF p
<1>2. /\ DOMAIN q = 0 .. size - 1 /\ q = [a \in DOMAIN q |-> q[a]]
      /\ \A a \in 0 .. size - 1 : q[a] = IF a \in dest .. dest + 1 - 1 THEN p[src + (a - dest)] ELSE p[a]
  <2>1. Moved(q, p, dest, src, 1)
    BY MoveIs, Zenon
  <2> HIDE DEF q
  <2> QED
    BY <1>1, <2>1 DEF Moved
<1>3. /\ DOMAIN r = 0 .. size - 1 /\ r = [a \in DOMAIN r |-> r[a]]
      /\ \A a \in 0 .. size - 1 : r[a] = IF a \in dest .. dest + (k + 1) - 1 THEN m[src + (a - dest)] ELSE m[a]
  <2>1. Moved(r, m, dest, src, k + 1)
    BY MoveIs, Zenon
  <2> HIDE DEF r
  <2> QED
    BY <2>1 DEF Moved
<1> HIDE DEF q, r
<1>4. ASSUME NEW a \in 0 .. size - 1 PROVE q[a] = r[a]
  <2>1. CASE a = dest
    <3>1. a \in dest .. dest + 1 - 1 /\ src + (a - dest) = src /\ src \in 0 .. size - 1
          /\ src \notin dest + 1 .. dest + 1 + k - 1 /\ a \in dest .. dest + (k + 1) - 1
      BY <2>1
    <3>2. q[a] = p[src] /\ p[src] = m[src] /\ r[a] = m[src]
      BY <1>1, <1>2, <1>3, <3>1
    <3> QED
      BY <3>2
  <2>2. CASE a # dest
    <3>1. /\ a \notin dest .. dest + 1 - 1
          /\ a \in dest .. dest + (k + 1) - 1 <=> a \in dest + 1 .. dest + 1 + k - 1
          /\ src + 1 + (a - (dest + 1)) = src + (a - dest)
      BY <2>2
    <3> QED
      BY <1>1, <1>2, <1>3, <3>1
  <2> QED
    BY <2>1, <2>2
<1>5. q = r
  BY <1>2, <1>3, <1>4
<1> QED
  BY <1>5 DEF p, q, r

\* Copies one after the other: where each comes from and goes to.
Chain(h, m, to, from, k, n) ==
  h[0] = m /\ \A i \in 1 .. n : h[i] = Move(h[i - 1], to[i], from[i], k)

\* A chain of copies has one result.
LEMMA ChainOnce ==
  ASSUME NEW m, NEW to, NEW from, NEW k, NEW n \in Nat, NEW f, NEW h,
         Chain(f, m, to, from, k, n), Chain(h, m, to, from, k, n)
  PROVE  f[n] = h[n]
<1> DEFINE T == {i \in Nat : i <= n => f[i] = h[i]}
<1>1. 0 \in T
  BY DEF Chain
<1>2. ASSUME NEW i \in Nat, i \in T PROVE i + 1 \in T
  <2> DEFINE j == i + 1
  <2>1. j \in Nat /\ j - 1 = i /\ (j <= n => j \in 1 .. n /\ i <= n)
    OBVIOUS
  <2> HIDE DEF j
  <2>2. j <= n => f[j] = Move(f[j - 1], to[j], from[j], k) /\ h[j] = Move(h[j - 1], to[j], from[j], k)
    BY <2>1 DEF Chain
  <2>3. j <= n => f[i] = h[i]
    BY <1>2, <2>1
  <2>4. j <= n => f[j] = h[j]
    BY <2>1, <2>2, <2>3
  <2> QED
    BY <2>1, <2>4 DEF j
<1>3. \A i \in Nat : i \in T
  <2> HIDE DEF T
  <2> QED
    BY <1>1, <1>2, NextNumber
<1> QED
  BY <1>3

Memory(m, size) == DOMAIN m = 0 .. size - 1 /\ m = [a \in DOMAIN m |-> m[a]]

\* Where MoveOn and MoveBack apply, with names for the places.
Upward(size, m, dest, src, j, k, d, s, t) ==
  /\ Memory(m, size) /\ size \in Nat /\ dest \in Nat /\ src \in Nat /\ j \in Nat /\ k \in Nat
  /\ d = dest + j /\ s = src + j /\ t = j + k
  /\ dest + t <= size /\ src + t <= size /\ (dest <= src \/ src + t <= dest)

Backward(size, m, dest, src, k, d, s, t) ==
  /\ Memory(m, size) /\ size \in Nat /\ dest \in Nat /\ src \in Nat /\ k \in Nat
  /\ d = dest + 1 /\ s = src + 1 /\ t = k + 1
  /\ dest + t <= size /\ src + t <= size /\ src <= dest

\* Copying upwards in steps copies the whole.
LEMMA MoveUp ==
  ASSUME NEW size, NEW m, NEW dest, NEW src, NEW j, NEW k, NEW d, NEW s, NEW t,
         Upward(size, m, dest, src, j, k, d, s, t)
  PROVE  Move(Move(m, dest, src, j), d, s, k) = Move(m, dest, src, t)
<1>1. /\ size \in Nat /\ dest \in Nat /\ src \in Nat /\ j \in Nat /\ k \in Nat
      /\ DOMAIN m = 0 .. size - 1 /\ d = dest + j /\ s = src + j /\ t = j + k
      /\ dest + t <= size /\ src + t <= size /\ (dest <= src \/ src + t <= dest)
  BY DEF Upward, Memory
<1>2. dest + j + k <= size /\ src + j + k <= size /\ (dest <= src \/ src + j + k <= dest)
  BY <1>1
<1>3. Move(Move(m, dest, src, j), dest + j, src + j, k) = Move(m, dest, src, j + k)
  BY <1>1, <1>2, MoveOn
<1> QED
  BY <1>1, <1>3

\* Copying downwards in steps copies the whole.
LEMMA MoveDown ==
  ASSUME NEW size, NEW m, NEW dest, NEW src, NEW k, NEW d, NEW s, NEW t,
         Backward(size, m, dest, src, k, d, s, t)
  PROVE  Move(Move(m, d, s, k), dest, src, 1) = Move(m, dest, src, t)
<1>1. /\ size \in Nat /\ dest \in Nat /\ src \in Nat /\ k \in Nat
      /\ DOMAIN m = 0 .. size - 1 /\ d = dest + 1 /\ s = src + 1 /\ t = k + 1
      /\ dest + t <= size /\ src + t <= size /\ src <= dest
  BY DEF Backward, Memory
<1>2. dest + k + 1 <= size /\ src + k + 1 <= size
  BY <1>1
<1>3. Move(Move(m, dest + 1, src + 1, k), dest, src, 1) = Move(m, dest, src, k + 1)
  BY <1>1, <1>2, MoveBack
<1> QED
  BY <1>1, <1>3

\* memmove copies as if all had been read before.
LEMMA MemmoveIs ==
  ASSUME NEW size \in Nat, NEW m, Memory(m, size),
         NEW dest \in Nat, NEW src \in Nat, NEW n \in Nat,
         dest + n <= size, src + n <= size
  PROVE  memmove(m, dest, src, n) = Move(m, dest, src, n)
<1> DEFINE at(i) == IF dest < src THEN i - 1 ELSE n - i
           Is(h) == h = [i \in 0 .. n |->
                           IF i = 0 THEN m ELSE Move(h[i - 1], dest + at(i), src + at(i), 1)]
           to == [i \in 1 .. n |-> dest + at(i)]
           from == [i \in 1 .. n |-> src + at(i)]
           f == [i \in 0 .. n |-> IF dest < src THEN Move(m, dest, src, i)
                                  ELSE Move(m, dest + (n - i), src + (n - i), i)]
<1>1. f[0] = m
  <2>1. 0 \in 0 .. n /\ n - 0 = n /\ dest + n \in Int /\ src + n \in Int /\ dest \in Int /\ src \in Int
    OBVIOUS
  <2>2. Move(m, dest, src, 0) = m /\ Move(m, dest + n, src + n, 0) = m
    BY <2>1, MoveNothing DEF Memory
  <2> QED
    BY <2>1, <2>2
<1>2. ASSUME NEW i \in 1 .. n PROVE f[i] = Move(f[i - 1], dest + at(i), src + at(i), 1)
  <2> DEFINE k == i - 1
             e == n - i
  <2>1. k \in Nat /\ k + 1 = i /\ e \in Nat /\ n - k = e + 1 /\ k \in 0 .. n /\ i \in 0 .. n
    OBVIOUS
  <2>2. CASE dest < src
    <3> DEFINE d == dest + k
               s == src + k
    <3>1. f[i] = Move(m, dest, src, i) /\ f[k] = Move(m, dest, src, k)
      BY <2>1, <2>2
    <3>2. /\ d \in Nat /\ s \in Nat /\ i \in Nat /\ i = k + 1 /\ dest <= src
          /\ dest + i <= size /\ src + i <= size
      BY <2>2
    <3>3. at(i) = k
      BY <2>2
    <3>4. f[i - 1] = f[k]
      OBVIOUS
    <3> HIDE DEF f, k, at
    <3>5. Move(Move(m, dest, src, k), d, s, 1) = Move(m, dest, src, i)
      <4>1. 1 \in Nat /\ d = dest + k /\ s = src + k
        OBVIOUS
      <4> HIDE DEF d, s
      <4>2. Upward(size, m, dest, src, k, 1, d, s, i)
        BY <2>1, <3>2, <4>1 DEF Upward
      <4> QED
        BY <4>2, MoveUp
    <3> QED
      BY <3>1, <3>3, <3>4, <3>5
  <2>3. CASE ~(dest < src)
    <3> DEFINE d == dest + e
               s == src + e
    <3> DEFINE d1 == d + 1
               s1 == s + 1
    <3>1. f[i] = Move(m, d, s, i) /\ f[k] = Move(m, dest + (n - k), src + (n - k), k)
      BY <2>1, <2>3
    <3>2. /\ d + i <= size /\ s + i <= size /\ s <= d /\ d \in Nat /\ s \in Nat
          /\ i \in Nat /\ i = k + 1 /\ d1 \in Nat /\ s1 \in Nat
      BY <2>3
    <3>7. dest + (n - k) = d1 /\ src + (n - k) = s1
      OBVIOUS
    <3>3. at(i) = e
      BY <2>3
    <3>4. f[i - 1] = f[k]
      OBVIOUS
    <3> HIDE DEF f, k, at, e
    <3>5. f[k] = Move(m, d1, s1, k)
      BY <3>1, <3>7
    <3>6. Move(Move(m, d1, s1, k), d, s, 1) = Move(m, d, s, i)
      <4>1. d1 = d + 1 /\ s1 = s + 1
        OBVIOUS
      <4> HIDE DEF d, s, d1, s1
      <4>2. Backward(size, m, d, s, k, d1, s1, i)
        BY <2>1, <3>2, <4>1 DEF Backward
      <4> QED
        BY <4>2, MoveDown
    <3> QED
      BY <3>1, <3>3, <3>4, <3>5, <3>6
  <2> QED
    BY <2>2, <2>3
<1>3. Is(f)
  <2>1. DOMAIN f = 0 .. n /\ f = [i \in 0 .. n |-> f[i]]
    OBVIOUS
  <2> HIDE DEF f, at
  <2>2. \A i \in 0 .. n : f[i] = IF i = 0 THEN m ELSE Move(f[i - 1], dest + at(i), src + at(i), 1)
    BY <1>1, <1>2
  <2> QED
    BY <2>1, <2>2
<1>4. PICK h : Is(h) /\ memmove(m, dest, src, n) = h[n]
  <2>1. memmove(m, dest, src, n) = (CHOOSE h : Is(h))[n]
    BY DEF memmove
  <2> HIDE DEF Is
  <2> QED
    BY <1>3, <2>1
<1>5. Chain(f, m, to, from, 1, n) /\ Chain(h, m, to, from, 1, n)
  <2>1. \A i \in 1 .. n : to[i] = dest + at(i) /\ from[i] = src + at(i)
    OBVIOUS
  <2>2. h[0] = m /\ \A i \in 1 .. n : h[i] = Move(h[i - 1], dest + at(i), src + at(i), 1)
    <3>1. h = [i \in 0 .. n |-> IF i = 0 THEN m ELSE Move(h[i - 1], dest + at(i), src + at(i), 1)]
      BY <1>4
    <3> HIDE DEF at, Is
    <3> QED
      BY <3>1
  <2> HIDE DEF to, from, f, at
  <2> QED
    BY <1>1, <1>2, <2>1, <2>2 DEF Chain
<1>6. f[n] = h[n]
  <2> HIDE DEF f, to, from, Is
  <2> QED
    BY <1>5, ChainOnce
<1>7. f[n] = Move(m, dest, src, n)
  <2>1. n \in 0 .. n /\ n - n = 0 /\ dest + 0 = dest /\ src + 0 = src
    OBVIOUS
  <2> QED
    BY <2>1
<1> QED
  BY <1>4, <1>6, <1>7

\* Whole words, then the bytes behind them, none of which a word has written.
LEMMA MemcpyIs ==
  ASSUME NEW size \in Nat, NEW m, Memory(m, size),
         NEW dest \in Nat, NEW src \in Nat, NEW n \in Nat,
         dest + n <= size, src + n <= size, dest <= src \/ src + n <= dest
  PROVE  memcpy(m, dest, src, n) = Move(m, dest, src, n)
<1> DEFINE q == n \div 4
           r == n % 4
           t == Tail4(n)
           Words(h) == h = [i \in 0 .. n \div 4 |->
                 IF i = 0 THEN m ELSE Move(h[i - 1], dest + 4 * (i - 1), src + 4 * (i - 1), 4)]
           w == [i \in 0 .. q |-> Move(m, dest, src, 4 * i)]
           b == [i \in 0 .. r |-> Move(m, dest, src, t + i)]
<1>0. q \in Nat /\ r \in 0 .. 3 /\ r \in Nat /\ n = 4 * q + r /\ t = 4 * q /\ t \in Nat /\ t + r = n
  <2>1. n = 4 * q + r /\ q \in Nat /\ r \in 0 .. 3
    OBVIOUS
  <2> HIDE DEF q, r
  <2> QED
    BY <2>1 DEF Tail4, q
<1>m. Move(m, dest, src, 0) = m
  BY MoveNothing DEF Memory
<1>1. w[0] = m /\ w[q] = Move(m, dest, src, t)
  <2>1. 0 \in 0 .. q /\ q \in 0 .. q /\ 4 * 0 = 0
    BY <1>0
  <2> HIDE DEF q
  <2> QED
    BY <1>0, <1>m, <2>1
<1>2. ASSUME NEW i \in 1 .. q
      PROVE  w[i] = Move(w[i - 1], dest + 4 * (i - 1), src + 4 * (i - 1), 4)
  <2> HIDE DEF q, r, t
  <2> DEFINE j == 4 * (i - 1)
             e == 4 * i
             d == dest + j
             s == src + j
  <2>0. i \in Nat /\ i - 1 \in Nat /\ i <= q
    BY <1>0
  <2>1. /\ i - 1 \in 0 .. q /\ i \in 0 .. q /\ j \in Nat /\ e \in Nat /\ e = j + 4 /\ 4 \in Nat
        /\ d \in Nat /\ s \in Nat /\ d = dest + j /\ s = src + j
    BY <1>0, <2>0
  <2>4. dest + e <= size /\ src + e <= size /\ (dest <= src \/ src + e <= dest)
    BY <1>0, <2>0
  <2>2. w[i] = Move(m, dest, src, e) /\ w[i - 1] = Move(m, dest, src, j)
    <3> HIDE DEF e, j
    <3>1. w[i] = Move(m, dest, src, 4 * i) /\ w[i - 1] = Move(m, dest, src, 4 * (i - 1))
      BY <2>1
    <3> QED
      BY <3>1 DEF e, j
  <2> HIDE DEF w, j, d, s, e
  <2>3. Move(Move(m, dest, src, j), d, s, 4) = Move(m, dest, src, e)
    <3>1. Upward(size, m, dest, src, j, 4, d, s, e)
      BY <2>1, <2>4 DEF Upward
    <3> QED
      BY <3>1, MoveUp
  <2> QED
    BY <2>2, <2>3 DEF j, d, s
<1>3. ASSUME NEW i \in 1 .. r
      PROVE  b[i] = Move(b[i - 1], dest + t + i - 1, src + t + i - 1, 1)
  <2> HIDE DEF q, r, t
  <2> DEFINE j == t + (i - 1)
             e == t + i
             d == dest + t + i - 1
             s == src + t + i - 1
  <2>0. i \in Nat /\ i - 1 \in Nat /\ i <= r
    BY <1>0
  <2>1. /\ i - 1 \in 0 .. r /\ i \in 0 .. r /\ j \in Nat /\ e \in Nat /\ e = j + 1 /\ 1 \in Nat
        /\ d \in Nat /\ s \in Nat /\ d = dest + j /\ s = src + j
    BY <1>0, <2>0
  <2>4. dest + e <= size /\ src + e <= size /\ (dest <= src \/ src + e <= dest)
    BY <1>0, <2>0
  <2>2. b[i] = Move(m, dest, src, e) /\ b[i - 1] = Move(m, dest, src, j)
    <3> HIDE DEF e, j
    <3>1. b[i] = Move(m, dest, src, t + i) /\ b[i - 1] = Move(m, dest, src, t + (i - 1))
      BY <2>1
    <3> QED
      BY <3>1 DEF e, j
  <2> HIDE DEF b, j, d, s, e
  <2>3. Move(Move(m, dest, src, j), d, s, 1) = Move(m, dest, src, e)
    <3>1. Upward(size, m, dest, src, j, 1, d, s, e)
      BY <2>1, <2>4 DEF Upward
    <3> QED
      BY <3>1, MoveUp
  <2> QED
    BY <2>2, <2>3 DEF j, d, s
<1>4. b[0] = w[q] /\ b[r] = Move(m, dest, src, n)
  <2>1. 0 \in 0 .. r /\ r \in 0 .. r /\ t + 0 = t /\ t + r = n
    <3> HIDE DEF r, t, q
    <3> QED
      BY <1>0
  <2>2. b[0] = Move(m, dest, src, t + 0) /\ b[r] = Move(m, dest, src, t + r)
    <3> HIDE DEF r, t
    <3> QED
      BY <2>1
  <2> HIDE DEF w, q, r, t, b
  <2> QED
    BY <1>0, <1>1, <2>1, <2>2
<1>5. Words(w)
  <2>1. w = [i \in 0 .. q |-> w[i]]
    OBVIOUS
  <2> HIDE DEF w
  <2>2. \A i \in 0 .. q : w[i] = IF i = 0 THEN m ELSE Move(w[i - 1], dest + 4 * (i - 1), src + 4 * (i - 1), 4)
    <3> HIDE DEF q
    <3> QED
      BY <1>0, <1>1, <1>2
  <2> QED
    BY <2>1, <2>2
<1> DEFINE W == CHOOSE h : Words(h)
           Rest(h) == h = [i \in 0 .. n % 4 |->
                 IF i = 0 THEN W[n \div 4]
                 ELSE Move(h[i - 1], dest + Tail4(n) + i - 1, src + Tail4(n) + i - 1, 1)]
           B == CHOOSE h : Rest(h)
<1>6. memcpy(m, dest, src, n) = B[r]
  BY DEF memcpy
<1>7. Words(W)
  <2> HIDE DEF Words
  <2> QED
    BY <1>5
<1>8. W[q] = w[q]
  <2> DEFINE to == [i \in 1 .. q |-> dest + 4 * (i - 1)]
             from == [i \in 1 .. q |-> src + 4 * (i - 1)]
  <2>1. \A i \in 1 .. q : to[i] = dest + 4 * (i - 1) /\ from[i] = src + 4 * (i - 1)
    OBVIOUS
  <2>2. W[0] = m /\ \A i \in 1 .. q : W[i] = Move(W[i - 1], dest + 4 * (i - 1), src + 4 * (i - 1), 4)
    <3> HIDE DEF W
    <3>1. W = [i \in 0 .. q |->
                 IF i = 0 THEN m ELSE Move(W[i - 1], dest + 4 * (i - 1), src + 4 * (i - 1), 4)]
      BY <1>7
    <3> HIDE DEF q
    <3> QED
      BY <1>0, <3>1
  <2> HIDE DEF to, from, W, w, q
  <2>3. Chain(w, m, to, from, 4, q) /\ Chain(W, m, to, from, 4, q)
    BY <1>1, <1>2, <2>1, <2>2 DEF Chain
  <2> QED
    BY <1>0, <2>3, ChainOnce
<1> HIDE DEF W
<1>9. Rest(b)
  <2>1. b = [i \in 0 .. r |-> b[i]]
    OBVIOUS
  <2> HIDE DEF b, w
  <2>2. \A i \in 0 .. r : b[i] = IF i = 0 THEN W[q] ELSE Move(b[i - 1], dest + t + i - 1, src + t + i - 1, 1)
    <3> HIDE DEF r, q, t
    <3> QED
      BY <1>0, <1>4, <1>8, <1>3
  <2> QED
    BY <2>1, <2>2
<1>10. Rest(B)
  <2> HIDE DEF Rest
  <2> QED
    BY <1>9
<1>11. B[r] = b[r]
  <2> DEFINE to == [i \in 1 .. r |-> dest + t + i - 1]
             from == [i \in 1 .. r |-> src + t + i - 1]
  <2>1. \A i \in 1 .. r : to[i] = dest + t + i - 1 /\ from[i] = src + t + i - 1
    OBVIOUS
  <2>2. B[0] = W[q] /\ \A i \in 1 .. r : B[i] = Move(B[i - 1], dest + t + i - 1, src + t + i - 1, 1)
    <3> HIDE DEF B
    <3>1. B = [i \in 0 .. r |->
                 IF i = 0 THEN W[q] ELSE Move(B[i - 1], dest + t + i - 1, src + t + i - 1, 1)]
      BY <1>10
    <3> HIDE DEF r, q, t
    <3> QED
      BY <1>0, <3>1
  <2>3. b[0] = W[q]
    BY <1>4, <1>8
  <2> HIDE DEF to, from, B, b, r, t, q
  <2>4. Chain(b, W[q], to, from, 1, r) /\ Chain(B, W[q], to, from, 1, r)
    BY <1>3, <2>1, <2>2, <2>3 DEF Chain
  <2> QED
    BY <1>0, <2>4, ChainOnce
<1> QED
  BY <1>4, <1>6, <1>11

-------------------------------------------------------------------------------
(* Comparing memory. *)

Part(s, n, k) ==
  IF k <= n \div 4 THEN Word(s, k) ELSE s[4 * (n \div 4) + (k - n \div 4)]

Differ(a, b, n) == {k \in 1 .. n \div 4 + (n % 4) : Part(a, n, k) # Part(b, n, k)}

\* memcmp compares the first parts that differ.
LEMMA MemcmpIs ==
  ASSUME NEW a, NEW b, NEW n
  PROVE  memcmp(a, b, n) =
           IF Differ(a, b, n) = {} THEN 0
           ELSE IF Part(a, n, Min(Differ(a, b, n))) < Part(b, n, Min(Differ(a, b, n))) THEN -1 ELSE 1
BY DEF memcmp, Differ, Part

Bytes(a, n) == \A i \in 1 .. n : a[i] \in Byte

\* Where the k-th part lies.
LEMMA PartPlaces ==
  ASSUME NEW n \in Nat
  PROVE  LET q == n \div 4
             r == n % 4
         IN  /\ q \in Nat /\ r \in Nat /\ n = 4 * q + r
             /\ \A k \in 1 .. q : {4*k - 3, 4*k - 2, 4*k - 1, 4*k} \subseteq 1 .. n
             /\ \A k \in q + 1 .. q + r : 4 * q + (k - q) \in 1 .. n
             /\ \A i \in 1 .. 4 * q : \E k \in 1 .. q : i \in {4*k - 3, 4*k - 2, 4*k - 1, 4*k}
             /\ \A i \in 1 .. n : i > 4 * q =>
                  \E k \in q + 1 .. q + r : i = 4 * q + (k - q)
<1> DEFINE q == n \div 4
           r == n % 4
<1>1. q \in Nat /\ r \in Nat /\ n = 4 * q + r
  OBVIOUS
<1> HIDE DEF q, r
<1>2. ASSUME NEW k \in 1 .. q PROVE {4*k - 3, 4*k - 2, 4*k - 1, 4*k} \subseteq 1 .. n
  BY <1>1
<1>3. ASSUME NEW k \in q + 1 .. q + r PROVE 4 * q + (k - q) \in 1 .. n
  BY <1>1
<1>4. ASSUME NEW i \in 1 .. 4 * q
      PROVE  \E k \in 1 .. q : i \in {4*k - 3, 4*k - 2, 4*k - 1, 4*k}
  <2> DEFINE j == i + 3
             k == j \div 4
             e == j % 4
  <2>1. k \in Nat /\ e \in 0 .. 3 /\ j = 4 * k + e /\ j \in 4 .. 4 * q + 3
    BY <1>1
  <2> HIDE DEF k, e
  <2>2. k \in 1 .. q
    BY <1>1, <2>1
  <2>3. i \in {4*k - 3, 4*k - 2, 4*k - 1, 4*k}
    BY <2>1
  <2> QED
    BY <2>2, <2>3
<1>5. ASSUME NEW i \in 1 .. n, i > 4 * q
      PROVE  \E k \in q + 1 .. q + r : i = 4 * q + (k - q)
  <2> DEFINE k == i - 4 * q + q
  <2>1. k \in q + 1 .. q + r /\ i = 4 * q + (k - q)
    BY <1>1, <1>5
  <2> HIDE DEF k
  <2> QED
    BY <2>1
<1> QED
  BY <1>1, <1>2, <1>3, <1>4, <1>5 DEF q, r

\* Its parts are numbers.
LEMMA PartIs ==
  ASSUME NEW n \in Nat, NEW a, Bytes(a, n),
         NEW k \in 1 .. n \div 4 + (n % 4)
  PROVE  Part(a, n, k) \in Int
<1> DEFINE q == n \div 4
           r == n % 4
<1>1. /\ q \in Nat /\ r \in Nat
      /\ \A e \in 1 .. q : {4*e - 3, 4*e - 2, 4*e - 1, 4*e} \subseteq 1 .. n
      /\ \A e \in q + 1 .. q + r : 4 * q + (e - q) \in 1 .. n
  BY PartPlaces
<1>2. k \in 1 .. q + r
  OBVIOUS
<1> HIDE DEF q, r
<1>3. CASE k <= q
  <2>1. {4*k - 3, 4*k - 2, 4*k - 1, 4*k} \subseteq 1 .. n
    BY <1>1, <1>2, <1>3
  <2>2. a[4*k - 3] \in Byte /\ a[4*k - 2] \in Byte /\ a[4*k - 1] \in Byte /\ a[4*k] \in Byte
    BY <2>1 DEF Bytes
  <2>3. Word(a, k) \in Int
    <3> DEFINE a1 == a[4*k - 3]
               a2 == a[4*k - 2]
               a3 == a[4*k - 1]
               a4 == a[4*k]
    <3>1. a1 \in Byte /\ a2 \in Byte /\ a3 \in Byte /\ a4 \in Byte
      BY <2>2
    <3>2. Word(a, k) = a1 + 256 * a2 + 65536 * a3 + 16777216 * a4
      BY DEF Word
    <3> HIDE DEF a1, a2, a3, a4
    <3>3. a1 + 256 * a2 + 65536 * a3 + 16777216 * a4 \in Int
      BY <3>1, SMT DEF Byte
    <3> QED
      BY <3>2, <3>3
  <2> QED
    BY <1>3, <2>3 DEF Part, q
<1>4. CASE ~(k <= q)
  <2>1. 4 * q + (k - q) \in 1 .. n
    BY <1>1, <1>2, <1>4
  <2>2. a[4 * q + (k - q)] \in Int
    <3> DEFINE i == 4 * q + (k - q)
    <3>1. i \in 1 .. n
      BY <2>1
    <3> HIDE DEF i
    <3>2. a[i] \in Int
      BY <3>1 DEF Bytes, Byte
    <3> QED
      BY <3>2 DEF i
  <2> QED
    BY <1>4, <2>2 DEF Part, q
<1> QED
  BY <1>3, <1>4

\* 0 says that the bytes are the same.
LEMMA MemcmpEqual ==
  ASSUME NEW n \in Nat, NEW a, NEW b, Bytes(a, n), Bytes(b, n)
  PROVE  memcmp(a, b, n) = 0 <=> \A i \in 1 .. n : a[i] = b[i]
<1> DEFINE q == n \div 4
           r == n % 4
<1>1. /\ q \in Nat /\ r \in Nat /\ n = 4 * q + r
      /\ \A k \in 1 .. q : {4*k - 3, 4*k - 2, 4*k - 1, 4*k} \subseteq 1 .. n
      /\ \A k \in q + 1 .. q + r : 4 * q + (k - q) \in 1 .. n
      /\ \A i \in 1 .. 4 * q : \E k \in 1 .. q : i \in {4*k - 3, 4*k - 2, 4*k - 1, 4*k}
      /\ \A i \in 1 .. n : i > 4 * q => \E k \in q + 1 .. q + r : i = 4 * q + (k - q)
  BY PartPlaces
<1>2. memcmp(a, b, n) = 0 <=> \A k \in 1 .. q + r : Part(a, n, k) = Part(b, n, k)
  <2>1. memcmp(a, b, n) = 0 <=> Differ(a, b, n) = {}
    <3> HIDE DEF q, r
    <3> QED
      BY MemcmpIs
  <2> QED
    BY <2>1 DEF Differ
<1>p. \A s, k : Part(s, n, k) = IF k <= q THEN Word(s, k) ELSE s[4 * q + (k - q)]
  BY DEF Part
<1> HIDE DEF q, r
<1>3. ASSUME \A i \in 1 .. n : a[i] = b[i], NEW k \in 1 .. q + r
      PROVE  Part(a, n, k) = Part(b, n, k)
  <2>1. CASE k <= q
    <3>1. {4*k - 3, 4*k - 2, 4*k - 1, 4*k} \subseteq 1 .. n
      BY <1>1, <2>1
    <3>2. Word(a, k) = Word(b, k)
      BY <1>3, <3>1 DEF Word
    <3> QED
      BY <1>p, <2>1, <3>2
  <2>2. CASE ~(k <= q)
    <3>1. 4 * q + (k - q) \in 1 .. n
      BY <1>1, <2>2
    <3>2. a[4 * q + (k - q)] = b[4 * q + (k - q)]
      BY <1>3, <3>1
    <3> QED
      BY <1>p, <2>2, <3>2
  <2> QED
    BY <2>1, <2>2
<1>4. ASSUME \A k \in 1 .. q + r : Part(a, n, k) = Part(b, n, k), NEW i \in 1 .. n
      PROVE  a[i] = b[i]
  <2>1. CASE i <= 4 * q
    <3>1. PICK k \in 1 .. q : i \in {4*k - 3, 4*k - 2, 4*k - 1, 4*k}
      <4>1. i \in 1 .. 4 * q
        BY <1>1, <2>1
      <4> QED
        BY <1>1, <4>1
    <3>2. k \in 1 .. q + r /\ k <= q
      BY <1>1
    <3>3. Word(a, k) = Word(b, k)
      <4>1. Part(a, n, k) = Part(b, n, k)
        BY <1>4, <3>2
      <4> QED
        BY <1>p, <3>2, <4>1
    <3>4. {4*k - 3, 4*k - 2, 4*k - 1, 4*k} \subseteq 1 .. n
      BY <1>1
    <3>5. /\ a[4*k - 3] \in Byte /\ a[4*k - 2] \in Byte /\ a[4*k - 1] \in Byte /\ a[4*k] \in Byte
          /\ b[4*k - 3] \in Byte /\ b[4*k - 2] \in Byte /\ b[4*k - 1] \in Byte /\ b[4*k] \in Byte
      BY <3>4 DEF Bytes
    <3>6. /\ a[4*k - 3] = b[4*k - 3] /\ a[4*k - 2] = b[4*k - 2]
          /\ a[4*k - 1] = b[4*k - 1] /\ a[4*k] = b[4*k]
      <4> DEFINE a1 == a[4*k - 3]
                 a2 == a[4*k - 2]
                 a3 == a[4*k - 1]
                 a4 == a[4*k]
                 b1 == b[4*k - 3]
                 b2 == b[4*k - 2]
                 b3 == b[4*k - 1]
                 b4 == b[4*k]
      <4>1. a1 + 256 * a2 + 65536 * a3 + 16777216 * a4 = b1 + 256 * b2 + 65536 * b3 + 16777216 * b4
        BY <3>3 DEF Word
      <4>2. /\ a1 \in Byte /\ a2 \in Byte /\ a3 \in Byte /\ a4 \in Byte
            /\ b1 \in Byte /\ b2 \in Byte /\ b3 \in Byte /\ b4 \in Byte
        BY <3>5
      <4> HIDE DEF a1, a2, a3, a4, b1, b2, b3, b4
      <4>3. a1 = b1 /\ a2 = b2 /\ a3 = b3 /\ a4 = b4
        BY <4>1, <4>2, SMT DEF Byte
      <4> QED
        BY <4>3 DEF a1, a2, a3, a4, b1, b2, b3, b4
    <3> QED
      BY <3>1, <3>6
  <2>2. CASE ~(i <= 4 * q)
    <3>1. PICK k \in q + 1 .. q + r : i = 4 * q + (k - q)
      BY <1>1, <2>2
    <3>2. k \in 1 .. q + r /\ ~(k <= q)
      BY <1>1
    <3>3. Part(a, n, k) = Part(b, n, k)
      BY <1>4, <3>2
    <3> QED
      BY <1>p, <3>1, <3>2, <3>3
  <2> QED
    BY <2>1, <2>2
<1> QED
  BY <1>2, <1>3, <1>4

\* And the answer turns round with its arguments.
LEMMA MemcmpTurns ==
  ASSUME NEW n \in Nat, NEW a, NEW b, Bytes(a, n), Bytes(b, n)
  PROVE  memcmp(a, b, n) = -memcmp(b, a, n)
<1> DEFINE D == Differ(a, b, n)
           m == Min(D)
           x == Part(a, n, m)
           y == Part(b, n, m)
<1>1. Differ(b, a, n) = D
  BY DEF Differ
<1>2. /\ memcmp(a, b, n) = IF D = {} THEN 0 ELSE IF x < y THEN -1 ELSE 1
      /\ memcmp(b, a, n) = IF D = {} THEN 0 ELSE IF y < x THEN -1 ELSE 1
  BY <1>1, MemcmpIs, Zenon
<1>3. D # {} => x # y /\ x \in Int /\ y \in Int
  <2> SUFFICES ASSUME D # {} PROVE x # y /\ x \in Int /\ y \in Int
    OBVIOUS
  <2>1. D \in SUBSET Nat
    BY PartPlaces DEF Differ
  <2>2. m \in D
    <3> HIDE DEF D
    <3> QED
      BY <2>1, LeastNumber
  <2>3. m \in 1 .. n \div 4 + (n % 4) /\ x # y
    <3> HIDE DEF m
    <3> QED
      BY <2>2 DEF Differ
  <2> HIDE DEF m, D
  <2> QED
    BY <2>3, PartIs
<1> HIDE DEF D, x, y
<1> QED
  BY <1>2, <1>3

-------------------------------------------------------------------------------
(* Comparing strings. *)

\* Bytes are numbers.
LEMMA ByteIs == /\ \A x \in Byte : x \in 0 .. 255 /\ x \in Int
                /\ \A x \in 0 .. 255 : x \in Byte
                /\ \A x \in Some : x \in 1 .. 255
<1>1. \A x \in 0 .. 255 : x # 0 => x \in 1 .. 255
  OBVIOUS
<1> QED
  BY <1>1 DEF Byte, Some

\* Letters are not 0, and behind the last one stands 0.
LEMMA AtIs ==
  ASSUME NEW s \in Seq(Some)
  PROVE  /\ Len(s) \in Nat
         /\ \A i \in Nat \ {0} :
              /\ At(s, i) \in Byte
              /\ i <= Len(s) => At(s, i) = s[i] /\ At(s, i) # 0
              /\ i > Len(s) => At(s, i) = 0
<1>1. Len(s) \in Nat /\ \A i \in 1 .. Len(s) : s[i] \in Some
  OBVIOUS
<1>2. ASSUME NEW i \in Nat \ {0}, i <= Len(s) PROVE s[i] \in Byte /\ s[i] # 0
  <2>1. i \in 1 .. Len(s)
    BY <1>1, <1>2
  <2> QED
    BY <1>1, <2>1 DEF Some
<1>3. 0 \in Byte
  BY DEF Byte
<1> QED
  BY <1>1, <1>2, <1>3 DEF At

\* Equal strings have equal letters.
LEMMA SameLetters ==
  ASSUME NEW a \in Seq(Some), NEW b \in Seq(Some), Len(a) = Len(b),
         \A i \in 1 .. Len(a) : a[i] = b[i]
  PROVE  a = b
<1>1. a = [i \in 1 .. Len(a) |-> a[i]] /\ b = [i \in 1 .. Len(b) |-> b[i]]
  OBVIOUS
<1> QED
  BY <1>1

Stops(a, b) == {i \in 1 .. Len(a) + 1 : At(a, i) = 0 \/ At(a, i) # At(b, i)}

\* strcmp compares the first letters that differ.
LEMMA StrcmpIs ==
  ASSUME NEW a, NEW b
  PROVE  strcmp(a, b) = At(a, Min(Stops(a, b))) - At(b, Min(Stops(a, b)))
BY DEF strcmp, Stops

\* The place where a comparison ends.
LEMMA Stop ==
  ASSUME NEW a \in Seq(Some), NEW b \in Seq(Some)
  PROVE  LET m == Min(Stops(a, b))
         IN  /\ m \in 1 .. Len(a) + 1 /\ m <= Len(b) + 1
             /\ At(a, m) = 0 \/ At(a, m) # At(b, m)
             /\ \A i \in 1 .. m - 1 : At(a, i) = At(b, i) /\ At(a, i) # 0
<1> DEFINE E == Stops(a, b)
           m == Min(E)
<1>1. Len(a) \in Nat /\ Len(b) \in Nat
  OBVIOUS
<1>2. Len(a) + 1 \in E
  <2>1. At(a, Len(a) + 1) = 0
    BY <1>1 DEF At
  <2> QED
    BY <1>1, <2>1 DEF Stops
<1>3. E \in SUBSET Nat
  BY DEF Stops
<1>4. m \in E /\ \A i \in E : m <= i
  <2> HIDE DEF E
  <2> QED
    BY <1>2, <1>3, LeastNumber
<1>5. m \in 1 .. Len(a) + 1 /\ (At(a, m) = 0 \/ At(a, m) # At(b, m))
  <2> HIDE DEF m
  <2> QED
    BY <1>4 DEF Stops
<1> HIDE DEF m
<1>6. ASSUME NEW i \in 1 .. m - 1 PROVE At(a, i) = At(b, i) /\ At(a, i) # 0
  <2>1. i \in 1 .. Len(a) + 1 /\ i < m
    BY <1>1, <1>5
  <2>2. i \notin E
    <3> HIDE DEF E
    <3> QED
      BY <1>3, <1>4, <1>5, <2>1
  <2> QED
    BY <2>1, <2>2 DEF Stops
<1>7. m <= Len(b) + 1
  <2> SUFFICES ASSUME m > Len(b) + 1 PROVE FALSE
    BY <1>1, <1>5
  <2> DEFINE i == Len(b) + 1
  <2>1. i \in 1 .. m - 1 /\ i \in Nat \ {0} /\ i > Len(b)
    BY <1>1, <1>5
  <2> HIDE DEF i
  <2>2. At(b, i) = 0
    BY <2>1, AtIs
  <2> QED
    BY <1>6, <2>1, <2>2
<1> QED
  BY <1>5, <1>6, <1>7 DEF m

\* It says equal of equal strings alone.
LEMMA StrcmpEqual ==
  ASSUME NEW a \in Seq(Some), NEW b \in Seq(Some)
  PROVE  strcmp(a, b) = 0 <=> a = b
<1> DEFINE m == Min(Stops(a, b))
<1>1. /\ m \in 1 .. Len(a) + 1 /\ m <= Len(b) + 1
      /\ At(a, m) = 0 \/ At(a, m) # At(b, m)
      /\ \A i \in 1 .. m - 1 : At(a, i) = At(b, i) /\ At(a, i) # 0
  BY Stop
<1>2. strcmp(a, b) = At(a, m) - At(b, m)
  BY StrcmpIs
<1> HIDE DEF m
<1>3. Len(a) \in Nat /\ Len(b) \in Nat /\ m \in Nat \ {0}
  BY <1>1
<1>4. At(a, m) \in Int /\ At(b, m) \in Int
  <2>1. At(a, m) \in Byte /\ At(b, m) \in Byte
    BY <1>3, AtIs
  <2> QED
    BY <2>1, ByteIs
<1>5. ASSUME a = b PROVE strcmp(a, b) = 0
  BY <1>2, <1>4, <1>5
<1>6. ASSUME strcmp(a, b) = 0 PROVE a = b
  <2>1. At(a, m) = 0 /\ At(b, m) = 0
    BY <1>1, <1>2, <1>4, <1>6
  <2>2. m = Len(a) + 1 /\ m = Len(b) + 1
    <3>1. ~(m <= Len(a)) /\ ~(m <= Len(b))
      BY <1>3, <2>1, AtIs
    <3> QED
      BY <1>1, <1>3, <3>1
  <2>3. ASSUME NEW i \in 1 .. Len(a) PROVE a[i] = b[i]
    <3>1. i \in 1 .. m - 1 /\ i \in Nat \ {0} /\ i <= Len(a) /\ i <= Len(b)
      BY <1>3, <2>2
    <3>2. At(a, i) = At(b, i)
      BY <1>1, <3>1
    <3> QED
      BY <3>1, <3>2, AtIs
  <2>4. Len(a) = Len(b)
    BY <1>3, <2>2
  <2> QED
    BY <2>3, <2>4, SameLetters
<1> QED
  BY <1>5, <1>6

\* The strings the other way round give the opposite sign.
LEMMA StrcmpTurns ==
  ASSUME NEW a \in Seq(Some), NEW b \in Seq(Some)
  PROVE  strcmp(a, b) \in Int /\ strcmp(b, a) = -strcmp(a, b)
<1> DEFINE m == Min(Stops(a, b))
           e == Min(Stops(b, a))
<1>1. /\ m \in 1 .. Len(a) + 1 /\ m <= Len(b) + 1
      /\ At(a, m) = 0 \/ At(a, m) # At(b, m)
      /\ \A i \in 1 .. m - 1 : At(a, i) = At(b, i) /\ At(a, i) # 0
  BY Stop
<1>2. /\ e \in 1 .. Len(b) + 1 /\ e <= Len(a) + 1
      /\ At(b, e) = 0 \/ At(b, e) # At(a, e)
      /\ \A i \in 1 .. e - 1 : At(b, i) = At(a, i) /\ At(b, i) # 0
  BY Stop
<1>3. strcmp(a, b) = At(a, m) - At(b, m) /\ strcmp(b, a) = At(b, e) - At(a, e)
  BY StrcmpIs
<1> HIDE DEF m, e
<1>4. Len(a) \in Nat /\ Len(b) \in Nat /\ m \in Nat \ {0} /\ e \in Nat \ {0}
  BY <1>1, <1>2
<1>5. ~(m < e)
  <2> SUFFICES ASSUME m < e PROVE FALSE
    OBVIOUS
  <2>1. m \in 1 .. e - 1
    BY <1>4
  <2>2. At(b, m) = At(a, m) /\ At(b, m) # 0
    BY <1>2, <2>1
  <2> QED
    BY <1>1, <2>2
<1>6. ~(e < m)
  <2> SUFFICES ASSUME e < m PROVE FALSE
    OBVIOUS
  <2>1. e \in 1 .. m - 1
    BY <1>4
  <2>2. At(b, e) = At(a, e) /\ At(a, e) # 0
    BY <1>1, <2>1
  <2> QED
    BY <1>2, <2>2
<1>7. m = e
  BY <1>4, <1>5, <1>6
<1>8. At(a, m) \in Int /\ At(b, m) \in Int
  <2>1. At(a, m) \in Byte /\ At(b, m) \in Byte
    BY <1>4, AtIs
  <2> QED
    BY <2>1, ByteIs
<1> QED
  BY <1>3, <1>7, <1>8

\* A string is memory.
LEMMA LettersAreBytes ==
  ASSUME NEW a \in Seq(Some)
  PROVE  Bytes(a, Len(a))
BY DEF Bytes, Some

\* The bytes of a string of Chars.
LEMMA CharBytesAre ==
  ASSUME NEW a \in Seq(Some)
  PROVE  /\ Bytes(CharBytes(a), 2 * Len(a))
         /\ \A i \in 1 .. Len(a) : 2 * i - 1 \in 1 .. 2 * Len(a) /\ CharBytes(a)[2 * i - 1] = a[i]
<1>1. Len(a) \in Nat /\ \A i \in 1 .. Len(a) : a[i] \in 1 .. 255
  <2>1. Len(a) \in Nat /\ \A i \in 1 .. Len(a) : a[i] \in Some
    OBVIOUS
  <2> QED
    BY <2>1, ByteIs
<1>b. \A v \in 1 .. 255 : v % 256 = v /\ v \div 256 = 0
  OBVIOUS
<1>2. ASSUME NEW k \in 1 .. 2 * Len(a) PROVE CharBytes(a)[k] \in Byte
  <2>0. CharBytes(a)[k] = IF k % 2 = 1 THEN a[(k + 1) \div 2] % 256 ELSE a[k \div 2] \div 256
    BY DEF CharBytes
  <2>1. CASE k % 2 = 1
    <3> DEFINE e == (k + 1) \div 2
    <3>1. e \in 1 .. Len(a)
      BY <1>1, <2>1
    <3> HIDE DEF e
    <3>2. a[e] % 256 \in 0 .. 255
      <4>1. a[e] \in 1 .. 255 /\ 1 .. 255 \subseteq 0 .. 255
        BY <1>1, <3>1
      <4>2. a[e] % 256 = a[e]
        BY <1>b, <4>1
      <4> DEFINE v == a[e]
                 u == v % 256
      <4>3. v \in 0 .. 255 /\ u = v
        BY <4>1, <4>2
      <4> HIDE DEF v, u
      <4>4. u \in 0 .. 255
        BY <4>3
      <4> QED
        BY <4>4 DEF u, v
    <3> QED
      BY <2>0, <2>1, <3>2 DEF e, Byte
  <2>2. CASE k % 2 # 1
    <3> DEFINE e == k \div 2
    <3>1. e \in 1 .. Len(a)
      BY <1>1, <2>2
    <3> HIDE DEF e
    <3>2. a[e] \div 256 \in 0 .. 255
      <4>1. a[e] \in 1 .. 255 /\ 0 \in 0 .. 255
        BY <1>1, <3>1
      <4>2. a[e] \div 256 = 0
        BY <1>b, <4>1
      <4> QED
        BY <4>1, <4>2
    <3> QED
      BY <2>0, <2>2, <3>2 DEF e, Byte
  <2> QED
    BY <2>1, <2>2
<1>3. ASSUME NEW i \in 1 .. Len(a)
      PROVE  2 * i - 1 \in 1 .. 2 * Len(a) /\ CharBytes(a)[2 * i - 1] = a[i]
  <2> DEFINE k == 2 * i - 1
  <2>1. k \in 1 .. 2 * Len(a) /\ k % 2 = 1 /\ (k + 1) \div 2 = i
    BY <1>1
  <2>2. a[i] % 256 = a[i]
    BY <1>1, <1>b
  <2> HIDE DEF k
  <2>3. CharBytes(a)[k] = a[(k + 1) \div 2] % 256
    BY <2>1 DEF CharBytes
  <2>4. CharBytes(a)[k] = a[i]
    BY <2>1, <2>2, <2>3
  <2> QED
    BY <2>1, <2>4 DEF k
<1> QED
  BY <1>2, <1>3 DEF Bytes

\* wstrque says equal of equal strings alone.
LEMMA WstrqueIs ==
  ASSUME NEW a \in Seq(Some), NEW b \in Seq(Some)
  PROVE  wstrque(a, b) <=> a = b
<1> DEFINE n == 2 * Len(a)
           c == CharBytes(a)
           d == CharBytes(b)
<1>1. n \in Nat /\ Len(a) \in Nat
  OBVIOUS
<1>2. wstrque(a, b) <=> Len(a) = Len(b) /\ memcmp(c, d, n) = 0
  BY DEF wstrque, wstrlen
<1>3. ASSUME Len(a) = Len(b) PROVE memcmp(c, d, n) = 0 <=> \A i \in 1 .. n : c[i] = d[i]
  <2>1. Bytes(c, n) /\ Bytes(d, n)
    BY <1>3, CharBytesAre
  <2> HIDE DEF c, d, n
  <2> QED
    BY <1>1, <2>1, MemcmpEqual
<1>4. ASSUME Len(a) = Len(b), \A i \in 1 .. n : c[i] = d[i] PROVE a = b
  <2>1. \A i \in 1 .. Len(a) : 2 * i - 1 \in 1 .. n /\ c[2 * i - 1] = a[i] /\ d[2 * i - 1] = b[i]
    BY <1>4, CharBytesAre
  <2> HIDE DEF c, d, n
  <2>2. \A i \in 1 .. Len(a) : a[i] = b[i]
    BY <1>4, <2>1
  <2> QED
    BY <1>4, <2>2, SameLetters
<1>5. a = b => Len(a) = Len(b) /\ c = d
  OBVIOUS
<1> HIDE DEF c, d, n
<1> QED
  BY <1>2, <1>3, <1>4, <1>5

-------------------------------------------------------------------------------
(* Looking for a string in another. *)

\* A set of numbers up to n that is not empty has a greatest.
LEMMA GreatestNumber ==
  ASSUME NEW n \in Nat, NEW T \in SUBSET (0 .. n), T # {}
  PROVE  Max(T) \in T /\ \A y \in T : Max(T) >= y
<1> DEFINE D == {n - y : y \in T}
<1>1. D \in SUBSET Nat /\ D # {}
  <2>1. ASSUME NEW y \in T PROVE n - y \in Nat
    <3>1. y \in 0 .. n
      OBVIOUS
    <3> QED
      BY <3>1
  <2>2. PICK y \in T : TRUE
    OBVIOUS
  <2>3. n - y \in D
    OBVIOUS
  <2> QED
    BY <2>1, <2>3
<1>2. PICK x \in T : \A y \in T : x >= y
  <2>1. PICK e \in D : \A z \in D : e <= z
    <3> HIDE DEF D
    <3> QED
      BY <1>1, LeastNumber
  <2>2. PICK x \in T : e = n - x
    BY <2>1
  <2>3. ASSUME NEW y \in T PROVE x >= y
    <3>1. n - y \in D /\ x \in Int /\ y \in Int
      OBVIOUS
    <3>2. n - x <= n - y
      BY <2>1, <2>2, <3>1
    <3> QED
      BY <3>1, <3>2
  <2> QED
    BY <2>3
<1> QED
  BY <1>2 DEF Max

\* p stands in s behind the first i letters.
Stands(p, s, i) == \A x \in 1 .. Len(p) : At(s, i + x) = At(p, x)

\* A part of a string, letter by letter.
LEMMA CutIs ==
  ASSUME NEW s \in Seq(Some), NEW i \in Nat, NEW n \in Nat, i + n <= Len(s)
  PROVE  LET u == SubSeq(s, i + 1, i + n)
         IN  u \in Seq(Some) /\ Len(u) = n /\ \A x \in 1 .. n : u[x] = s[i + x]
<1> DEFINE a == i + 1
           b == i + n
           u == SubSeq(s, a, b)
<1>1. a \in Int /\ b \in Int /\ b - a + 1 = n /\ (a <= b \/ n = 0) /\ Len(s) \in Nat
  OBVIOUS
<1>2. \A e \in a .. b : s[e] \in Some
  <2> SUFFICES ASSUME NEW e \in a .. b PROVE s[e] \in Some
    OBVIOUS
  <2>1. e \in 1 .. Len(s)
    BY <1>1
  <2> QED
    BY <2>1
<1>3. \A x \in 1 .. n : a + x - 1 = i + x
  OBVIOUS
<1> HIDE DEF a, b
<1>4. /\ u \in Seq(Some) /\ Len(u) = IF a <= b THEN b - a + 1 ELSE 0
      /\ \A x \in 1 .. b - a + 1 : u[x] = s[a + x - 1]
  <2> DEFINE S == Some
  <2>1. \A e \in a .. b : s[e] \in S
    BY <1>2
  <2> HIDE DEF S
  <2>2. /\ u \in Seq(S) /\ Len(u) = IF a <= b THEN b - a + 1 ELSE 0
        /\ \A x \in 1 .. b - a + 1 : u[x] = s[a + x - 1]
    BY <1>1, <2>1, SubSeqProperties
  <2> QED
    BY <2>2 DEF S
<1> HIDE DEF u
<1>5. Len(u) = n /\ \A x \in 1 .. n : u[x] = s[i + x]
  BY <1>1, <1>3, <1>4
<1> QED
  BY <1>4, <1>5 DEF u, a, b

\* Where a part stands in a string.
LEMMA PlacesAre ==
  ASSUME NEW p \in Seq(Some), p # << >>, NEW s \in Seq(Some)
  PROVE  {i \in 0 .. Len(s) - 1 : Stands(p, s, i)} = Places(p, s)
<1> DEFINE n == Len(p)
           m == Len(s)
<1>1. n \in Nat /\ n >= 1 /\ m \in Nat
  <2>1. n \in Nat /\ m \in Nat /\ n # 0
    BY EmptySeq
  <2> QED
    BY <2>1
<1> HIDE DEF n, m
<1>2. ASSUME NEW i \in 0 .. m - 1, Stands(p, s, i) PROVE i \in 0 .. m - n
  <2>1. n \in Nat \ {0} /\ n <= Len(p) /\ i + n \in Nat \ {0}
    BY <1>1 DEF n
  <2>2. At(p, n) # 0
    BY <2>1, AtIs
  <2>3. At(s, i + n) = At(p, n)
    BY <1>1, <1>2 DEF Stands, n
  <2>4. i + n <= m
    <3> DEFINE k == i + n
    <3>1. k \in Nat \ {0} /\ At(s, k) # 0
      BY <2>1, <2>2, <2>3
    <3> HIDE DEF k
    <3>2. ~(k > m)
      BY <3>1, AtIs DEF m
    <3> QED
      BY <1>1, <3>1, <3>2 DEF k
  <2> QED
    BY <1>1, <2>4
<1>3. ASSUME NEW i \in 0 .. m - n
      PROVE  Stands(p, s, i) <=> SubSeq(s, i + 1, i + n) = p
  <2> DEFINE u == SubSeq(s, i + 1, i + n)
  <2>0. i \in Nat /\ i + n <= m /\ i + 1 \in 1 .. m + 1 /\ i + n \in i + 1 - 1 .. m
    BY <1>1
  <2>1. /\ u \in Seq(Some) /\ Len(u) = n /\ \A x \in 1 .. n : u[x] = s[i + x]
    BY <1>1, <2>0, CutIs DEF m
  <2>2. ASSUME NEW x \in 1 .. n
        PROVE  At(s, i + x) = u[x] /\ At(p, x) = p[x]
    <3> DEFINE k == i + x
    <3>1. k \in Nat \ {0} /\ k <= Len(s) /\ x \in Nat \ {0} /\ x <= Len(p)
      BY <1>1, <2>0 DEF n, m
    <3>2. u[x] = s[k]
      BY <2>1
    <3> HIDE DEF k, u
    <3>3. At(s, k) = s[k] /\ At(p, x) = p[x]
      BY <3>1, AtIs
    <3> QED
      BY <3>2, <3>3 DEF k
  <2> HIDE DEF u
  <2>3. Stands(p, s, i) <=> \A x \in 1 .. n : u[x] = p[x]
    BY <2>2 DEF Stands, n
  <2>4. ASSUME \A x \in 1 .. n : u[x] = p[x] PROVE u = p
    <3>1. Len(u) = Len(p) /\ \A x \in 1 .. Len(u) : u[x] = p[x]
      BY <2>1, <2>4 DEF n
    <3> QED
      BY <2>1, <3>1, SameLetters
  <2>5. Stands(p, s, i) <=> u = p
    BY <2>3, <2>4
  <2> QED
    BY <2>5 DEF u
<1>4. ASSUME NEW i \in 0 .. m - n PROVE i \in 0 .. m - 1
  BY <1>1
<1>5. Places(p, s) = {i \in 0 .. m - n : SubSeq(s, i + 1, i + n) = p}
  BY DEF Places, m, n
<1>6. {i \in 0 .. m - 1 : Stands(p, s, i)} = {i \in 0 .. m - n : SubSeq(s, i + 1, i + n) = p}
  BY <1>2, <1>3, <1>4
<1> QED
  BY <1>5, <1>6 DEF m

\* How far a part agrees at a place.
LEMMA AgreeingIs ==
  ASSUME NEW s \in Seq(Some), NEW p \in Seq(Some), NEW i \in Nat
  PROVE  Agreeing(s, p, i) >= Len(p) <=> Stands(p, s, i)
<1> DEFINE n == Len(p)
           T == {j \in 0 .. n : \A x \in 1 .. j : At(s, i + x) = At(p, x)}
<1>1. n \in Nat /\ T \in SUBSET (0 .. n) /\ 0 \in T
  OBVIOUS
<1>2. n \in T <=> Stands(p, s, i)
  BY DEF Stands
<1>3. Agreeing(s, p, i) = Max(T)
  BY DEF Agreeing
<1> HIDE DEF T, n
<1>4. Max(T) \in T /\ \A y \in T : Max(T) >= y
  BY <1>1, GreatestNumber
<1>5. Max(T) >= n <=> n \in T
  <2> DEFINE x == Max(T)
  <2>1. x \in 0 .. n /\ x \in T
    BY <1>1, <1>4
  <2>2. n \in T => x >= n
    BY <1>4
  <2> HIDE DEF x
  <2>3. x >= n => x = n
    BY <1>1, <2>1
  <2> QED
    BY <2>1, <2>2, <2>3 DEF x
<1> QED
  BY <1>2, <1>3, <1>5 DEF n

\* strstr returns the first place.
LEMMA StrstrIs ==
  ASSUME NEW p \in Seq(Some), p # << >>, NEW s \in Seq(Some)
  PROVE  strstr(s, p) = IF Places(p, s) = {} THEN Null ELSE Min(Places(p, s))
<1>1. \A i \in 0 .. Len(s) - 1 : Agreeing(s, p, i) >= Len(p) <=> Stands(p, s, i)
  BY AgreeingIs
<1>2. {i \in 0 .. Len(s) - 1 : Agreeing(s, p, i) >= Len(p)} = {i \in 0 .. Len(s) - 1 : Stands(p, s, i)}
  BY <1>1
<1>3. {i \in 0 .. Len(s) - 1 : Agreeing(s, p, i) >= Len(p)} = Places(p, s)
  BY <1>2, PlacesAre
<1> QED
  BY <1>3 DEF strstr

\* lctentr returns the first place.
LEMMA LctentrIs ==
  ASSUME NEW p \in Seq(Some), p # << >>, NEW s \in Seq(Some)
  PROVE  lctentr(p, s, Len(s)) = IF Places(p, s) = {} THEN Null ELSE Min(Places(p, s))
<1> DEFINE n == Len(p)
           cut(i) == [k \in 1 .. n |-> At(s, i + k)]
<1>1. ASSUME NEW i \in 0 .. Len(s) - 1 PROVE memcmp(p, cut(i), n) = 0 <=> Stands(p, s, i)
  <2> DEFINE c == cut(i)
  <2>0. n \in Nat /\ i \in Nat /\ Bytes(p, n)
    BY LettersAreBytes
  <2>1. Bytes(c, n)
    <3> SUFFICES ASSUME NEW k \in 1 .. n PROVE c[k] \in Byte
      BY DEF Bytes
    <3> DEFINE e == i + k
    <3>1. e \in Nat \ {0} /\ c[k] = At(s, e)
      BY <2>0
    <3> HIDE DEF e, c
    <3> QED
      BY <3>1, AtIs
  <2>2. ASSUME NEW k \in 1 .. n PROVE c[k] = At(s, i + k) /\ At(p, k) = p[k]
    <3>1. k \in Nat \ {0} /\ k <= Len(p)
      BY <2>0
    <3>2. At(p, k) = p[k]
      BY <3>1, AtIs
    <3> QED
      BY <3>2
  <2> HIDE DEF c
  <2>3. memcmp(p, c, n) = 0 <=> \A k \in 1 .. n : p[k] = c[k]
    <3> HIDE DEF n
    <3> QED
      BY <2>0, <2>1, MemcmpEqual
  <2>4. Stands(p, s, i) <=> \A k \in 1 .. n : p[k] = c[k]
    BY <2>2 DEF Stands
  <2> QED
    BY <2>3, <2>4 DEF c
<1>2. {i \in 0 .. Len(s) - 1 : memcmp(p, cut(i), n) = 0} = {i \in 0 .. Len(s) - 1 : Stands(p, s, i)}
  <2> HIDE DEF cut, n
  <2> QED
    BY <1>1
<1>3. {i \in 0 .. Len(s) - 1 : memcmp(p, cut(i), n) = 0} = Places(p, s)
  <2> HIDE DEF cut, n
  <2> QED
    BY <1>2, PlacesAre
<1> QED
  BY <1>3 DEF lctentr

-------------------------------------------------------------------------------
(* The format of a call has no zero in it: what is left of it is a string. *)

\* The format that is left is such a string.
LEMMA RestIs ==
  ASSUME CallInv, call.pc = "letters"
  PROVE  call.rest \in Seq(Some)
<1>1. CASE call.message.how \in Formatting
  <2>1. PICK ps \in Formats : call.rest = Format(ps)
    BY <1>1 DEF CallInv, Formatted, Goes
  <2>2. ps \in Seq(Pieces)
    BY DEF Formats
  <2> QED
    BY <2>1, <2>2, FormatIs
<1>2. CASE call.message.how \notin Formatting
  <2>1. call.rest = << >>
    BY <1>2 DEF CallInv
  <2> QED
    BY <2>1
<1> QED
  BY <1>1, <1>2

\* A substring stands in its string.
LEMMA PartOf ==
  ASSUME NEW s \in Seq(Some), NEW i \in 1 .. Len(s), NEW j \in 1 .. Len(s)
  PROVE  LET p == SubSeq(s, i, j)
         IN  p \in Seq(Some) /\ (p # << >> => Places(p, s) # {})
<1>1. Len(s) \in Nat
  OBVIOUS
<1>2. CASE j < i
  <2>1. SubSeq(s, i, j) = << >>
    BY <1>2, SubSeqEmpty
  <2> QED
    BY <2>1
<1>3. CASE i <= j
  <2> DEFINE h == i - 1
             n == j - h
             p == SubSeq(s, i, j)
  <2>1. h \in Nat /\ n \in Nat /\ h + n <= Len(s) /\ h + 1 = i /\ h + n = j
    BY <1>1, <1>3
  <2> HIDE DEF h, n
  <2>2. p = SubSeq(s, h + 1, h + n)
    BY <2>1
  <2>3. p \in Seq(Some) /\ Len(p) = n
    BY <2>1, <2>2, CutIs
  <2>4. h \in 0 .. Len(s) - Len(p)
    BY <1>1, <2>1, <2>3
  <2>5. SubSeq(s, h + 1, h + Len(p)) = p
    BY <2>2, <2>3
  <2> HIDE DEF p
  <2>6. h \in Places(p, s)
    BY <2>4, <2>5 DEF Places
  <2> QED
    BY <2>3, <2>6 DEF p
<1> QED
  BY <1>1, <1>2, <1>3

\* The letters of a string as memory.
LEMMA TextMemory ==
  ASSUME NEW text \in Seq(Some)
  PROVE  Memory([a \in 0 .. Len(text) - 1 |-> text[a + 1]], Len(text))
<1> DEFINE m == [a \in 0 .. Len(text) - 1 |-> text[a + 1]]
<1>1. DOMAIN m = 0 .. Len(text) - 1 /\ m = [a \in 0 .. Len(text) - 1 |-> m[a]]
  OBVIOUS
<1> HIDE DEF m
<1>2. Memory(m, Len(text))
  BY <1>1 DEF Memory
<1> QED
  BY <1>2 DEF m

\* memcpy and memmove within a string.
LEMMA CopiesAre ==
  ASSUME NEW text \in Seq(Some)
  PROVE  CopiesExact(text)
<1> DEFINE size == Len(text)
           m == [a \in 0 .. size - 1 |-> text[a + 1]]
<1>1. size \in Nat /\ Memory(m, size)
  BY TextMemory
<1> HIDE DEF size, m
<1>2. ASSUME NEW dest \in 0 .. size - 1, NEW src \in 0 .. size - 1, NEW n \in 0 .. size,
             dest + n <= size, src + n <= size
      PROVE  /\ memmove(m, dest, src, n) = Move(m, dest, src, n)
             /\ dest <= src \/ src + n <= dest => memcpy(m, dest, src, n) = Move(m, dest, src, n)
  <2>1. dest \in Nat /\ src \in Nat /\ n \in Nat
    BY <1>1
  <2>2. memmove(m, dest, src, n) = Move(m, dest, src, n)
    BY <1>1, <1>2, <2>1, MemmoveIs
  <2>3. ASSUME dest <= src \/ src + n <= dest
        PROVE  memcpy(m, dest, src, n) = Move(m, dest, src, n)
    BY <1>1, <1>2, <2>1, <2>3, MemcpyIs
  <2> QED
    BY <2>2, <2>3
<1>3. \A dest, src \in 0 .. size - 1 : \A n \in 0 .. size :
        dest + n <= size /\ src + n <= size =>
          /\ memmove(m, dest, src, n) = Move(m, dest, src, n)
          /\ dest <= src \/ src + n <= dest => memcpy(m, dest, src, n) = Move(m, dest, src, n)
  BY <1>2
<1> QED
  BY <1>3 DEF CopiesExact, size, m

\* memset within a string.
LEMMA ClearsAre ==
  ASSUME NEW text \in Seq(Some)
  PROVE  ClearsExact(text)
<1> DEFINE size == Len(text)
           m == [a \in 0 .. size - 1 |-> text[a + 1]]
<1>1. size \in Nat /\ DOMAIN m = 0 .. size - 1
  OBVIOUS
<1> HIDE DEF size, m
<1>2. ASSUME NEW dest \in 0 .. size - 1, NEW n \in 0 .. size, n % 4 = 0 \/ n < 4
      PROVE  memset(m, dest, n) = [a \in DOMAIN m |-> IF a \in dest .. dest + n - 1 THEN 0 ELSE m[a]]
  <2> DEFINE t == Tail4(n)
             e == n % 4
  <2>1. n \in Nat /\ dest \in Nat
    BY <1>1
  <2>2. t \in Nat /\ e \in Nat /\ ((t = n /\ e = 0) \/ (t = 0 /\ e = n))
    <3> DEFINE q == n \div 4
    <3>1. n = 4 * q + e /\ q \in Nat /\ e \in 0 .. 3
      BY <2>1
    <3>2. t = 4 * q
      BY <3>1 DEF Tail4
    <3> HIDE DEF q, e, t
    <3>3. e = 0 \/ n < 4
      BY <1>2 DEF e
    <3> QED
      BY <2>1, <3>1, <3>2, <3>3
  <2>3. memset(m, dest, n) = [a \in DOMAIN m |->
           IF a \in dest .. dest + t - 1 \/ a \in (dest + 4 * t) .. (dest + 4 * t) + e - 1
           THEN 0 ELSE m[a]]
    BY DEF memset
  <2> HIDE DEF t, e
  <2>4. ASSUME NEW a \in DOMAIN m
        PROVE  a \in dest .. dest + t - 1 \/ a \in (dest + 4 * t) .. (dest + 4 * t) + e - 1
                 <=> a \in dest .. dest + n - 1
    BY <1>1, <2>1, <2>2
  <2> QED
    BY <2>3, <2>4
<1>3. \A dest \in 0 .. size - 1 : \A n \in 0 .. size :
        dest + n <= size /\ (n % 4 = 0 \/ n < 4) =>
          memset(m, dest, n) = [a \in DOMAIN m |-> IF a \in dest .. dest + n - 1 THEN 0 ELSE m[a]]
  BY <1>2
<1> QED
  BY <1>3 DEF ClearsExact, size, m

\* strstr and lctentr of a substring.
LEMMA SearchesAre ==
  ASSUME NEW p \in Seq(Some), p # << >>, NEW s \in Seq(Some), Places(p, s) # {}
  PROVE  SearchesExact(p, s)
<1>1. strstr(s, p) = Min(Places(p, s)) /\ lctentr(p, s, Len(s)) = Min(Places(p, s))
  BY StrstrIs, LctentrIs
<1>2. Min(Places(p, s)) = CHOOSE i \in Places(p, s) : \A j \in Places(p, s) : i <= j
  BY DEF Min
<1> QED
  BY <1>1, <1>2 DEF SearchesExact

\* The comparisons of any two strings.
LEMMA ComparisonsAre ==
  ASSUME NEW a \in Seq(Some), NEW b \in Seq(Some)
  PROVE  ComparisonsExact(a, b)
<1>2. (strcmp(a, b) = 0 <=> a = b) /\ (wstrque(a, b) <=> a = b)
  BY StrcmpEqual, WstrqueIs
<1>3. Sign(strcmp(a, b)) = -Sign(strcmp(b, a))
  <2> DEFINE x == strcmp(a, b)
             y == strcmp(b, a)
  <2>1. x \in Int /\ y = -x
    BY StrcmpTurns
  <2> HIDE DEF x, y
  <2>2. Sign(x) = -Sign(y)
    BY <2>1 DEF Sign
  <2> QED
    BY <2>2 DEF x, y
<1>4. ASSUME Len(a) = Len(b)
      PROVE  /\ memcmp(a, b, Len(a)) = 0 <=> a = b
             /\ memcmp(a, b, Len(a)) = -memcmp(b, a, Len(a))
  <2> DEFINE n == Len(a)
  <2>1. n \in Nat /\ Bytes(a, n) /\ Bytes(b, n)
    BY <1>4, LettersAreBytes
  <2> HIDE DEF n
  <2>2. memcmp(a, b, n) = -memcmp(b, a, n)
    BY <2>1, MemcmpTurns
  <2>3. memcmp(a, b, n) = 0 <=> \A i \in 1 .. n : a[i] = b[i]
    BY <2>1, MemcmpEqual
  <2>4. (\A i \in 1 .. n : a[i] = b[i]) => a = b
    BY <1>4, SameLetters DEF n
  <2> QED
    BY <2>2, <2>3, <2>4 DEF n
<1>5. ASSUME strstr(a, b) = Null, b # << >> PROVE Places(b, a) = {}
  <2> DEFINE P == Places(b, a)
  <2>1. P \in SUBSET Nat
    BY DEF Places
  <2>2. strstr(a, b) = IF P = {} THEN Null ELSE Min(P)
    BY <1>5, StrstrIs
  <2> HIDE DEF P
  <2>3. P # {} => Min(P) \in Nat
    BY <2>1, LeastNumber
  <2>4. P = {}
    BY <1>5, <2>2, <2>3 DEF Null
  <2> QED
    BY <2>4 DEF P
<1> QED
  BY <1>2, <1>3, <1>4, <1>5 DEF ComparisonsExact

\* The copies leave what one copy of all cells at once would leave; searches
\* find the first place and only what is there; comparisons call equal what is
\* equal, and answer the other way round for arguments the other way round.
THEOREM RoutinesAreExact == PrintSpec => []RoutinesExact
<1>1. CallInv => RoutinesExact
  <2> SUFFICES ASSUME CallInv, Begun PROVE HandledExactly(call.rest)
    BY DEF RoutinesExact
  <2> DEFINE text == call.rest
             parts == Substrings(text)
  <2>1. text \in Seq(Some)
    BY RestIs DEF Begun
  <2> HIDE DEF text
  <2>2. ASSUME NEW a \in parts PROVE a \in Seq(Some) /\ (a # << >> => Places(a, text) # {})
    <3>1. PICK i \in 1 .. Len(text), j \in 1 .. Len(text) : a = SubSeq(text, i, j)
      BY DEF Substrings
    <3> DEFINE p == SubSeq(text, i, j)
    <3>2. p \in Seq(Some) /\ (p # << >> => Places(p, text) # {})
      BY <2>1, PartOf
    <3> QED
      BY <3>1, <3>2
  <2> HIDE DEF parts
  <2>3. CopiesExact(text) /\ ClearsExact(text)
    BY <2>1, CopiesAre, ClearsAre
  <2>4. ASSUME NEW part \in parts \ {<< >>} PROVE SearchesExact(part, text)
    BY <2>1, <2>2, SearchesAre
  <2>5. ASSUME NEW a \in parts, NEW b \in parts PROVE ComparisonsExact(a, b)
    BY <2>2, ComparisonsAre
  <2> QED
    BY <2>3, <2>4, <2>5 DEF HandledExactly, text, parts
<1> QED
  BY <1>1, CallInit, CallNext, PTL DEF PrintSpec
===============================================================================
