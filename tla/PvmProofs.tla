------------------------------- MODULE PvmProofs -------------------------------
(***************************************************************************)
(* Over cleared pages the walk of module Pvm implements the map of module  *)
(* AddressSpace, for tables of any length; and every map that module Boot, *)
(* which EXTENDS Pvm, gives the processor shows it the pages it is using,  *)
(* the last one, built page by page, like the ones written down whole.     *)
(***************************************************************************)
EXTENDS Boot, FiniteSetTheorems, TLAPS

-------------------------------------------------------------------------------
(* Division *)

\* Quotient and remainder are natural numbers.
LEMMA DivMod ==
  ASSUME NEW n \in Nat, NEW d \in Nat \ {0}
  PROVE  /\ n \div d \in Nat /\ n % d \in Nat /\ n % d < d
         /\ n = d * (n \div d) + (n % d)
  OBVIOUS

\* They are the only ones.
LEMMA Unique ==
  ASSUME NEW d \in Nat \ {0}, NEW q \in Nat, NEW r \in Nat, NEW p \in Nat, NEW s \in Nat,
         r < d, s < d, d * q + r = d * p + s
  PROVE  q = p /\ r = s
<1>1. \A x, y \in Nat : x < y => d * x + d <= d * y
  <2> TAKE x, y \in Nat
  <2> HAVE x < y
  <2>1. PICK k \in Nat : y = x + 1 + k
    <3> y - x - 1 \in Nat /\ y = x + 1 + (y - x - 1)
      OBVIOUS
    <3> QED
      OBVIOUS
  <2>2. d * y = d * x + d + d * k
    BY <2>1
  <2>3. d * k >= 0
    OBVIOUS
  <2> QED
    BY <2>2, <2>3
<1>2. ~(q < p)
  BY <1>1
<1>3. ~(p < q)
  BY <1>1
<1> QED
  BY <1>2, <1>3

\* So what is a multiple and a rest is divided into them.
LEMMA Quotient ==
  ASSUME NEW d \in Nat \ {0}, NEW q \in Nat, NEW r \in Nat, r < d
  PROVE  (d * q + r) \div d = q /\ (d * q + r) % d = r
<1> DEFINE n == d * q + r
<1>1. n \in Nat
  OBVIOUS
<1>2. /\ n \div d \in Nat /\ n % d \in Nat /\ n % d < d
      /\ n = d * (n \div d) + (n % d)
  <2> HIDE DEF n
  <2> QED
    BY <1>1, DivMod
<1> QED
  BY <1>2, Unique

\* RegionCount pairs of tables make up the entries of an LPTE table.
LEMMA Sizes ==
  /\ Entries \in Nat \ {0} /\ RegionCount \in Nat \ {0} /\ Entries = 2 * RegionCount
  /\ RegionSize \in Nat \ {0} /\ RegionSize = 2 * Entries
  /\ Entries * Entries \in Nat \ {0} /\ RegionCount * RegionSize = Entries * Entries
<1>1. Entries \in Nat \ {0} /\ Directories \in Nat /\ Directories <= Entries /\ Entries % 2 = 0
  BY PvmAssumption
<1>2. RegionCount \in Nat /\ Entries = 2 * RegionCount
  BY <1>1 DEF RegionCount
<1>3. RegionCount # 0 /\ RegionSize = 2 * Entries
  BY <1>1, <1>2 DEF RegionSize
<1>4. Entries * Entries \in Nat \ {0} /\ RegionCount * (2 * Entries) = (2 * RegionCount) * Entries
  BY <1>1, <1>2
<1> QED
  BY <1>1, <1>2, <1>3, <1>4

\* The three digits of a virtual page: slot of the LPDE, of the LPTE and of
\* the PF table.
High(v) == v \div (Entries * Entries)
Middle(v) == (v \div Entries) % Entries
Low(v) == v % Entries

\* They are what the walk divides out level by level, and they make up the page.
LEMMA Digits ==
  ASSUME NEW v \in Nat
  PROVE  /\ High(v) \in Nat /\ Middle(v) \in Slot /\ Low(v) \in Slot
         /\ v = Entries * Entries * High(v) + (Entries * Middle(v) + Low(v))
         /\ Entries * Middle(v) + Low(v) < Entries * Entries
         /\ v % (Entries * Entries) = Entries * Middle(v) + Low(v)
         /\ (v % (Entries * Entries)) \div Entries = Middle(v)
         /\ (v % (Entries * Entries)) % Entries = Low(v)
<1> DEFINE x == v \div Entries
           a == x \div Entries
           b == x % Entries
           c == v % Entries
<1>1. x \in Nat /\ c \in Nat /\ c < Entries /\ v = Entries * x + c
  BY Sizes, DivMod
<1>2. a \in Nat /\ b \in Nat /\ b < Entries /\ x = Entries * a + b
  <2> HIDE DEF x
  <2> QED
    BY <1>1, Sizes, DivMod
<1> HIDE DEF x, a, b, c
<1>3. Entries * (Entries * a + b) = Entries * Entries * a + Entries * b
  BY <1>2, Sizes
<1>4. v = Entries * Entries * a + (Entries * b + c)
  BY <1>1, <1>2, <1>3, Sizes
<1>5. Entries * b + c \in Nat /\ Entries * b + c < Entries * Entries
  <2>1. Entries * (b + 1) <= Entries * Entries
    <3>1. PICK k \in Nat : Entries = b + 1 + k
      <4> Entries - b - 1 \in Nat /\ Entries = b + 1 + (Entries - b - 1)
        BY <1>2, Sizes
      <4> QED
        OBVIOUS
    <3>2. Entries * (b + 1 + k) = Entries * (b + 1) + Entries * k /\ Entries * k >= 0
      BY <1>2, Sizes
    <3> QED
      BY <3>1, <3>2, <1>2, Sizes
  <2>2. Entries * (b + 1) = Entries * b + Entries /\ Entries * b \in Nat
    BY <1>2, Sizes
  <2> QED
    BY <2>1, <2>2, <1>1, <1>2, Sizes
<1>6. High(v) = a /\ v % (Entries * Entries) = Entries * b + c
  <2> DEFINE d == Entries * Entries
             r == Entries * b + c
  <2>1. d \in Nat \ {0} /\ r \in Nat /\ r < d /\ v = d * a + r
    BY <1>4, <1>5, Sizes
  <2> HIDE DEF d, r
  <2>2. (d * a + r) \div d = a /\ (d * a + r) % d = r
    BY <1>2, <2>1, Quotient
  <2>3. v \div d = a /\ v % d = r
    BY <2>1, <2>2
  <2> QED
    BY <2>3 DEF High, d, r
<1>7. (Entries * b + c) \div Entries = b /\ (Entries * b + c) % Entries = c
  <2>1. Entries \in Nat \ {0}
    BY Sizes
  <2> QED
    BY <1>1, <1>2, <2>1, Quotient
<1>8. Middle(v) = b /\ Low(v) = c
  BY DEF Middle, Low, x, b, c
<1> QED
  BY <1>1, <1>2, <1>4, <1>5, <1>6, <1>7, <1>8, Sizes DEF Slot

\* Pages with the same digits are the same.
LEMMA SameDigits ==
  ASSUME NEW u \in Nat, NEW v \in Nat,
         High(u) = High(v), Middle(u) = Middle(v), Low(u) = Low(v)
  PROVE  u = v
  BY Digits

\* Where the processor looks for a virtual page.
LEMMA Region ==
  ASSUME NEW v \in Nat
  PROVE  /\ Middle(v) \div 2 \in 0 .. RegionCount - 1
         /\ v \div RegionSize = RegionCount * High(v) + (Middle(v) \div 2)
         /\ (v \div RegionSize) \div RegionCount = High(v)
         /\ (v \div RegionSize) % RegionCount = Middle(v) \div 2
         /\ v % RegionSize \in 0 .. RegionSize - 1
         /\ 2 * (Middle(v) \div 2) + ((v % RegionSize) \div Entries) = Middle(v)
         /\ (v % RegionSize) % Entries = Low(v)
<1> DEFINE k == Middle(v) \div 2
           e == Middle(v) % 2
           low == Entries * e + Low(v)
<1>1. High(v) \in Nat /\ Middle(v) \in 0 .. Entries - 1 /\ Low(v) \in 0 .. Entries - 1
      /\ v = Entries * Entries * High(v) + (Entries * Middle(v) + Low(v))
  BY Digits DEF Slot
<1>2. k \in Nat /\ e \in {0, 1} /\ Middle(v) = 2 * k + e
  BY <1>1
<1> HIDE DEF k, e
<1>3. k \in 0 .. RegionCount - 1
  BY <1>1, <1>2, Sizes
<1>4. low \in Nat /\ low < RegionSize
  <2>1. CASE e = 0
    BY <2>1, <1>1, Sizes
  <2>2. CASE e = 1
    BY <2>2, <1>1, Sizes
  <2> QED
    BY <2>1, <2>2, <1>2
<1>5. v = RegionSize * (RegionCount * High(v) + k) + low
  <2>1. Entries * Middle(v) = RegionSize * k + Entries * e
    <3>1. Entries * (2 * k + e) = (2 * Entries) * k + Entries * e
      BY <1>2, Sizes
    <3> QED
      BY <3>1, <1>2, Sizes
  <2>2. RegionSize * (RegionCount * High(v) + k)
          = (RegionCount * RegionSize) * High(v) + RegionSize * k
    BY <1>1, <1>2, Sizes
  <2>3. (RegionCount * RegionSize) * High(v) = Entries * Entries * High(v)
    BY <1>1, Sizes
  <2> QED
    BY <1>1, <2>1, <2>2, <2>3, <1>2, Sizes
<1>6. RegionCount * High(v) + k \in Nat
  BY <1>1, <1>2, Sizes
<1>7. v \div RegionSize = RegionCount * High(v) + k /\ v % RegionSize = low
  <2> HIDE DEF low
  <2> QED
    BY <1>4, <1>5, <1>6, Sizes, Quotient
<1>8. /\ (RegionCount * High(v) + k) \div RegionCount = High(v)
      /\ (RegionCount * High(v) + k) % RegionCount = k
  <2>1. RegionCount \in Nat \ {0} /\ High(v) \in Nat /\ k \in Nat /\ k < RegionCount
    BY <1>1, <1>2, <1>3, Sizes
  <2> QED
    BY <2>1, Quotient
<1>9. low \div Entries = e /\ low % Entries = Low(v)
  <2>1. Entries \in Nat \ {0} /\ Low(v) \in Nat /\ Low(v) < Entries /\ e \in Nat
    BY <1>1, <1>2, Sizes
  <2> QED
    BY <2>1, Quotient
<1> QED
  <2>1. Middle(v) \div 2 = k
    BY DEF k
  <2>2. low \in 0 .. RegionSize - 1
    BY <1>4, Sizes
  <2> HIDE DEF low
  <2>3. /\ (v \div RegionSize) \div RegionCount = High(v)
        /\ (v \div RegionSize) % RegionCount = k
    BY <1>7, <1>8
  <2>4. (v % RegionSize) \div Entries = e /\ (v % RegionSize) % Entries = Low(v)
    BY <1>7, <1>9
  <2> QED
    BY <2>1, <2>2, <2>3, <2>4, <1>2, <1>3, <1>7

\* Where the digits of a page of the machine lie; its upper ones are 0.
LEMMA Ranges ==
  ASSUME NEW v \in Virtual
  PROVE  /\ v \in Nat /\ High(v) \in Slot /\ v \div RegionSize \in Regions
         /\ v \div (Entries * Entries * Entries * Entries) = 0
         /\ v % (Entries * Entries * Entries * Entries) = v
<1> DEFINE square == Entries * Entries
<1>1. /\ square \in Nat \ {0} /\ Directories \in Nat /\ Directories <= Entries
      /\ Entries \in Nat \ {0} /\ RegionCount \in Nat \ {0}
  BY PvmAssumption, Sizes
<1>2. Directories * RegionCount * RegionSize = square * Directories
  <2>1. Directories * RegionCount * RegionSize = Directories * (RegionCount * RegionSize)
    BY <1>1, Sizes
  <2> QED
    BY <2>1, <1>1, Sizes
<1>3. v \in Nat /\ v < square * Directories
  <2>1. square * Directories \in Nat
    BY <1>1
  <2> QED
    BY <1>2, <2>1 DEF Virtual
<1>4. High(v) \in Nat /\ square * High(v) <= v
  <2>1. v = square * High(v) + (v % square) /\ v % square \in Nat /\ High(v) \in Nat
    <3> HIDE DEF square
    <3>1. v = square * (v \div square) + (v % square) /\ v % square \in Nat
          /\ v \div square \in Nat
      BY <1>1, <1>3, DivMod
    <3> QED
      BY <3>1 DEF High, square
  <2> HIDE DEF square
  <2>2. square * High(v) \in Nat
    BY <2>1, <1>1
  <2> QED
    BY <2>1, <2>2, <1>3
<1> HIDE DEF square
<1>5. \A x, y, z \in Nat : x >= y => z * x >= z * y
  <2> TAKE x, y, z \in Nat
  <2> HAVE x >= y
  <2>1. PICK k \in Nat : x = y + k
    <3> x - y \in Nat /\ x = y + (x - y)
      OBVIOUS
    <3> QED
      OBVIOUS
  <2>2. z * (y + k) = z * y + z * k /\ z * k \in Nat /\ z * y \in Nat
    OBVIOUS
  <2> QED
    BY <2>1, <2>2
<1>6. High(v) < Directories
  <2> SUFFICES ASSUME High(v) >= Directories PROVE FALSE
    BY <1>1, <1>4
  <2>1. square * High(v) >= square * Directories
    BY <1>1, <1>4, <1>5
  <2>2. square * High(v) \in Nat /\ square * Directories \in Nat
    BY <1>1, <1>4
  <2> QED
    BY <1>3, <1>4, <2>1, <2>2
<1>7. High(v) \in Slot
  BY <1>1, <1>4, <1>6 DEF Slot
<1>8. v \div RegionSize \in Regions
  <2>1. PICK k \in 0 .. RegionCount - 1 : v \div RegionSize = RegionCount * High(v) + k
    BY <1>3, Region
  <2>2. RegionCount * Directories >= RegionCount * (High(v) + 1)
    <3> Directories >= High(v) + 1 /\ High(v) + 1 \in Nat
      BY <1>1, <1>4, <1>6
    <3> QED
      BY <1>1, <1>5
  <2>3. RegionCount * (High(v) + 1) = RegionCount * High(v) + RegionCount
        /\ RegionCount * High(v) \in Nat /\ RegionCount * Directories \in Nat
    BY <1>1, <1>4
  <2>4. RegionCount * High(v) + k \in 0 .. RegionCount * Directories - 1
    BY <2>1, <2>2, <2>3, <1>1
  <2>5. RegionCount * Directories = Directories * RegionCount
    BY <1>1
  <2> QED
    BY <2>1, <2>4, <2>5 DEF Regions
<1>9. v < Entries * Entries * Entries * Entries
  <2>1. square * Entries >= square * Directories
    BY <1>1, <1>5
  <2>2. (square * Entries) * Entries >= (square * Entries) * 1
    <3> square * Entries \in Nat /\ Entries >= 1
      BY <1>1
    <3> QED
      BY <1>1, <1>5
  <2>3. /\ square * Directories \in Nat /\ square * Entries \in Nat
        /\ (square * Entries) * Entries \in Nat
    BY <1>1
  <2>4. v < (square * Entries) * Entries
    BY <1>3, <2>1, <2>2, <2>3
  <2> QED
    BY <2>4 DEF square
<1>10. /\ v \div (Entries * Entries * Entries * Entries) = 0
       /\ v % (Entries * Entries * Entries * Entries) = v
  <2> DEFINE d == Entries * Entries * Entries * Entries
  <2>1. d \in Nat \ {0} /\ v < d
    <3>1. d \in Nat
      BY <1>1
    <3> QED
      BY <1>3, <1>9, <3>1
  <2> HIDE DEF d
  <2>2. (d * 0 + v) \div d = 0 /\ (d * 0 + v) % d = v
    BY <1>3, <2>1, Quotient
  <2>3. d * 0 + v = v
    BY <1>3, <2>1
  <2>4. v \div d = 0 /\ v % d = v
    BY <2>2, <2>3
  <2> QED
    BY <2>4 DEF d
<1> QED
  BY <1>3, <1>7, <1>8, <1>10

-------------------------------------------------------------------------------
(* Tables T with the root R, apart from the state *)

Cell  == [address : Nat, attributes : Attributes \cup {Absent}]
Table == [Slot -> Cell]

In(T, t, s)     == IF t = 0 THEN Empty ELSE T[t][s]
Mpde(T, R)      == In(T, R, 0).address
Lpde(T, R)      == In(T, Mpde(T, R), 0).address
LpteOf(T, R, h) == In(T, Lpde(T, R), h).address
Pf(T, R, h, m)  == In(T, LpteOf(T, R, h), m).address
Look(T, R, v)   == In(T, Pf(T, R, High(v), Middle(v)), Low(v))

\* The place that a table has for good: its level, and from level 4 on the
\* slots that lead to it.
Key == [level : 1 .. 5, h : Nat, m : Nat]

Child(k, s) ==
  IF k.level = 3 THEN [level |-> 4, h |-> s, m |-> 0]
  ELSE IF k.level = 4 THEN [level |-> 5, h |-> k.h, m |-> s]
  ELSE [level |-> k.level + 1, h |-> 0, m |-> 0]

\* Every entry above the last level leads to the table that has the place
\* below it, so no table hangs from two entries.
Placed(T, R, key) ==
  /\ T \in Seq(Table) /\ R \in 0 .. Len(T) /\ key \in [1 .. Len(T) -> Key]
  /\ R # 0 => key[R].level = 1
  /\ \A t \in 1 .. Len(T), s \in Slot :
       /\ key[t].level = 5 => T[t][s].address \in Physical \cup {0}
       /\ key[t].level # 5 /\ T[t][s].address # 0 =>
            /\ T[t][s].address \in 1 .. Len(T)
            /\ key[T[t][s].address] = Child(key[t], s)

\* An entry that nobody wrote is an entry.
LEMMA EmptyCell == Empty \in Cell /\ Empty.address = 0 /\ 0 \in Slot
  BY Sizes DEF Empty, Entry, Cell, Slot

\* Where an entry above the last level leads to.
LEMMA Below1 ==
  ASSUME NEW T, NEW R, NEW key, Placed(T, R, key),
         NEW t \in 0 .. Len(T), t # 0 => key[t].level # 5, NEW s \in Slot
  PROVE  /\ In(T, t, s).address \in 0 .. Len(T)
         /\ In(T, t, s).address # 0 =>
              t # 0 /\ key[In(T, t, s).address] = Child(key[t], s)
<1>1. CASE t = 0
  BY <1>1, EmptyCell DEF In, Placed
<1>2. CASE t # 0
  <2>1. t \in 1 .. Len(T)
    BY <1>2 DEF Placed
  <2> QED
    BY <1>2, <2>1 DEF In, Placed
<1> QED
  BY <1>1, <1>2

\* Where the two tables that every page shares stand.
LEMMA Upper ==
  ASSUME NEW T, NEW R, NEW key, Placed(T, R, key)
  PROVE  /\ Mpde(T, R) \in 0 .. Len(T) /\ (Mpde(T, R) # 0 => key[Mpde(T, R)].level = 2)
         /\ Lpde(T, R) \in 0 .. Len(T) /\ (Lpde(T, R) # 0 => key[Lpde(T, R)].level = 3)
<1>0. R \in 0 .. Len(T) /\ (R # 0 => key[R].level = 1) /\ 0 \in Slot
  BY EmptyCell DEF Placed
<1>1. Mpde(T, R) \in 0 .. Len(T) /\ (Mpde(T, R) # 0 => key[Mpde(T, R)].level = 2)
  <2>1. /\ In(T, R, 0).address \in 0 .. Len(T)
        /\ In(T, R, 0).address # 0 => R # 0 /\ key[In(T, R, 0).address] = Child(key[R], 0)
    BY <1>0, Below1
  <2> QED
    BY <1>0, <2>1 DEF Mpde, Child
<1>2. Lpde(T, R) \in 0 .. Len(T) /\ (Lpde(T, R) # 0 => key[Lpde(T, R)].level = 3)
  <2>1. ASSUME NEW t \in 0 .. Len(T), t # 0 => key[t].level = 2
        PROVE  /\ In(T, t, 0).address \in 0 .. Len(T)
               /\ In(T, t, 0).address # 0 => key[In(T, t, 0).address].level = 3
    <3>1. /\ In(T, t, 0).address \in 0 .. Len(T)
          /\ In(T, t, 0).address # 0 => t # 0 /\ key[In(T, t, 0).address] = Child(key[t], 0)
      BY <1>0, <2>1, Below1
    <3> QED
      BY <2>1, <3>1 DEF Child
  <2> QED
    BY <1>1, <2>1 DEF Lpde
<1> QED
  BY <1>1, <1>2

\* Where the table of one slot of theirs stands.
LEMMA Fourth ==
  ASSUME NEW T, NEW R, NEW key, Placed(T, R, key), NEW h \in Slot
  PROVE  /\ LpteOf(T, R, h) \in 0 .. Len(T)
         /\ LpteOf(T, R, h) # 0 => /\ key[LpteOf(T, R, h)] = [level |-> 4, h |-> h, m |-> 0]
                                   /\ key[LpteOf(T, R, h)].level = 4
<1>1. ASSUME NEW t \in 0 .. Len(T), t # 0 => key[t].level = 3
      PROVE  /\ In(T, t, h).address \in 0 .. Len(T)
             /\ In(T, t, h).address # 0 =>
                  key[In(T, t, h).address] = [level |-> 4, h |-> h, m |-> 0]
  <2>1. /\ In(T, t, h).address \in 0 .. Len(T)
        /\ In(T, t, h).address # 0 => t # 0 /\ key[In(T, t, h).address] = Child(key[t], h)
    BY <1>1, Below1
  <2> QED
    BY <1>1, <2>1 DEF Child
<1> QED
  BY Upper, <1>1 DEF LpteOf

\* Where the last table on the way to a page stands.
LEMMA Places ==
  ASSUME NEW T, NEW R, NEW key, Placed(T, R, key), NEW h \in Slot, NEW m \in Slot
  PROVE  /\ Pf(T, R, h, m) \in 0 .. Len(T)
         /\ Pf(T, R, h, m) # 0 => key[Pf(T, R, h, m)] = [level |-> 5, h |-> h, m |-> m]
<1>1. ASSUME NEW t \in 0 .. Len(T), t # 0 => key[t] = [level |-> 4, h |-> h, m |-> 0]
      PROVE  /\ In(T, t, m).address \in 0 .. Len(T)
             /\ In(T, t, m).address # 0 =>
                  key[In(T, t, m).address] = [level |-> 5, h |-> h, m |-> m]
  <2>1. t # 0 => key[t].level # 5
    BY <1>1
  <2>2. /\ In(T, t, m).address \in 0 .. Len(T)
        /\ In(T, t, m).address # 0 => t # 0 /\ key[In(T, t, m).address] = Child(key[t], m)
    BY <2>1, Below1
  <2> QED
    BY <1>1, <2>2 DEF Child
<1> QED
  BY Fourth, <1>1 DEF Pf

\* What the last level says of a page.
LEMMA LastLevel ==
  ASSUME NEW T, NEW R, NEW key, Placed(T, R, key), NEW h \in Slot, NEW m \in Slot,
         NEW s \in Slot
  PROVE  In(T, Pf(T, R, h, m), s).address \in Physical \cup {0}
<1>1. \A t \in 0 .. Len(T) : (t # 0 => key[t].level = 5) =>
        In(T, t, s).address \in Physical \cup {0}
  BY EmptyCell DEF Placed, In
<1>2. /\ Pf(T, R, h, m) \in 0 .. Len(T)
      /\ Pf(T, R, h, m) # 0 => key[Pf(T, R, h, m)] = [level |-> 5, h |-> h, m |-> m]
  BY Places
<1> QED
  BY <1>1, <1>2

-------------------------------------------------------------------------------
(* A table that is hung in an entry which had none *)

Fresh == [x \in Slot |-> Empty]

\* Initialising a zeroed page changes nothing: VmTableInitialize clears entry 0 only.
LEMMA FreshTable == ASSUME Cleared PROVE VmTableInitialize(FreshPage) = Fresh /\ Fresh \in Table
<1>1. FreshPage = Fresh
  BY DEF FreshPage, Fresh
<1>2. Fresh \in Table
  BY EmptyCell DEF Fresh, Table
<1>3. [Fresh EXCEPT ![0].address = 0] = Fresh
  <2>1. [Fresh[0] EXCEPT !.address = 0] = Fresh[0]
    BY EmptyCell DEF Fresh, Empty, Entry
  <2> QED
    BY <1>2, <2>1 DEF Table
<1> QED
  BY <1>1, <1>2, <1>3 DEF VmTableInitialize

Hung(T, t, s) == Append([T EXCEPT ![t][s].address = Len(T) + 1], Fresh)

Keys(T, key, k) == [x \in 1 .. Len(T) + 1 |-> IF x = Len(T) + 1 THEN k ELSE key[x]]

\* What its entries are.
LEMMA HungEntries ==
  ASSUME Cleared, NEW T \in Seq(Table), NEW t \in 1 .. Len(T), NEW s \in Slot
  PROVE  /\ Hung(T, t, s) \in Seq(Table) /\ Len(Hung(T, t, s)) = Len(T) + 1
         /\ \A x \in 0 .. Len(T), y \in Slot :
              x # t \/ y # s => In(Hung(T, t, s), x, y) = In(T, x, y)
         /\ In(Hung(T, t, s), t, s).address = Len(T) + 1
         /\ \A y \in Slot : In(Hung(T, t, s), Len(T) + 1, y) = Empty
<1> DEFINE n == Len(T) + 1
           table == [T[t] EXCEPT ![s].address = n]
           C == [T EXCEPT ![t][s].address = n]
<1>1. n \in Nat /\ T[t] \in Table /\ T[t][s] \in Cell
  BY DEF Table
<1>2. [T[t][s] EXCEPT !.address = n] \in Cell /\ [T[t][s] EXCEPT !.address = n].address = n
  BY <1>1 DEF Cell
<1>3. table \in Table /\ table[s].address = n /\ \A y \in Slot : y # s => table[y] = T[t][y]
  BY <1>1, <1>2 DEF Table
<1>4. C = [T EXCEPT ![t] = table]
  OBVIOUS
<1> HIDE DEF table, C
<1>5. /\ C \in Seq(Table) /\ Len(C) = Len(T) /\ C[t] = table
      /\ \A x \in 1 .. Len(T) : x # t => C[x] = T[x]
  BY <1>3, <1>4
<1>6. Hung(T, t, s) = Append(C, Fresh)
  BY DEF Hung, C
<1>7. Fresh \in Table /\ \A y \in Slot : Fresh[y] = Empty
  BY FreshTable DEF Fresh
<1>8. /\ Append(C, Fresh) \in Seq(Table) /\ Len(Append(C, Fresh)) = n
      /\ Append(C, Fresh)[n] = Fresh
      /\ \A x \in 1 .. Len(T) : Append(C, Fresh)[x] = C[x]
  BY <1>5, <1>7
<1> HIDE DEF n
<1>9. n # 0 /\ n = Len(T) + 1
  BY DEF n
<1> QED
  BY <1>3, <1>5, <1>6, <1>7, <1>8, <1>9 DEF In

\* The tables stay where they were; the new one has the place below.
LEMMA HungPlaced ==
  ASSUME Cleared, NEW T, NEW R, NEW key, Placed(T, R, key),
         NEW t \in 1 .. Len(T), key[t].level # 5, NEW s \in Slot, T[t][s].address = 0
  PROVE  Placed(Hung(T, t, s), R, Keys(T, key, Child(key[t], s)))
<1> DEFINE n == Len(T) + 1
           k == Child(key[t], s)
           H == Hung(T, t, s)
           K == Keys(T, key, k)
<1>1. /\ T \in Seq(Table) /\ R \in 0 .. Len(T) /\ key \in [1 .. Len(T) -> Key]
      /\ n \in Nat /\ Len(T) \in Nat /\ n # 0
  BY DEF Placed
<1>2. k \in Key /\ k.level # 1
  <2>1. key[t] \in Key /\ key[t].level \in 1 .. 4 /\ s \in Nat
    BY <1>1, Sizes DEF Key, Slot
  <2> QED
    BY <2>1 DEF Key, Child
<1>3. /\ H \in Seq(Table) /\ Len(H) = n
      /\ \A x \in 0 .. Len(T), y \in Slot : x # t \/ y # s => In(H, x, y) = In(T, x, y)
      /\ In(H, t, s).address = n
      /\ \A y \in Slot : In(H, n, y) = Empty
  BY <1>1, HungEntries
<1>4. /\ K \in [1 .. n -> Key] /\ K[n] = k
      /\ \A x \in 1 .. Len(T) : K[x] = key[x]
  BY <1>1, <1>2 DEF Keys
<1> HIDE DEF H, K, k
<1>5. ASSUME NEW x \in 1 .. n, NEW y \in Slot
      PROVE  /\ K[x].level = 5 => H[x][y].address \in Physical \cup {0}
             /\ K[x].level # 5 /\ H[x][y].address # 0 =>
                  /\ H[x][y].address \in 1 .. n
                  /\ K[H[x][y].address] = Child(K[x], y)
  <2>1. CASE x = n
    <3> H[x][y].address = 0
      BY <1>1, <1>3, <2>1, EmptyCell DEF In
    <3> QED
      OBVIOUS
  <2>2. CASE x = t /\ y = s
    <3>1. H[x][y].address = n
      BY <1>1, <1>3, <2>2 DEF In
    <3>2. K[x] = key[t]
      BY <1>4, <2>2
    <3>3. k = Child(K[x], y)
      BY <3>2, <2>2 DEF k
    <3> QED
      BY <3>1, <3>2, <3>3, <1>1, <1>4
  <2>3. CASE x \in 1 .. Len(T) /\ (x # t \/ y # s)
    <3>1. H[x][y] = T[x][y] /\ K[x] = key[x]
      BY <1>3, <1>4, <2>3 DEF In
    <3>2. /\ key[x].level = 5 => T[x][y].address \in Physical \cup {0}
          /\ key[x].level # 5 /\ T[x][y].address # 0 =>
               /\ T[x][y].address \in 1 .. Len(T)
               /\ key[T[x][y].address] = Child(key[x], y)
      BY <2>3 DEF Placed
    <3> QED
      BY <3>1, <3>2, <1>1, <1>4
  <2> QED
    BY <2>1, <2>2, <2>3, <1>1
<1>6. R \in 0 .. n /\ (R # 0 => K[R].level = 1)
  BY <1>1, <1>4 DEF Placed
<1>7. Placed(H, R, K)
  BY <1>3, <1>4, <1>5, <1>6 DEF Placed
<1> QED
  BY <1>7 DEF H, K, k

\* A table on the way to a page is the one it was, or there was none and it
\* is the new one.
Grown(a, b, n) == b = a \/ (a = 0 /\ b = n)

\* One level down from such a table stands such a table.
LEMMA HungStep ==
  ASSUME Cleared, NEW T \in Seq(Table), NEW t \in 1 .. Len(T), NEW s \in Slot,
         T[t][s].address = 0,
         NEW a \in 0 .. Len(T), NEW b, Grown(a, b, Len(T) + 1), NEW y \in Slot
  PROVE  Grown(In(T, a, y).address, In(Hung(T, t, s), b, y).address, Len(T) + 1)
<1>1. CASE a = t /\ y = s
  <2>1. b = a
    BY <1>1 DEF Grown
  <2>2. In(T, t, s).address = 0
    BY DEF In
  <2> QED
    BY <1>1, <2>1, <2>2, HungEntries DEF Grown
<1>2. CASE b = a /\ (a # t \/ y # s)
  BY <1>2, HungEntries DEF Grown
<1>3. CASE a = 0 /\ b = Len(T) + 1
  <2>1. In(T, a, y) = Empty
    BY <1>3 DEF In
  <2> QED
    BY <1>3, <2>1, HungEntries DEF Grown
<1> QED
  BY <1>1, <1>2, <1>3 DEF Grown

\* A new table changes no way that was there, and nothing that the tables say.
LEMMA HungLook ==
  ASSUME Cleared, NEW T, NEW R, NEW key, Placed(T, R, key),
         NEW t \in 1 .. Len(T), key[t].level # 5, NEW s \in Slot, T[t][s].address = 0,
         NEW h \in Slot, NEW m \in Slot
  PROVE  /\ Grown(Mpde(T, R), Mpde(Hung(T, t, s), R), Len(T) + 1)
         /\ Grown(Lpde(T, R), Lpde(Hung(T, t, s), R), Len(T) + 1)
         /\ Grown(LpteOf(T, R, h), LpteOf(Hung(T, t, s), R, h), Len(T) + 1)
         /\ Grown(Pf(T, R, h, m), Pf(Hung(T, t, s), R, h, m), Len(T) + 1)
         /\ \A y \in Slot :
              In(Hung(T, t, s), Pf(Hung(T, t, s), R, h, m), y) = In(T, Pf(T, R, h, m), y)
<1> DEFINE n == Len(T) + 1
           H == Hung(T, t, s)
<1>1. T \in Seq(Table) /\ R \in 0 .. Len(T) /\ 0 \in Slot
  BY EmptyCell DEF Placed
<1>2. /\ Mpde(T, R) \in 0 .. Len(T) /\ Lpde(T, R) \in 0 .. Len(T)
      /\ LpteOf(T, R, h) \in 0 .. Len(T) /\ Pf(T, R, h, m) \in 0 .. Len(T)
      /\ Pf(T, R, h, m) # 0 => key[Pf(T, R, h, m)].level = 5
  <2>1. /\ Pf(T, R, h, m) \in 0 .. Len(T)
        /\ Pf(T, R, h, m) # 0 => key[Pf(T, R, h, m)] = [level |-> 5, h |-> h, m |-> m]
    BY Places
  <2>2. LpteOf(T, R, h) \in 0 .. Len(T)
    BY Fourth
  <2>3. Mpde(T, R) \in 0 .. Len(T) /\ Lpde(T, R) \in 0 .. Len(T)
    BY Upper
  <2> QED
    BY <2>1, <2>2, <2>3
<1>3. \A a \in 0 .. Len(T) : \A b : \A y \in Slot :
        Grown(a, b, n) => Grown(In(T, a, y).address, In(H, b, y).address, n)
  BY <1>1, HungStep
<1>4. Grown(R, R, n)
  BY DEF Grown
<1>5. /\ \A x \in 0 .. Len(T), y \in Slot : x # t => In(H, x, y) = In(T, x, y)
      /\ \A y \in Slot : In(H, n, y) = Empty
  BY <1>1, HungEntries
<1> HIDE DEF n, H
<1>6. Grown(Mpde(T, R), Mpde(H, R), n)
  BY <1>1, <1>3, <1>4 DEF Mpde
<1>7. Grown(Lpde(T, R), Lpde(H, R), n)
  BY <1>1, <1>2, <1>3, <1>6 DEF Lpde
<1>8. Grown(LpteOf(T, R, h), LpteOf(H, R, h), n)
  BY <1>1, <1>2, <1>3, <1>7 DEF LpteOf
<1>9. Grown(Pf(T, R, h, m), Pf(H, R, h, m), n)
  BY <1>1, <1>2, <1>3, <1>8 DEF Pf
<1>10. ASSUME NEW y \in Slot
       PROVE  In(H, Pf(H, R, h, m), y) = In(T, Pf(T, R, h, m), y)
  <2>1. CASE Pf(H, R, h, m) = Pf(T, R, h, m)
    <3>1. Pf(T, R, h, m) # t
      BY <1>2
    <3> QED
      BY <1>2, <1>5, <2>1, <3>1
  <2>2. CASE Pf(T, R, h, m) = 0 /\ Pf(H, R, h, m) = n
    <3>1. In(T, Pf(T, R, h, m), y) = Empty
      BY <2>2 DEF In
    <3> QED
      BY <1>5, <2>2, <3>1
  <2> QED
    BY <1>9, <2>1, <2>2 DEF Grown
<1> QED
  BY <1>6, <1>7, <1>8, <1>9, <1>10 DEF n, H

-------------------------------------------------------------------------------
(* An entry of the last level that is written *)

Put(T, t, s, e) == [T EXCEPT ![t][s] = e]

\* What the entries are then.
LEMMA PutEntries ==
  ASSUME NEW T \in Seq(Table), NEW t \in 1 .. Len(T), NEW s \in Slot, NEW e \in Cell
  PROVE  /\ Put(T, t, s, e) \in Seq(Table) /\ Len(Put(T, t, s, e)) = Len(T)
         /\ \A x \in 0 .. Len(T), y \in Slot :
              x # t \/ y # s => In(Put(T, t, s, e), x, y) = In(T, x, y)
         /\ In(Put(T, t, s, e), t, s) = e
<1> DEFINE table == [T[t] EXCEPT ![s] = e]
           C == [T EXCEPT ![t] = table]
<1>1. T[t] \in Table /\ Len(T) \in Nat
  OBVIOUS
<1>2. table \in Table /\ table[s] = e /\ \A y \in Slot : y # s => table[y] = T[t][y]
  BY <1>1 DEF Table
<1>3. Put(T, t, s, e) = C
  BY DEF Put
<1> HIDE DEF table
<1>4. /\ C \in Seq(Table) /\ Len(C) = Len(T) /\ C[t] = table
      /\ \A x \in 1 .. Len(T) : x # t => C[x] = T[x]
  BY <1>2
<1> HIDE DEF C
<1> QED
  BY <1>1, <1>2, <1>3, <1>4 DEF In

\* The tables stay where they were, and the page that the entry is for is the
\* only one the tables say something else of.
LEMMA PutLook ==
  ASSUME NEW T, NEW R, NEW key, Placed(T, R, key), NEW h \in Slot, NEW m \in Slot,
         Pf(T, R, h, m) # 0, NEW s \in Slot, NEW e \in Cell, e.address \in Physical \cup {0}
  PROVE  /\ Placed(Put(T, Pf(T, R, h, m), s, e), R, key)
         /\ Mpde(Put(T, Pf(T, R, h, m), s, e), R) = Mpde(T, R)
         /\ Lpde(Put(T, Pf(T, R, h, m), s, e), R) = Lpde(T, R)
         /\ \A x, y, z \in Slot :
              In(Put(T, Pf(T, R, h, m), s, e), Pf(Put(T, Pf(T, R, h, m), s, e), R, x, y), z)
                = IF x = h /\ y = m /\ z = s THEN e ELSE In(T, Pf(T, R, x, y), z)
<1> DEFINE t == Pf(T, R, h, m)
           P == Put(T, t, s, e)
<1>1. /\ T \in Seq(Table) /\ R \in 0 .. Len(T) /\ 0 \in Slot /\ Len(T) \in Nat
      /\ key \in [1 .. Len(T) -> Key]
      /\ R # 0 => key[R].level = 1
  BY EmptyCell DEF Placed
<1>2. t \in 1 .. Len(T) /\ key[t] = [level |-> 5, h |-> h, m |-> m]
  BY <1>1, Places
<1> HIDE DEF t
<1>3. /\ P \in Seq(Table) /\ Len(P) = Len(T)
      /\ \A x \in 0 .. Len(T), y \in Slot : x # t \/ y # s => In(P, x, y) = In(T, x, y)
      /\ In(P, t, s) = e
  BY <1>1, <1>2, PutEntries
<1> HIDE DEF P
<1>4. ASSUME NEW x \in 1 .. Len(T), NEW y \in Slot
      PROVE  /\ key[x].level = 5 => P[x][y].address \in Physical \cup {0}
             /\ key[x].level # 5 /\ P[x][y].address # 0 =>
                  /\ P[x][y].address \in 1 .. Len(T)
                  /\ key[P[x][y].address] = Child(key[x], y)
  <2>1. CASE x = t /\ y = s
    <3>1. P[x][y] = e
      BY <1>3, <2>1 DEF In
    <3> QED
      BY <1>2, <2>1, <3>1
  <2>2. CASE x # t \/ y # s
    <3>1. P[x][y] = T[x][y]
      BY <1>3, <2>2 DEF In
    <3> QED
      BY <3>1 DEF Placed
  <2> QED
    BY <2>1, <2>2
<1>5. Placed(P, R, key)
  BY <1>1, <1>3, <1>4 DEF Placed
<1>6. \A x \in 0 .. Len(T), y \in Slot : (x # 0 => key[x].level # 5) => In(P, x, y) = In(T, x, y)
  BY <1>2, <1>3
<1>7. Mpde(P, R) = Mpde(T, R)
  BY <1>1, <1>6 DEF Mpde
<1>8. Lpde(P, R) = Lpde(T, R)
  <2> Mpde(T, R) \in 0 .. Len(T) /\ (Mpde(T, R) # 0 => key[Mpde(T, R)].level = 2)
    BY Upper
  <2> QED
    BY <1>1, <1>6, <1>7 DEF Lpde
<1>9. ASSUME NEW x \in Slot, NEW y \in Slot
      PROVE  Pf(P, R, x, y) = Pf(T, R, x, y)
  <2>0. Lpde(T, R) \in 0 .. Len(T) /\ (Lpde(T, R) # 0 => key[Lpde(T, R)].level = 3)
    BY Upper
  <2>1. /\ LpteOf(T, R, x) \in 0 .. Len(T)
        /\ LpteOf(T, R, x) # 0 => key[LpteOf(T, R, x)].level = 4
    BY Fourth
  <2>2. LpteOf(P, R, x) = LpteOf(T, R, x)
    BY <1>6, <1>8, <2>0 DEF LpteOf
  <2> QED
    BY <1>6, <2>1, <2>2 DEF Pf
<1>10. ASSUME NEW x \in Slot, NEW y \in Slot, NEW z \in Slot
       PROVE  In(P, Pf(P, R, x, y), z)
                = IF x = h /\ y = m /\ z = s THEN e ELSE In(T, Pf(T, R, x, y), z)
  <2>1. /\ Pf(T, R, x, y) \in 0 .. Len(T)
        /\ Pf(T, R, x, y) # 0 => key[Pf(T, R, x, y)] = [level |-> 5, h |-> x, m |-> y]
    BY Places
  <2>2. CASE x = h /\ y = m
    <3>1. Pf(P, R, x, y) = t
      BY <1>9, <2>2 DEF t
    <3> QED
      BY <1>2, <1>3, <2>2, <3>1 DEF t
  <2>3. CASE ~(x = h /\ y = m)
    <3>1. Pf(T, R, x, y) # t
      BY <1>2, <2>1, <2>3
    <3> QED
      BY <1>3, <1>9, <2>1, <2>3, <3>1
  <2> QED
    BY <2>2, <2>3
<1> QED
  BY <1>5, <1>7, <1>8, <1>10 DEF P, t

-------------------------------------------------------------------------------
(* The state *)

Calls == [at : {"idle", "gpde", "mpde", "lpde", "lpte", "pf"}, table : Nat, slot : Nat,
          offset : Nat, vaddr : Nat, page : Nat, attr : Attributes \cup {Absent}]

\* Where a walk stands is told by the page it is for.
Trail ==
  /\ call \in Calls
  /\ call.at # "mpde" /\ Mpde(tables, root) # 0 => Lpde(tables, root) # 0
  /\ call.at # "idle" =>
       root # 0 /\ call.vaddr \in Asked /\ call.page \in Physical /\ call.attr \in Attributes
  /\ call.at = "gpde" => call.table = root /\ call.slot = 0 /\ call.offset = call.vaddr
  /\ call.at = "mpde" => /\ call.table = Mpde(tables, root) /\ call.table # 0
                         /\ call.slot = 0 /\ call.offset = call.vaddr
  /\ call.at = "lpde" => /\ call.table = Lpde(tables, root) /\ call.table # 0
                         /\ call.slot = High(call.vaddr)
                         /\ call.offset = call.vaddr % (Entries * Entries)
  /\ call.at = "lpte" => /\ call.table = LpteOf(tables, root, High(call.vaddr))
                         /\ call.table # 0
                         /\ call.slot = Middle(call.vaddr) /\ call.offset = Low(call.vaddr)
  /\ call.at = "pf"   => /\ call.table = Pf(tables, root, High(call.vaddr), Middle(call.vaddr))
                         /\ call.table # 0
                         /\ call.slot = Low(call.vaddr)

InPlace == \E key : Placed(tables, root, key)

IInv == InPlace /\ Trail

\* The lookup of module Pvm is the lookup above, in this state.
LEMMA Reads == \A v \in Observed : Lookup(v) = Look(tables, root, v)
  BY DEF Lookup, LookupIn, Look, Pf, LpteOf, Lpde, Mpde, In, High, Middle, Low

\* The same of the state after a step.
LEMMA ReadsNext == \A v \in Observed : Lookup(v)' = Look(tables', root', v)
  BY DEF Lookup, LookupIn, Look, Pf, LpteOf, Lpde, Mpde, In, High, Middle, Low

\* No walk is in progress.
LEMMA IdleCall == Idle \in Calls /\ Idle.at = "idle"
  BY DEF Idle, Calls

\* A step down keeps every way that was there and what the tables say, and
\* leads to the table that the entry names now.
Downward(to, g) ==
  /\ InPlace'
  /\ root' = root
  /\ call' = [call EXCEPT !.at = to, !.slot = call.offset \div g,
                          !.offset = call.offset % g,
                          !.table = In(tables', call.table, call.slot).address]
  /\ In(tables', call.table, call.slot).address \in Nat \ {0}
  /\ Mpde(tables, root) # 0 => Mpde(tables', root) = Mpde(tables, root)
  /\ Lpde(tables, root) # 0 => Lpde(tables', root) = Lpde(tables, root)
  /\ \A h \in Slot : LpteOf(tables, root, h) # 0 =>
       LpteOf(tables', root, h) = LpteOf(tables, root, h)
  /\ \A v \in Observed : Lookup(v)' = Lookup(v)

\* So does every Descend from a table of an upper level.
LEMMA Down ==
  ASSUME Cleared, NEW key, Placed(tables, root, key), call \in Calls,
         call.table \in 1 .. Len(tables), key[call.table].level # 5, call.slot \in Slot,
         NEW from, NEW to, NEW g, Descend(from, to, g)
  PROVE  Downward(to, g)
<1> DEFINE t == call.table
           s == call.slot
           H == Hung(tables, t, s)
<1>1. /\ tables \in Seq(Table) /\ Len(tables) \in Nat /\ t # 0 /\ t \in Nat
      /\ tables[t] \in Table /\ tables[t][s].address \in Nat
  BY DEF Placed, Table, Cell
<1>2. root' = root /\ Created
  BY DEF Descend
<1>3. /\ tables' = IF tables[t][s].address = 0 THEN H ELSE tables
  BY <1>2, FreshTable DEF Created, Hung
<1>4. call' = [call EXCEPT !.at = to, !.table = tables'[t][s].address,
                          !.slot = call.offset \div g, !.offset = call.offset % g]
  BY DEF Descend
<1>5. In(tables', t, s).address = tables'[t][s].address
  BY <1>1 DEF In
<1>6. \A v \in Observed : v \in Nat /\ High(v) \in Slot /\ Middle(v) \in Slot /\ Low(v) \in Slot
  BY PvmAssumption, Ranges, Digits
<1>7. CASE tables[t][s].address = 0
  <2>1. tables' = H
    BY <1>3, <1>7
  <2>2. Placed(H, root, Keys(tables, key, Child(key[t], s)))
    BY <1>7, HungPlaced
  <2>3. InPlace'
    BY <1>2, <2>1, <2>2 DEF InPlace
  <2>4. In(H, t, s).address = Len(tables) + 1
    BY <1>1, HungEntries
  <2>5. \A h, m \in Slot :
          /\ Grown(Mpde(tables, root), Mpde(H, root), Len(tables) + 1)
          /\ Grown(Lpde(tables, root), Lpde(H, root), Len(tables) + 1)
          /\ Grown(LpteOf(tables, root, h), LpteOf(H, root, h), Len(tables) + 1)
          /\ \A y \in Slot : In(H, Pf(H, root, h, m), y) = In(tables, Pf(tables, root, h, m), y)
    BY <1>7, HungLook
  <2> HIDE DEF H, t, s
  <2>6. /\ Mpde(tables, root) # 0 => Mpde(H, root) = Mpde(tables, root)
        /\ Lpde(tables, root) # 0 => Lpde(H, root) = Lpde(tables, root)
        /\ \A h \in Slot : LpteOf(tables, root, h) # 0 =>
             LpteOf(H, root, h) = LpteOf(tables, root, h)
    BY <2>5, EmptyCell DEF Grown
  <2>7. \A v \in Observed : Look(H, root, v) = Look(tables, root, v)
    BY <1>6, <2>5 DEF Look
  <2>8. \A v \in Observed : Lookup(v)' = Lookup(v)
    BY <1>2, <2>1, <2>7, Reads, ReadsNext
  <2>9. In(tables', t, s).address \in Nat \ {0}
    BY <1>1, <2>1, <2>4
  <2> QED
    BY <1>2, <1>4, <1>5, <2>1, <2>3, <2>6, <2>8, <2>9 DEF t, s, Downward
<1>8. CASE tables[t][s].address # 0
  <2>1. tables' = tables
    BY <1>3, <1>8
  <2>2. InPlace'
    BY <1>2, <2>1 DEF InPlace
  <2>3. \A v \in Observed : Lookup(v)' = Lookup(v)
    BY <1>2, <2>1, Reads, ReadsNext
  <2>4. In(tables', t, s).address \in Nat \ {0}
    BY <1>1, <1>5, <1>8, <2>1
  <2> QED
    BY <1>2, <1>4, <1>5, <2>1, <2>2, <2>3, <2>4 DEF Downward
<1> QED
  BY <1>7, <1>8

\* The four steps down, each with the table of its level.
LEMMA DescentSafe ==
  ASSUME Cleared, IInv, VmiMapGpde \/ VmiMapMpde \/ VmiMapLpde \/ VmiMapLpte
  PROVE  /\ IInv' /\ call.at # "idle" /\ call'.at # "idle"
         /\ call'.vaddr = call.vaddr /\ call'.page = call.page /\ call'.attr = call.attr
         /\ \A v \in Observed : Lookup(v)' = Lookup(v)
<1> DEFINE v == call.vaddr
           g == CASE call.at = "gpde" -> Entries * Entries * Entries * Entries
                  [] call.at = "mpde" -> Entries * Entries
                  [] call.at = "lpde" -> Entries
                  [] call.at = "lpte" -> 1
           to == CASE call.at = "gpde" -> "mpde"
                   [] call.at = "mpde" -> "lpde"
                   [] call.at = "lpde" -> "lpte"
                   [] call.at = "lpte" -> "pf"
           from == call.at
<1>1. PICK key : Placed(tables, root, key)
  BY DEF IInv, InPlace
<1>2. call \in Calls /\ Trail
  BY DEF IInv, Trail
<1>3. from \in {"gpde", "mpde", "lpde", "lpte"} /\ Descend(from, to, g)
  <2>1. CASE VmiMapGpde
    BY <2>1 DEF VmiMapGpde, Descend
  <2>2. CASE VmiMapMpde
    BY <2>2 DEF VmiMapMpde, Descend
  <2>3. CASE VmiMapLpde
    BY <2>3 DEF VmiMapLpde, Descend
  <2>4. CASE VmiMapLpte
    BY <2>4 DEF VmiMapLpte, Descend
  <2> QED
    BY <2>1, <2>2, <2>3, <2>4
<1>4. /\ root # 0 /\ v \in Asked /\ call.page \in Physical /\ call.attr \in Attributes
      /\ v \in Virtual /\ v \in Nat
      /\ High(v) \in Slot /\ Middle(v) \in Slot /\ Low(v) \in Slot
      /\ 0 \in Slot /\ Slot \subseteq Nat
  <2>1. root # 0 /\ v \in Asked /\ call.page \in Physical /\ call.attr \in Attributes
    BY <1>2, <1>3 DEF Trail
  <2>2. v \in Virtual
    BY <2>1, PvmAssumption
  <2>3. v \in Nat /\ High(v) \in Slot
    BY <2>2, Ranges
  <2>4. Middle(v) \in Slot /\ Low(v) \in Slot
    BY <2>3, Digits
  <2> QED
    BY <2>1, <2>2, <2>3, <2>4, Sizes DEF Slot
<1>5. /\ tables \in Seq(Table) /\ Len(tables) \in Nat /\ root \in 0 .. Len(tables)
      /\ key[root].level = 1
  BY <1>1, <1>4 DEF Placed
<1>6. /\ call.table \in 1 .. Len(tables) /\ key[call.table].level # 5 /\ call.slot \in Slot
  <2>1. CASE from = "gpde"
    <3>1. call.table = root /\ call.slot = 0
      BY <1>2, <2>1 DEF Trail
    <3> QED
      BY <1>4, <1>5, <3>1
  <2>2. CASE from = "mpde"
    <3>1. call.table = Mpde(tables, root) /\ call.table # 0 /\ call.slot = 0
      BY <1>2, <2>2 DEF Trail
    <3>2. Mpde(tables, root) \in 0 .. Len(tables)
          /\ (Mpde(tables, root) # 0 => key[Mpde(tables, root)].level = 2)
      BY <1>1, Upper
    <3> QED
      BY <1>4, <1>5, <3>1, <3>2
  <2>3. CASE from = "lpde"
    <3>1. call.table = Lpde(tables, root) /\ call.table # 0 /\ call.slot = High(v)
      BY <1>2, <2>3 DEF Trail
    <3>2. Lpde(tables, root) \in 0 .. Len(tables)
          /\ (Lpde(tables, root) # 0 => key[Lpde(tables, root)].level = 3)
      BY <1>1, Upper
    <3> QED
      BY <1>4, <1>5, <3>1, <3>2
  <2>4. CASE from = "lpte"
    <3>1. call.table = LpteOf(tables, root, High(v)) /\ call.table # 0 /\ call.slot = Middle(v)
      BY <1>2, <2>4 DEF Trail
    <3>2. \A h \in Slot :
            /\ LpteOf(tables, root, h) \in 0 .. Len(tables)
            /\ LpteOf(tables, root, h) # 0 => key[LpteOf(tables, root, h)].level = 4
      BY <1>1, Fourth
    <3>3. /\ LpteOf(tables, root, High(v)) \in 0 .. Len(tables)
          /\ LpteOf(tables, root, High(v)) # 0 => key[LpteOf(tables, root, High(v))].level = 4
      BY <1>4, <3>2
    <3> QED
      BY <1>4, <1>5, <3>1, <3>3
  <2> QED
    BY <1>3, <2>1, <2>2, <2>3, <2>4
<1> DEFINE below == In(tables', call.table, call.slot).address
<1>7. /\ InPlace' /\ root' = root
      /\ call' = [call EXCEPT !.at = to, !.slot = call.offset \div g,
                              !.offset = call.offset % g, !.table = below]
      /\ below \in Nat \ {0}
      /\ Mpde(tables, root) # 0 => Mpde(tables', root) = Mpde(tables, root)
      /\ Lpde(tables, root) # 0 => Lpde(tables', root) = Lpde(tables, root)
      /\ \A h \in Slot : LpteOf(tables, root, h) # 0 =>
           LpteOf(tables', root, h) = LpteOf(tables, root, h)
      /\ \A u \in Observed : Lookup(u)' = Lookup(u)
  <2> HIDE DEF to, g, below
  <2>1. PICK f, x, d : f = from /\ x = to /\ d = g /\ Descend(f, x, d)
    BY <1>3
  <2>2. Downward(x, d)
    BY <1>1, <1>2, <1>6, <2>1, Down
  <2> QED
    BY <2>1, <2>2 DEF below, Downward
<1> HIDE DEF below, g, to
<1>8. /\ call'.at = to /\ call'.slot = call.offset \div g /\ call'.offset = call.offset % g
      /\ call'.table = below /\ call'.vaddr = v /\ call'.page = call.page
      /\ call'.attr = call.attr
      /\ call' = [at |-> to, table |-> below, slot |-> call.offset \div g,
                  offset |-> call.offset % g, vaddr |-> v, page |-> call.page,
                  attr |-> call.attr]
  BY <1>2, <1>7 DEF Calls
<1>9. to \in {"mpde", "lpde", "lpte", "pf"}
  BY <1>3 DEF to
<1>10. call'.slot \in Nat /\ call'.offset \in Nat => call' \in Calls
  BY <1>2, <1>7, <1>8, <1>9 DEF Calls
<1>11. Trail'
  <2>1. CASE from = "gpde"
    <3>1. to = "mpde" /\ g = Entries * Entries * Entries * Entries
      BY <2>1 DEF to, g
    <3>2. call.table = root /\ call.slot = 0 /\ call.offset = v
      BY <1>2, <2>1 DEF Trail
    <3>3. below = Mpde(tables', root)
      BY <3>2 DEF below, Mpde
    <3>4. call'.slot = 0 /\ call'.offset = v
      BY <1>4, <1>8, <3>1, <3>2, Ranges
    <3>5. call' \in Calls
      BY <1>4, <1>10, <3>4
    <3> QED
      BY <1>4, <1>7, <1>8, <3>1, <3>3, <3>4, <3>5 DEF Trail
  <2>2. CASE from = "mpde"
    <3>1. to = "lpde" /\ g = Entries * Entries
      BY <2>2 DEF to, g
    <3>2. call.table = Mpde(tables, root) /\ call.table # 0 /\ call.slot = 0 /\ call.offset = v
      BY <1>2, <2>2 DEF Trail
    <3>3. below = Lpde(tables', root)
      BY <1>7, <3>2 DEF below, Lpde
    <3>4. call'.slot = High(v) /\ call'.offset = v % (Entries * Entries)
      BY <1>8, <3>1, <3>2 DEF High
    <3>5. call' \in Calls
      <4>1. v % (Entries * Entries) \in Nat
        BY <1>4, Sizes, DivMod
      <4> QED
        BY <1>4, <1>10, <3>4, <4>1
    <3> QED
      BY <1>4, <1>7, <1>8, <3>1, <3>3, <3>4, <3>5 DEF Trail
  <2>3. CASE from = "lpde"
    <3>1. to = "lpte" /\ g = Entries
      BY <2>3 DEF to, g
    <3>2. /\ call.table = Lpde(tables, root) /\ call.table # 0 /\ call.slot = High(v)
          /\ call.offset = v % (Entries * Entries)
      BY <1>2, <2>3 DEF Trail
    <3>3. below = LpteOf(tables', root, High(v))
      BY <1>7, <3>2 DEF below, LpteOf
    <3>4. call'.slot = Middle(v) /\ call'.offset = Low(v)
      BY <1>4, <1>8, <3>1, <3>2, Digits
    <3>5. call' \in Calls
      BY <1>4, <1>10, <3>4
    <3>6. Lpde(tables', root) # 0
      BY <1>7, <3>2
    <3> QED
      BY <1>4, <1>7, <1>8, <3>1, <3>3, <3>4, <3>5, <3>6 DEF Trail
  <2>4. CASE from = "lpte"
    <3>1. to = "pf" /\ g = 1
      BY <2>4 DEF to, g
    <3>2. /\ call.table = LpteOf(tables, root, High(v)) /\ call.table # 0
          /\ call.slot = Middle(v) /\ call.offset = Low(v)
      BY <1>2, <2>4 DEF Trail
    <3>3. below = Pf(tables', root, High(v), Middle(v))
      BY <1>4, <1>7, <3>2 DEF below, Pf
    <3>4. call'.slot = Low(v) /\ call'.offset = 0
      <4>1. \A x \in Nat : x \div 1 = x /\ x % 1 = 0
        OBVIOUS
      <4>2. Low(v) \in Nat
        BY <1>4
      <4>3. call'.slot = Low(v) \div 1 /\ call'.offset = Low(v) % 1
        BY <1>8, <3>1, <3>2
      <4> QED
        BY <4>1, <4>2, <4>3
    <3>5. call' \in Calls
      BY <1>4, <1>10, <3>4
    <3>6. Mpde(tables', root) # 0 => Lpde(tables', root) # 0
      <4>1. Lpde(tables, root) # 0
        BY <1>4, <3>2, EmptyCell DEF LpteOf, In
      <4> QED
        BY <1>7, <4>1
    <3> QED
      BY <1>4, <1>7, <1>8, <3>1, <3>3, <3>4, <3>5, <3>6 DEF Trail
  <2> QED
    BY <1>3, <2>1, <2>2, <2>3, <2>4
<1> QED
  BY <1>3, <1>7, <1>8, <1>9, <1>11 DEF IInv

\* The last step writes the page that was asked for.
LEMMA PutSafe ==
  ASSUME IInv, VmiMapPf
  PROVE  /\ IInv' /\ call.at # "idle" /\ call' = Idle
         /\ call.vaddr \in Observed
         /\ \A u \in Observed :
              Lookup(u)' = IF u = call.vaddr THEN Entry(call.page, call.attr) ELSE Lookup(u)
<1> DEFINE v == call.vaddr
           e == Entry(call.page, call.attr)
<1>1. PICK key : Placed(tables, root, key)
  BY DEF IInv, InPlace
<1>2. /\ call.at = "pf" /\ call' = Idle /\ root' = root
      /\ tables' = [tables EXCEPT ![call.table][call.slot] = e]
  BY DEF VmiMapPf
<1>3. /\ v \in Asked /\ call.page \in Physical /\ call.attr \in Attributes
      /\ call.table = Pf(tables, root, High(v), Middle(v)) /\ call.table # 0
      /\ call.slot = Low(v)
      /\ Mpde(tables, root) # 0 => Lpde(tables, root) # 0
  BY <1>2 DEF IInv, Trail
<1>4. v \in Observed /\ v \in Nat
      /\ High(v) \in Slot /\ Middle(v) \in Slot /\ Low(v) \in Slot
  <2>1. v \in Observed /\ v \in Virtual
    BY <1>3, PvmAssumption
  <2>2. v \in Nat /\ High(v) \in Slot
    BY <2>1, Ranges
  <2> QED
    BY <2>1, <2>2, Digits
<1>5. e \in Cell /\ e.address \in Physical \cup {0}
  BY <1>3, PvmAssumption DEF Entry, Cell
<1> HIDE DEF e
<1>6. PICK h \in Slot, m \in Slot, s \in Slot, c \in Cell :
        h = High(v) /\ m = Middle(v) /\ s = Low(v) /\ c = e
  BY <1>4, <1>5
<1> DEFINE P == Put(tables, Pf(tables, root, h, m), s, c)
<1>7. tables' = P
  BY <1>2, <1>3, <1>6 DEF Put
<1>8. /\ Placed(P, root, key)
      /\ Mpde(P, root) = Mpde(tables, root)
      /\ Lpde(P, root) = Lpde(tables, root)
      /\ \A x, y, z \in Slot :
           In(P, Pf(P, root, x, y), z)
             = IF x = h /\ y = m /\ z = s THEN c ELSE In(tables, Pf(tables, root, x, y), z)
  BY <1>1, <1>3, <1>5, <1>6, PutLook
<1> HIDE DEF P
<1>9. ASSUME NEW u \in Observed
      PROVE  Look(P, root, u) = IF u = v THEN e ELSE Look(tables, root, u)
  <2>1. u \in Nat /\ High(u) \in Slot /\ Middle(u) \in Slot /\ Low(u) \in Slot
    BY PvmAssumption, Ranges, Digits
  <2>2. High(u) = h /\ Middle(u) = m /\ Low(u) = s <=> u = v
    BY <1>4, <1>6, <2>1, SameDigits
  <2> QED
    BY <1>6, <1>8, <2>1, <2>2 DEF Look
<1>10. IInv'
  <2>1. InPlace'
    BY <1>2, <1>7, <1>8 DEF InPlace
  <2>2. Trail'
    BY <1>2, <1>3, <1>7, <1>8, IdleCall DEF Trail
  <2> QED
    BY <2>1, <2>2 DEF IInv
<1>11. ASSUME NEW u \in Observed
       PROVE  Lookup(u)' = IF u = v THEN e ELSE Lookup(u)
  <2>1. Lookup(u)' = Look(tables', root', u) /\ Lookup(u) = Look(tables, root, u)
    BY Reads, ReadsNext
  <2>2. Look(tables', root', u) = Look(P, root, u)
    BY <1>2, <1>7
  <2> QED
    BY <1>9, <2>1, <2>2
<1> QED
  BY <1>2, <1>4, <1>10, <1>11 DEF e

\* Before anything is mapped the tables say nothing.
LEMMA Nothing ==
  ASSUME NEW T, NEW R, R = 0 \/ In(T, R, 0) = Empty, NEW v
  PROVE  Mpde(T, R) = 0 /\ Look(T, R, v) = Empty
<1>1. Mpde(T, R) = 0
  BY EmptyCell DEF Mpde, In
<1>2. Lpde(T, R) = 0
  BY <1>1, EmptyCell DEF Lpde, In
<1>3. LpteOf(T, R, High(v)) = 0
  BY <1>2, EmptyCell DEF LpteOf, In
<1>4. Pf(T, R, High(v), Middle(v)) = 0
  BY <1>3, EmptyCell DEF Pf, In
<1> QED
  BY <1>1, <1>4 DEF Look, In

\* The root table is a fresh one.
LEMMA InitializeSafe ==
  ASSUME Cleared, IInv, HalInitializeDescription
  PROVE  /\ IInv' /\ \A v \in Observed : Lookup(v)' = Lookup(v)
         /\ UNCHANGED <<call, hardware>>
<1>1. PICK key : Placed(tables, root, key)
  BY DEF IInv, InPlace
<1> DEFINE n == Len(tables) + 1
           k == [level |-> 1, h |-> 0, m |-> 0]
           K == Keys(tables, key, k)
           A == Append(tables, Fresh)
<1>2. /\ root = 0 /\ call = Idle /\ call' = call /\ hardware' = hardware
      /\ tables' = A /\ root' = Len(A)
  BY FreshTable DEF HalInitializeDescription
<1>3. /\ tables \in Seq(Table) /\ Len(tables) \in Nat /\ n \in Nat /\ n # 0
      /\ key \in [1 .. Len(tables) -> Key] /\ Fresh \in Table
      /\ \A y \in Slot : Fresh[y] = Empty
  BY <1>1, FreshTable DEF Placed, Fresh
<1>4. /\ A \in Seq(Table) /\ Len(A) = n /\ A[n] = Fresh
      /\ \A x \in 1 .. Len(tables) : A[x] = tables[x]
  BY <1>3
<1>5. k \in Key /\ k.level = 1
  BY DEF Key
<1>6. /\ K \in [1 .. n -> Key] /\ K[n] = k
      /\ \A x \in 1 .. Len(tables) : K[x] = key[x]
  BY <1>3, <1>5 DEF Keys
<1> HIDE DEF A, K, k
<1>7. ASSUME NEW x \in 1 .. n, NEW y \in Slot
      PROVE  /\ K[x].level = 5 => A[x][y].address \in Physical \cup {0}
             /\ K[x].level # 5 /\ A[x][y].address # 0 =>
                  /\ A[x][y].address \in 1 .. n
                  /\ K[A[x][y].address] = Child(K[x], y)
  <2>1. CASE x = n
    BY <1>3, <1>4, <2>1, EmptyCell
  <2>2. CASE x \in 1 .. Len(tables)
    <3>1. A[x][y] = tables[x][y] /\ K[x] = key[x]
      BY <1>4, <1>6, <2>2
    <3>2. /\ key[x].level = 5 => tables[x][y].address \in Physical \cup {0}
          /\ key[x].level # 5 /\ tables[x][y].address # 0 =>
               /\ tables[x][y].address \in 1 .. Len(tables)
               /\ key[tables[x][y].address] = Child(key[x], y)
      BY <1>1, <2>2 DEF Placed
    <3> QED
      BY <1>3, <1>6, <3>1, <3>2
  <2> QED
    BY <1>3, <2>1, <2>2
<1>8. Placed(A, n, K)
  <2>1. A \in Seq(Table) /\ n \in 0 .. Len(A) /\ K \in [1 .. Len(A) -> Key]
    BY <1>3, <1>4, <1>6
  <2>2. K[n].level = 1
    BY <1>5, <1>6
  <2>3. Len(A) = n
    BY <1>4
  <2> QED
    BY <1>7, <2>1, <2>2, <2>3 DEF Placed
<1>9. /\ Mpde(A, n) = 0
      /\ \A v : Look(A, n, v) = Empty /\ Look(tables, root, v) = Empty
  <2>1. In(A, n, 0) = Empty
    BY <1>3, <1>4, EmptyCell DEF In
  <2> HIDE DEF n
  <2> QED
    BY <1>2, <2>1, Nothing
<1>10. IInv'
  <2>1. InPlace'
    BY <1>2, <1>4, <1>8 DEF InPlace
  <2>2. Trail'
    BY <1>2, <1>4, <1>9, IdleCall DEF Trail
  <2> QED
    BY <2>1, <2>2 DEF IInv
<1>11. \A v \in Observed : Lookup(v)' = Lookup(v)
  BY <1>2, <1>4, <1>9, Reads, ReadsNext
<1> QED
  BY <1>2, <1>10, <1>11

\* A call starts at the root, and is the one request there is.
LEMMA CallSafe ==
  ASSUME IInv, root # 0, NEW v \in Asked, NEW p \in Physical, NEW a \in Attributes,
         VmMapDescription(v, p, a)
  PROVE  /\ IInv' /\ \A u \in Observed : Lookup(u)' = Lookup(u)
         /\ call = Idle /\ hardware' = hardware
         /\ call'.at = "gpde" /\ call'.vaddr = v /\ call'.page = p /\ call'.attr = a
<1>1. /\ tables' = tables /\ root' = root /\ call = Idle /\ hardware' = hardware
      /\ call' = [at |-> "gpde", table |-> root, slot |-> 0, offset |-> v,
                  vaddr |-> v, page |-> p, attr |-> a]
  BY DEF VmMapDescription
<1>2. InPlace'
  BY <1>1 DEF IInv, InPlace
<1>3. root \in Nat
  BY DEF IInv, InPlace, Placed
<1>4. v \in Nat /\ p \in Nat
  BY PvmAssumption, Ranges
<1>5. call' \in Calls
  BY <1>1, <1>3, <1>4 DEF Calls
<1>6. Mpde(tables, root) # 0 => Lpde(tables, root) # 0
  BY <1>1, IdleCall DEF IInv, Trail
<1>7. Trail'
  BY <1>1, <1>5, <1>6 DEF Trail
<1> QED
  BY <1>1, <1>2, <1>7, Reads, ReadsNext DEF IInv

-------------------------------------------------------------------------------
(* The processor's tables *)

\* The tables of a directory, as HalSetDescription reads them.
LEMMA Halves ==
  ASSUME NEW key, Placed(tables, root, key), Mpde(tables, root) # 0,
         Lpde(tables, root) # 0, NEW d \in Slot
  PROVE  /\ LpdeTable[d].address = LpteOf(tables, root, d)
         /\ LpteOf(tables, root, d) # 0 =>
              \A m \in Slot : Lpte(d)[m].address = Pf(tables, root, d, m)
<1>1. root # 0 /\ Mpde(tables, root) = tables[root][0].address
  BY EmptyCell DEF Mpde, In
<1>2. LpdeTable = tables[Lpde(tables, root)]
  BY <1>1 DEF LpdeTable, Lpde, In
<1>3. LpdeTable[d].address = LpteOf(tables, root, d)
  BY <1>2 DEF LpteOf, In
<1> QED
  BY <1>3 DEF Lpte, Pf, In

\* The pairs of a directory are packed without moving when none is missing.
LEMMA Packed ==
  ASSUME NEW d, NEW k \in Nat, \A j \in 0 .. k : PairUsed(d, j)
  PROVE  /\ Counter(d, k) = k
         /\ \A x \in Nat : PairUsed(d, x) /\ Counter(d, x) = k => x = k
<1> DEFINE U(x) == {j \in 0 .. x - 1 : PairUsed(d, j)}
<1>1. \A x \in Nat : Cardinality(0 .. x - 1) = x /\ IsFiniteSet(0 .. x - 1)
  <2> TAKE x \in Nat
  <2>1. /\ IsFiniteSet(0 .. x - 1)
        /\ Cardinality(0 .. x - 1) = IF 0 > x - 1 THEN 0 ELSE (x - 1) - 0 + 1
    BY FS_Interval
  <2> QED
    BY <2>1
<1>2. \A x \in Nat : x <= k => Counter(d, x) = x
  <2> TAKE x \in Nat
  <2> HAVE x <= k
  <2>1. U(x) = 0 .. x - 1
    OBVIOUS
  <2> QED
    BY <1>1, <2>1 DEF Counter
<1>3. ASSUME NEW x \in Nat, x > k PROVE Counter(d, x) # k
  <2>1. 0 .. (k + 1) - 1 \subseteq U(x) /\ U(x) \subseteq 0 .. x - 1
    BY <1>3
  <2>2. IsFiniteSet(0 .. x - 1) /\ Cardinality(0 .. (k + 1) - 1) = k + 1
    <3>1. IsFiniteSet(0 .. x - 1)
      BY <1>1
    <3>2. k + 1 \in Nat
      OBVIOUS
    <3>3. Cardinality(0 .. (k + 1) - 1) = k + 1
      BY <1>1, <3>2
    <3> QED
      BY <3>1, <3>3
  <2>3. IsFiniteSet(U(x))
    BY <2>1, <2>2, FS_Subset
  <2>4. Cardinality(0 .. (k + 1) - 1) <= Cardinality(U(x)) /\ Cardinality(U(x)) \in Nat
    BY <2>1, <2>3, FS_Subset, FS_CardinalityType
  <2>5. Counter(d, x) = Cardinality(U(x))
    BY DEF Counter
  <2> QED
    BY <2>2, <2>4, <2>5
<1> QED
  BY <1>2, <1>3

\* What a processor's table holds: the pages of its two halves.
LEMMA PteEntries ==
  ASSUME NEW key, Placed(tables, root, key), Mpde(tables, root) # 0, Lpde(tables, root) # 0,
         NEW d \in Slot, LpteOf(tables, root, d) # 0, NEW k \in 0 .. RegionCount - 1
  PROVE  /\ PteTable(d, k) \in [0 .. RegionSize - 1 -> Physical \cup {0, NoPage}]
         /\ \A q \in 0 .. RegionSize - 1, m \in Slot, s \in Slot :
              /\ 2 * k + (q \div Entries) = m /\ q % Entries = s
              /\ Pf(tables, root, d, m) # 0
              => PteTable(d, k)[q] = In(tables, Pf(tables, root, d, m), s).address
<1>1. \A m \in Slot : Lpte(d)[m].address = Pf(tables, root, d, m)
  BY Halves
<1>2. ASSUME NEW q \in 0 .. RegionSize - 1
      PROVE  2 * k + (q \div Entries) \in Slot /\ q % Entries \in Slot
  <2>1. /\ q \in Nat /\ Entries \in Nat \ {0} /\ RegionCount \in Nat /\ q < 2 * Entries
        /\ Entries = 2 * RegionCount
    BY Sizes
  <2>2. /\ q \div Entries \in Nat /\ q % Entries \in Nat /\ q % Entries < Entries
        /\ q = Entries * (q \div Entries) + (q % Entries)
    BY <2>1, DivMod
  <2>3. q \div Entries < 2
    <3> SUFFICES ASSUME q \div Entries >= 2 PROVE FALSE
      BY <2>2
    <3>1. PICK x \in Nat : q \div Entries = 2 + x
      <4> (q \div Entries) - 2 \in Nat /\ q \div Entries = 2 + ((q \div Entries) - 2)
        BY <2>2
      <4> QED
        OBVIOUS
    <3>2. Entries * (2 + x) = 2 * Entries + Entries * x /\ Entries * x \in Nat
      BY <2>1
    <3> QED
      BY <2>1, <2>2, <3>1, <3>2
  <2>4. 2 * k + (q \div Entries) \in 0 .. Entries - 1
    BY <2>1, <2>2, <2>3
  <2> QED
    BY <2>1, <2>2, <2>4 DEF Slot
<1>3. ASSUME NEW q \in 0 .. RegionSize - 1, NEW m \in Slot, NEW s \in Slot,
             2 * k + (q \div Entries) = m, q % Entries = s
      PROVE  PteTable(d, k)[q] = IF Pf(tables, root, d, m) = 0 THEN NoPage
                                 ELSE In(tables, Pf(tables, root, d, m), s).address
  BY <1>1, <1>3 DEF PteTable, In
<1>4. ASSUME NEW q \in 0 .. RegionSize - 1
      PROVE  PteTable(d, k)[q] \in Physical \cup {0, NoPage}
  <2>1. PICK m \in Slot, s \in Slot : 2 * k + (q \div Entries) = m /\ q % Entries = s
    BY <1>2
  <2>2. In(tables, Pf(tables, root, d, m), s).address \in Physical \cup {0}
    BY LastLevel
  <2> QED
    BY <1>3, <2>1, <2>2
<1>5. PteTable(d, k) \in [0 .. RegionSize - 1 -> Physical \cup {0, NoPage}]
  BY <1>4 DEF PteTable
<1> QED
  BY <1>3, <1>5

\* Loading leaves the tables alone; what the processor finds is a page or
\* none, and it is what the tables say where the pages are dense.
LEMMA LoadSafe ==
  ASSUME IInv, HalSetDescription
  PROVE  IInv' /\ Abstract!Load
<1>1. PICK key : Placed(tables, root, key)
  BY DEF IInv, InPlace
<1>2. /\ call = Idle /\ call' = call /\ tables' = tables /\ root' = root /\ root # 0
      /\ tables[root][0].address # 0
  BY DEF HalSetDescription
<1>3. IInv'
  BY <1>2 DEF IInv, InPlace, Trail
<1>4. Mpde(tables, root) # 0 /\ Lpde(tables, root) # 0
  <2>1. Mpde(tables, root) # 0
    BY <1>2 DEF Mpde, In
  <2> QED
    BY <1>2, <2>1, IdleCall DEF IInv, Trail
<1> DEFINE There(r) == {k \in 0 .. RegionCount - 1 :
                          PairUsed(r \div RegionCount, k)
                            /\ Counter(r \div RegionCount, k) = r % RegionCount}
<1>5. \A r \in Regions :
        hardware'[r] = IF LpdeTable[r \div RegionCount].address = 0 \/ There(r) = {}
                       THEN NoPage
                       ELSE PteTable(r \div RegionCount, CHOOSE k \in There(r) : TRUE)
  BY DEF HalSetDescription
<1> HIDE DEF There
<1>6. ASSUME NEW u \in Observed
      PROVE  /\ u \in Nat /\ u \in Virtual
             /\ High(u) \in Slot /\ Middle(u) \in Slot /\ Low(u) \in Slot
             /\ u \div RegionSize \in Regions /\ (u \div RegionSize) \div RegionCount = High(u)
             /\ (u \div RegionSize) % RegionCount = Middle(u) \div 2
             /\ u \div RegionSize = RegionCount * High(u) + (Middle(u) \div 2)
             /\ Middle(u) \div 2 \in 0 .. RegionCount - 1
             /\ u % RegionSize \in 0 .. RegionSize - 1
             /\ 2 * (Middle(u) \div 2) + ((u % RegionSize) \div Entries) = Middle(u)
             /\ (u % RegionSize) % Entries = Low(u)
  <2>1. u \in Virtual
    BY PvmAssumption
  <2>2. u \in Nat /\ High(u) \in Slot /\ u \div RegionSize \in Regions
    BY <2>1, Ranges
  <2>3. Middle(u) \in Slot /\ Low(u) \in Slot
    BY <2>2, Digits
  <2>4. /\ (u \div RegionSize) \div RegionCount = High(u)
        /\ (u \div RegionSize) % RegionCount = Middle(u) \div 2
        /\ u \div RegionSize = RegionCount * High(u) + (Middle(u) \div 2)
        /\ Middle(u) \div 2 \in 0 .. RegionCount - 1
    BY <2>2, Region
  <2>5. /\ u % RegionSize \in 0 .. RegionSize - 1
        /\ 2 * (Middle(u) \div 2) + ((u % RegionSize) \div Entries) = Middle(u)
        /\ (u % RegionSize) % Entries = Low(u)
    BY <2>2, Region
  <2> QED
    BY <2>1, <2>2, <2>3, <2>4, <2>5
<1>7. \A d \in Slot, k \in 0 .. RegionCount - 1 : LpteOf(tables, root, d) # 0 =>
        /\ PteTable(d, k) \in [0 .. RegionSize - 1 -> Physical \cup {0, NoPage}]
        /\ PteTable(d, k) # NoPage
  <2> TAKE d \in Slot, k \in 0 .. RegionCount - 1
  <2> HAVE LpteOf(tables, root, d) # 0
  <2>1. PteTable(d, k) \in [0 .. RegionSize - 1 -> Physical \cup {0, NoPage}]
    BY <1>1, <1>4, PteEntries
  <2>2. Physical \cup {0, NoPage} \subseteq Nat \cup {NoPage}
    <3>1. Physical \subseteq Nat /\ 0 \in Nat
      BY PvmAssumption
    <3> QED
      BY <3>1
  <2>3. PteTable(d, k) \in [0 .. RegionSize - 1 -> Nat \cup {NoPage}]
    BY <2>1, <2>2
  <2> QED
    BY <2>1, <2>3, PvmAssumption
<1>8. \A d \in Slot : LpdeTable[d].address = LpteOf(tables, root, d)
  BY <1>1, <1>4, Halves
<1>9. ASSUME NEW u \in Observed
      PROVE  Translate(u)' \in Physical \cup {0, NoPage}
  <2> DEFINE r == u \div RegionSize
             k == CHOOSE x \in There(r) : TRUE
  <2>1. hardware'[r] = IF LpteOf(tables, root, High(u)) = 0 \/ There(r) = {}
                       THEN NoPage ELSE PteTable(High(u), k)
    BY <1>5, <1>6, <1>8
  <2>2. CASE hardware'[r] = NoPage
    BY <2>2 DEF Translate
  <2>3. CASE hardware'[r] # NoPage
    <3>1. LpteOf(tables, root, High(u)) # 0 /\ There(r) # {} /\ hardware'[r] = PteTable(High(u), k)
      BY <2>1, <2>3
    <3>2. k \in There(r)
      BY <3>1
    <3>3. k \in 0 .. RegionCount - 1
      BY <3>2 DEF There
    <3> HIDE DEF k
    <3>4. PteTable(High(u), k) \in [0 .. RegionSize - 1 -> Physical \cup {0, NoPage}]
      BY <1>6, <1>7, <3>1, <3>3
    <3>5. hardware'[r][u % RegionSize] \in Physical \cup {0, NoPage}
      BY <1>6, <3>1, <3>4
    <3> QED
      BY <2>3, <3>5 DEF Translate
  <2> QED
    BY <2>2, <2>3
<1>10. ASSUME NEW u \in Observed, Lookup(u) # Empty
       PROVE  /\ Pf(tables, root, High(u), Middle(u)) # 0 /\ LpteOf(tables, root, High(u)) # 0
              /\ PairUsed(High(u), Middle(u) \div 2)
  <2>1. Pf(tables, root, High(u), Middle(u)) # 0
    BY <1>10, Reads DEF Look, In
  <2>2. LpteOf(tables, root, High(u)) # 0
    BY <2>1, EmptyCell DEF Pf, In
  <2>3. Lpte(High(u))[Middle(u)].address # 0
    BY <1>1, <1>4, <1>6, <2>1, <2>2, Halves
  <2>4. Middle(u) = 2 * (Middle(u) \div 2) \/ Middle(u) = 2 * (Middle(u) \div 2) + 1
    BY <1>6 DEF Slot
  <2> QED
    BY <2>1, <2>2, <2>3, <2>4 DEF PairUsed
<1>11. ASSUME Abstract!Dense, NEW v \in Observed, Lookup(v) # Empty
       PROVE  Translate(v)' = Lookup(v).address
  <2> DEFINE k == Middle(v) \div 2
             d == High(v)
             r == v \div RegionSize
  <2>1. /\ k \in Nat /\ k \in 0 .. RegionCount - 1 /\ d \in Nat /\ d \in Slot
        /\ r = RegionCount * d + k /\ r \div RegionCount = d /\ r % RegionCount = k
        /\ r \in Regions /\ RegionCount \in Nat \ {0}
    BY <1>6, Sizes, Digits
  <2> HIDE DEF k, d, r
  <2>2. ASSUME NEW j \in 0 .. k PROVE PairUsed(d, j)
    <3> DEFINE q == RegionCount * d + j
    <3>1. q \in (r \div RegionCount) * RegionCount .. r
      <4>1. (r \div RegionCount) * RegionCount = RegionCount * d /\ RegionCount * d \in Nat
        BY <2>1
      <4> QED
        BY <2>1, <4>1
    <3> HIDE DEF q
    <3>2. r \in Abstract!Regions
      BY <1>11 DEF Abstract!Regions, r
    <3>3. q \in Abstract!Regions
      BY <1>11, <3>1, <3>2 DEF Abstract!Dense
    <3>4. PICK u \in Observed : Lookup(u) # Empty /\ u \div RegionSize = q
      BY <3>3 DEF Abstract!Regions
    <3>5. PairUsed(High(u), Middle(u) \div 2)
      BY <1>10, <3>4
    <3>6. RegionCount * High(u) + (Middle(u) \div 2) = RegionCount * d + j
      BY <1>6, <3>4 DEF q
    <3>7. /\ High(u) \in Nat /\ Middle(u) \div 2 \in Nat /\ (Middle(u) \div 2) < RegionCount
          /\ j \in Nat /\ j < RegionCount
      BY <1>6, <2>1, Digits
    <3>8. High(u) = d /\ Middle(u) \div 2 = j
      BY <2>1, <3>6, <3>7, Unique
    <3> QED
      BY <3>5, <3>8
  <2>3. /\ Counter(d, k) = k
        /\ \A x \in Nat : PairUsed(d, x) /\ Counter(d, x) = k => x = k
    <3>1. PICK dd, kk \in Nat : dd = d /\ kk = k
      BY <2>1
    <3>2. /\ Counter(dd, kk) = kk
          /\ \A x \in Nat : PairUsed(dd, x) /\ Counter(dd, x) = kk => x = kk
      BY <2>2, <3>1, Packed
    <3> QED
      BY <3>1, <3>2
  <2>4. k \in There(r) /\ \A x \in There(r) : x = k
    BY <2>1, <2>2, <2>3 DEF There
  <2>5. (CHOOSE x \in There(r) : TRUE) = k
    BY <2>4
  <2>6. /\ Pf(tables, root, d, Middle(v)) # 0 /\ LpteOf(tables, root, d) # 0
    BY <1>10, <1>11 DEF d
  <2>7. hardware'[r] = PteTable(d, k) /\ PteTable(d, k) # NoPage
    BY <1>5, <1>7, <1>8, <2>1, <2>4, <2>5, <2>6
  <2>8. PteTable(d, k)[v % RegionSize] = In(tables, Pf(tables, root, d, Middle(v)), Low(v)).address
    <3>1. PICK dd \in Slot, kk \in 0 .. RegionCount - 1, q \in 0 .. RegionSize - 1,
               m \in Slot, s \in Slot :
            dd = d /\ kk = k /\ q = v % RegionSize /\ m = Middle(v) /\ s = Low(v)
      BY <1>6, <2>1
    <3>2. 2 * kk + (q \div Entries) = m /\ q % Entries = s
      BY <1>6, <3>1 DEF k
    <3>3. PteTable(dd, kk)[q] = In(tables, Pf(tables, root, dd, m), s).address
      BY <1>1, <1>4, <2>6, <3>1, <3>2, PteEntries
    <3> QED
      BY <3>1, <3>3
  <2>9. Translate(v)' = PteTable(d, k)[v % RegionSize]
    BY <2>7 DEF Translate, r
  <2>10. Lookup(v).address = In(tables, Pf(tables, root, d, Middle(v)), Low(v)).address
    BY Reads DEF Look, d
  <2> QED
    BY <2>8, <2>9, <2>10
<1>12. \A u \in Observed : Lookup(u)' = Lookup(u)
  BY <1>2, Reads, ReadsNext
<1>13. Abstract!Load
  <2>1. call.at = "idle" /\ call'.at = "idle"
    BY <1>2, IdleCall
  <2> QED
    BY <1>9, <1>11, <1>12, <2>1 DEF Abstract!Load
<1> QED
  BY <1>3, <1>13

-------------------------------------------------------------------------------
(* The refinement *)

Mapped == <<[v \in Observed |-> Lookup(v)], [v \in Observed |-> Translate(v)],
            IF call.at = "idle" THEN {}
            ELSE {[virtual |-> call.vaddr, page |-> call.page, attributes |-> call.attr]}>>

\* There are no tables, and the map and the processor know no page.
LEMMA Start == Init => IInv /\ Abstract!Init
<1> SUFFICES ASSUME Init PROVE IInv /\ Abstract!Init
  OBVIOUS
<1>1. /\ tables = << >> /\ root = 0 /\ call = Idle
      /\ hardware = [r \in Regions |-> NoPage]
  BY DEF Init
<1>2. InPlace
  <2>1. tables \in Seq(Table) /\ Len(tables) = 0 /\ [x \in 1 .. 0 |-> 0] \in [1 .. 0 -> Key]
    BY <1>1
  <2>2. Placed(tables, root, [x \in 1 .. 0 |-> 0])
    BY <1>1, <2>1 DEF Placed
  <2> QED
    BY <2>2 DEF InPlace
<1>3. \A v : Mpde(tables, root) = 0 /\ Look(tables, root, v) = Empty
  BY <1>1, Nothing
<1>4. Trail
  BY <1>1, <1>3, IdleCall DEF Trail
<1>5. \A v \in Observed : Lookup(v) = Empty /\ Translate(v) = NoPage
  <2> TAKE v \in Observed
  <2>1. v \div RegionSize \in Regions
    BY PvmAssumption, Ranges
  <2> QED
    BY <1>1, <1>3, <2>1, Reads DEF Translate
<1>6. Abstract!Init
  BY <1>1, <1>5, IdleCall DEF Abstract!Init
<1> QED
  BY <1>2, <1>4, <1>6 DEF IInv

\* Every step of the walk keeps the tables in place, and is a step of the map
\* or none.
LEMMA Step ==
  ASSUME Cleared, IInv, [Next]_vars
  PROVE  IInv' /\ [Abstract!Next]_Mapped
<1>1. CASE HalInitializeDescription
  <2>1. /\ IInv' /\ \A v \in Observed : Lookup(v)' = Lookup(v)
        /\ UNCHANGED <<call, hardware>>
    BY <1>1, InitializeSafe
  <2>2. UNCHANGED Mapped
    BY <2>1 DEF Mapped, Translate
  <2> QED
    BY <2>1, <2>2
<1>2. ASSUME root # 0, NEW v \in Asked, NEW p \in Physical, NEW a \in Attributes,
             VmMapDescription(v, p, a)
      PROVE  IInv' /\ [Abstract!Next]_Mapped
  <2>1. /\ IInv' /\ \A u \in Observed : Lookup(u)' = Lookup(u)
        /\ call = Idle /\ hardware' = hardware
        /\ call'.at = "gpde" /\ call'.vaddr = v /\ call'.page = p /\ call'.attr = a
    BY <1>2, CallSafe
  <2> DEFINE r == [virtual |-> v, page |-> p, attributes |-> a]
  <2>2. r \in Abstract!Request
    BY PvmAssumption DEF Abstract!Request
  <2>3. Abstract!Ask(r)
    BY <2>1, IdleCall DEF Abstract!Ask, Translate
  <2> QED
    BY <2>1, <2>2, <2>3 DEF Abstract!Next
<1>3. CASE VmiMapGpde \/ VmiMapMpde \/ VmiMapLpde \/ VmiMapLpte
  <2>1. /\ IInv' /\ call.at # "idle" /\ call'.at # "idle"
        /\ call'.vaddr = call.vaddr /\ call'.page = call.page /\ call'.attr = call.attr
        /\ \A v \in Observed : Lookup(v)' = Lookup(v)
    BY <1>3, DescentSafe
  <2>2. hardware' = hardware
    BY <1>3 DEF VmiMapGpde, VmiMapMpde, VmiMapLpde, VmiMapLpte, Descend
  <2>3. UNCHANGED Mapped
    BY <2>1, <2>2 DEF Mapped, Translate
  <2> QED
    BY <2>1, <2>3
<1>4. CASE VmiMapPf
  <2>1. /\ IInv' /\ call.at # "idle" /\ call' = Idle /\ call.vaddr \in Observed
        /\ \A u \in Observed :
             Lookup(u)' = IF u = call.vaddr THEN Entry(call.page, call.attr) ELSE Lookup(u)
    BY <1>4, PutSafe
  <2>2. hardware' = hardware
    BY <1>4 DEF VmiMapPf
  <2>3. PICK r : r = [virtual |-> call.vaddr, page |-> call.page, attributes |-> call.attr]
    OBVIOUS
  <2>4. Abstract!Map(r)
    BY <2>1, <2>2, <2>3, IdleCall DEF Abstract!Map, Translate, Entry
  <2>5. Abstract!Next
    BY <2>1, <2>3, <2>4 DEF Abstract!Next
  <2> QED
    BY <2>1, <2>5
<1>5. CASE HalSetDescription
  BY <1>5, LoadSafe DEF Abstract!Next
<1>6. CASE UNCHANGED vars
  <2>1. IInv'
    BY <1>6 DEF vars, IInv, InPlace, Trail
  <2>2. UNCHANGED Mapped
    <3>1. \A v \in Observed : Lookup(v)' = Lookup(v)
      BY <1>6, Reads, ReadsNext DEF vars
    <3> QED
      BY <1>6, <3>1 DEF vars, Mapped, Translate
  <2> QED
    BY <2>1, <2>2
<1> QED
  BY <1>1, <1>2, <1>3, <1>4, <1>5, <1>6 DEF Next, Walk

\* When the pages of the tables come zeroed, the walk down the five levels
\* of VmMapDescription changes the one page it was called for, and
\* HalSetDescription shows the processor what the tables say.
THEOREM Refinement == ASSUME Cleared PROVE Spec => ImplementsAddressSpace
<1>1. IInv /\ [Next]_vars => IInv' /\ [Abstract!Next]_Mapped
  BY Step
<1> QED
  BY <1>1, Start, PTL DEF Spec, ImplementsAddressSpace, Abstract!Spec, Mapped

-------------------------------------------------------------------------------
(* The tree of tables *)

\* The tables are numbered in the order they are made, so the root is table 1
\* and every other table x was made for one entry, link[x], of a table one
\* level above its own; no other entry above the last level names it.
Hanging(T, level, link) ==
  /\ T \in Seq(Table)
  /\ level \in [1 .. Len(T) -> 1 .. 5]
  /\ link \in [2 .. Len(T) -> (1 .. Len(T)) \X Slot]
  /\ \A x \in 1 .. Len(T) : level[x] = 1 <=> x = 1
  /\ \A x \in 2 .. Len(T) :
       /\ level[x] = level[link[x][1]] + 1
       /\ T[link[x][1]][link[x][2]].address = x
  /\ \A t \in 1 .. Len(T), s \in Slot :
       level[t] # 5 /\ T[t][s].address # 0 =>
         T[t][s].address \in 2 .. Len(T) /\ link[T[t][s].address] = <<t, s>>

\* The level of the table that a step of the walk works on.
Depth(at) == CASE at = "gpde" -> 1 [] at = "mpde" -> 2 [] at = "lpde" -> 3
               [] at = "lpte" -> 4 [] at = "pf" -> 5

Stands(c, n, level) ==
  c.at # "idle" => c.table \in 1 .. n /\ level[c.table] = Depth(c.at)

Tended == \E level, link : /\ Hanging(tables, level, link)
                           /\ Stands(call, Len(tables), level)

TreeInv ==
  /\ IInv
  /\ Tended
  /\ root = IF tables = << >> THEN 0 ELSE 1
  /\ call.at = "idle" => call = Idle
  /\ call.offset \in Virtual
  /\ hardware \in [Regions -> [0 .. RegionSize - 1 -> Nat \cup {NoPage}] \cup {NoPage}]
  /\ maps \in 0 .. MaxMaps

More(f, n, new) == [x \in DOMAIN f \cup {n} |-> IF x = n THEN new ELSE f[x]]

\* A table that is made for an empty entry hangs from that entry.
LEMMA HungHangs ==
  ASSUME Cleared, NEW T, NEW level, NEW link, Hanging(T, level, link),
         NEW t \in 1 .. Len(T), level[t] # 5, NEW s \in Slot, T[t][s].address = 0
  PROVE  Hanging(Hung(T, t, s), More(level, Len(T) + 1, level[t] + 1),
                 More(link, Len(T) + 1, <<t, s>>))
<1> DEFINE n == Len(T) + 1
           H == Hung(T, t, s)
           K == More(level, n, level[t] + 1)
           P == More(link, n, <<t, s>>)
<1>1. /\ T \in Seq(Table) /\ Len(T) \in Nat /\ n \in Nat /\ n # 0 /\ n # 1
      /\ level \in [1 .. Len(T) -> 1 .. 5] /\ link \in [2 .. Len(T) -> (1 .. Len(T)) \X Slot]
      /\ t \in 1 .. n
  BY DEF Hanging
<1>2. /\ H \in Seq(Table) /\ Len(H) = n
      /\ \A x \in 0 .. Len(T), y \in Slot : x # t \/ y # s => In(H, x, y) = In(T, x, y)
      /\ In(H, t, s).address = n
      /\ \A y \in Slot : In(H, n, y) = Empty
  BY <1>1, HungEntries
<1>3. /\ K \in [1 .. n -> 1 .. 5] /\ K[n] = level[t] + 1
      /\ \A x \in 1 .. Len(T) : K[x] = level[x]
  <2>1. DOMAIN level \cup {n} = 1 .. n /\ level[t] + 1 \in 1 .. 5
    BY <1>1
  <2> QED
    BY <1>1, <2>1 DEF More
<1>4. /\ P \in [2 .. n -> (1 .. n) \X Slot] /\ P[n] = <<t, s>>
      /\ \A x \in 2 .. Len(T) : P[x] = link[x]
  <2>1. DOMAIN link \cup {n} = 2 .. n
    BY <1>1
  <2>2. ASSUME NEW x \in 2 .. n PROVE P[x] \in (1 .. n) \X Slot
    <3>1. CASE x = n
      BY <1>1, <2>1, <3>1 DEF More
    <3>2. CASE x \in 2 .. Len(T)
      <4>1. link[x] \in (1 .. Len(T)) \X Slot /\ P[x] = link[x]
        BY <1>1, <2>1, <3>2 DEF More
      <4>2. (1 .. Len(T)) \X Slot \subseteq (1 .. n) \X Slot
        BY <1>1
      <4> QED
        BY <4>1, <4>2
    <3> QED
      BY <1>1, <3>1, <3>2
  <2>3. P = [x \in 2 .. n |-> IF x = n THEN <<t, s>> ELSE link[x]]
    BY <2>1 DEF More
  <2>4. P \in [2 .. n -> (1 .. n) \X Slot]
    <3> HIDE DEF n
    <3> QED
      BY <2>2, <2>3
  <2>5. P[n] = <<t, s>> /\ \A x \in 2 .. Len(T) : P[x] = link[x]
    <3>1. n \in 2 .. n /\ \A x \in 2 .. Len(T) : x \in 2 .. n /\ x # n
      BY <1>1
    <3> HIDE DEF n, P
    <3> QED
      BY <2>3, <3>1
  <2> HIDE DEF n, P
  <2> QED
    BY <2>4, <2>5
<1> HIDE DEF H, K, P
<1>5. \A x \in 1 .. n : K[x] = 1 <=> x = 1
  <2>1. \A x \in 1 .. Len(T) : level[x] = 1 <=> x = 1
    BY DEF Hanging
  <2>2. K[n] # 1 /\ n # 1
    BY <1>1, <1>3
  <2>3. \A x \in 1 .. n : x = n \/ x \in 1 .. Len(T)
    BY <1>1
  <2> HIDE DEF n
  <2> QED
    BY <1>3, <2>1, <2>2, <2>3
<1>6. ASSUME NEW x \in 2 .. n
      PROVE  K[x] = K[P[x][1]] + 1 /\ H[P[x][1]][P[x][2]].address = x
  <2>1. CASE x = n
    <3>1. P[x][1] = t /\ P[x][2] = s
      BY <1>4, <2>1
    <3> QED
      BY <1>1, <1>2, <1>3, <2>1, <3>1 DEF In
  <2>2. CASE x # n
    <3>0. x \in 2 .. Len(T)
      BY <1>1, <2>2
    <3>1. PICK a \in 1 .. Len(T), b \in Slot : link[x] = <<a, b>>
      BY <1>1, <3>0
    <3>2. level[x] = level[a] + 1 /\ T[a][b].address = x
      BY <3>0, <3>1 DEF Hanging
    <3>3. a # t \/ b # s
      BY <3>0, <3>2
    <3>4. H[a][b] = T[a][b]
      BY <1>1, <1>2, <3>3 DEF In
    <3>5. P[x] = <<a, b>> /\ K[x] = level[x] /\ K[a] = level[a]
      BY <1>3, <1>4, <3>0, <3>1
    <3> QED
      BY <3>2, <3>4, <3>5
  <2> QED
    BY <2>1, <2>2
<1>7. ASSUME NEW x \in 1 .. n, NEW y \in Slot, K[x] # 5, H[x][y].address # 0
      PROVE  H[x][y].address \in 2 .. n /\ P[H[x][y].address] = <<x, y>>
  <2>1. x # n
    BY <1>1, <1>2, <1>7, EmptyCell DEF In
  <2>2. x \in 1 .. Len(T) /\ x \in 0 .. Len(T) /\ x # 0
    BY <1>1, <2>1
  <2>3. CASE x = t /\ y = s
    <3>1. H[x][y].address = n
      BY <1>2, <2>2, <2>3 DEF In
    <3> QED
      BY <1>1, <1>4, <2>3, <3>1
  <2>4. CASE x # t \/ y # s
    <3>1. H[x][y] = T[x][y] /\ K[x] = level[x]
      BY <1>2, <1>3, <2>2, <2>4 DEF In
    <3>2. T[x][y].address \in 2 .. Len(T) /\ link[T[x][y].address] = <<x, y>>
      BY <1>7, <2>2, <3>1 DEF Hanging
    <3> QED
      BY <1>1, <1>4, <3>1, <3>2
  <2> QED
    BY <2>3, <2>4
<1>8. Hanging(H, K, P)
  BY <1>2, <1>3, <1>4, <1>5, <1>6, <1>7 DEF Hanging
<1> QED
  BY <1>8 DEF H, K, P

\* The first table is the root, and nothing hangs from it.
LEMMA RootHangs ==
  ASSUME Cleared, NEW T, T = << >>
  PROVE  Hanging(Append(T, Fresh), [x \in 1 .. 1 |-> 1], [x \in 2 .. 1 |-> 0])
<1> DEFINE A == Append(T, Fresh)
           K == [x \in 1 .. 1 |-> 1]
           P == [x \in 2 .. 1 |-> 0]
<1>1. A \in Seq(Table) /\ Len(A) = 1 /\ A[1] = Fresh
  BY FreshTable
<1>2. K \in [1 .. 1 -> 1 .. 5] /\ P \in [2 .. 1 -> (1 .. 1) \X Slot]
      /\ \A x \in 1 .. 1 : K[x] = 1 /\ x = 1
  OBVIOUS
<1>3. \A x \in 1 .. 1, s \in Slot : A[x][s].address = 0
  BY <1>1, EmptyCell DEF Fresh
<1>4. \A x \in 2 .. 1 : FALSE
  OBVIOUS
<1> HIDE DEF A, K, P
<1>5. Hanging(A, K, P)
  BY <1>1, <1>2, <1>3, <1>4 DEF Hanging
<1> QED
  BY <1>5 DEF A, K, P

\* The last level is not part of the tree: what is written there is a page.
LEMMA PutHangs ==
  ASSUME NEW T, NEW level, NEW link, Hanging(T, level, link),
         NEW t \in 1 .. Len(T), level[t] = 5, NEW s \in Slot, NEW e \in Cell
  PROVE  Hanging(Put(T, t, s, e), level, link)
<1> DEFINE P == Put(T, t, s, e)
<1>1. /\ T \in Seq(Table) /\ Len(T) \in Nat
      /\ level \in [1 .. Len(T) -> 1 .. 5] /\ link \in [2 .. Len(T) -> (1 .. Len(T)) \X Slot]
  BY DEF Hanging
<1>2. /\ P \in Seq(Table) /\ Len(P) = Len(T)
      /\ \A x \in 0 .. Len(T), y \in Slot : x # t \/ y # s => In(P, x, y) = In(T, x, y)
  BY <1>1, PutEntries
<1> HIDE DEF P
<1>3. \A x \in 1 .. Len(T), y \in Slot : x # t => P[x][y] = T[x][y]
  BY <1>1, <1>2 DEF In
<1>4. ASSUME NEW x \in 2 .. Len(T)
      PROVE  P[link[x][1]][link[x][2]].address = x /\ level[x] = level[link[x][1]] + 1
  <2>0. link[x] \in (1 .. Len(T)) \X Slot /\ level[x] \in 1 .. 5
    BY <1>1
  <2>1. PICK a \in 1 .. Len(T), b \in Slot : link[x] = <<a, b>>
    BY <2>0
  <2>2. level[x] = level[a] + 1 /\ T[a][b].address = x
    BY <2>1 DEF Hanging
  <2>3. a # t
    BY <2>0, <2>2
  <2> QED
    BY <1>3, <2>1, <2>2, <2>3
<1>5. ASSUME NEW x \in 1 .. Len(T), NEW y \in Slot, level[x] # 5, P[x][y].address # 0
      PROVE  P[x][y].address \in 2 .. Len(T) /\ link[P[x][y].address] = <<x, y>>
  BY <1>3, <1>5 DEF Hanging
<1>6. \A x \in 1 .. Len(T) : level[x] = 1 <=> x = 1
  BY DEF Hanging
<1>7. Hanging(P, level, link)
  BY <1>1, <1>2, <1>4, <1>5, <1>6 DEF Hanging
<1> QED
  BY <1>7 DEF P

\* Where the walk stands, apart from its table.
LEMMA SlotOfTrail ==
  ASSUME IInv, call.at # "idle"
  PROVE  /\ root # 0 /\ call.slot \in Slot /\ call.vaddr \in Virtual
         /\ call.page \in Nat /\ call.attr \in Attributes
<1>1. Trail /\ call \in Calls
  BY DEF IInv, Trail
<1>2. root # 0 /\ call.vaddr \in Virtual /\ call.page \in Nat /\ call.attr \in Attributes
  BY <1>1, PvmAssumption DEF Trail
<1>3. High(call.vaddr) \in Slot /\ Middle(call.vaddr) \in Slot /\ Low(call.vaddr) \in Slot
  BY <1>2, Ranges, Digits
<1>4. call.at \in {"gpde", "mpde", "lpde", "lpte", "pf"}
  BY <1>1 DEF Calls
<1>5. call.slot \in Slot
  BY <1>1, <1>3, <1>4, EmptyCell DEF Trail
<1> QED
  BY <1>2, <1>5

\* A step down makes the missing table, and stands on it.
LEMMA DownTended ==
  ASSUME Cleared, IInv, Tended, call.at # "idle",
         NEW from, NEW to, NEW g, Descend(from, to, g),
         Depth(from) \in 1 .. 4, Depth(to) = Depth(from) + 1
  PROVE  Tended' /\ tables' # << >>
<1>1. PICK level, link : /\ Hanging(tables, level, link)
                         /\ Stands(call, Len(tables), level)
  BY DEF Tended
<1>2. PICK t, s : t = call.table /\ s = call.slot
  OBVIOUS
<1>3. call.at = from /\ Created /\ call' = [call EXCEPT
        !.at = to, !.table = tables'[call.table][call.slot].address,
        !.slot = call.offset \div g, !.offset = call.offset % g]
  BY DEF Descend
<1>4. call'.at = to /\ call'.table = tables'[t][s].address
  <2>1. call \in Calls
    BY DEF IInv, Trail
  <2> QED
    BY <1>2, <1>3, <2>1 DEF Calls
<1>5. /\ t \in 1 .. Len(tables) /\ s \in Slot /\ level[t] = Depth(from) /\ level[t] # 5
  BY <1>1, <1>2, <1>3, SlotOfTrail DEF Stands
<1>6. /\ tables \in Seq(Table) /\ Len(tables) \in Nat /\ level \in [1 .. Len(tables) -> 1 .. 5]
  BY <1>1 DEF Hanging
<1>7. CASE tables[t][s].address = 0
  <2> DEFINE n == Len(tables) + 1
             K == More(level, n, level[t] + 1)
             P == More(link, n, <<t, s>>)
  <2>1. tables' = Hung(tables, t, s)
    BY <1>2, <1>3, <1>7, FreshTable DEF Created, Hung
  <2>2. Hanging(Hung(tables, t, s), K, P)
    BY <1>1, <1>5, <1>7, HungHangs
  <2>3. /\ Len(Hung(tables, t, s)) = n /\ Hung(tables, t, s) \in Seq(Table)
        /\ In(Hung(tables, t, s), t, s).address = n
    BY <1>5, <1>6, HungEntries
  <2>7. K[n] = Depth(to)
    <3>1. n \in DOMAIN level \cup {n}
      OBVIOUS
    <3> QED
      BY <1>5, <3>1 DEF More
  <2>8. n \in 1 .. n /\ n # 0
    BY <1>6
  <2>9. Stands(call', n, K)
    <3>1. t # 0
      BY <1>5
    <3>2. call'.table = n
      BY <1>4, <2>1, <2>3, <3>1 DEF In
    <3> HIDE DEF n, K
    <3> QED
      BY <1>4, <2>7, <2>8, <3>2 DEF Stands
  <2>10. tables' # << >>
    BY <2>1, <2>3, <2>8
  <2>11. Len(tables') = n /\ Hanging(tables', K, P)
    BY <2>1, <2>2, <2>3
  <2> HIDE DEF n, K, P
  <2> QED
    BY <2>9, <2>10, <2>11 DEF Tended
<1>8. CASE tables[t][s].address # 0
  <2>1. tables' = tables
    BY <1>2, <1>3, <1>8 DEF Created
  <2>2. tables[t][s].address \in 2 .. Len(tables) /\ link[tables[t][s].address] = <<t, s>>
    BY <1>1, <1>5, <1>8 DEF Hanging
  <2>3. PICK x \in 2 .. Len(tables) : x = tables[t][s].address
    BY <2>2
  <2>4. level[x] = level[link[x][1]] + 1 /\ link[x] = <<t, s>>
    BY <1>1, <2>2, <2>3 DEF Hanging
  <2>5. level[x] = Depth(to)
    BY <1>5, <2>4
  <2>6. call'.table = x /\ x \in 1 .. Len(tables)
    BY <1>4, <2>1, <2>3
  <2>7. Stands(call', Len(tables), level)
    BY <1>4, <2>5, <2>6 DEF Stands
  <2>8. tables' # << >>
    BY <2>1, <2>3, <1>6
  <2> QED
    BY <1>1, <2>1, <2>7, <2>8 DEF Tended
<1> QED
  BY <1>7, <1>8

\* A remainder lies in the machine with what it is a remainder of.
LEMMA OffsetBelow ==
  ASSUME NEW v \in Virtual, NEW g \in Nat \ {0}
  PROVE  v % g \in Virtual
<1>1. PICK K : Virtual = 0 .. K - 1 /\ K \in Nat
  <2>1. Directories \in Nat /\ RegionCount \in Nat /\ RegionSize \in Nat
    BY PvmAssumption, Sizes
  <2>2. Directories * RegionCount * RegionSize \in Nat
    BY <2>1
  <2> QED
    BY <2>2 DEF Virtual
<1>2. v \in Nat /\ v < K
  BY <1>1
<1>3. /\ v \div g \in Nat /\ v % g \in Nat
      /\ v = g * (v \div g) + (v % g)
  BY <1>2, DivMod
<1>4. g * (v \div g) \in Nat
  BY <1>3
<1>5. v % g <= v
  BY <1>2, <1>3, <1>4
<1> QED
  BY <1>1, <1>2, <1>3, <1>5

\* The directory of a region is one of the entries of the LPDE.
LEMMA DirectoryOf == \A r \in Regions : r \div RegionCount \in Slot
<1> TAKE r \in Regions
<1>1. /\ RegionCount \in Nat \ {0} /\ Directories \in Nat /\ Directories <= Entries
      /\ Entries \in Nat
  BY Sizes, PvmAssumption
<1>2. Directories * RegionCount \in Nat /\ r \in Nat /\ r < Directories * RegionCount
  <2>1. Directories * RegionCount \in Nat
    BY <1>1
  <2> QED
    BY <2>1 DEF Regions
<1>3. PICK d \in Nat, b \in Nat : /\ d = r \div RegionCount /\ b < RegionCount
                                  /\ r = RegionCount * d + b
  BY <1>1, <1>2, DivMod
<1>4. d < Directories
  <2> SUFFICES ASSUME d >= Directories PROVE FALSE
    BY <1>1
  <2>1. PICK k \in Nat : d = Directories + k
    <3>1. d - Directories \in Nat /\ d = Directories + (d - Directories)
      BY <1>1
    <3> QED
      BY <3>1
  <2>2. RegionCount * (Directories + k) = Directories * RegionCount + RegionCount * k
        /\ RegionCount * k \in Nat
    BY <1>1
  <2> QED
    BY <1>2, <1>3, <2>1, <2>2
<1> QED
  BY <1>1, <1>3, <1>4 DEF Slot

\* What the processor is given is a table of pages or none.
LEMMA LoadTyped ==
  ASSUME IInv, HalSetDescription
  PROVE  hardware' \in [Regions -> [0 .. RegionSize - 1 -> Nat \cup {NoPage}] \cup {NoPage}]
<1>1. PICK key : Placed(tables, root, key)
  BY DEF IInv, InPlace
<1>2. Mpde(tables, root) # 0 /\ Lpde(tables, root) # 0
  <2>1. call = Idle /\ root # 0 /\ tables[root][0].address # 0
    BY DEF HalSetDescription
  <2>2. Mpde(tables, root) # 0
    BY <2>1 DEF Mpde, In
  <2> QED
    BY <2>1, <2>2, IdleCall DEF IInv, Trail
<1>3. \A d \in Slot, k \in 0 .. RegionCount - 1 : LpdeTable[d].address # 0 =>
        PteTable(d, k) \in [0 .. RegionSize - 1 -> Nat \cup {NoPage}]
  <2> TAKE d \in Slot, k \in 0 .. RegionCount - 1
  <2> HAVE LpdeTable[d].address # 0
  <2>1. LpteOf(tables, root, d) # 0
    BY <1>1, <1>2, Halves
  <2>2. PteTable(d, k) \in [0 .. RegionSize - 1 -> Physical \cup {0, NoPage}]
    BY <1>1, <1>2, <2>1, PteEntries
  <2>3. Physical \cup {0, NoPage} \subseteq Nat \cup {NoPage}
    <3>1. Physical \subseteq Nat /\ 0 \in Nat
      BY PvmAssumption
    <3> QED
      BY <3>1
  <2> QED
    BY <2>2, <2>3
<1> DEFINE there(r) == {k \in 0 .. RegionCount - 1 :
                          PairUsed(r \div RegionCount, k)
                            /\ Counter(r \div RegionCount, k) = r % RegionCount}
           value(r) == IF LpdeTable[r \div RegionCount].address = 0 \/ there(r) = {}
                       THEN NoPage
                       ELSE PteTable(r \div RegionCount, CHOOSE k \in there(r) : TRUE)
<1>4. hardware' = [r \in Regions |-> value(r)]
  BY DEF HalSetDescription
<1>5. ASSUME NEW r \in Regions
      PROVE  value(r) \in [0 .. RegionSize - 1 -> Nat \cup {NoPage}] \cup {NoPage}
  <2>1. CASE LpdeTable[r \div RegionCount].address = 0 \/ there(r) = {}
    BY <2>1
  <2>2. CASE LpdeTable[r \div RegionCount].address # 0 /\ there(r) # {}
    <3>1. (CHOOSE k \in there(r) : TRUE) \in there(r)
      BY <2>2
    <3>2. (CHOOSE k \in there(r) : TRUE) \in 0 .. RegionCount - 1
      BY <3>1
    <3>3. r \div RegionCount \in Slot
      BY DirectoryOf
    <3> QED
      BY <1>3, <2>2, <3>2, <3>3
  <2> QED
    BY <2>1, <2>2
<1> HIDE DEF value
<1> QED
  BY <1>4, <1>5

\* At the start there is no table, and nothing is asked or loaded.
LEMMA TreeStart == Init => TreeInv
<1> SUFFICES ASSUME Init PROVE TreeInv
  OBVIOUS
<1>1. /\ tables = << >> /\ root = 0 /\ call = Idle /\ maps = 0
      /\ hardware = [r \in Regions |-> NoPage]
  BY DEF Init
<1>2. IInv
  BY Start
<1>3. Tended
  <2> DEFINE none == [x \in 1 .. 0 |-> 1]
             nowhere == [x \in 2 .. 0 |-> 1]
  <2>1. /\ tables \in Seq(Table) /\ Len(tables) = 0
        /\ none \in [1 .. 0 -> 1 .. 5] /\ nowhere \in [2 .. 0 -> (1 .. 0) \X Slot]
    BY <1>1
  <2> HIDE DEF none, nowhere
  <2>2. Hanging(tables, none, nowhere)
    BY <2>1 DEF Hanging
  <2>6. Stands(call, 0, none)
    BY <1>1, IdleCall DEF Stands
  <2> QED
    BY <2>1, <2>2, <2>6 DEF Tended
<1>4. call.offset \in Virtual
  <2>1. Directories \in Nat \ {0} /\ RegionCount \in Nat \ {0} /\ RegionSize \in Nat \ {0}
    <3>1. Entries \in Nat /\ Directories \in 1 .. Entries
      BY PvmAssumption
    <3> QED
      BY <3>1, Sizes
  <2>2. \A a, b \in Nat \ {0} : a * b \in Nat \ {0}
    OBVIOUS
  <2>3. Directories * RegionCount * RegionSize \in Nat \ {0}
    BY <2>1, <2>2
  <2>4. 0 \in Virtual
    BY <2>3 DEF Virtual
  <2> QED
    BY <1>1, <2>4 DEF Idle
<1>5. maps \in 0 .. MaxMaps
  BY <1>1, PvmAssumption
<1> QED
  BY <1>1, <1>2, <1>3, <1>4, <1>5 DEF TreeInv

\* A step of the walk: it ends on a table, or back at the caller.
LEMMA DownTree ==
  ASSUME Cleared, TreeInv, IInv', NEW from, NEW to,
         NEW g \in Nat \ {0}, Descend(from, to, g),
         from # "idle", to # "idle", Depth(from) \in 1 .. 4, Depth(to) = Depth(from) + 1
  PROVE  TreeInv'
<1>1. call.at = from /\ call.at # "idle" /\ UNCHANGED <<root, hardware, maps>>
      /\ call' = [call EXCEPT !.at = to, !.table = tables'[call.table][call.slot].address,
                              !.slot = call.offset \div g, !.offset = call.offset % g]
  BY DEF Descend
<1>2. Tended' /\ tables' # << >>
  BY <1>1, DownTended DEF TreeInv
<1>3. tables # << >>
  <2>1. root # 0
    BY <1>1, SlotOfTrail DEF TreeInv
  <2> QED
    BY <2>1 DEF TreeInv
<1>4. root' = IF tables' = << >> THEN 0 ELSE 1
  BY <1>1, <1>2, <1>3 DEF TreeInv
<1>5. call \in Calls
  BY DEF TreeInv, IInv, Trail
<1>6. call'.at = to /\ call'.offset = call.offset % g
  BY <1>1, <1>5 DEF Calls
<1>7. call'.offset \in Virtual
  BY <1>6, OffsetBelow DEF TreeInv
<1> QED
  BY <1>1, <1>2, <1>4, <1>6, <1>7 DEF TreeInv

\* Every step keeps the tree.
LEMMA TreeStep ==
  ASSUME Cleared, TreeInv, [Next]_vars
  PROVE  TreeInv'
<1>1. IInv'
  BY Step DEF TreeInv
<1>2. PICK level, link : /\ Hanging(tables, level, link)
                         /\ Stands(call, Len(tables), level)
  BY DEF TreeInv, Tended
<1>3. /\ tables \in Seq(Table) /\ Len(tables) \in Nat /\ level \in [1 .. Len(tables) -> 1 .. 5]
      /\ \A x \in 1 .. Len(tables) : level[x] = 1 <=> x = 1
  BY <1>2 DEF Hanging
<1>4. CASE HalInitializeDescription
  <2>1. /\ root = 0 /\ call = Idle /\ tables' = Append(tables, Fresh) /\ root' = Len(tables')
        /\ UNCHANGED <<call, hardware, maps>>
    BY <1>4, FreshTable DEF HalInitializeDescription
  <2>2. tables = << >>
    BY <2>1 DEF TreeInv
  <2>3. tables' = <<Fresh>> /\ Len(tables') = 1 /\ tables' # << >>
    BY <2>1, <2>2
  <2> DEFINE K == [x \in 1 .. 1 |-> 1]
             P == [x \in 2 .. 1 |-> 0]
  <2>4. Hanging(tables', K, P)
    <3>1. Hanging(Append(tables, Fresh), K, P)
      BY <2>2, RootHangs
    <3> HIDE DEF K, P
    <3> QED
      BY <2>1, <3>1
  <2>6. Stands(call, 1, K)
    BY <2>1, IdleCall DEF Stands
  <2> HIDE DEF K, P
  <2>7. Tended'
    BY <2>1, <2>3, <2>4, <2>6 DEF Tended
  <2> QED
    BY <1>1, <2>1, <2>3, <2>7 DEF TreeInv
<1>5. ASSUME root # 0, maps < MaxMaps, NEW v \in Asked, NEW p \in Physical, NEW a \in Attributes,
             VmMapDescription(v, p, a)
      PROVE  TreeInv'
  <2>1. /\ call = Idle /\ UNCHANGED <<tables, root, hardware>> /\ maps' = maps + 1
        /\ call' = [at |-> "gpde", table |-> root, slot |-> 0, offset |-> v,
                    vaddr |-> v, page |-> p, attr |-> a]
    BY <1>5 DEF VmMapDescription
  <2>2. root = 1 /\ tables # << >> /\ 1 \in 1 .. Len(tables)
    BY <1>3, <1>5 DEF TreeInv
  <2>3. Stands(call', Len(tables), level)
    BY <1>3, <2>1, <2>2 DEF Stands, Depth
  <2>4. Tended'
    BY <1>2, <2>1, <2>3 DEF Tended
  <2>5. call'.offset \in Virtual
    BY <2>1, PvmAssumption
  <2>6. maps' \in 0 .. MaxMaps
    BY <1>5, <2>1, PvmAssumption DEF TreeInv
  <2> QED
    BY <1>1, <2>1, <2>4, <2>5, <2>6 DEF TreeInv
<1>6. CASE VmiMapGpde \/ VmiMapMpde \/ VmiMapLpde \/ VmiMapLpte
  <2>0. /\ Depth("gpde") = 1 /\ Depth("mpde") = 2 /\ Depth("lpde") = 3
        /\ Depth("lpte") = 4 /\ Depth("pf") = 5
    BY DEF Depth
  <2>1. CASE VmiMapGpde
    <3>1. PICK g : g = Entries * Entries * Entries * Entries
      OBVIOUS
    <3>2. g \in Nat \ {0}
      <4>1. \A a, b \in Nat \ {0} : a * b \in Nat \ {0}
        OBVIOUS
      <4>2. Entries * Entries * Entries * Entries \in Nat \ {0}
        BY <4>1, Sizes
      <4> QED
        BY <3>1, <4>2
    <3>3. Descend("gpde", "mpde", g)
      BY <2>1, <3>1 DEF VmiMapGpde
    <3> QED
      BY <1>1, <2>0, <3>2, <3>3, DownTree
  <2>2. CASE VmiMapMpde
    <3>1. PICK g : g = Entries * Entries /\ g \in Nat \ {0}
      BY Sizes
    <3>2. Descend("mpde", "lpde", g)
      BY <2>2, <3>1 DEF VmiMapMpde
    <3> QED
      BY <1>1, <2>0, <3>1, <3>2, DownTree
  <2>3. CASE VmiMapLpde
    <3>1. Entries \in Nat \ {0} /\ Descend("lpde", "lpte", Entries)
      BY <2>3, Sizes DEF VmiMapLpde
    <3> QED
      BY <1>1, <2>0, <3>1, DownTree
  <2>4. CASE VmiMapLpte
    <3>1. Descend("lpte", "pf", 1)
      BY <2>4 DEF VmiMapLpte
    <3> QED
      BY <1>1, <2>0, <3>1, DownTree
  <2> QED
    BY <1>6, <2>1, <2>2, <2>3, <2>4
<1>7. CASE VmiMapPf
  <2>1. PICK t, s, e : t = call.table /\ s = call.slot /\ e = Entry(call.page, call.attr)
    OBVIOUS
  <2>2. /\ call.at = "pf" /\ tables' = Put(tables, t, s, e) /\ call' = Idle
        /\ UNCHANGED <<root, hardware, maps>>
    BY <1>7, <2>1 DEF VmiMapPf, Put
  <2>3. /\ root # 0 /\ s \in Slot /\ e \in Cell
    BY <2>1, <2>2, SlotOfTrail DEF TreeInv, Entry, Cell
  <2>4. t \in 1 .. Len(tables) /\ level[t] = 5
    BY <1>2, <2>1, <2>2 DEF Stands, Depth
  <2>5. Hanging(Put(tables, t, s, e), level, link)
    BY <1>2, <2>3, <2>4, PutHangs
  <2>6. Len(Put(tables, t, s, e)) = Len(tables)
    BY <1>3, <2>3, <2>4, PutEntries
  <2>7. Tended'
    BY <1>2, <2>2, <2>5, <2>6, IdleCall DEF Tended, Stands
  <2>8. tables # << >> /\ tables' # << >>
    BY <1>3, <2>2, <2>3, <2>4, <2>6 DEF TreeInv
  <2>9. call'.offset \in Virtual
    <3>1. Idle.offset = 0 /\ call.offset \in Virtual
      BY DEF Idle, TreeInv
    <3>2. 0 \in Virtual
      <4>1. PICK K : Virtual = 0 .. K
        BY DEF Virtual
      <4>2. call.offset % 1 \in Virtual
        BY <3>1, OffsetBelow
      <4>3. call.offset \in Nat
        BY <3>1 DEF Virtual
      <4>4. call.offset % 1 = 0
        BY <4>3
      <4> QED
        BY <4>2, <4>4
    <3> QED
      BY <2>2, <3>1, <3>2
  <2> QED
    BY <1>1, <2>2, <2>7, <2>8, <2>9 DEF TreeInv
<1>8. CASE HalSetDescription
  <2>1. UNCHANGED <<tables, root, call, maps>>
    BY <1>8 DEF HalSetDescription
  <2>2. hardware' \in [Regions -> [0 .. RegionSize - 1 -> Nat \cup {NoPage}] \cup {NoPage}]
    BY <1>8, LoadTyped DEF TreeInv
  <2>3. Tended'
    BY <1>2, <2>1 DEF Tended
  <2> QED
    BY <1>1, <2>1, <2>2, <2>3 DEF TreeInv
<1>9. CASE UNCHANGED vars
  <2>1. UNCHANGED <<tables, root, call, hardware, maps>>
    BY <1>9 DEF vars
  <2>2. Tended'
    BY <1>2, <2>1 DEF Tended
  <2> QED
    BY <1>1, <2>1, <2>2 DEF TreeInv
<1> QED
  BY <1>4, <1>5, <1>6, <1>7, <1>8, <1>9 DEF Next, Walk

\* The tables of a level.
Level(level, d) == {x \in 1 .. Len(tables) : level[x] = d}

\* Below the tables of a level are the tables of the next one.
LEMMA LevelBelow ==
  ASSUME NEW level, NEW link, Hanging(tables, level, link), NEW d \in 1 .. 4
  PROVE  Below(Level(level, d)) = Level(level, d + 1)
<1>1. /\ level \in [1 .. Len(tables) -> 1 .. 5] /\ Len(tables) \in Nat
      /\ link \in [2 .. Len(tables) -> (1 .. Len(tables)) \X Slot]
      /\ \A x \in 1 .. Len(tables) : level[x] = 1 <=> x = 1
  BY DEF Hanging
<1>2. ASSUME NEW t \in Level(level, d), NEW s \in Slot, tables[t][s].address # 0
      PROVE  tables[t][s].address \in Level(level, d + 1)
  <2>1. t \in 1 .. Len(tables) /\ level[t] = d /\ level[t] # 5
    BY DEF Level
  <2>2. PICK x \in 2 .. Len(tables) : x = tables[t][s].address /\ link[x] = <<t, s>>
    BY <1>2, <2>1 DEF Hanging
  <2>3. level[x] = level[t] + 1 /\ x \in 1 .. Len(tables)
    BY <2>2 DEF Hanging
  <2> QED
    BY <2>1, <2>2, <2>3 DEF Level
<1>3. ASSUME NEW x \in Level(level, d + 1)
      PROVE  x # 0 /\ \E t \in Level(level, d), s \in Slot : tables[t][s].address = x
  <2>1. x \in 1 .. Len(tables) /\ level[x] = d + 1 /\ x # 0
    BY DEF Level
  <2>2. x # 1
    BY <1>1, <2>1
  <2>3. x \in 2 .. Len(tables)
    BY <2>1, <2>2
  <2>4. PICK a \in 1 .. Len(tables), b \in Slot : link[x] = <<a, b>>
    BY <1>1, <2>3
  <2>5. level[x] = level[a] + 1 /\ tables[a][b].address = x
    BY <2>3, <2>4 DEF Hanging
  <2>6. a \in Level(level, d)
    <3>1. level[a] \in Nat
      BY <1>1
    <3> QED
      BY <2>1, <2>5, <3>1 DEF Level
  <2> QED
    BY <2>1, <2>5, <2>6
<1> QED
  BY <1>2, <1>3 DEF Below

\* There is one entry for each table but the root.
LEMMA TreeCount ==
  ASSUME NEW level, NEW link, Hanging(tables, level, link), tables # << >>
  PROVE  Cardinality({e \in {t \in 1 .. Len(tables) : level[t] # 5} \X Slot :
                        tables[e[1]][e[2]].address # 0}) = Len(tables) - 1
<1> DEFINE n == Len(tables)
           U == {t \in 1 .. n : level[t] # 5}
           E == {e \in U \X Slot : tables[e[1]][e[2]].address # 0}
<1>1. /\ tables \in Seq(Table) /\ n \in Nat /\ n # 0 /\ level \in [1 .. n -> 1 .. 5]
      /\ link \in [2 .. n -> (1 .. n) \X Slot]
  BY DEF Hanging
<1>2. ASSUME NEW x \in 2 .. n
      PROVE  link[x] \in E /\ tables[link[x][1]][link[x][2]].address = x
  <2>1. PICK a \in 1 .. n, b \in Slot : link[x] = <<a, b>>
    BY <1>1
  <2>2. level[x] = level[a] + 1 /\ tables[a][b].address = x
    <3>1. x \in 2 .. Len(tables)
      OBVIOUS
    <3>2. level[x] = level[link[x][1]] + 1 /\ tables[link[x][1]][link[x][2]].address = x
      BY <3>1 DEF Hanging
    <3> QED
      BY <2>1, <3>2
  <2>3. level[x] \in 1 .. 5 /\ level[a] \in 1 .. 5 /\ x # 0
    BY <1>1
  <2>4. a \in U
    BY <2>2, <2>3
  <2> QED
    BY <2>1, <2>2, <2>3, <2>4
<1>3. ASSUME NEW e \in E
      PROVE  \E x \in 2 .. n : link[x] = e
  <2>1. PICK a \in U, b \in Slot : e = <<a, b>>
    OBVIOUS
  <2>2. a \in 1 .. n /\ level[a] # 5 /\ tables[a][b].address # 0
    BY <2>1
  <2> QED
    BY <2>1, <2>2 DEF Hanging
<1> HIDE DEF E
<1>4. link \in [2 .. n -> E]
  BY <1>1, <1>2
<1>5. \A x, y \in 2 .. n : link[x] = link[y] => x = y
  BY <1>2
<1>6. link \in Bijection(2 .. n, E)
  BY <1>3, <1>4, <1>5 DEF Bijection, Injection, Surjection, IsInjective
<1>7. ExistsBijection(2 .. n, E)
  BY <1>6 DEF ExistsBijection
<1> HIDE DEF n
<1>8. /\ IsFiniteSet(2 .. n) /\ Cardinality(2 .. n) = n - 1
  <2>1. 2 \in Int /\ n \in Int /\ n >= 1
    BY <1>1
  <2>2. /\ IsFiniteSet(2 .. n)
        /\ Cardinality(2 .. n) = IF 2 > n THEN 0 ELSE n - 2 + 1
    BY <2>1, FS_Interval
  <2> QED
    BY <2>1, <2>2
<1>9. Cardinality(E) = n - 1
  BY <1>7, <1>8, FS_Bijection
<1> QED
  BY <1>9 DEF n, E

\* Every variable has its type.
LEMMA TreeTyped == TreeInv => TypeOK
<1> SUFFICES ASSUME TreeInv PROVE TypeOK
  OBVIOUS
<1>1. PICK level, link : /\ Hanging(tables, level, link)
                         /\ Stands(call, Len(tables), level)
  BY DEF TreeInv, Tended
<1>2. tables \in Seq([Slot -> [address : Nat, attributes : Attributes \cup {Absent}]])
      /\ Len(tables) \in Nat
  BY <1>1 DEF Hanging, Table, Cell
<1>3. root \in 0 .. Len(tables)
  BY <1>2 DEF TreeInv
<1>5. call \in [at : {"idle", "gpde", "mpde", "lpde", "lpte", "pf"},
                table : 0 .. Len(tables), slot : Slot, offset : Virtual, vaddr : Virtual,
                page : Nat, attr : Attributes \cup {Absent}]
  <2>1. CASE call.at = "idle"
    <3>1. call = Idle /\ call.offset \in Virtual
      BY <2>1 DEF TreeInv
    <3>2. 0 \in Slot /\ 0 \in Virtual /\ 0 \in 0 .. Len(tables) /\ 0 \in Nat
      BY <1>2, <3>1, EmptyCell DEF Idle
    <3> QED
      BY <3>1, <3>2 DEF Idle
  <2>2. CASE call.at # "idle"
    <3>1. call \in Calls
      BY DEF TreeInv, IInv, Trail
    <3>2. call.slot \in Slot /\ call.vaddr \in Virtual /\ call.page \in Nat
      BY <2>2, SlotOfTrail DEF TreeInv
    <3>3. call.table \in 0 .. Len(tables) /\ call.offset \in Virtual
      BY <1>1, <1>2, <2>2 DEF Stands, TreeInv
    <3> QED
      BY <3>1, <3>2, <3>3 DEF Calls
  <2> QED
    BY <2>1, <2>2
<1> QED
  BY <1>2, <1>3, <1>5 DEF TypeOK, TreeInv

\* What the invariant says, read as the tree of the tables.
LEMMA TreeHolds == TreeInv => Tree
<1> SUFFICES ASSUME TreeInv PROVE Tree
  OBVIOUS
<1>1. PICK level, link : /\ Hanging(tables, level, link)
  BY DEF TreeInv, Tended
<1> DEFINE n == Len(tables)
           L(d) == Level(level, d)
<1>2. /\ tables \in Seq(Table) /\ n \in Nat /\ level \in [1 .. n -> 1 .. 5]
      /\ \A x \in 1 .. n : level[x] = 1 <=> x = 1
  BY <1>1 DEF Hanging
<1>3. root = IF tables = << >> THEN 0 ELSE 1
  BY DEF TreeInv
<1>4. {root} \ {0} = L(1)
  <2>1. CASE tables = << >>
    <3>1. root = 0 /\ n = 0
      BY <1>3, <2>1
    <3> QED
      BY <3>1 DEF Level
  <2>2. CASE tables # << >>
    <3>1. root = 1 /\ 1 \in 1 .. n
      BY <1>2, <1>3, <2>2
    <3> QED
      BY <1>2, <3>1 DEF Level
  <2> QED
    BY <2>1, <2>2
<1> DEFINE mpde == Below({root} \ {0})
           lpde == Below(mpde)
           lpte == Below(lpde)
           pf   == Below(lpte)
<1>5. mpde = L(2) /\ lpde = L(3) /\ lpte = L(4) /\ pf = L(5)
  <2>1. \A d \in 1 .. 4 : Below(L(d)) = L(d + 1)
    BY <1>1, LevelBelow
  <2>2. Below(L(1)) = L(2) /\ Below(L(2)) = L(3) /\ Below(L(3)) = L(4) /\ Below(L(4)) = L(5)
    <3> HIDE DEF L
    <3>1. 1 \in 1 .. 4 /\ 2 \in 1 .. 4 /\ 3 \in 1 .. 4 /\ 4 \in 1 .. 4
          /\ 1 + 1 = 2 /\ 2 + 1 = 3 /\ 3 + 1 = 4 /\ 4 + 1 = 5
      OBVIOUS
    <3>2. Below(L(1)) = L(1 + 1) /\ Below(L(2)) = L(2 + 1) /\ Below(L(3)) = L(3 + 1)
          /\ Below(L(4)) = L(4 + 1)
      BY <2>1, <3>1
    <3> QED
      BY <3>1, <3>2
  <2> HIDE DEF L
  <2> QED
    BY <1>4, <2>2
<1> DEFINE upper == ({root} \cup mpde \cup lpde \cup lpte) \ {0}
           E(S) == {e \in S \X Slot : tables[e[1]][e[2]].address # 0}
<1>6. /\ 1 .. n = L(1) \cup L(2) \cup L(3) \cup L(4) \cup L(5)
      /\ {t \in 1 .. n : level[t] # 5} = L(1) \cup L(2) \cup L(3) \cup L(4)
      /\ 0 \notin L(1) \cup L(2) \cup L(3) \cup L(4)
  <2>1. \A x \in 1 .. n : level[x] \in {1, 2, 3, 4, 5}
    BY <1>2
  <2> QED
    BY <2>1 DEF Level
<1>7. upper = L(1) \cup L(2) \cup L(3) \cup L(4)
  <2> HIDE DEF L, mpde, lpde, lpte, pf
  <2> QED
    BY <1>4, <1>5, <1>6
<1>8. upper \cup pf = 1 .. n
  <2> HIDE DEF L, mpde, lpde, lpte, pf, upper
  <2> QED
    BY <1>5, <1>6, <1>7
<1>9. tables # << >> => Cardinality(E(upper)) = n - 1
  <2>1. tables # << >> => Cardinality(E({t \in 1 .. n : level[t] # 5})) = n - 1
    BY <1>1, TreeCount
  <2> HIDE DEF L, E, upper
  <2> QED
    BY <1>6, <1>7, <2>1
<1>10. TypeOK
  BY TreeTyped
<1> HIDE DEF mpde, lpde, lpte, pf, upper, E
<1> QED
  BY <1>8, <1>9, <1>10 DEF Tree, mpde, lpde, lpte, pf, upper, E

\* When the pages of the tables come zeroed, however many pages are mapped,
\* every table made is reached from the root through the entries above the last
\* level, and hangs from one of them only.
THEOREM TablesFormTree == ASSUME Cleared PROVE Spec => []Tree
<1>1. TreeInv /\ [Next]_vars => TreeInv'
  BY TreeStep
<1> QED
  BY <1>1, TreeStart, TreeHolds, PTL DEF Spec

-------------------------------------------------------------------------------
(* The two halves of the machine *)

\* Where a page of one half is in the other.
Swap(v) == (v + Half) % (2 * Half)

\* The pages of the machine are two halves of the same length.
LEMMA TwoHalves ==
  /\ Half \in Nat \ {0} /\ Virtual = 0 .. 2 * Half - 1
  /\ Directories * RegionCount * RegionSize = 2 * Half
<1> DEFINE K == Directories * RegionCount * RegionSize
           h == Directories * RegionCount * Entries
<1>1. /\ Directories \in Nat \ {0} /\ RegionCount \in Nat \ {0} /\ Entries \in Nat \ {0}
      /\ RegionSize = 2 * Entries
  BY PvmAssumption, Sizes
<1>2. \A a, b \in Nat \ {0} : a * b \in Nat \ {0}
  OBVIOUS
<1>3. Directories * RegionCount \in Nat \ {0}
  BY <1>1, <1>2
<1>4. h \in Nat \ {0}
  BY <1>1, <1>2, <1>3
<1>5. K = 2 * h
  <2>1. \A a, b \in Nat : a * (2 * b) = 2 * (a * b)
    OBVIOUS
  <2> QED
    BY <1>1, <1>3, <2>1
<1>6. Virtual = 0 .. K - 1
  BY DEF Virtual
<1> HIDE DEF K, h
<1>7. Cardinality(0 .. K - 1) = K
  <2>1. 0 \in Int /\ K - 1 \in Int /\ ~(0 > K - 1) /\ K \in Nat
    BY <1>4, <1>5
  <2>2. Cardinality(0 .. K - 1) = IF 0 > K - 1 THEN 0 ELSE (K - 1) - 0 + 1
    BY <2>1, FS_Interval
  <2> QED
    BY <2>1, <2>2
<1>8. Half = h
  <2>1. Half = (2 * h) \div 2
    BY <1>5, <1>6, <1>7 DEF Half
  <2> QED
    BY <1>4, <2>1
<1> QED
  BY <1>4, <1>5, <1>6, <1>8 DEF K

\* The exchange of the halves, and what the loader's map makes of them.
LEMMA Swapping ==
  ASSUME NEW v \in Virtual
  PROVE  /\ v \in Nat /\ v < 2 * Half /\ Swap(v) \in Virtual /\ Swap(Swap(v)) = v
         /\ v < Half => Swap(v) = v + Half /\ v % Half = v
         /\ v >= Half => Swap(v) = v - Half /\ v % Half = v - Half
                         /\ (v - Half) % (2 * Half) = v - Half
<1> DEFINE d == 2 * Half
<1>1. Half \in Nat \ {0} /\ Virtual = 0 .. d - 1 /\ d \in Nat \ {0} /\ d = 2 * Half
  BY TwoHalves
<1>2. v \in Nat /\ v < d
  BY <1>1
<1>3. \A r \in Nat : r < d => r % d = r /\ (r + d) % d = r
  <2> HIDE DEF d
  <2> TAKE r \in Nat
  <2> HAVE r < d
  <2>1. (d * 0 + r) % d = r /\ (d * 1 + r) % d = r
    BY <1>1, Quotient
  <2>2. d * 0 + r = r /\ d * 1 + r = r + d
    BY <1>1
  <2> QED
    BY <2>1, <2>2
<1>4. \A r \in Nat : r < Half => r % Half = r /\ (r + Half) % Half = r
  <2> TAKE r \in Nat
  <2> HAVE r < Half
  <2>1. (Half * 0 + r) % Half = r /\ (Half * 1 + r) % Half = r
    BY <1>1, Quotient
  <2>2. Half * 0 + r = r /\ Half * 1 + r = r + Half
    BY <1>1
  <2> QED
    BY <2>1, <2>2
<1> HIDE DEF d
<1>5. ASSUME NEW u \in Nat, u < Half PROVE Swap(u) = u + Half /\ u % Half = u
  <2>1. u + Half \in Nat /\ u + Half < d
    BY <1>1, <1>5
  <2> QED
    BY <1>1, <1>3, <1>4, <1>5, <2>1 DEF Swap
<1>6. ASSUME NEW u \in Nat, u >= Half, u < d
      PROVE  Swap(u) = u - Half /\ u % Half = u - Half /\ (u - Half) % d = u - Half
  <2>1. PICK r \in Nat : r = u - Half /\ r < Half /\ r < d
    BY <1>1, <1>6
  <2>2. u + Half = r + d /\ u = r + Half
    BY <1>1, <2>1
  <2>3. r % d = r /\ (r + d) % d = r
    BY <1>3, <2>1
  <2>4. (r + Half) % Half = r
    BY <1>4, <2>1
  <2>5. Swap(u) = (r + d) % d
    BY <1>1, <2>2 DEF Swap
  <2> QED
    BY <1>1, <2>1, <2>2, <2>3, <2>4, <2>5
<1>7. CASE v < Half
  <2>1. Swap(v) = v + Half /\ v % Half = v
    BY <1>2, <1>5, <1>7
  <2>2. v + Half \in Nat /\ v + Half >= Half /\ v + Half < d
    BY <1>1, <1>2, <1>7
  <2>3. Swap(v + Half) = (v + Half) - Half
    BY <1>6, <2>2
  <2> QED
    BY <1>1, <1>2, <1>7, <2>1, <2>2, <2>3
<1>8. CASE v >= Half
  <2>1. Swap(v) = v - Half /\ v % Half = v - Half /\ (v - Half) % d = v - Half
    BY <1>2, <1>6, <1>8
  <2>2. v - Half \in Nat /\ v - Half < Half
    BY <1>1, <1>2, <1>8
  <2>3. Swap(v - Half) = (v - Half) + Half
    BY <1>5, <2>2
  <2> QED
    BY <1>1, <1>2, <1>8, <2>1, <2>2, <2>3
<1> QED
  BY <1>1, <1>2, <1>7, <1>8

-------------------------------------------------------------------------------
(* The invariant *)

LowHalf  == 0 .. Half - 1
HighHalf == Half .. 2 * Half - 1

Steps == {"BtldrMapMmu", "halted", "FwJumpFileEntry", "HalInitialize", "HalSwitchStack",
          "HalRemapBootloader", "FwInitialize", "VmInitialize", "VmMapDescription", "running"}

\* How far the sequence is: paging off, the loader's map, the kernel's offset,
\* the kernel's map, the kernel's screen.
Unpaged    == {"BtldrMapMmu", "halted"}
InLoader   == Unpaged \cup {"FwJumpFileEntry"}
Unshifted  == InLoader \cup {"HalInitialize"}
OnOldStack == Unshifted \cup {"HalSwitchStack"}
Mirrored   == {"FwJumpFileEntry", "HalInitialize", "HalSwitchStack", "HalRemapBootloader"}
Displayed  == {"VmInitialize", "VmMapDescription", "running"}

\* The processor's map is known at each step, and with it where the code, the
\* stack, the frame and the screen are.
MapOf(step) ==
  IF step \in Unpaged THEN [v \in Virtual |-> v]
  ELSE IF step \in Mirrored THEN [v \in Virtual |-> v % Half]
  ELSE [v \in Virtual |-> Swap(v)]

Settled ==
  /\ pc \in Steps
  /\ cr3 = MapOf(pc)
  /\ used \in [eip : IF pc \in InLoader THEN LowHalf ELSE HighHalf,
               esp : IF pc \in OnOldStack THEN LowHalf ELSE HighHalf,
               ebp : IF pc \in OnOldStack THEN LowHalf ELSE HighHalf]
  /\ loadOffset = IF pc \in Unshifted THEN 0 ELSE Half
  /\ framebuffer \in Virtual
  /\ screen = IF pc \in Displayed THEN Swap(framebuffer) ELSE framebuffer
  /\ image \in HighHalf /\ stackLocation \in HighHalf

\* The pages that VmInitialize has come to are mapped, but for the one whose
\* walk is still going on.
Filled(i) ==
  IF call.at # "idle" /\ i = progress - 1
    THEN call.vaddr = Swap(i) /\ call.page = i
    ELSE Lookup(Swap(i)) # Empty /\ Lookup(Swap(i)).address = i

Filling ==
  /\ progress \in 0 .. 2 * Half
  /\ pc \notin {"VmMapDescription", "running"} => progress = 0
  /\ pc # "VmMapDescription" => call.at = "idle"
  /\ pc = "VmMapDescription" => root # 0
  /\ \A i \in 0 .. progress - 1 : Filled(i)

BootIInv == IInv /\ Settled /\ Filling

\* The loader starts without paging, and nothing is mapped.
LEMMA BootStart == BootInit => BootIInv
<1> SUFFICES ASSUME BootInit PROVE BootIInv
  OBVIOUS
<1>1. /\ Init /\ pc = "BtldrMapMmu" /\ cr3 = [v \in Virtual |-> v] /\ loadOffset = 0
      /\ framebuffer \in Framebuffers /\ screen = framebuffer
      /\ image \in KernelPages /\ stackLocation \in KernelPages /\ progress = 0
  BY DEF BootInit
<1>2. PICK code \in LoaderPages, stack \in LoaderPages :
        used = [eip |-> code, esp |-> stack, ebp |-> stack]
  BY DEF BootInit
<1>3. IInv
  BY <1>1, Start
<1>4. Settled
  <2>1. code \in LowHalf /\ stack \in LowHalf /\ image \in HighHalf /\ stackLocation \in HighHalf
        /\ framebuffer \in Virtual
    BY <1>1, <1>2, BootAssumption DEF LowHalf, HighHalf
  <2> QED
    BY <1>1, <1>2, <2>1
       DEF Settled, Steps, MapOf, Unpaged, InLoader, Unshifted, OnOldStack, Displayed
<1>5. Filling
  <2>1. call = Idle
    BY <1>1 DEF Init
  <2> QED
    BY <1>1, <2>1, IdleCall, TwoHalves DEF Filling
<1> QED
  BY <1>3, <1>4, <1>5 DEF BootIInv

\* Tables lie high, and CR3 is given their physical address while the map
\* shows them there: the processor takes over the new map.
LEMMA LoadFound ==
  ASSUME Settled, pc \in Steps \ Unshifted, NEW data \in HighHalf, NEW map
  PROVE  NtLoadVm(data, map) <=> cr3' = map
<1>1. /\ data \in Virtual /\ data \in Nat /\ data >= Half
  BY TwoHalves DEF HighHalf
<1>2. Swap(data) = data - Half /\ data % Half = data - Half
      /\ (data - Half) % (2 * Half) = data - Half
  BY <1>1, Swapping
<1>3. loadOffset = Half /\ cr3 = MapOf(pc) /\ pc \notin Unpaged
  BY DEF Settled, Unshifted, InLoader
<1>4. cr3[data] = data - Half
  BY <1>1, <1>2, <1>3 DEF MapOf
<1>5. HalVirtualToPhysical(data) = data - Half
  BY <1>2, <1>3 DEF HalVirtualToPhysical
<1> QED
  BY <1>4, <1>5 DEF NtLoadVm

\* The steps between the loader and the kernel's first map leave the tables
\* of module Pvm alone.
LEMMA SequenceSafe ==
  ASSUME BootIInv,
         \/ DamagedFile \/ BtldrMapMmu \/ FwJumpFileEntry \/ HalInitialize
         \/ HalSwitchStack \/ HalRemapBootloader \/ FwInitialize
  PROVE  /\ BootIInv'
         /\ \A r \in DOMAIN used : cr3'[used[r]] = cr3[used[r]] \/ cr3' = cr3
<1>1. /\ UNCHANGED vars /\ UNCHANGED <<framebuffer, image, stackLocation, progress>>
      /\ pc' \in Steps \ {"VmMapDescription", "running"}
      /\ pc \in Steps \ {"VmMapDescription", "running"}
  BY DEF DamagedFile, BtldrMapMmu, FwJumpFileEntry, HalInitialize, HalSwitchStack,
         HalRemapBootloader, FwInitialize, Steps
<1>2. IInv'
  BY <1>1 DEF vars, BootIInv, IInv, InPlace, Trail
<1>3. Filling'
  <2>1. progress = 0 /\ call.at = "idle" /\ call' = call
    BY <1>1 DEF BootIInv, Filling, vars
  <2> QED
    BY <1>1, <2>1, TwoHalves DEF Filling
<1>4. /\ Settled /\ Half \in Nat \ {0} /\ Virtual = 0 .. 2 * Half - 1
      /\ LowHalf \subseteq Virtual /\ HighHalf \subseteq Virtual
  BY TwoHalves DEF BootIInv, LowHalf, HighHalf
<1>5. \A v \in LowHalf : v % Half = v /\ v + Half \in HighHalf
  <2> TAKE v \in LowHalf
  <2>1. v \in Nat /\ v < Half
    BY <1>4 DEF LowHalf
  <2> QED
    BY <1>4, <2>1, Swapping DEF HighHalf
<1>6. \A v \in HighHalf : v % Half = Swap(v)
  <2> TAKE v \in HighHalf
  <2>1. v >= Half
    BY <1>4 DEF HighHalf
  <2> QED
    BY <1>4, <2>1, Swapping
<1>7. Settled' /\ \A r \in DOMAIN used : cr3'[used[r]] = cr3[used[r]] \/ cr3' = cr3
  <2>1. CASE DamagedFile
    BY <1>4, <2>1 DEF DamagedFile, Settled, Steps, MapOf, Unpaged, Mirrored, InLoader,
                      Unshifted, OnOldStack, Displayed
  <2>2. CASE BtldrMapMmu
    <3>1. \A r \in DOMAIN used : used[r] \in LowHalf
      BY <1>4, <2>2 DEF BtldrMapMmu, Settled, Unpaged, InLoader, Unshifted, OnOldStack
    <3>2. \A r \in DOMAIN used : cr3'[used[r]] = cr3[used[r]]
      BY <1>4, <1>5, <2>2, <3>1 DEF BtldrMapMmu, Settled, MapOf, Unpaged
    <3>3. Settled'
      BY <1>4, <2>2 DEF BtldrMapMmu, Settled, Steps, MapOf, Unpaged, Mirrored, InLoader,
                        Unshifted, OnOldStack, Displayed
    <3> QED
      BY <3>2, <3>3
  <2>3. CASE FwJumpFileEntry
    BY <1>4, <2>3 DEF FwJumpFileEntry, Settled, Steps, MapOf, Unpaged, Mirrored, InLoader,
                      Unshifted, OnOldStack, Displayed
  <2>4. CASE HalInitialize
    BY <1>4, <2>4 DEF HalInitialize, Settled, Steps, MapOf, Unpaged, Mirrored, InLoader,
                      Unshifted, OnOldStack, Displayed
  <2>5. CASE HalSwitchStack
    <3>1. used.ebp \in LowHalf /\ used.ebp + Half \in HighHalf
      BY <1>4, <1>5, <2>5 DEF HalSwitchStack, Settled, OnOldStack
    <3>2. used' = [eip |-> used.eip, esp |-> stackLocation, ebp |-> used.ebp + Half]
      BY <1>4, <2>5 DEF HalSwitchStack, Settled
    <3> QED
      BY <1>4, <2>5, <3>1, <3>2
         DEF HalSwitchStack, Settled, Steps, MapOf, Unpaged, Mirrored, InLoader,
             Unshifted, OnOldStack, Displayed
  <2>6. CASE HalRemapBootloader
    <3>1. pc = "HalRemapBootloader" /\ pc' = "FwInitialize" /\ image \in HighHalf
          /\ UNCHANGED <<loadOffset, framebuffer, screen, image, stackLocation, used>>
          /\ NtLoadVm(image, [v \in Virtual |-> (v + Half) % (2 * Half)])
      BY <1>4, <2>6 DEF HalRemapBootloader, Settled
    <3>2. pc \in Steps \ Unshifted
      BY <3>1 DEF Steps, Unshifted, InLoader, Unpaged
    <3>3. cr3' = [v \in Virtual |-> Swap(v)]
      BY <1>4, <3>1, <3>2, LoadFound DEF Swap
    <3>4. \A r \in DOMAIN used : used[r] \in HighHalf
      BY <1>4, <3>1 DEF Settled, Unpaged, InLoader, Unshifted, OnOldStack
    <3>5. \A r \in DOMAIN used : cr3'[used[r]] = cr3[used[r]]
      BY <1>4, <1>6, <3>1, <3>3, <3>4 DEF Settled, MapOf, Unpaged, Mirrored
    <3>6. Settled'
      BY <1>4, <3>1, <3>3 DEF Settled, Steps, MapOf, Unpaged, Mirrored, InLoader,
                              Unshifted, OnOldStack, Displayed
    <3> QED
      BY <3>5, <3>6
  <2>7. CASE FwInitialize
    <3>1. pc = "FwInitialize" /\ loadOffset = Half
      BY <1>4, <2>7 DEF FwInitialize, Settled, Unshifted, InLoader, Unpaged
    <3>2. HalPhysicalToVirtual(framebuffer) = Swap(framebuffer)
      BY <3>1 DEF HalPhysicalToVirtual, Swap
    <3> QED
      BY <1>4, <2>7, <3>2
         DEF FwInitialize, Settled, Steps, MapOf, Unpaged, Mirrored, InLoader,
             Unshifted, OnOldStack, Displayed
  <2> QED
    BY <2>1, <2>2, <2>3, <2>4, <2>5, <2>6, <2>7
<1> QED
  BY <1>2, <1>3, <1>7 DEF BootIInv

\* The steps that fill the tables leave the maps of the processor alone.
LEMMA SettledWhile ==
  ASSUME Settled, UNCHANGED <<cr3, loadOffset, framebuffer, screen, image, stackLocation, used>>,
         \/ pc' = pc
         \/ pc \in Displayed /\ pc' \in Displayed
  PROVE  Settled'
  BY DEF Settled, Steps, MapOf, Unpaged, Mirrored, InLoader, Unshifted, OnOldStack, Displayed

\* Pages of different numbers go to different places.
LEMMA SwapApart == \A i, j \in Virtual : Swap(i) = Swap(j) => i = j
  BY Swapping

\* VmInitialize makes the root table, calls for page after page, and lets the
\* walk for each go all the way down.
LEMMA FillSafe ==
  ASSUME Cleared, BootIInv, VmCreate \/ VmNextPage \/ VmWalk
  PROVE  BootIInv' /\ cr3' = cr3
<1>1. IInv /\ Settled /\ Filling
  BY DEF BootIInv
<1>2. \A i \in 0 .. progress - 1 : i \in Nat /\ i \in Virtual /\ Swap(i) \in Virtual
        /\ Swap(i) \in Observed
  <2> TAKE i \in 0 .. progress - 1
  <2>1. i \in Virtual
    BY <1>1, TwoHalves DEF Filling
  <2> QED
    BY <2>1, Swapping, BootAssumption
<1>3. CASE VmCreate
  <2>1. /\ pc = "VmInitialize" /\ HalInitializeDescription /\ pc' = "VmMapDescription"
        /\ UNCHANGED <<cr3, loadOffset, framebuffer, screen, image, stackLocation, used, progress>>
    BY <1>3 DEF VmCreate
  <2>2. IInv' /\ call' = call /\ call = Idle
    BY <1>1, <2>1, InitializeSafe DEF HalInitializeDescription
  <2>3. root' # 0
    <3>1. tables \in Seq(Table)
      BY <1>1 DEF IInv, InPlace, Placed
    <3>2. \A n \in Nat : n + 1 # 0
      OBVIOUS
    <3>3. root' = Len(tables) + 1 /\ Len(tables) \in Nat
      BY <2>1, <3>1 DEF HalInitializeDescription
    <3> QED
      BY <3>2, <3>3
  <2>4. Settled'
    BY <1>1, <2>1, SettledWhile DEF Displayed
  <2>5. Filling'
    BY <1>1, <2>1, <2>2, <2>3, TwoHalves DEF Filling
  <2> QED
    BY <2>1, <2>2, <2>4, <2>5 DEF BootIInv
<1>4. CASE VmNextPage
  <2>1. /\ pc = "VmMapDescription" /\ progress < 2 * Half /\ progress' = progress + 1
        /\ UNCHANGED <<pc, cr3, loadOffset, framebuffer, screen, image, stackLocation, used>>
    BY <1>4 DEF VmNextPage
  <2>2. PICK a \in Attributes : VmMapDescription(Swap(progress), progress, a)
    BY <1>4 DEF VmNextPage, Swap
  <2>3. progress \in Virtual /\ progress \in Nat
    BY <1>1, <2>1, TwoHalves DEF Filling
  <2>4. Swap(progress) \in Asked /\ progress \in Physical /\ root # 0
    BY <1>1, <2>1, <2>3, Swapping, BootAssumption DEF Filling
  <2>5. PICK v \in Asked, p \in Physical : v = Swap(progress) /\ p = progress
    BY <2>4
  <2>6. /\ IInv' /\ \A u \in Observed : Lookup(u)' = Lookup(u)
        /\ call = Idle /\ call'.at = "gpde" /\ call'.vaddr = v /\ call'.page = p
    <3>1. VmMapDescription(v, p, a)
      BY <2>2, <2>5
    <3> QED
      BY <1>1, <2>4, <3>1, CallSafe
  <2>7. root' # 0
    BY <2>2, <2>4 DEF VmMapDescription
  <2>8. ASSUME NEW i \in 0 .. progress' - 1 PROVE Filled(i)'
    <3>1. CASE i = progress
      BY <2>1, <2>3, <2>5, <2>6, <3>1 DEF Filled, Swap
    <3>2. CASE i \in 0 .. progress - 1
      <4>1. Lookup(Swap(i)) # Empty /\ Lookup(Swap(i)).address = i
        BY <1>1, <2>6, <3>2, IdleCall DEF Filling, Filled
      <4>2. Swap(i) \in Observed
        BY <1>2, <3>2
      <4>3. PICK u \in Observed : u = Swap(i)
        BY <4>2
      <4>4. Lookup(u)' = Lookup(u)
        BY <2>6
      <4>5. Lookup(Swap(i))' = Lookup(u)'
        BY <4>3, ReadsNext DEF Swap, Lookup, LookupIn
      <4>6. i # progress' - 1
        BY <1>2, <2>1, <2>3, <3>2
      <4>7. Lookup(Swap(i))' # Empty /\ Lookup(Swap(i))'.address = i
        BY <4>1, <4>3, <4>4, <4>5
      <4> QED
        BY <4>6, <4>7 DEF Filled
    <3> QED
      BY <2>1, <2>3, <3>1, <3>2
  <2>9. Settled'
    BY <1>1, <2>1, SettledWhile
  <2>10. Filling'
    BY <1>1, <2>1, <2>3, <2>7, <2>8, TwoHalves DEF Filling
  <2> QED
    BY <2>1, <2>6, <2>9, <2>10 DEF BootIInv
<1>5. CASE VmWalk
  <2>1. Walk /\ UNCHANGED bootVars
    BY <1>5 DEF VmWalk
  <2>2. UNCHANGED <<pc, cr3, loadOffset, framebuffer, screen, image, stackLocation, used, progress>>
    BY <2>1 DEF bootVars
  <2>3. Settled'
    BY <1>1, <2>2, SettledWhile
  <2>4. root' = root
    BY <2>1 DEF Walk, VmiMapGpde, VmiMapMpde, VmiMapLpde, VmiMapLpte, VmiMapPf, Descend
  <2>5. CASE VmiMapPf
    <3>1. /\ IInv' /\ call.at # "idle" /\ call' = Idle /\ call.vaddr \in Observed
          /\ \A u \in Observed :
               Lookup(u)' = IF u = call.vaddr THEN Entry(call.page, call.attr) ELSE Lookup(u)
      BY <1>1, <2>5, PutSafe
    <3>2. call.attr \in Attributes
      BY <1>1, <3>1 DEF IInv, Trail
    <3>3. Entry(call.page, call.attr) # Empty /\ Entry(call.page, call.attr).address = call.page
      BY <3>2, BootAssumption DEF Entry, Empty
    <3>4. ASSUME NEW i \in 0 .. progress - 1 PROVE Filled(i)'
      <4>1. PICK u \in Observed : u = Swap(i)
        BY <1>2
      <4>2. Lookup(Swap(i))' = Lookup(u)'
        BY <4>1 DEF Swap, Lookup, LookupIn
      <4>3. Lookup(u)' # Empty /\ Lookup(u)'.address = i
        <5>1. CASE i = progress - 1
          <6>1. call.vaddr = Swap(i) /\ call.page = i
            BY <1>1, <3>1, <5>1 DEF Filling, Filled
          <6> QED
            BY <3>1, <3>3, <4>1, <6>1
        <5>2. CASE i # progress - 1
          <6>1. Lookup(Swap(i)) # Empty /\ Lookup(Swap(i)).address = i
            BY <1>1, <5>2 DEF Filling, Filled
          <6>2. progress - 1 \in 0 .. progress - 1 /\ progress \in Nat
            BY <1>1, <1>2 DEF Filling
          <6>3. call.vaddr = Swap(progress - 1)
            BY <1>1, <3>1, <6>2 DEF Filling, Filled
          <6>4. Swap(i) # Swap(progress - 1)
            BY <1>2, <5>2, <6>2, SwapApart
          <6> QED
            BY <3>1, <4>1, <6>1, <6>3, <6>4
        <5> QED
          BY <5>1, <5>2
      <4> QED
        BY <2>2, <3>1, <4>2, <4>3, IdleCall DEF Filled
    <3>5. Filling'
      BY <1>1, <2>2, <2>4, <3>1, <3>4, IdleCall DEF Filling
    <3> QED
      BY <2>2, <2>3, <3>1, <3>5 DEF BootIInv
  <2>6. CASE VmiMapGpde \/ VmiMapMpde \/ VmiMapLpde \/ VmiMapLpte
    <3>1. /\ IInv' /\ call.at # "idle" /\ call'.at # "idle"
          /\ call'.vaddr = call.vaddr /\ call'.page = call.page
          /\ \A v \in Observed : Lookup(v)' = Lookup(v)
      BY <1>1, <2>6, DescentSafe
    <3>2. ASSUME NEW i \in 0 .. progress - 1 PROVE Filled(i)'
      <4>1. PICK u \in Observed : u = Swap(i)
        BY <1>2
      <4>2. Lookup(Swap(i))' = Lookup(u)'
        BY <4>1 DEF Swap, Lookup, LookupIn
      <4>3. CASE i = progress - 1
        <5>1. call.vaddr = Swap(i) /\ call.page = i
          BY <1>1, <3>1, <4>3 DEF Filling, Filled
        <5> QED
          BY <2>2, <3>1, <4>3, <5>1 DEF Filled, Swap
      <4>4. CASE i # progress - 1
        <5>1. Lookup(Swap(i)) # Empty /\ Lookup(Swap(i)).address = i
          BY <1>1, <4>4 DEF Filling, Filled
        <5>2. Lookup(u)' = Lookup(u)
          BY <3>1
        <5> QED
          BY <2>2, <4>1, <4>2, <4>4, <5>1, <5>2 DEF Filled
      <4> QED
        BY <4>3, <4>4
    <3>3. Filling'
      BY <1>1, <2>2, <2>4, <3>1, <3>2 DEF Filling
    <3> QED
      BY <2>2, <2>3, <3>1, <3>3 DEF BootIInv
  <2> QED
    BY <2>1, <2>5, <2>6 DEF Walk
<1> QED
  BY <1>3, <1>4, <1>5

\* When every page is mapped no region is skipped.
LEMMA AllDense ==
  ASSUME \A v \in Virtual : Lookup(v) # Empty
  PROVE  Abstract!Dense
<1>1. Observed = Virtual /\ RegionSize \in Nat \ {0} /\ RegionCount \in Nat \ {0}
  BY BootAssumption, Sizes
<1>2. Abstract!Regions = {v \div RegionSize : v \in Virtual}
  BY <1>1 DEF Abstract!Regions
<1>3. ASSUME NEW r \in Abstract!Regions, NEW q \in (r \div RegionCount) * RegionCount .. r
      PROVE  q \in Abstract!Regions
  <2>1. PICK v \in Virtual : r = v \div RegionSize
    BY <1>2, <1>3
  <2>2. v \in Nat /\ v < 2 * Half /\ Half \in Nat
    BY Swapping, TwoHalves
  <2>3. r \in Nat /\ v % RegionSize \in Nat /\ v = RegionSize * r + (v % RegionSize)
    BY <1>1, <2>1, <2>2, DivMod
  <2>4. r \div RegionCount \in Nat
    BY <1>1, <2>3, DivMod
  <2>5. (r \div RegionCount) * RegionCount \in Nat
    BY <1>1, <2>4
  <2>6. q \in Nat /\ q <= r
    BY <1>3, <2>3, <2>5
  <2>7. PICK k \in Nat : r = q + k
    <3>1. r - q \in Nat /\ r = q + (r - q)
      BY <2>3, <2>6
    <3> QED
      BY <3>1
  <2>8. /\ RegionSize * (q + k) = RegionSize * q + RegionSize * k
        /\ RegionSize * k \in Nat /\ RegionSize * q \in Nat
    BY <1>1, <2>6
  <2>9. RegionSize * q <= v
    BY <2>2, <2>3, <2>7, <2>8
  <2>10. RegionSize * q \in Virtual
    BY <2>2, <2>8, <2>9, TwoHalves
  <2>11. (RegionSize * q + 0) \div RegionSize = q
    BY <1>1, <2>6, Quotient
  <2>12. (RegionSize * q) \div RegionSize = q
    BY <2>8, <2>11
  <2> QED
    BY <1>2, <2>10, <2>12
<1> QED
  BY <1>3 DEF Abstract!Dense

\* The map that VmInitialize made is the one the kernel runs with already.
LEMMA LoadsSame ==
  ASSUME BootIInv, VmLoad
  PROVE  BootIInv' /\ cr3' = cr3
<1>1. /\ IInv /\ Settled /\ Filling /\ pc = "VmMapDescription" /\ progress = 2 * Half
      /\ HalSetDescription /\ pc' = "running"
      /\ UNCHANGED <<loadOffset, framebuffer, screen, image, stackLocation, used, progress>>
  BY DEF BootIInv, VmLoad
<1>2. call = Idle /\ UNCHANGED <<tables, root, call, maps>>
  BY <1>1 DEF HalSetDescription
<1>3. IInv' /\ Abstract!Load
  BY <1>1, LoadSafe
<1>4. ASSUME NEW v \in Virtual PROVE Lookup(v) # Empty /\ Lookup(v).address = Swap(v)
  <2>1. PICK i \in Virtual : i = Swap(v) /\ Swap(i) = v
    BY Swapping
  <2>2. i \in 0 .. progress - 1
    BY <1>1, TwoHalves
  <2>3. Lookup(Swap(i)) # Empty /\ Lookup(Swap(i)).address = i
    BY <1>1, <1>2, <2>2, IdleCall DEF Filling, Filled
  <2> QED
    BY <2>1, <2>3
<1>5. Abstract!Dense
  BY <1>4, AllDense
<1>6. ASSUME NEW v \in Virtual PROVE Translate(v)' = Swap(v)
  <2>1. v \in Observed
    BY BootAssumption
  <2>2. Translate(v)' = Lookup(v).address
    BY <1>3, <1>4, <1>5, <2>1 DEF Abstract!Load
  <2> QED
    BY <1>4, <2>2
<1>7. PICK heap \in KernelPages : NtLoadVm(heap, [v \in Virtual |-> Translate(v)'])
  BY DEF VmLoad
<1>8. PICK map : map = [v \in Virtual |-> Translate(v)']
  OBVIOUS
<1>9. heap \in HighHalf /\ pc \in Steps \ Unshifted
  BY <1>1, BootAssumption DEF HighHalf, Steps, Unshifted, InLoader, Unpaged
<1>10. cr3' = map
  <2>1. NtLoadVm(heap, map) <=> cr3' = map
    BY <1>1, <1>9, LoadFound
  <2>2. NtLoadVm(heap, map)
    BY <1>7, <1>8 DEF NtLoadVm
  <2> QED
    BY <2>1, <2>2
<1>11. cr3 = [v \in Virtual |-> Swap(v)]
  BY <1>1 DEF Settled, MapOf, Unpaged, Mirrored
<1>12. cr3' = cr3
  BY <1>6, <1>8, <1>10, <1>11
<1>13. Settled'
  BY <1>1, <1>12, SettledWhile DEF Displayed
<1>14. Filling'
  <2>1. \A i \in 0 .. progress - 1 : Filled(i)'
    <3> TAKE i \in 0 .. progress - 1
    <3>1. Filled(i)
      BY <1>1 DEF Filling
    <3>2. Lookup(Swap(i))' = Lookup(Swap(i))
      BY <1>2 DEF Lookup, LookupIn, Swap
    <3> QED
      BY <1>1, <1>2, <3>1, <3>2, IdleCall DEF Filled
  <2> QED
    BY <1>1, <1>2, <2>1, IdleCall DEF Filling
<1> QED
  BY <1>3, <1>12, <1>13, <1>14 DEF BootIInv

Pages == \A r \in DOMAIN used : cr3'[used[r]] = cr3[used[r]]

\* Every step keeps the invariant, and what the processor is using.
LEMMA BootStep ==
  ASSUME Cleared, BootIInv, [BootNext]_<<vars, bootVars>>
  PROVE  BootIInv' /\ [Pages]_cr3
<1>1. CASE \/ DamagedFile \/ BtldrMapMmu \/ FwJumpFileEntry \/ HalInitialize
           \/ HalSwitchStack \/ HalRemapBootloader \/ FwInitialize
  BY <1>1, SequenceSafe DEF Pages
<1>2. CASE VmCreate \/ VmNextPage \/ VmWalk
  BY <1>2, FillSafe
<1>3. CASE VmLoad
  BY <1>3, LoadsSame
<1>4. CASE UNCHANGED <<vars, bootVars>>
  <2>1. /\ UNCHANGED vars
        /\ UNCHANGED <<pc, cr3, loadOffset, framebuffer, screen, image, stackLocation, used,
                       progress>>
    BY <1>4 DEF bootVars
  <2>2. IInv'
    BY <2>1 DEF vars, BootIInv, IInv, InPlace, Trail
  <2>3. Settled'
    BY <2>1, SettledWhile DEF BootIInv
  <2>4. Filling'
    <3>1. \A i \in 0 .. progress - 1 : Filled(i)'
      <4> TAKE i \in 0 .. progress - 1
      <4>1. Filled(i)
        BY DEF BootIInv, Filling
      <4>2. Lookup(Swap(i))' = Lookup(Swap(i))
        BY <2>1 DEF vars, Lookup, LookupIn, Swap
      <4> QED
        BY <2>1, <4>1, <4>2 DEF Filled, vars
    <3> QED
      BY <2>1, <3>1 DEF BootIInv, Filling, vars
  <2> QED
    BY <2>1, <2>2, <2>3, <2>4 DEF BootIInv
<1> QED
  BY <1>1, <1>2, <1>3, <1>4 DEF BootNext

-------------------------------------------------------------------------------
(* What the kernel relies on *)

\* The offset and the map of each step agree.
LEMMA WindowHolds == BootIInv => WindowOpen
<1> SUFFICES ASSUME BootIInv,
                    pc \in {"FwInitialize", "VmInitialize", "VmMapDescription", "running"},
                    NEW p \in Virtual
             PROVE  cr3[HalPhysicalToVirtual(p)] = p
  BY DEF WindowOpen
<1>1. loadOffset = Half /\ cr3 = [v \in Virtual |-> Swap(v)]
  BY DEF BootIInv, Settled, Unshifted, InLoader, Unpaged, MapOf, Mirrored
<1>2. HalPhysicalToVirtual(p) = Swap(p)
  BY <1>1 DEF HalPhysicalToVirtual, Swap
<1> QED
  BY <1>1, <1>2, Swapping

\* So do the address of the screen and the map.
LEMMA ScreenHolds == BootIInv => PrintsReachScreen
<1> SUFFICES ASSUME BootIInv,
                    pc \in {"BtldrMapMmu", "halted", "VmInitialize", "VmMapDescription", "running"}
             PROVE  cr3[screen] = framebuffer
  BY DEF PrintsReachScreen
<1>1. Settled /\ framebuffer \in Virtual
  BY DEF BootIInv, Settled
<1>2. CASE pc \in Unpaged
  BY <1>1, <1>2 DEF Settled, MapOf, Unpaged, Displayed
<1>3. CASE pc \in Displayed
  <2>1. cr3 = [v \in Virtual |-> Swap(v)] /\ screen = Swap(framebuffer)
    BY <1>1, <1>3 DEF Settled, MapOf, Unpaged, Mirrored, Displayed
  <2> QED
    BY <1>1, <2>1, Swapping
<1> QED
  BY <1>2, <1>3 DEF Unpaged, Displayed

\* The invariant holds of every behaviour.
LEMMA BootInvariance == ASSUME Cleared PROVE BootSpec => []BootIInv
<1>1. BootIInv /\ [BootNext]_<<vars, bootVars>> => BootIInv'
  BY BootStep
<1> QED
  BY <1>1, BootStart, PTL DEF BootSpec

\* From its first map on, and through the switch to the tables that
\* VmInitialize fills page by page, the kernel finds every physical page
\* where HalPhysicalToVirtual says.
THEOREM WindowStaysOpen == ASSUME Cleared PROVE BootSpec => []WindowOpen
<1> QED
  BY BootInvariance, WindowHolds, PTL

\* Whoever prints reaches the framebuffer, wherever in memory it is.
THEOREM ScreenReached == ASSUME Cleared PROVE BootSpec => []PrintsReachScreen
<1> QED
  BY BootInvariance, ScreenHolds, PTL

\* No switch of the map takes the code, the stack or the frame away from the
\* processor: each lies on the same physical page before and after.
THEOREM SwitchesSafe == ASSUME Cleared PROVE BootSpec => SwitchKeepsPages
<1>1. BootIInv /\ [BootNext]_<<vars, bootVars>> => [Pages]_cr3
  BY BootStep
<1>2. BootSpec => [][Pages]_cr3
  BY <1>1, BootInvariance, PTL DEF BootSpec
<1> QED
  BY <1>2 DEF SwitchKeepsPages, Pages
===============================================================================
