------------------------------ MODULE DiskProofs ------------------------------
(***************************************************************************)
(* The loader gets the sectors it asks for and the file it wants from any  *)
(* archive of any size, but for what a drive in error fails to read.       *)
(***************************************************************************)
EXTENDS Disk, WellFoundedInduction, TLAPS

-------------------------------------------------------------------------------
(* Numbers and digits *)

\* A set of natural numbers that is not empty has a least element, and Min
\* returns it.
LEMMA LeastNumber ==
  ASSUME NEW T \in SUBSET Nat, T # {}
  PROVE  Min(T) \in T /\ \A y \in T : Min(T) <= y
<1> DEFINE R == {pair \in Nat \X Nat : pair[1] < pair[2]}
<1>1. IsWellFoundedOn(R, Nat)
  BY NatLessThanWellFounded DEF OpToRel
<1> HIDE DEF R
<1>2. PICK x \in T : \A y \in T : <<y, x>> \notin R
  BY <1>1, WFMin
<1>3. ASSUME NEW y \in T, y < x PROVE FALSE
  <2>1. <<y, x>> \in Nat \X Nat /\ <<y, x>>[1] = y /\ <<y, x>>[2] = x
    OBVIOUS
  <2>2. <<y, x>> \in R
    BY <1>3, <2>1 DEF R
  <2> QED
    BY <1>2, <2>2
<1>4. \A y \in T : x <= y
  BY <1>3
<1> QED
  BY <1>4 DEF Min

\* A number is made of its lower digit and the others.
LEMMA LowUpper ==
  ASSUME NEW n \in Nat
  PROVE  /\ Low(n) \in Nat /\ Low(n) < Base /\ Upper(n) \in Nat
         /\ n = Low(n) + Base * Upper(n)
<1>1. \A d \in Nat \ {0} : /\ n \div d \in Nat /\ n % d \in Nat /\ n % d < d
                           /\ n = d * (n \div d) + (n % d)
  OBVIOUS
<1> QED
  BY <1>1, DiskAssumption DEF Low, Upper

\* the number that the lower three digits of n make
Three(n) == Low(n) + Base * Low(Upper(n)) + Base * Base * Low(Upper(Upper(n)))

\* Three digits are a number below 0x01000000, and so are the rest of n.
LEMMA ThreeDigits ==
  ASSUME NEW n \in Nat
  PROVE  /\ Three(n) \in Nat /\ Three(n) < Limit
         /\ Upper(Upper(Upper(n))) \in Nat
         /\ n = Three(n) + Limit * Upper(Upper(Upper(n)))
<1> DEFINE u == Upper(n)
           v == Upper(u)
           w == Upper(v)
<1>1. /\ Low(n) \in Nat /\ Low(n) < Base /\ u \in Nat /\ n = Low(n) + Base * u
  BY LowUpper
<1>2. /\ Low(u) \in Nat /\ Low(u) < Base /\ v \in Nat /\ u = Low(u) + Base * v
  BY <1>1, LowUpper
<1>3. /\ Low(v) \in Nat /\ Low(v) < Base /\ w \in Nat /\ v = Low(v) + Base * w
  BY <1>2, LowUpper
<1>4. \A a, b, c, e, k \in Nat :
        a + k * (b + k * (c + k * e)) = a + k * b + k * k * c + k * k * k * e
  OBVIOUS
<1>5. \A a, b, c, k \in Nat :
        a < k /\ b < k /\ c < k => a + k * b + k * k * c < k * k * k
  <2> TAKE a, b, c, k \in Nat
  <2> HAVE a < k /\ b < k /\ c < k
  <2>1. PICK d \in Nat : k = b + 1 + d
    <3>1. k - b - 1 \in Nat /\ k = b + 1 + (k - b - 1)
      OBVIOUS
    <3> QED
      BY <3>1
  <2>2. PICK f \in Nat : k = c + 1 + f
    <3>1. k - c - 1 \in Nat /\ k = c + 1 + (k - c - 1)
      OBVIOUS
    <3> QED
      BY <3>1
  <2>3. k * k = k * b + k + k * d /\ k * d \in Nat /\ k * b \in Nat
    BY <2>1
  <2> DEFINE s == k * k
  <2>4. s \in Nat
    OBVIOUS
  <2>5. s * k = s * c + s + s * f /\ s * f \in Nat /\ s * c \in Nat
    <3> HIDE DEF s
    <3> QED
      BY <2>2, <2>4
  <2>6. k * k * k = s * k /\ k * k * c = s * c
    OBVIOUS
  <2>7. a + k * b < s
    BY <2>3
  <2> HIDE DEF s
  <2> QED
    BY <2>3, <2>4, <2>5, <2>6, <2>7
<1>6. Base \in Nat
  BY DiskAssumption
<1>7. n = Low(n) + Base * (Low(u) + Base * (Low(v) + Base * w))
  BY <1>1, <1>2, <1>3
<1> HIDE DEF u, v, w
<1>8. n = Low(n) + Base * Low(u) + Base * Base * Low(v) + Base * Base * Base * w
  BY <1>1, <1>2, <1>3, <1>4, <1>6, <1>7
<1>9. Low(n) + Base * Low(u) + Base * Base * Low(v) < Base * Base * Base
  BY <1>1, <1>2, <1>3, <1>5, <1>6
<1>10. Low(n) + Base * Low(u) + Base * Base * Low(v) \in Nat
  BY <1>1, <1>2, <1>3, <1>6
<1> QED
  BY <1>3, <1>8, <1>9, <1>10 DEF Three, Limit, u, v, w

\* What three registers hold of a number: all of it below 0x01000000, and
\* otherwise what the division by it leaves.
LEMMA ThreeLow ==
  ASSUME NEW n \in Nat
  PROVE  /\ Limit \in Nat \ {0} /\ (n \div Limit) \in Nat
         /\ n < Limit => Three(n) = n
         /\ n = Three(n) + Limit * (n \div Limit)
         /\ n < Limit * Limit => (n \div Limit) < Limit
<1>1. Limit \in Nat \ {0}
  <2>1. \A k \in Nat \ {0} : k * k * k \in Nat \ {0}
    <3> TAKE k \in Nat \ {0}
    <3>1. k * k \in Nat \ {0}
      OBVIOUS
    <3> QED
      BY <3>1
  <2> QED
    BY <2>1, DiskAssumption DEF Limit
<1> DEFINE q == n \div Limit
           r == n % Limit
           t == Three(n)
           w == Upper(Upper(Upper(n)))
<1>2. q \in Nat /\ r \in Nat /\ r < Limit /\ n = Limit * q + r
  <2>1. \A d \in Nat \ {0} : /\ n \div d \in Nat /\ n % d \in Nat /\ n % d < d
                             /\ n = d * (n \div d) + (n % d)
    OBVIOUS
  <2> QED
    BY <1>1, <2>1
<1>3. t \in Nat /\ t < Limit /\ w \in Nat /\ n = t + Limit * w
  BY ThreeDigits
<1> HIDE DEF q, r, t, w
<1>4. \A x, y \in Nat : x < y => Limit * x + Limit <= Limit * y
  <2> TAKE x, y \in Nat
  <2> HAVE x < y
  <2>1. PICK d \in Nat : y = x + 1 + d
    <3>1. y - x - 1 \in Nat /\ y = x + 1 + (y - x - 1)
      OBVIOUS
    <3> QED
      BY <3>1
  <2>2. Limit * y = Limit * x + Limit + Limit * d /\ Limit * d \in Nat
        /\ Limit * x \in Nat
    BY <1>1, <2>1
  <2> QED
    BY <1>1, <2>2
<1>5. Limit * q \in Nat /\ Limit * w \in Nat /\ Limit * 0 = 0
  BY <1>1, <1>2, <1>3
<1>6. q = w
  <2>1. ~(q < w)
    BY <1>1, <1>2, <1>3, <1>4, <1>5
  <2>2. ~(w < q)
    BY <1>1, <1>2, <1>3, <1>4, <1>5
  <2> QED
    BY <1>2, <1>3, <2>1, <2>2
<1>7. n < Limit => t = n
  <2> HAVE n < Limit
  <2>1. ~(0 < w)
    BY <1>1, <1>3, <1>4, <1>5
  <2>2. w = 0
    BY <1>3, <2>1
  <2> QED
    BY <1>3, <1>5, <2>2
<1>8. n < Limit * Limit => q < Limit
  <2> HAVE n < Limit * Limit
  <2>1. Limit * Limit \in Nat
    BY <1>1
  <2>2. ~(Limit < q)
    BY <1>1, <1>2, <1>4, <1>5, <2>1
  <2>3. q # Limit
    BY <1>1, <1>2, <1>5
  <2> QED
    BY <1>1, <1>2, <2>2, <2>3
<1> QED
  BY <1>1, <1>2, <1>3, <1>6, <1>7, <1>8 DEF q, t

-------------------------------------------------------------------------------
(* The archive *)

\* A member takes up its header and its data.
LEMMA Members ==
  ASSUME NEW a \in Archives, NEW i \in DOMAIN a
  PROVE  /\ i \in Nat \ {0} /\ i <= Len(a) /\ Len(a) \in Nat
         /\ a[i].first \in Nat /\ a[i].size \in Nat /\ a[i].matches \in BOOLEAN
         /\ DataSectors(a[i]) \in Nat /\ Sectors(a[i].size) = DataSectors(a[i])
         /\ Behind(a[i]) = a[i].first + 1 + DataSectors(a[i])
<1>1. a \in Seq(Member) /\ a[i] \in Member
  BY DiskAssumption
<1>2. a[i].first \in Nat /\ a[i].size \in Nat /\ a[i].matches \in BOOLEAN
  BY <1>1 DEF Member
<1>3. a[i].size \div SectorSize \in Nat
  <2>1. \A n \in Nat, d \in Nat \ {0} : n \div d \in Nat
    OBVIOUS
  <2> QED
    BY <1>2, <2>1, DiskAssumption
<1>4. DataSectors(a[i]) \in Nat
  BY <1>3 DEF DataSectors
<1>5. i \in Nat \ {0} /\ i <= Len(a) /\ Len(a) \in Nat
  BY <1>1
<1> QED
  BY <1>2, <1>4, <1>5 DEF Behind, Sectors, DataSectors

\* Members lie one behind the other.
LEMMA InOrder ==
  ASSUME NEW a \in Archives, NEW i \in DOMAIN a, NEW k \in DOMAIN a, i < k
  PROVE  Behind(a[i]) <= a[k].first
<1> DEFINE T == {j \in DOMAIN a : i < j /\ ~(Behind(a[i]) <= a[j].first)}
<1> SUFFICES ASSUME T # {} PROVE FALSE
  OBVIOUS
<1>1. T \in SUBSET Nat
  BY Members
<1>2. ASSUME NEW m \in DOMAIN a
      PROVE  a[m].first \in Nat /\ Behind(a[m]) \in Nat /\ a[m].first < Behind(a[m])
  <2>1. /\ a[m].first \in Nat /\ DataSectors(a[m]) \in Nat
        /\ Behind(a[m]) = a[m].first + 1 + DataSectors(a[m])
    BY Members
  <2> QED
    BY <2>1
<1> DEFINE j == Min(T)
<1>3. j \in T /\ \A y \in T : j <= y
  <2> HIDE DEF T
  <2> QED
    BY <1>1, LeastNumber
<1> HIDE DEF j
<1>4. j \in DOMAIN a /\ i < j /\ ~(Behind(a[i]) <= a[j].first)
  BY <1>3
<1>5. a \in Seq(Member) /\ DOMAIN a = 1 .. Len(a) /\ Len(a) \in Nat
  BY DiskAssumption
<1>6. j - 1 \in DOMAIN a /\ j - 1 \in 1 .. Len(a) - 1 /\ j - 1 + 1 = j
  BY <1>4, <1>5
<1>7. a[j].first = Behind(a[j - 1])
  BY <1>6, DiskAssumption
<1>8. j - 1 # i
  <2> SUFFICES ASSUME j - 1 = i PROVE FALSE
    OBVIOUS
  <2>1. a[j].first = Behind(a[i]) /\ Behind(a[i]) \in Nat
    BY <1>7, <1>2
  <2> QED
    BY <1>4, <2>1
<1>9. i < j - 1 /\ j - 1 \notin T
  BY <1>3, <1>4, <1>5, <1>6, <1>8
<1>10. Behind(a[i]) <= a[j - 1].first
  BY <1>6, <1>9
<1>11. a[j - 1].first < Behind(a[j - 1]) /\ a[j - 1].first \in Nat /\ Behind(a[j - 1]) \in Nat
       /\ Behind(a[i]) \in Nat
  BY <1>6, <1>2
<1> QED
  BY <1>4, <1>7, <1>10, <1>11

\* The sectors of a member hold its parts, and those of no other.
LEMMA ContentOfMember ==
  ASSUME archive \in Archives, NEW i \in DOMAIN archive,
         NEW part \in 0 .. DataSectors(archive[i])
  PROVE  Content(archive[i].first + part) = [member |-> i, part |-> part]
<1> DEFINE s == archive[i].first + part
<1>1. s \in Extent(i) /\ s - archive[i].first = part
  BY Members DEF Extent
<1>2. ASSUME NEW k \in DOMAIN archive, s \in Extent(k) PROVE k = i
  <2>1. /\ archive[i].first \in Nat /\ archive[k].first \in Nat /\ s \in Nat
        /\ Behind(archive[i]) = archive[i].first + 1 + DataSectors(archive[i])
        /\ Behind(archive[k]) = archive[k].first + 1 + DataSectors(archive[k])
        /\ DataSectors(archive[i]) \in Nat /\ DataSectors(archive[k]) \in Nat
        /\ i \in Nat /\ k \in Nat
    BY Members
  <2>2. /\ archive[i].first <= s /\ s < Behind(archive[i])
        /\ archive[k].first <= s /\ s < Behind(archive[k])
    BY <1>1, <1>2, <2>1 DEF Extent
  <2>3. ~(i < k)
    <3> SUFFICES ASSUME i < k PROVE FALSE
      OBVIOUS
    <3>1. Behind(archive[i]) <= archive[k].first
      BY InOrder
    <3> QED
      BY <2>1, <2>2, <3>1
  <2>4. ~(k < i)
    <3> SUFFICES ASSUME k < i PROVE FALSE
      OBVIOUS
    <3>1. Behind(archive[k]) <= archive[i].first
      BY InOrder
    <3> QED
      BY <2>1, <2>2, <3>1
  <2> QED
    BY <2>1, <2>3, <2>4
<1> HIDE DEF s
<1>3. (CHOOSE k \in DOMAIN archive : s \in Extent(k)) = i
  BY <1>1, <1>2
<1> QED
  BY <1>1, <1>3 DEF Content, s

\* What a sector holds has a name.
LEMMA ContentNamed ==
  ASSUME archive \in Archives, NEW s \in Nat
  PROVE  Content(s) \in SectorName
<1>1. CASE \E i \in DOMAIN archive : s \in Extent(i)
  <2>1. PICK i \in DOMAIN archive : s \in Extent(i)
    BY <1>1
  <2>2. s - archive[i].first \in 0 .. DataSectors(archive[i])
        /\ s = archive[i].first + (s - archive[i].first)
    BY <2>1, Members DEF Extent
  <2>3. Content(s) = [member |-> i, part |-> s - archive[i].first]
    BY <2>2, ContentOfMember
  <2>4. i \in Nat /\ s - archive[i].first \in Nat
    BY <2>2, Members
  <2> QED
    BY <2>3, <2>4 DEF SectorName
<1>2. CASE ~ \E i \in DOMAIN archive : s \in Extent(i)
  BY <1>2 DEF Content, Nothing, SectorName
<1> QED
  BY <1>1, <1>2

\* The member that is looked for is the first that matches; the directory in
\* front of it has no data.
LEMMA WantedMember ==
  ASSUME archive \in Archives
  PROVE  /\ Wanted \in DOMAIN archive /\ archive[Wanted].matches
         /\ \A i \in 1 .. Wanted : i \in DOMAIN archive /\ (archive[i].matches => i = Wanted)
         /\ Wanted \in Nat /\ 2 <= Wanted
         /\ archive[1].first = 0 /\ archive[2].first = 1
<1> DEFINE T == {i \in DOMAIN archive : archive[i].matches}
<1>1. /\ archive \in Seq(Member) /\ DOMAIN archive = 1 .. Len(archive)
      /\ Len(archive) \in Nat /\ T # {} /\ T \in SUBSET Nat /\ 1 \in DOMAIN archive
      /\ ~archive[1].matches /\ archive[1].size = 0 /\ archive[1].first = 0
  BY DiskAssumption
<1>2. Wanted \in T /\ \A y \in T : Wanted <= y
  <2>1. Wanted = Min(T)
    BY DEF Wanted
  <2> HIDE DEF T
  <2> QED
    BY <1>1, <2>1, LeastNumber
<1>3. Wanted \in 1 .. Len(archive) /\ Wanted # 1
  BY <1>1, <1>2
<1>4. archive[2].first = Behind(archive[1])
  <2>1. 1 \in 1 .. Len(archive) - 1
    BY <1>1, <1>3
  <2> QED
    BY <2>1, DiskAssumption
<1>5. DataSectors(archive[1]) = 0
  BY <1>1, DiskAssumption DEF DataSectors
<1>6. archive[2].first = 1
  BY <1>1, <1>4, <1>5 DEF Behind
<1>7. \A i \in 1 .. Wanted : i \in DOMAIN archive /\ (archive[i].matches => i = Wanted)
  BY <1>1, <1>2, <1>3
<1> QED
  BY <1>1, <1>2, <1>3, <1>6, <1>7

-------------------------------------------------------------------------------
(* The invariant *)

\* A drive in error offers no data, and neither does one that is busy; the
\* second drive is selected for one step only, and by a drive that was ready.
DriveSound ==
  /\ drive.busy \/ drive.error => ~drive.ready
  /\ drive.error => drive.offer = Junk
  /\ drive.selected # 0 => pc = "first" /\ ~drive.busy

\* What the registers and the drive hold on the way of AtaReadSector.
Reading ==
  /\ lba < Word
  /\ pc \in {"drive", "command"} => Address(lba >= Limit) = lba
  /\ pc = "command" => drive.lba
  /\ pc = "in" => drive.error \/ drive.offer = Content(lba)
  /\ pc = "read" => ~drive.busy /\ taken = IF drive.error THEN Junk ELSE Content(lba)

\* A walk stands at the header of a member, and has not passed the one it
\* looks for.
Walking ==
  task \in {"length", "locate", "measure"} =>
    /\ lba = sector
    /\ \E i \in 1 .. Wanted : sector = archive[i].first

\* What earlier walks have found out.
Known ==
  /\ task \in {"locate", "measure", "read", "done"} =>
       length = DataSectors(archive[Wanted])
  /\ task \in {"measure", "read", "done"} => located = archive[Wanted].first + 1
  /\ task \in {"read", "done"} => count = DataSectors(archive[Wanted])

\* The sectors in the buffer are the first ones of the file.
Filling ==
  /\ \A k \in 1 .. Len(buffer) : buffer[k] \in {[member |-> Wanted, part |-> k], Junk}
  /\ task \notin {"read", "done"} => buffer = << >>
  /\ task = "read" => /\ Len(buffer) < count
                      /\ sector = located + Len(buffer)
                      /\ lba = sector
  /\ task = "done" => Len(buffer) = count

\* Nothing but an error leads a walk astray, and it is for all to see.
Astray == task = "lost" => drive.error /\ pc = "read"

IInv ==
  /\ TypeOK /\ Astray
  /\ DriveSound /\ Reading /\ Walking /\ Known /\ Filling

-------------------------------------------------------------------------------
(* The driver *)

\* The steps of the drive and of the driver leave the walks alone.
LEMMA WalkKept ==
  ASSUME IInv, UNCHANGED <<lba, tarVars>>
  PROVE  /\ task' = task /\ (Walking /\ Known /\ Filling)'
         /\ archive' = archive /\ lba' = lba /\ lba' < Word /\ Content(lba)' = Content(lba)
<1>1. UNCHANGED <<archive, task, sector, length, located, count, buffer, lba>>
  BY DEF tarVars
<1>2. Wanted' = Wanted /\ Content(lba)' = Content(lba)
  BY <1>1 DEF Wanted, Content, Extent
<1>3. Walking'
  BY <1>1, <1>2 DEF IInv, Walking
<1>4. Known' /\ Filling'
  BY <1>1, <1>2 DEF IInv, Known, Filling
<1> QED
  BY <1>1, <1>2, <1>3, <1>4 DEF IInv, Reading

\* The types of what the driver leaves alone.
LEMMA TypesKept ==
  ASSUME TypeOK, UNCHANGED <<lba, tarVars>>, drive' \in DriveState,
         pc' \in {"reset", "disable", "second", "first", "load", "identify",
                  "identifyIn", "select", "idle", "flush", "configure", "drive",
                  "command", "in", "read", "halted"},
         taken' \in SectorName
  PROVE  TypeOK'
  BY DEF TypeOK, tarVars

\* A command makes the drive busy with it.
LEMMA Commanded ==
  ASSUME drive \in DriveState, NEW name \in {"reset", "identify", "flush", "read"},
         NEW offer \in SectorName
  PROVE  LET d == Command(name, offer) IN
         /\ d \in DriveState /\ d.busy /\ ~d.error /\ ~d.ready /\ d.offer = offer
         /\ d.lo = drive.lo /\ d.mid = drive.mid /\ d.hi = drive.hi /\ d.lba = drive.lba
         /\ d.selected = drive.selected
  BY DEF Command, DriveState

\* What a drive in error offers has a name.
LEMMA JunkNamed == Junk \in SectorName
  BY DEF Junk, SectorName

\* Three registers hold the digits of n, and behind them what they held.
LEMMA WrittenDigits ==
  ASSUME NEW d \in DriveState, NEW n \in Nat
  PROVE  LET e == Written(d, n) IN
         /\ e \in DriveState
         /\ e.lo[1] = Low(n) /\ e.lo[2] = d.lo[1]
         /\ e.mid[1] = Low(Upper(n)) /\ e.mid[2] = d.mid[1]
         /\ e.hi[1] = Low(Upper(Upper(n))) /\ e.hi[2] = d.hi[1]
         /\ e.busy = d.busy /\ e.ready = d.ready /\ e.error = d.error /\ e.lba = d.lba
         /\ e.offer = d.offer /\ e.selected = d.selected
<1>1. Low(n) \in Digit /\ Low(Upper(n)) \in Digit /\ Low(Upper(Upper(n))) \in Digit
  <2>1. ASSUME NEW k \in Nat PROVE Low(k) \in Digit /\ Upper(k) \in Nat
    <3>1. Low(k) \in Nat /\ Low(k) < Base /\ Upper(k) \in Nat
      BY LowUpper
    <3> QED
      BY <3>1, DiskAssumption DEF Digit
  <2> QED
    BY <2>1
<1>2. d.lo[1] \in Digit /\ d.mid[1] \in Digit /\ d.hi[1] \in Digit
  BY DEF DriveState
<1> QED
  BY <1>1, <1>2 DEF Written, Push, DriveState

\* After AtaConfigureLoad the registers say the sector that is meant, on
\* either side of 0x01000000.
LEMMA Configured ==
  ASSUME IInv, AtaConfigureLoad
  PROVE  /\ drive' \in DriveState /\ Address(lba >= Limit)' = lba
         /\ drive'.busy = drive.busy /\ drive'.ready = drive.ready
         /\ drive'.error = drive.error
         /\ drive'.offer = drive.offer /\ drive'.selected = drive.selected
<1>1. drive \in DriveState /\ lba \in Nat /\ lba' = lba
  BY DEF IInv, TypeOK, AtaConfigureLoad
<1>2. /\ Limit \in Nat \ {0} /\ (lba \div Limit) \in Nat
      /\ lba < Limit => Three(lba) = lba
      /\ lba = Three(lba) + Limit * (lba \div Limit)
      /\ lba < Limit * Limit => (lba \div Limit) < Limit
  BY <1>1, ThreeLow
<1>3. (lba \div Limit) < Limit
  <2>1. Limit * Limit \in Nat
    BY <1>2
  <2>2. Word \in Nat /\ Word <= Limit * Limit /\ lba < Word
    BY <2>1, DiskAssumption DEF IInv, Reading
  <2> QED
    BY <1>1, <1>2, <2>1, <2>2
<1>4. CASE lba < Limit
  <2>1. drive' = Written(drive, lba)
    BY <1>4 DEF AtaConfigureLoad
  <2>2. /\ drive' \in DriveState /\ drive'.lo[1] = Low(lba)
        /\ drive'.mid[1] = Low(Upper(lba)) /\ drive'.hi[1] = Low(Upper(Upper(lba)))
        /\ drive'.busy = drive.busy /\ drive'.ready = drive.ready
        /\ drive'.error = drive.error
        /\ drive'.offer = drive.offer /\ drive'.selected = drive.selected
    BY <1>1, <2>1, WrittenDigits
  <2>3. ~(lba' >= Limit)
    BY <1>1, <1>2, <1>4
  <2>4. Address(lba >= Limit)' = Three(lba)
    BY <2>2, <2>3 DEF Address, Three
  <2> QED
    BY <1>2, <1>4, <2>2, <2>4
<1>5. CASE ~(lba < Limit)
  <2> DEFINE upper == lba \div Limit
             d == Written(drive, upper)
  <2>1. drive' = Written(d, lba)
    BY <1>5 DEF AtaConfigureLoad
  <2>2. /\ d \in DriveState /\ d.lo[1] = Low(upper)
        /\ d.mid[1] = Low(Upper(upper)) /\ d.hi[1] = Low(Upper(Upper(upper)))
        /\ d.busy = drive.busy /\ d.ready = drive.ready /\ d.error = drive.error
        /\ d.offer = drive.offer /\ d.selected = drive.selected
    <3>1. upper \in Nat
      BY <1>2
    <3> HIDE DEF upper
    <3> QED
      BY <1>1, <3>1, WrittenDigits
  <2> HIDE DEF d, upper
  <2>3. /\ drive' \in DriveState
        /\ drive'.lo[1] = Low(lba) /\ drive'.lo[2] = Low(upper)
        /\ drive'.mid[1] = Low(Upper(lba)) /\ drive'.mid[2] = Low(Upper(upper))
        /\ drive'.hi[1] = Low(Upper(Upper(lba)))
        /\ drive'.hi[2] = Low(Upper(Upper(upper)))
        /\ drive'.busy = drive.busy /\ drive'.ready = drive.ready
        /\ drive'.error = drive.error
        /\ drive'.offer = drive.offer /\ drive'.selected = drive.selected
    BY <1>1, <2>1, <2>2, WrittenDigits
  <2>4. lba' >= Limit
    BY <1>1, <1>2, <1>5
  <2>5. Address(lba >= Limit)' = Three(lba) + Limit * Three(upper)
    BY <2>3, <2>4 DEF Address, Three
  <2>6. Three(upper) = upper
    BY <1>2, <1>3, ThreeLow DEF upper
  <2> QED
    BY <1>2, <2>3, <2>5, <2>6 DEF upper
<1> QED
  BY <1>4, <1>5

\* The drive and the driver keep the invariant: what AtaIn takes is the sector
\* that was asked for, or junk from a drive that is showing an error.
LEMMA DriverSafe ==
  ASSUME IInv,
         \/ Drive
         \/ AtaReset \/ AtaDisableIrq \/ AtaIdentifyLoad \/ AtaIdentify \/ AtaIdentifyIn
         \/ AtaInitialize
         \/ AtaFlushCache \/ AtaConfigureLoad \/ AtaSetDrive \/ AtaSendRead \/ AtaIn
         \/ AtaFaulty
  PROVE  IInv'
<1>1. UNCHANGED <<lba, tarVars>>
  BY DEF Drive, Complete, Fail, AtaReset, AtaDisableIrq, AtaSelectDrive, AtaIdentifyLoad,
         AtaIdentify, AtaIdentifyIn, AtaInitialize, AtaFlushCache, AtaConfigureLoad,
         AtaSetDrive, AtaSendRead, AtaIn, AtaFaulty
<1>2. /\ task' = task /\ (Walking /\ Known /\ Filling)'
      /\ archive' = archive /\ lba' = lba /\ lba' < Word /\ Content(lba)' = Content(lba)
  BY <1>1, WalkKept
<1>3. /\ TypeOK /\ drive \in DriveState /\ taken \in SectorName /\ lba \in Nat
      /\ archive \in Archives
      /\ pc \in {"reset", "disable", "second", "first", "load", "identify",
                 "identifyIn", "select", "idle", "flush", "configure", "drive",
                 "command", "in", "read", "halted"}
  BY DEF IInv, TypeOK
<1>4. /\ drive.busy \/ drive.error => ~drive.ready
      /\ drive.error => drive.offer = Junk
      /\ drive.selected # 0 => pc = "first" /\ ~drive.busy
  BY DEF IInv, DriveSound
<1>5. /\ pc \in {"drive", "command"} => Address(lba >= Limit) = lba
      /\ pc = "command" => drive.lba
      /\ pc = "in" => drive.error \/ drive.offer = Content(lba)
      /\ pc = "read" => ~drive.busy /\ taken = IF drive.error THEN Junk ELSE Content(lba)
      /\ task = "lost" => drive.error /\ pc = "read"
  BY DEF IInv, Reading, Astray
<1>6. SUFFICES TypeOK' /\ DriveSound' /\ Reading' /\ Astray'
  BY <1>2 DEF IInv
<1>7. CASE Complete
  <2>0. drive.busy /\ ~drive.error
    BY <1>7 DEF Complete
  <2>1. /\ drive.busy /\ pc # "read" /\ task # "lost"
        /\ drive' \in DriveState /\ pc' = pc /\ taken' = taken
        /\ drive'.offer = drive.offer /\ drive'.lba = drive.lba
        /\ drive'.lo = drive.lo /\ drive'.mid = drive.mid /\ drive'.hi = drive.hi
        /\ drive'.selected = drive.selected
        /\ drive'.error = drive.error /\ ~drive'.busy /\ ~drive'.error
    <3>1. drive' = [drive EXCEPT !.busy = FALSE,
                                 !.ready = drive.command \in {"identify", "read"}]
      BY <1>7 DEF Complete
    <3>2. pc' = pc /\ taken' = taken
      BY <1>7 DEF Complete
    <3>3. (drive.command \in {"identify", "read"}) \in BOOLEAN
      OBVIOUS
    <3>4. drive' \in DriveState
      BY <1>3, <3>1, <3>3 DEF DriveState
    <3> QED
      BY <1>3, <1>5, <2>0, <3>1, <3>2, <3>4 DEF DriveState
  <2>2. Address(lba >= Limit)' = Address(lba >= Limit)
    BY <1>2, <2>1 DEF Address
  <2>3. TypeOK'
    BY <1>1, <1>3, <2>1, TypesKept
  <2> QED
    BY <1>2, <1>4, <1>5, <2>1, <2>2, <2>3 DEF DriveSound, Reading, Astray
<1>8. ASSUME NEW how \in Failures, Fail(how)
      PROVE  TypeOK' /\ DriveSound' /\ Reading' /\ Astray'
  <2>1. /\ drive.busy /\ pc # "read" /\ task # "lost"
        /\ drive' \in DriveState /\ pc' = pc /\ taken' = taken
        /\ drive'.lba = drive.lba /\ drive'.offer = Junk
        /\ drive'.lo = drive.lo /\ drive'.mid = drive.mid /\ drive'.hi = drive.hi
        /\ drive'.selected = drive.selected /\ drive.selected = 0
        /\ drive'.error /\ drive'.ready = drive.ready /\ ~drive.ready
    BY <1>3, <1>4, <1>5, <1>8, JunkNamed DEF Fail, DriveState
  <2>2. Address(lba >= Limit)' = Address(lba >= Limit)
    BY <1>2, <2>1 DEF Address
  <2>3. TypeOK'
    BY <1>1, <1>3, <2>1, TypesKept
  <2> QED
    BY <1>2, <1>5, <2>1, <2>2, <2>3 DEF DriveSound, Reading, Astray
<1>9. CASE AtaReset
  <2> DEFINE d == Command("reset", Junk)
  <2>1. /\ d \in DriveState /\ d.busy /\ ~d.error /\ ~d.ready /\ d.offer = Junk
    BY <1>3, Commanded, JunkNamed
  <2>2. /\ drive' = [d EXCEPT !.lba = FALSE, !.selected = 0]
        /\ pc = "reset" /\ pc' = "disable" /\ taken' = taken
    BY <1>9 DEF AtaReset
  <2> HIDE DEF d
  <2>3. /\ drive' \in DriveState /\ drive'.busy /\ ~drive'.error /\ ~drive'.ready
        /\ drive'.selected = 0
    BY <2>1, <2>2 DEF DriveState
  <2>4. TypeOK'
    BY <1>1, <1>3, <2>2, <2>3, TypesKept
  <2> QED
    BY <1>2, <1>5, <2>2, <2>3, <2>4 DEF DriveSound, Reading, Astray
<1>10. ASSUME NEW index \in {0, 1}, NEW to,
              \/ AtaSelectDrive("disable", 0, "second") /\ index = 0 /\ to = "second"
              \/ AtaSelectDrive("second", 1, "first") /\ index = 1 /\ to = "first"
              \/ AtaSelectDrive("first", 0, "load") /\ index = 0 /\ to = "load"
              \/ AtaSelectDrive("select", 0, "idle") /\ index = 0 /\ to = "idle"
       PROVE  TypeOK' /\ DriveSound' /\ Reading' /\ Astray'
  <2>1. /\ drive' = IF drive.busy THEN drive ELSE [drive EXCEPT !.selected = index]
        /\ pc' = to /\ pc \in {"disable", "second", "first", "select"} /\ taken' = taken
        /\ index # 0 => to = "first"
    BY <1>10 DEF AtaSelectDrive
  <2>2. /\ drive' \in DriveState /\ drive'.busy = drive.busy /\ drive'.ready = drive.ready
        /\ drive'.error = drive.error /\ drive'.offer = drive.offer
        /\ drive'.selected # 0 => index # 0 /\ ~drive.busy
    BY <1>3, <1>4, <2>1 DEF DriveState
  <2>3. TypeOK'
    BY <1>1, <1>3, <1>10, <2>1, <2>2, TypesKept
  <2> QED
    BY <1>2, <1>4, <1>5, <1>10, <2>1, <2>2, <2>3 DEF DriveSound, Reading, Astray
<1>11. CASE AtaIdentifyLoad
  <2>1. /\ drive' = IF drive.busy THEN drive
                    ELSE [drive EXCEPT !.selected = 0, !.lo = Push(Push(@, 0), 0),
                                       !.mid = Push(@, 0), !.hi = Push(@, 0)]
        /\ pc = "load" /\ pc' = "identify" /\ taken' = taken
    BY <1>11 DEF AtaIdentifyLoad
  <2>2. 0 \in Digit
    BY DiskAssumption DEF Digit
  <2>3. drive.lo[1] \in Digit /\ drive.mid[1] \in Digit /\ drive.hi[1] \in Digit
    BY <1>3 DEF DriveState
  <2>4. /\ drive' \in DriveState /\ drive'.busy = drive.busy /\ drive'.ready = drive.ready
        /\ drive'.error = drive.error /\ drive'.offer = drive.offer
        /\ drive'.selected = 0
    BY <1>3, <1>4, <2>1, <2>2, <2>3 DEF DriveState, Push
  <2>5. TypeOK'
    BY <1>1, <1>3, <2>1, <2>4, TypesKept
  <2> QED
    BY <1>2, <1>4, <1>5, <2>1, <2>4, <2>5 DEF DriveSound, Reading, Astray
<1>12. CASE AtaIdentify \/ AtaIdentifyIn \/ AtaFlushCache
  <2>1. /\ \E name \in {"identify", "flush"} : drive' = Command(name, Junk)
        /\ pc \in {"identify", "identifyIn", "flush"}
        /\ pc' \in {"identifyIn", "select", "configure"} /\ taken' = taken
    BY <1>12 DEF AtaIdentify, AtaIdentifyIn, AtaFlushCache
  <2>2. /\ drive' \in DriveState /\ drive'.busy /\ ~drive'.error /\ ~drive'.ready
        /\ drive'.selected = drive.selected /\ drive.selected = 0
    BY <1>3, <1>4, <2>1, Commanded, JunkNamed
  <2>3. TypeOK'
    BY <1>1, <1>3, <2>1, <2>2, TypesKept
  <2> QED
    BY <1>2, <1>5, <2>1, <2>2, <2>3 DEF DriveSound, Reading, Astray
<1>13. CASE AtaConfigureLoad
  <2>1. pc = "configure" /\ pc' = "drive" /\ taken' = taken
    BY <1>13 DEF AtaConfigureLoad
  <2>2. /\ drive' \in DriveState /\ Address(lba >= Limit)' = lba
        /\ drive'.busy = drive.busy /\ drive'.ready = drive.ready
        /\ drive'.error = drive.error
        /\ drive'.offer = drive.offer /\ drive'.selected = drive.selected
    BY <1>13, Configured
  <2>3. TypeOK'
    BY <1>1, <1>3, <2>1, <2>2, TypesKept
  <2> QED
    BY <1>2, <1>4, <1>5, <2>1, <2>2, <2>3 DEF DriveSound, Reading, Astray
<1>14. CASE AtaSetDrive
  <2>1. /\ drive' \in DriveState /\ pc = "drive" /\ pc' = "command" /\ taken' = taken
        /\ drive'.lo = drive.lo /\ drive'.mid = drive.mid /\ drive'.hi = drive.hi
        /\ drive'.busy = drive.busy /\ drive'.ready = drive.ready
        /\ drive'.offer = drive.offer /\ drive'.selected = drive.selected
        /\ drive'.error = drive.error /\ drive'.lba
    BY <1>3, <1>14 DEF AtaSetDrive, DriveState
  <2>2. Address(lba >= Limit)' = Address(lba >= Limit)
    BY <1>2, <2>1 DEF Address
  <2>3. TypeOK'
    BY <1>1, <1>3, <2>1, TypesKept
  <2> QED
    BY <1>2, <1>4, <1>5, <2>1, <2>2, <2>3 DEF DriveSound, Reading, Astray
<1>15. CASE AtaSendRead
  <2>1. pc = "command" /\ drive.selected = 0 /\ drive.lba /\ Address(lba >= Limit) = lba
    BY <1>4, <1>5, <1>15 DEF AtaSendRead
  <2>2. drive' = Command("read", Content(lba)) /\ pc' = "in" /\ taken' = taken
    BY <1>15, <2>1 DEF AtaSendRead
  <2>3. Content(lba) \in SectorName
    BY <1>3, ContentNamed
  <2>4. /\ drive' \in DriveState /\ drive'.busy /\ ~drive'.error /\ ~drive'.ready
        /\ drive'.offer = Content(lba) /\ drive'.selected = 0
    BY <1>3, <2>1, <2>2, <2>3, Commanded
  <2>5. TypeOK'
    BY <1>1, <1>3, <2>2, <2>4, TypesKept
  <2> QED
    BY <1>2, <1>5, <2>1, <2>2, <2>4, <2>5 DEF DriveSound, Reading, Astray
<1>16. CASE AtaIn
  <2>1. pc = "in" /\ ~drive.busy /\ drive.selected = 0
    BY <1>3, <1>4, <1>16 DEF AtaIn, AtaWaited, DriveState
  <2>2. taken' = (IF drive.error THEN Junk ELSE Content(lba)) /\ pc' = "read"
    BY <1>4, <1>5, <1>16, <2>1 DEF AtaIn
  <2>3. /\ drive' \in DriveState /\ ~drive'.busy /\ ~drive'.ready
        /\ drive'.error = drive.error /\ drive'.offer = Junk /\ drive'.selected = 0
    BY <1>3, <1>16, <2>1, JunkNamed DEF AtaIn, DriveState
  <2>4. taken' \in SectorName
    BY <1>3, <2>2, ContentNamed, JunkNamed
  <2>5. TypeOK'
    BY <1>1, <1>3, <2>2, <2>3, <2>4, TypesKept
  <2> QED
    BY <1>2, <1>5, <2>1, <2>2, <2>3, <2>5 DEF DriveSound, Reading, Astray
<1>17. CASE AtaFaulty
  <2>1. pc' = "halted" /\ drive' = drive /\ taken' = taken /\ drive.busy
    BY <1>17 DEF AtaFaulty
  <2>2. TypeOK'
    BY <1>1, <1>3, <2>1, TypesKept
  <2> QED
    BY <1>2, <1>4, <1>5, <2>1, <2>2 DEF DriveSound, Reading, Astray
<1> QED
  BY <1>7, <1>8, <1>9, <1>10, <1>11, <1>12, <1>13, <1>14, <1>15, <1>16, <1>17
     DEF Drive, AtaDisableIrq, AtaInitialize

-------------------------------------------------------------------------------
(* The walks *)

\* A walk that has read a sector has read the header of a member that is not
\* behind the one it looks for, and asks for the header of the next.
LEMMA AtHeader ==
  ASSUME IInv, pc = "read", ~drive.error, task \in {"length", "locate", "measure"}
  PROVE  \E i \in 1 .. Wanted :
           /\ sector = archive[i].first /\ taken.member = i
           /\ IsHeader /\ Header = archive[i]
           /\ Matches => i = Wanted
           /\ i # Wanted => i + 1 \in 1 .. Wanted /\ NextSector = archive[i + 1].first
<1>1. archive \in Archives /\ lba = sector
  BY DEF IInv, TypeOK, Walking
<1>2. PICK i \in 1 .. Wanted : sector = archive[i].first
  BY DEF IInv, Walking
<1>3. /\ i \in DOMAIN archive /\ (archive[i].matches => i = Wanted)
      /\ Wanted \in DOMAIN archive /\ Wanted \in Nat
  BY <1>1, WantedMember
<1>4. /\ i \in Nat /\ archive[i].first \in Nat /\ DataSectors(archive[i]) \in Nat
      /\ Sectors(archive[i].size) = DataSectors(archive[i])
      /\ Behind(archive[i]) = archive[i].first + 1 + DataSectors(archive[i])
  BY <1>1, <1>3, Members
<1>5. taken = [member |-> i, part |-> 0]
  <2>1. 0 \in 0 .. DataSectors(archive[i])
    BY <1>4
  <2>2. Content(archive[i].first + 0) = [member |-> i, part |-> 0]
    BY <1>1, <1>3, <2>1, ContentOfMember
  <2>3. archive[i].first + 0 = lba
    BY <1>1, <1>2, <1>4
  <2> QED
    BY <2>2, <2>3 DEF IInv, Reading
<1>6. taken.member = i /\ IsHeader /\ Header = archive[i]
  BY <1>3, <1>5 DEF IsHeader, Header
<1>7. Matches => i = Wanted
  BY <1>3, <1>6 DEF Matches
<1>8. ASSUME i # Wanted PROVE i + 1 \in 1 .. Wanted /\ NextSector = archive[i + 1].first
  <2>1. i \in 1 .. Len(archive) - 1 /\ i + 1 \in 1 .. Wanted
    <3>1. Wanted <= Len(archive) /\ Len(archive) \in Nat
      BY <1>1, <1>3, Members
    <3> QED
      BY <1>2, <1>3, <1>8, <3>1
  <2>2. archive[i + 1].first = Behind(archive[i])
    BY <1>1, <2>1, DiskAssumption
  <2> QED
    BY <1>2, <1>4, <1>6, <2>1, <2>2 DEF NextSector
<1> QED
  BY <1>2, <1>6, <1>7, <1>8

\* Junk is no header: what matches was read without an error.
LEMMA HeaderRead ==
  ASSUME IInv, pc = "read", IsHeader
  PROVE  ~drive.error
<1> SUFFICES ASSUME drive.error PROVE FALSE
  OBVIOUS
<1>1. taken = Junk
  BY DEF IInv, Reading
<1>2. -1 \in DOMAIN archive /\ DOMAIN archive = 1 .. Len(archive) /\ Len(archive) \in Nat
  BY <1>1, DiskAssumption DEF IsHeader, Junk, IInv, TypeOK
<1> QED
  BY <1>2

\* The sectors of members are numbers that the loader's words hold.
LEMMA WithinWord ==
  ASSUME archive \in Archives, NEW i \in DOMAIN archive,
         NEW part \in 0 .. DataSectors(archive[i])
  PROVE  archive[i].first + part \in Nat /\ archive[i].first + part < Word
<1>1. /\ archive[i].first \in Nat /\ DataSectors(archive[i]) \in Nat
      /\ Behind(archive[i]) = archive[i].first + 1 + DataSectors(archive[i])
  BY Members
<1>2. Behind(archive[i]) <= Word
  BY DiskAssumption
<1>3. Word \in Nat
  BY DiskAssumption
<1> QED
  BY <1>1, <1>2, <1>3

\* Asking for a sector leaves the drive as it is.
LEMMA Asking ==
  ASSUME IInv, pc # "first", NEW s \in Nat, s < Word, Read(s)
  PROVE  /\ DriveSound' /\ Reading' /\ lba' = s
         /\ drive' \in DriveState /\ lba' \in Nat /\ taken' \in SectorName
         /\ pc' = "flush"
<1>1. pc' = "flush" /\ lba' = s /\ drive' = drive /\ taken' = taken
  BY DEF Read
<1> QED
  BY <1>1 DEF IInv, TypeOK, DriveSound, Reading

\* Every step of the walks keeps the invariant.
LEMMA WalkSafe ==
  ASSUME IInv,
         FwReadFileLength \/ WalkOn \/ TarReadFileLength \/ TarLocateFileSector
  PROVE  IInv'
<1>1. /\ TypeOK /\ archive \in Archives /\ buffer \in Seq(SectorName)
      /\ length \in Nat /\ located \in Nat /\ count \in Nat
  BY DEF IInv, TypeOK
<1>2. /\ Wanted \in DOMAIN archive /\ archive[Wanted].matches
      /\ \A i \in 1 .. Wanted : i \in DOMAIN archive
      /\ Wanted \in Nat /\ 2 <= Wanted
      /\ archive[1].first = 0 /\ archive[2].first = 1
  BY <1>1, WantedMember
<1>3. \A i \in 1 .. Wanted : archive[i].first \in Nat /\ archive[i].first < Word
  <2> TAKE i \in 1 .. Wanted
  <2>1. archive[i].first \in Nat /\ DataSectors(archive[i]) \in Nat
    BY <1>1, <1>2, Members
  <2>2. archive[i].first + 0 < Word
    BY <1>1, <1>2, <2>1, WithinWord
  <2> QED
    BY <2>1, <2>2
<1>4. ASSUME archive' = archive, buffer' = buffer, buffer = << >>, count' = count,
             length' \in Nat, located' \in Nat, task' \in {"length", "locate", "measure"},
             Known', NEW i \in 1 .. Wanted, sector' = archive[i].first, Read(sector'),
             pc \in {"idle", "read"}
      PROVE  IInv'
  <2>1. Wanted' = Wanted
    BY <1>4 DEF Wanted
  <2>2. sector' \in Nat /\ sector' < Word
    BY <1>3, <1>4
  <2>3. /\ DriveSound' /\ Reading' /\ lba' = sector'
        /\ drive' \in DriveState /\ lba' \in Nat /\ taken' \in SectorName
        /\ pc' = "flush"
    BY <1>4, <2>2, Asking
  <2>4. Walking'
    BY <1>4, <2>1, <2>3 DEF Walking
  <2>5. Filling'
    BY <1>4 DEF Filling
  <2>6. TypeOK'
    BY <1>1, <1>4, <2>2, <2>3 DEF TypeOK
  <2> QED
    BY <1>4, <2>3, <2>4, <2>5, <2>6 DEF IInv, Astray
<1>5. task \in {"start", "length", "locate", "measure"} => buffer = << >>
  BY DEF IInv, Filling
<1>6. CASE FwReadFileLength
  <2>1. /\ pc = "idle" /\ task = "start" /\ task' = "length" /\ sector' = archive[1].first
        /\ Read(sector') /\ UNCHANGED <<archive, length, located, count, buffer>>
    BY <1>2, <1>6 DEF FwReadFileLength
  <2>2. Known'
    BY <2>1 DEF Known
  <2>3. 1 \in 1 .. Wanted
    BY <1>2
  <2> QED
    BY <1>1, <1>4, <1>5, <2>1, <2>2, <2>3
<1>7. CASE WalkOn /\ IsHeader
  <2>1. task \in {"length", "locate", "measure"} /\ pc = "read" /\ ~Matches /\ ~drive.error
    BY <1>7, HeaderRead DEF WalkOn
  <2>2. PICK i \in 1 .. Wanted :
          /\ sector = archive[i].first /\ taken.member = i
          /\ IsHeader /\ Header = archive[i]
          /\ Matches => i = Wanted
          /\ i # Wanted => i + 1 \in 1 .. Wanted /\ NextSector = archive[i + 1].first
    BY <2>1, AtHeader
  <2>3. i # Wanted
    BY <1>2, <2>1, <2>2 DEF Matches, Header
  <2>4. /\ sector' = archive[i + 1].first /\ Read(sector') /\ task' = task
        /\ UNCHANGED <<archive, length, located, count, buffer>>
    BY <1>7, <2>2, <2>3 DEF WalkOn
  <2>5. Known'
    BY <2>4 DEF IInv, Known, Wanted
  <2> QED
    BY <1>1, <1>4, <1>5, <2>1, <2>2, <2>3, <2>4, <2>5
<1>10. CASE WalkOn /\ ~IsHeader
  <2>1. /\ task \in {"length", "locate", "measure"} /\ pc = "read" /\ task' = "lost"
        /\ UNCHANGED <<archive, sector, drive, pc, lba, taken, length, located, count, buffer>>
    BY <1>10 DEF WalkOn
  <2>2. drive.error
    BY <1>10, <2>1, AtHeader
  <2>3. Wanted' = Wanted /\ Content(lba)' = Content(lba)
    BY <2>1 DEF Wanted, Content, Extent
  <2>4. TypeOK' /\ Astray' /\ DriveSound'
    BY <1>1, <2>1, <2>2 DEF TypeOK, Astray, DriveSound, IInv
  <2>5. Reading' /\ Walking' /\ Known' /\ Filling'
    BY <1>5, <2>1, <2>3 DEF IInv, Reading, Walking, Known, Filling
  <2> QED
    BY <2>4, <2>5 DEF IInv
<1>8. CASE TarReadFileLength
  <2>1. task = "length" /\ pc = "read" /\ Matches /\ ~drive.error
    BY <1>8, HeaderRead DEF Matches, TarReadFileLength
  <2>2. PICK i \in 1 .. Wanted : Header = archive[i] /\ (Matches => i = Wanted)
    BY <2>1, AtHeader
  <2>3. Header = archive[Wanted]
    BY <2>1, <2>2
  <2>4. /\ length' = Sectors(archive[Wanted].size) /\ task' = "locate"
        /\ sector' = archive[2].first /\ Read(sector')
        /\ UNCHANGED <<archive, located, count, buffer>>
    BY <1>2, <1>8, <2>3 DEF TarReadFileLength
  <2>5. length' = DataSectors(archive[Wanted]) /\ length' \in Nat
    BY <1>1, <1>2, <2>4, Members
  <2>6. Known'
    BY <2>4, <2>5 DEF Known, Wanted
  <2>7. 2 \in 1 .. Wanted
    BY <1>2
  <2> QED
    BY <1>1, <1>4, <1>5, <2>1, <2>4, <2>5, <2>6, <2>7
<1>9. CASE TarLocateFileSector
  <2>1. task = "locate" /\ pc = "read" /\ Matches /\ ~drive.error
    BY <1>9, HeaderRead DEF Matches, TarLocateFileSector
  <2>2. PICK i \in 1 .. Wanted : sector = archive[i].first /\ (Matches => i = Wanted)
    BY <2>1, AtHeader
  <2>3. sector = archive[Wanted].first
    BY <2>1, <2>2
  <2>4. /\ located' = archive[Wanted].first + 1 /\ task' = "measure"
        /\ sector' = archive[1].first /\ Read(sector')
        /\ UNCHANGED <<archive, length, count, buffer>>
    BY <1>2, <1>9, <2>3 DEF TarLocateFileSector
  <2>5. located' \in Nat
    BY <1>2, <1>3, <2>4
  <2>6. Known'
    BY <2>1, <2>4 DEF IInv, Known, Wanted
  <2>7. 1 \in 1 .. Wanted
    BY <1>2
  <2> QED
    BY <1>1, <1>4, <1>5, <2>1, <2>4, <2>5, <2>6, <2>7
<1> QED
  BY <1>6, <1>7, <1>8, <1>9, <1>10

\* What AtaRead has to deliver from a place in the file on.
LEMMA InFile ==
  ASSUME archive \in Archives, NEW k \in 1 .. DataSectors(archive[Wanted])
  PROVE  LET s == archive[Wanted].first + k IN
         /\ s \in Nat /\ s < Word
         /\ Content(s) = [member |-> Wanted, part |-> k]
<1>1. Wanted \in DOMAIN archive
  BY WantedMember
<1>2. k \in 0 .. DataSectors(archive[Wanted])
  BY <1>1, Members
<1> QED
  BY <1>1, <1>2, WithinWord, ContentOfMember

\* Every step of the reading keeps the invariant: another sector of the file
\* is behind those in the buffer, and they are all at the end.
LEMMA ReadSafe ==
  ASSUME IInv, TarReadFile \/ AtaRead
  PROVE  IInv'
<1> DEFINE n == DataSectors(archive[Wanted])
           start == archive[Wanted].first + 1
           part(k) == [member |-> Wanted, part |-> k]
<1>1. /\ TypeOK /\ archive \in Archives /\ buffer \in Seq(SectorName)
      /\ length \in Nat /\ located \in Nat /\ count \in Nat /\ sector \in Nat
      /\ drive \in DriveState /\ taken \in SectorName /\ lba \in Nat
      /\ DriveSound /\ lba < Word
  BY DEF IInv, TypeOK, Reading
<1>2. /\ Wanted \in DOMAIN archive /\ Wanted \in Nat /\ n \in Nat
      /\ archive[Wanted].first \in Nat /\ Sectors(archive[Wanted].size) = n
  BY <1>1, WantedMember, Members
<1> HIDE DEF n, start
<1>3. ASSUME archive' = archive, length' = n, located' = start, count' = n,
             NEW done \in 0 .. n, buffer' \in Seq(SectorName), Len(buffer') = done,
             \A k \in 1 .. done : buffer'[k] \in {part(k), Junk},
             pc = "read", task # "lost",
             AtaReadOn(done, start + done, n)
      PROVE  IInv'
  <2>1. Wanted' = Wanted /\ DataSectors(archive[Wanted])' = n
    BY <1>3 DEF Wanted, n
  <2>2. archive'[Wanted'].first + 1 = start
    BY <1>3, <2>1 DEF start
  <2>3. Len(buffer') = done /\ buffer' \in Seq(SectorName)
    BY <1>3
  <2>4. start \in Nat
    BY <1>2 DEF start
  <2>5. CASE done = n
    <3>1. task' = "done" /\ pc' = "idle" /\ UNCHANGED <<drive, lba, taken, sector>>
      BY <1>3, <2>5 DEF AtaReadOn
    <3>2. DriveSound' /\ Reading' /\ Astray'
      BY <1>1, <1>3, <3>1 DEF DriveSound, Reading, Astray
    <3>3. TypeOK'
      BY <1>1, <1>2, <1>3, <2>3, <2>4, <3>1 DEF TypeOK
    <3>4. Known' /\ Walking'
      BY <1>3, <2>1, <2>2, <3>1 DEF Known, Walking
    <3>5. Filling'
      BY <1>3, <2>1, <2>3, <2>5, <3>1 DEF Filling
    <3> QED
      BY <3>1, <3>2, <3>3, <3>4, <3>5 DEF IInv
  <2>6. CASE done # n
    <3>1. task' = "read" /\ sector' = start + done /\ Read(start + done)
      BY <1>3, <2>6 DEF AtaReadOn
    <3>2. start + done \in Nat /\ start + done < Word
      <4>1. done + 1 \in 1 .. n
        BY <1>2, <1>3, <2>6
      <4>2. archive[Wanted].first + (done + 1) < Word
        BY <1>1, <4>1, InFile DEF n
      <4> QED
        BY <1>2, <1>3, <4>2 DEF start
    <3>3. /\ DriveSound' /\ Reading' /\ lba' = start + done
          /\ drive' \in DriveState /\ lba' \in Nat /\ taken' \in SectorName
          /\ pc' = "flush"
      BY <1>3, <3>1, <3>2, Asking
    <3>4. TypeOK'
      BY <1>1, <1>2, <1>3, <2>3, <2>4, <3>1, <3>2, <3>3 DEF TypeOK
    <3>5. Known' /\ Walking'
      BY <1>3, <2>1, <2>2, <3>1 DEF Known, Walking
    <3>6. done < n
      BY <1>2, <1>3, <2>6
    <3>7. Filling'
      BY <1>3, <2>1, <2>3, <3>1, <3>3, <3>6 DEF Filling
    <3> QED
      BY <3>1, <3>3, <3>4, <3>5, <3>7 DEF IInv, Astray
  <2> QED
    BY <2>5, <2>6
<1>4. CASE TarReadFile
  <2>1. task = "measure" /\ pc = "read" /\ Matches /\ ~drive.error
    BY <1>4, HeaderRead DEF Matches, TarReadFile
  <2>2. PICK i \in 1 .. Wanted : Header = archive[i] /\ (Matches => i = Wanted)
    BY <2>1, AtHeader
  <2>3. Header = archive[Wanted]
    BY <2>1, <2>2
  <2>4. length = n /\ located = start /\ buffer = << >>
    BY <2>1 DEF IInv, Known, Filling, n, start
  <2>5. /\ count' = n /\ UNCHANGED <<archive, length, located, buffer>>
        /\ AtaReadOn(0, start, n)
    BY <1>2, <1>4, <2>3, <2>4 DEF TarReadFile
  <2>6. buffer' \in Seq(SectorName) /\ Len(buffer') = 0
    BY <1>1, <2>4, <2>5
  <2>7. 0 \in 0 .. n /\ start + 0 = start
    BY <1>2 DEF start
  <2> QED
    BY <1>3, <2>1, <2>4, <2>5, <2>6, <2>7
<1>5. CASE AtaRead
  <2> DEFINE filled == Len(buffer)
  <2>1. /\ task = "read" /\ pc = "read" /\ buffer' = Append(buffer, taken)
        /\ AtaReadOn(Len(buffer'), sector + 1, count)
        /\ UNCHANGED <<archive, length, located, count>>
    BY <1>5 DEF AtaRead
  <2>2. /\ length = n /\ located = start /\ count = n
        /\ \A k \in 1 .. filled : buffer[k] \in {part(k), Junk}
        /\ filled < count /\ sector = located + filled /\ lba = sector
    BY <2>1 DEF IInv, Known, Filling, n, start
  <2>3. filled \in Nat /\ filled + 1 \in 1 .. n /\ filled + 1 \in 0 .. n
    BY <1>1, <1>2, <2>2
  <2>4. taken \in {part(filled + 1), Junk}
    <3>1. Content(archive[Wanted].first + (filled + 1)) = part(filled + 1)
      BY <1>1, <2>3, InFile DEF n
    <3>2. archive[Wanted].first + (filled + 1) = lba
      <4>1. lba = archive[Wanted].first + 1 + filled
        BY <2>2 DEF start
      <4>2. archive[Wanted].first \in Nat /\ filled \in Nat
        BY <1>2, <2>3
      <4> QED
        BY <4>1, <4>2
    <3>3. taken = IF drive.error THEN Junk ELSE Content(lba)
      BY <2>1 DEF IInv, Reading
    <3>4. Content(lba) = part(filled + 1)
      BY <3>1, <3>2
    <3> HIDE DEF part, filled
    <3> QED
      BY <3>3, <3>4
  <2>5. /\ Len(buffer') = filled + 1
        /\ buffer' \in Seq(SectorName)
        /\ \A k \in 1 .. filled + 1 : buffer'[k] \in {part(k), Junk}
    <3>1. Len(buffer') = filled + 1 /\ buffer' \in Seq(SectorName)
      BY <1>1, <2>1
    <3>2. buffer'[filled + 1] \in {part(filled + 1), Junk}
      BY <1>1, <2>1, <2>4
    <3>3. \A k \in 1 .. filled : buffer'[k] \in {part(k), Junk}
      BY <1>1, <2>1, <2>2
    <3>4. \A k \in 1 .. filled + 1 : k = filled + 1 \/ k \in 1 .. filled
      BY <2>3
    <3> HIDE DEF filled, part
    <3>5. \A k \in 1 .. filled + 1 : buffer'[k] \in {part(k), Junk}
      BY <3>2, <3>3, <3>4
    <3> QED
      BY <3>1, <3>5
  <2> HIDE DEF filled
  <2>6. sector + 1 = start + (filled + 1)
    BY <1>1, <2>2, <2>3
  <2> QED
    BY <1>3, <2>1, <2>2, <2>3, <2>5, <2>6
<1> QED
  BY <1>4, <1>5

\* The loader starts with nothing asked for.
LEMMA InitSafe == ASSUME Init PROVE IInv
<1>1. Word \in Nat \ {0} /\ 1 \in Digit
  BY DiskAssumption DEF Digit
<1>2. drive \in DriveState /\ taken \in SectorName /\ lba = 0
  BY <1>1, JunkNamed DEF Init, DriveState
<1>3. TypeOK
  BY <1>2 DEF Init, TypeOK
<1>4. DriveSound /\ Reading
  BY <1>1 DEF Init, DriveSound, Reading
<1>5. Walking /\ Known /\ Filling
  BY DEF Init, Walking, Known, Filling
<1> QED
  BY <1>3, <1>4, <1>5 DEF Init, IInv, Astray

\* Every step keeps the invariant.
LEMMA NextSafe == ASSUME IInv, [Next]_vars PROVE IInv'
<1>1. CASE Next
  BY <1>1, DriverSafe, WalkSafe, ReadSafe DEF Next, Loader
<1>2. CASE UNCHANGED vars
  <2>1. Wanted' = Wanted /\ Content(lba)' = Content(lba)
        /\ Address(lba >= Limit)' = Address(lba >= Limit)
    BY <1>2 DEF vars, Wanted, Content, Extent, Address
  <2>2. TypeOK' /\ DriveSound' /\ Astray'
    BY <1>2 DEF vars, IInv, TypeOK, DriveSound, Astray
  <2>3. Reading'
    BY <1>2, <2>1 DEF vars, IInv, Reading
  <2>4. Walking' /\ Known'
    BY <1>2, <2>1 DEF vars, IInv, Walking, Known
  <2>5. Filling'
    BY <1>2, <2>1 DEF vars, IInv, Filling
  <2> QED
    BY <2>2, <2>3, <2>4, <2>5 DEF IInv
<1> QED
  BY <1>1, <1>2

-------------------------------------------------------------------------------
(* The theorems *)

\* The invariant holds for registers of any range, any archive that the
\* loader's words can count, and a drive that fails at any command, whether or
\* not it shows the error while BSY is set.
THEOREM Invariant == Spec => []IInv
<1>1. Init => IInv
  BY InitSafe
<1>2. IInv /\ [Next]_vars => IInv'
  BY NextSafe
<1> QED
  BY <1>1, <1>2, PTL DEF Spec

\* AtaReadSector hands over the sector it was asked for, on either side of
\* 0x01000000, whatever the registers held before, or else the status shows an
\* error that AtaWait has not looked at.
THEOREM SectorsExact == Spec => []ReadsAskedSector
<1>1. IInv => ReadsAskedSector
  BY DEF IInv, Reading, ReadsAskedSector
<1> QED
  BY <1>1, Invariant, PTL

\* TarReadFile delivers the member that was meant, in order and of full length,
\* wherever it lies in the archive and whatever its size; a sector that the
\* drive failed to read is junk, but no other sector takes its place.
THEOREM FileWhole == Spec => []FileDelivered
<1>1. IInv => FileDelivered
  BY DEF IInv, Known, Filling, FileDelivered
<1> QED
  BY <1>1, Invariant, PTL

\* Nothing is written behind the buffer that BtldrInitialize laid out by the
\* answer of an earlier walk.
THEOREM BufferFits == Spec => []FitsBuffer
<1>1. IInv => FitsBuffer
  <2> SUFFICES ASSUME IInv, task \in {"read", "done"} PROVE Len(buffer) <= length
    BY DEF FitsBuffer
  <2>1. length = count /\ length \in Nat /\ Len(buffer) \in Nat
    BY DEF IInv, TypeOK, Known
  <2>2. Len(buffer) < count \/ Len(buffer) = count
    BY DEF IInv, Filling
  <2> QED
    BY <2>1, <2>2
<1> QED
  BY <1>1, Invariant, PTL
===============================================================================
