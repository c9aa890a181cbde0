--------------------------------- MODULE Pvm ----------------------------------
(***************************************************************************)
(* The kernel's own page tables, inuoskrnl/pvm/base.c, and their           *)
(* translation into the tables of the processor, HalSetDescription of      *)
(* inuhal/arch/IA32/hal.c.                                                 *)
(*                                                                         *)
(* Five levels of tables, each of VM_COUNT entries of eight bytes, are     *)
(* walked and grown on demand; the processor has two levels, of entries    *)
(* of four bytes, so one of its tables holds two of the kernel's.  A table *)
(* is named by the order in which its page was taken from the page         *)
(* manager, whose pages suffice (module Ga has what happens if not), and   *)
(* address 0 is no table.  Addresses are page numbers.  A description      *)
(* covers the 2^32 bytes of the machine: GPDE and MPDE index 0.            *)
(***************************************************************************)
EXTENDS Integers, Sequences, FiniteSets

CONSTANTS
  Entries,       \* VM_COUNT
  Directories,   \* the 4 of hal.c:162
  Asked,         \* virtual pages that callers map
  Observed,      \* virtual pages whose translation is compared
  Physical,      \* physical pages they map them to
  Attributes,    \* struct VMA, as callers give it
  Absent,        \* struct VMA of an entry that nobody wrote
  NoPage,
  Cleared,       \* whether the pages come zeroed
  MaxMaps        \* bound: calls of VmMapDescription

Slot        == 0 .. Entries - 1
RegionSize  == 2 * Entries          \* the 1024 of a processor's table
RegionCount == Entries \div 2       \* the 256 of hal.c:164
Virtual     == 0 .. Directories * RegionCount * RegionSize - 1
Regions     == 0 .. Directories * RegionCount - 1

ASSUME PvmAssumption ==
  /\ Entries \in Nat /\ Directories \in 1 .. Entries /\ Entries % 2 = 0
  /\ Asked \subseteq Observed /\ Observed \subseteq Virtual
  /\ Physical \subseteq Nat
  /\ NoPage \notin Nat \cup [0 .. RegionSize - 1 -> Nat \cup {NoPage}]
  /\ Cleared \in BOOLEAN /\ MaxMaps \in Nat

VARIABLES
  tables,     \* the tables, in the order of their pages
  root,       \* Description.gpde
  call,       \* the walk in progress; vaddr is handed on and never used
  hardware,   \* what CR3 leads to: region -> its pages, or NoPage
  maps        \* VmMapDescription calls so far (only for the bound)

vars == <<tables, root, call, hardware, maps>>

(* Definitions named Fault... are slips the code could contain at that      *)
(* place; each shows that a property below would notice (see the README).   *)

Entry(address, attributes) == [address |-> address, attributes |-> attributes]
Empty == Entry(0, Absent)

\* A page as the page manager hands it out: zeroed by the firmware, or with
\* what it held before, which may look like the address of a page in use.
FreshPage == [s \in Slot |-> IF Cleared THEN Empty ELSE Entry(1, Absent)]

\* The loop runs VM_COUNT times over entry 0: addr is never moved on.
VmTableInitialize(t) == [t EXCEPT ![0].address = 0]

Idle == [at |-> "idle", table |-> 0, slot |-> 0, offset |-> 0,
         vaddr |-> 0, page |-> 0, attr |-> Absent]

\* VmCreateDescription
Init ==
  /\ tables = << >>
  /\ root = 0
  /\ call = Idle
  /\ hardware = [r \in Regions |-> NoPage]
  /\ maps = 0

HalInitializeDescription ==
  /\ root = 0 /\ call = Idle
  /\ tables' = Append(tables, VmTableInitialize(FreshPage))
  /\ root' = Len(tables')
  /\ UNCHANGED <<call, hardware, maps>>

\* VmMapDescription: line 111 initialises the Payload object, not its page.
VmMapDescription(v, p, a) ==
  /\ call = Idle
  /\ tables' = IF root = 0 THEN Append(tables, FreshPage) ELSE tables
  /\ root' = IF root = 0 THEN Len(tables') ELSE root
  /\ call' = [at |-> "gpde", table |-> root', slot |-> 0, offset |-> v,
              vaddr |-> v, page |-> p, attr |-> a]
  /\ maps' = maps + 1
  /\ UNCHANGED hardware

FaultCreated ==                                \* the test of line 12 is missing
  tables' = Append([tables EXCEPT ![call.table][call.slot].address = Len(tables) + 1],
                   VmTableInitialize(FreshPage))

\* Lines 12-17 and their like: an entry without a table is given one.  The
\* payload of each is also pushed to a vector of the description, mpde, lpde or
\* pte; nothing reads these, and they are left out.  VmInitialize pushes far
\* more than the array of such a vector holds (module Ob); what the writes
\* behind its end hit is taken to be none of the tables.
Created ==
  IF tables[call.table][call.slot].address = 0
    THEN tables' = Append([tables EXCEPT ![call.table][call.slot].address = Len(tables) + 1],
                          VmTableInitialize(FreshPage))
    ELSE UNCHANGED tables

\* The walk goes on in that table, at the entry that covers the offset.
Descend(from, to, granularity) ==
  /\ call.at = from
  /\ Created
  /\ call' = [call EXCEPT !.at = to,
                          !.table = tables'[call.table][call.slot].address,
                          !.slot = call.offset \div granularity,
                          !.offset = call.offset % granularity]
  /\ UNCHANGED <<root, hardware, maps>>

VmiMapGpde == Descend("gpde", "mpde", Entries * Entries * Entries * Entries)
VmiMapMpde == Descend("mpde", "lpde", Entries * Entries)
VmiMapLpde == Descend("lpde", "lpte", Entries)
VmiMapLpte == Descend("lpte", "pf", 1)

VmiMapPf ==
  /\ call.at = "pf"
  /\ tables' = [tables EXCEPT ![call.table][call.slot] = Entry(call.page, call.attr)]
  /\ call' = Idle
  /\ UNCHANGED <<root, hardware, maps>>

Walk == VmiMapGpde \/ VmiMapMpde \/ VmiMapLpde \/ VmiMapLpte \/ VmiMapPf

-------------------------------------------------------------------------------
(* HalSetDescription of a description marked modified, as every caller     *)
(* marks it; the flag is never taken back.                                 *)

LpdeTable == tables[tables[tables[root][0].address][0].address]
Lpte(d) == tables[LpdeTable[d].address]

FaultPairUsed(d, k) == Lpte(d)[2*k].address # 0

\* The pairs of kernel tables of a directory that are not both missing.
PairUsed(d, k) == Lpte(d)[2*k].address # 0 \/ Lpte(d)[2*k + 1].address # 0

\* What counter is when it comes to a pair: it moves only past a pair that is
\* used, so the entries of a directory are packed.
Counter(d, k) == Cardinality({j \in 0 .. k - 1 : PairUsed(d, j)})

\* Every entry is made present and writable, whatever its attributes say;
\* the entries of a missing half stay zero.
PteTable(d, k) ==
  [q \in 0 .. RegionSize - 1 |->
     LET half == Lpte(d)[2*k + q \div Entries].address
     IN  IF half = 0 THEN NoPage ELSE tables[half][q % Entries].address]

HalSetDescription ==
  /\ call = Idle /\ root # 0
  /\ tables[root][0].address # 0
  /\ hardware' =
       [r \in Regions |->
          LET d     == r \div RegionCount
              there == {k \in 0 .. RegionCount - 1 :
                          PairUsed(d, k) /\ Counter(d, k) = r % RegionCount}
          IN  IF LpdeTable[d].address = 0 \/ there = {} THEN NoPage
              ELSE PteTable(d, CHOOSE k \in there : TRUE)]
  /\ UNCHANGED <<tables, root, call, maps>>

Next ==
  \/ HalInitializeDescription
  \/ root # 0 /\ maps < MaxMaps    \* VmInitialize calls HalInitializeDescription first
     /\ \E v \in Asked, p \in Physical, a \in Attributes : VmMapDescription(v, p, a)
  \/ Walk
  \/ HalSetDescription

Spec == Init /\ [][Next]_vars

-------------------------------------------------------------------------------
\* Every variable keeps its type; a table has 512 entries or their model.
TypeOK ==
  /\ tables \in Seq([Slot -> [address : Nat, attributes : Attributes \cup {Absent}]])
  /\ root \in 0 .. Len(tables)
  /\ call \in [at : {"idle", "gpde", "mpde", "lpde", "lpte", "pf"},
               table : 0 .. Len(tables), slot : Slot, offset : Virtual, vaddr : Virtual,
               page : Nat, attr : Attributes \cup {Absent}]
  /\ hardware \in [Regions -> [0 .. RegionSize - 1 -> Nat \cup {NoPage}] \cup {NoPage}]
  /\ maps \in 0 .. MaxMaps

\* The tables that the entries of a set of tables lead to.
Below(S) == {tables[t][s].address : t \in S, s \in Slot} \ {0}

\* Types are kept, and the tables form a tree: every table made is reached from
\* the root, and hangs from one entry only, so that none is lost and a write for
\* one virtual page cannot change another's.
Tree ==
  LET mpde  == Below({root} \ {0})
      lpde  == Below(mpde)
      lpte  == Below(lpde)
      pf    == Below(lpte)
      upper == ({root} \cup mpde \cup lpde \cup lpte) \ {0}
  IN  /\ TypeOK
      /\ upper \cup pf = 1 .. Len(tables)
      /\ tables # << >> =>
           Cardinality({e \in upper \X Slot : tables[e[1]][e[2]].address # 0})
             = Len(tables) - 1

\* What the tables say of a virtual page.
LookupIn(t, s) == IF t = 0 THEN Empty ELSE tables[t][s]
Lookup(v) ==
  LET mpde == LookupIn(root, 0).address
      lpde == LookupIn(mpde, 0).address
      lpte == LookupIn(lpde, v \div (Entries * Entries)).address
      pf   == LookupIn(lpte, (v \div Entries) % Entries).address
  IN  LookupIn(pf, v % Entries)

\* What the processor makes of it.
Translate(v) ==
  LET pages == hardware[v \div RegionSize]
  IN  IF pages = NoPage THEN NoPage ELSE pages[v % RegionSize]

\* The tables, read as the map they stand for.
Abstract == INSTANCE AddressSpace WITH
  Virtual  <- Observed,
  Page     <- Physical \cup {0},
  Unmapped <- Empty,
  space    <- [v \in Observed |-> Lookup(v)],
  loaded   <- [v \in Observed |-> Translate(v)],
  requests <- IF call.at = "idle" THEN {}
              ELSE {[virtual |-> call.vaddr, page |-> call.page, attributes |-> call.attr]}

\* The walk through five levels, step by step, implements a map that changes
\* the one virtual page that was asked for and no other, and loading it shows
\* the processor that map.
ImplementsAddressSpace == Abstract!Spec
===============================================================================
