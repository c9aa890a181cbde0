---------------------------------- MODULE Ga ----------------------------------
(***************************************************************************)
(* The kernel heap, inuoskrnl/ga/base.c: a list of pools, each a run of    *)
(* pages that holds a header, a bitmap and blocks, searched first fit.     *)
(*                                                                         *)
(* Every call of the heap in the sources is made while KeInitialize runs   *)
(* with signals off, so calls do not overlap; pages come from the page     *)
(* manager as PageRuns and LowestFirst (modules PageRuns, Pm) promise them *)
(* to a caller that is alone.  A pool is named by its first page, since    *)
(* PmGetPageAddress turns one into the other.                              *)
(***************************************************************************)
EXTENDS Integers, FiniteSets, FiniteSetsExt

CONSTANTS
  PageCount,        \* pages the page manager has, page 0 reserved
  PageSize,         \* PM_PAGE_SIZE
  BlockSize,        \* GA_BLOCK_SIZE
  PoolHeader,       \* sizeof(GaAllocationPool) - sizeof(GaAllocator)
  AllocatorHeader,  \* sizeof(GaAllocator)
  InitialPages,     \* GA_INITIAL_BLOCK_PAGES
  GrowPages,        \* the 5 of line 69
  GrowDivisor,      \* the 4096 of line 69
  Null,
  Sizes,            \* byte counts that callers ask for
  PayloadPages,     \* page counts of the payloads taken beside the heap
  Garbage,          \* bound: what a bitmap that nobody cleared may hold
  MaxChunks         \* bound: chunks in use when a call begins

ASSUME GaAssumption ==
  /\ PageCount \in Nat /\ InitialPages \in Nat \ {0}
  /\ InitialPages < PageCount
  /\ PageSize \in Nat \ {0} /\ BlockSize \in Nat \ {0}
  /\ PoolHeader \in Nat /\ AllocatorHeader \in Nat
  /\ Garbage \subseteq SUBSET Nat
  /\ Null \notin 0 .. PageCount - 1
  /\ Sizes \subseteq Nat /\ PayloadPages \subseteq Nat \ {0}
  /\ GrowPages \in Nat \ {0} /\ GrowDivisor \in Nat \ {0}

Page    == 0 .. PageCount - 1
BadPage == 0
Span(first, n) == first .. first + n - 1

-------------------------------------------------------------------------------
(* The geometry of a pool of a given number of pages (GaCreateAllocator).  *)

Blocks(pages) ==
  (PageSize * pages - PoolHeader - AllocatorHeader) \div BlockSize

BitmapSize(pages) == Blocks(pages) \div 8

BitmapBlocks(pages) ==
  BitmapSize(pages) \div BlockSize
    + (IF BitmapSize(pages) % BlockSize = 0 THEN 0 ELSE 1)

(* Definitions named Fault... are slips the code could contain at that     *)
(* place; each shows that a property below would notice (see the README).  *)

FaultFreeBlocks(pages) == Blocks(pages)        \* line 51 is missing

FreeBlocks(pages) == Blocks(pages) - BitmapBlocks(pages)

DataOffset(pages) ==
  PoolHeader + AllocatorHeader + BlockSize * BitmapBlocks(pages)

\* GaCalculateRequestBlock
RequestBlocks(size) ==
  size \div BlockSize + (IF size % BlockSize = 0 THEN 0 ELSE 1)

-------------------------------------------------------------------------------

VARIABLES
  taken,      \* pages occupied in the page manager's table
  pools,      \* base page -> the pool's header and bitmap
  call,       \* the call in progress: where GaLocateAllocator stands
  chunks,     \* memory handed out and not given back: [addr, len] in bytes
  payloads,   \* page runs handed to others: [entry, count]
  refused     \* some request for pages was answered PM_BAD_PAGE

vars == <<taken, pools, call, chunks, payloads, refused>>

Idle == [pc |-> "idle", n |-> 0, pool |-> Null, result |-> Null]

PageRuns(n) == {e \in Page : Span(e, n) \subseteq Page \ taken}

\* PmAllocatePage
AllocatePages(n) == IF PageRuns(n) = {} THEN BadPage ELSE Min(PageRuns(n))

\* the pages that a request answered with `entry' takes out of the table
Taken(entry, n) == IF entry = BadPage THEN {} ELSE Span(entry, n)

InitialPool == 1       \* the first request of all is served from page 1

FaultFreshPoolCircular(pages, bitmap) ==       \* next = the initial pool
  [pages |-> pages, left |-> FreeBlocks(pages), marked |-> bitmap,
   next |-> InitialPool]

\* A pool as GaCreateAllocator leaves it: the bitmap is not cleared, and the
\* number of blocks left is that of an empty pool.
FreshPool(pages, bitmap) ==
  [pages |-> pages, left |-> FreeBlocks(pages), marked |-> bitmap, next |-> Null]

Init ==
  /\ taken = {0} \cup Span(InitialPool, InitialPages)
  /\ \E bitmap \in Garbage :
       pools = [p \in {InitialPool} |-> FreshPool(InitialPages, bitmap)]
  /\ call = Idle
  /\ chunks = {}
  /\ payloads = {}
  /\ refused = FALSE

GaAllocateMemory(size) ==
  /\ call.pc = "idle"
  /\ Cardinality(chunks) < MaxChunks
  /\ call' = [pc |-> "locate", n |-> RequestBlocks(size),
              pool |-> InitialPool, result |-> Null]
  /\ UNCHANGED <<taken, pools, chunks, payloads, refused>>

(* GaLocateAllocator, one pool of the list at a time *)

Fits == pools[call.pool].left > call.n

Found ==
  /\ call.pc = "locate" /\ Fits
  /\ call' = [call EXCEPT !.pc = "allocate"]
  /\ UNCHANGED <<taken, pools, chunks, payloads, refused>>

Walk ==
  /\ call.pc = "locate" /\ ~Fits /\ pools[call.pool].next # Null
  /\ call' = [call EXCEPT !.pool = pools[call.pool].next]
  /\ UNCHANGED <<taken, pools, chunks, payloads, refused>>

\* The page is not tested: after PM_BAD_PAGE the pool is laid on the reserved
\* page and on those behind it, over the header and the bitmap of the first
\* pool.  What those hold then is anybody's guess, so the model ends there (see
\* Next).  The link from `last' is written after the new header.
AppendPool(last, pages) ==
  LET base == AllocatePages(pages) IN
  /\ call.pc = "locate" /\ ~Fits /\ pools[call.pool].next = Null
  /\ \E bitmap \in Garbage :
       LET created == [p \in DOMAIN pools \cup {base} |->
                         IF p = base THEN FreshPool(pages, bitmap) ELSE pools[p]] IN
       pools' = [created EXCEPT ![last].next = base]
  /\ taken' = taken \cup Taken(base, pages)
  /\ refused' = (refused \/ base = BadPage)
  /\ call' = [call EXCEPT !.pc = "allocate", !.pool = base]
  /\ UNCHANGED <<chunks, payloads>>

GrowthOf(n) == n \div GrowDivisor + GrowPages

FaultGrowShort ==                              \* one page too few
  AppendPool(call.pool, GrowthOf(call.n) - 1)

FaultGrowAfterFirst ==                         \* links behind the first pool
  AppendPool(InitialPool, GrowthOf(call.n))

\* at the end of the list a pool is created, and used whatever its size
Grow == AppendPool(call.pool, GrowthOf(call.n))

(* GaAllocatorAllocate: first fit in the bitmap, then GaAllocatorRecalculate *)

BlockRuns(pages, marked, n) ==
  {i \in 0 .. FreeBlocks(pages) - n : Span(i, n) \cap marked = {}}

\* the longest run of unmarked blocks
LongestRun(pages, marked) ==
  Max({n \in 0 .. FreeBlocks(pages) : BlockRuns(pages, marked, n) # {}})

FaultRecalculated(pool, marked) ==             \* lines 136-138 are missing
  LET last == Max({0} \cup marked) IN
  [pool EXCEPT !.marked = marked,
     !.left = LongestRun(pool.pages,
                         marked \cup Span(last, FreeBlocks(pool.pages)))]

Recalculated(pool, marked) ==
  [pool EXCEPT !.marked = marked, !.left = LongestRun(pool.pages, marked)]

\* length is incremented before it is compared: no run is found for 0 blocks
Allocate ==
  LET pool == pools[call.pool]
      runs == BlockRuns(pool.pages, pool.marked, call.n) IN
  /\ call.pc = "allocate" /\ call.n > 0 /\ runs # {}
  /\ LET addr == PageSize * call.pool + DataOffset(pool.pages)
                   + BlockSize * Min(runs) IN
     /\ chunks' = chunks \cup {[addr |-> addr, len |-> BlockSize * call.n]}
     /\ call' = [call EXCEPT !.pc = "return", !.result = addr]
  /\ pools' = [pools EXCEPT ![call.pool] =
                 Recalculated(pool, pool.marked \cup Span(Min(runs), call.n))]
  /\ UNCHANGED <<taken, payloads, refused>>

AllocateNull ==
  LET pool == pools[call.pool] IN
  /\ call.pc = "allocate"
  /\ call.n = 0 \/ BlockRuns(pool.pages, pool.marked, call.n) = {}
  /\ pools' = [pools EXCEPT ![call.pool] = Recalculated(pool, pool.marked)]
  /\ call' = [call EXCEPT !.pc = "return", !.result = Null]
  /\ UNCHANGED <<taken, chunks, payloads, refused>>

Return ==
  /\ call.pc = "return"
  /\ call' = Idle
  /\ UNCHANGED <<taken, pools, chunks, payloads, refused>>

\* GaFreeMemory enters and leaves the monitor and does nothing else
GaFreeMemory(chunk) ==
  /\ call.pc = "idle"
  /\ chunks' = chunks \ {chunk}
  /\ UNCHANGED <<taken, pools, call, payloads, refused>>

\* MmAllocatePayload, for whoever wants whole pages
MmAllocatePayload(n) ==
  LET entry == AllocatePages(n) IN
  /\ call.pc = "idle"
  /\ taken' = taken \cup Taken(entry, n)
  /\ payloads' = IF entry = BadPage THEN payloads
                 ELSE payloads \cup {[entry |-> entry, count |-> n]}
  /\ refused' = (refused \/ entry = BadPage)
  /\ UNCHANGED <<pools, call, chunks>>

Proceed ==
  /\ ~refused
  /\ Found \/ Walk \/ Grow \/ Allocate \/ AllocateNull \/ Return

\* Nobody tests for PM_BAD_PAGE: the refused caller, the heap itself or the
\* taker of a payload, writes from the reserved page on, where the first pool
\* keeps its header, and nothing can be said of the heap from there.  The last
\* disjunct is that end.
Next ==
  \/ Proceed
  \/ /\ ~refused
     /\ \/ \E size \in Sizes : GaAllocateMemory(size)
        \/ \E chunk \in chunks : GaFreeMemory(chunk)
        \/ \E n \in PayloadPages : MmAllocatePayload(n)
  \/ refused /\ UNCHANGED vars

Spec == Init /\ [][Next]_vars /\ WF_vars(Proceed)
-------------------------------------------------------------------------------
(* Properties.                                                             *)

\* Every variable keeps its type: the page table, the pool headers, the
\* position of the walk, and what callers hold.
TypeOK ==
  /\ taken \subseteq Page
  /\ DOMAIN pools \subseteq Page /\ InitialPool \in DOMAIN pools
  /\ \A p \in DOMAIN pools :
       /\ pools[p].left \in 0 .. FreeBlocks(pools[p].pages)
       /\ pools[p].next \in DOMAIN pools \cup {Null}
  /\ call.pool \in DOMAIN pools \cup {Null}
  /\ refused \in BOOLEAN

Apart(a, b) == a.addr + a.len <= b.addr \/ b.addr + b.len <= a.addr

Header(p)  == [addr |-> PageSize * p, len |-> DataOffset(pools[p].pages)]
Payload(r) == [addr |-> PageSize * r.entry, len |-> PageSize * r.count]

\* Until a request for pages has been refused, GaAllocateMemory hands out
\* memory that overlaps no chunk in use, no pool's header or bitmap and no
\* payload of MmAllocatePayload.
NoOverlap ==
  ~refused =>
    /\ \A c, d \in chunks : c # d => Apart(c, d)
    /\ \A c \in chunks, p \in DOMAIN pools : Apart(c, Header(p))
    /\ \A c \in chunks, r \in payloads : Apart(c, Payload(r))

\* Until a request for pages has been refused, freeBlocksLeft never says less
\* than the longest free run, so that GaLocateAllocator passes no pool that
\* could serve: it can only promise too much, for a pool whose bitmap was never
\* cleared.
HintNeverLow ==
  ~refused =>
    \A p \in DOMAIN pools :
      pools[p].left >= LongestRun(pools[p].pages, pools[p].marked)

\* Until pages are refused the pools form one list that starts at
\* GaInitialAllocationBlock: one pool ends it, every other has exactly one
\* before it, and whoever follows the links from the first pool meets them
\* all, so no pool is lost to the walk of GaLocateAllocator.
OneList ==
  ~refused =>
    /\ Cardinality({p \in DOMAIN pools : pools[p].next = Null}) = 1
    /\ \A p \in DOMAIN pools \ {InitialPool} :
         Cardinality({q \in DOMAIN pools : pools[q].next = p}) = 1
    /\ \A S \in SUBSET DOMAIN pools :
         InitialPool \in S /\ (\A p \in S : pools[p].next \in S \cup {Null})
           => S = DOMAIN pools

\* While pages last, GaAllocateMemory returns Null only to a request for
\* nothing or for more than a whole new pool holds, and where the bitmap that
\* nobody cleared made freeBlocksLeft promise too much.
NullOnlyToOversize ==
  [][AllocateNull /\ ~refused =>
       \/ call.n = 0
       \/ call.n > FreeBlocks(GrowthOf(call.n))
       \/ pools[call.pool].left >
            LongestRun(pools[call.pool].pages, pools[call.pool].marked)]_vars

\* While pages last every GaAllocateMemory comes back: the walk ends.
CallsReturn == call.pc # "idle" ~> call.pc = "idle" \/ refused

\* Line 75 stops the machine when "Memory is out!": no pool is made of the
\* answer PM_BAD_PAGE.
OutOfMemoryStops == BadPage \notin DOMAIN pools
===============================================================================
