------------------------------- MODULE GaProofs -------------------------------
(***************************************************************************)
(* Theorems about the heap.  Its safety rests on one invariant: as long as *)
(* pages are not refused, pools and payloads lie in disjoint runs of taken *)
(* pages, and every chunk is a run of marked blocks of a pool.             *)
(***************************************************************************)
EXTENDS Ga, FiniteSetTheorems, WellFoundedInduction, TLAPS

-------------------------------------------------------------------------------
(* Lemmas on least and greatest numbers *)

\* A set of natural numbers that is not empty has a least element, and Min
\* returns it.
LEMMA LeastOfNaturals ==
  ASSUME NEW T \in SUBSET Nat, T # {}
  PROVE  Min(T) \in T /\ \A y \in T : Min(T) <= y
<1> DEFINE R == {ss \in Nat \X Nat : ss[1] < ss[2]}
<1>1. IsWellFoundedOn(R, Nat)
  BY NatLessThanWellFounded DEF OpToRel
<1> HIDE DEF R
<1>2. PICK x \in T : \A y \in T : <<y, x>> \notin R
  BY <1>1, WFMin
<1>3. ASSUME NEW y \in T PROVE x <= y
  <2>1. x \in Nat /\ y \in Nat /\ <<y, x>> \notin R
    BY <1>2
  <2>2. <<y, x>> \in Nat \X Nat /\ <<y, x>>[1] = y /\ <<y, x>>[2] = x
    BY <2>1
  <2>3. ~(y < x)
    BY <2>1, <2>2 DEF R
  <2> QED
    BY <2>1, <2>3
<1> QED
  BY <1>3 DEF Min

\* A set of numbers up to n that is not empty has a greatest element, and Max
\* returns it.
LEMMA GreatestUpTo ==
  ASSUME NEW n \in Nat, NEW T \in SUBSET (0 .. n), T # {}
  PROVE  Max(T) \in T /\ \A y \in T : y <= Max(T)
<1> DEFINE U == {u \in Nat : u <= n /\ n - u \in T}
<1>1. \A y \in T : y \in Nat /\ y <= n
  OBVIOUS
<1>2. \A y \in T : n - y \in U
  BY <1>1
<1>3. U \in SUBSET Nat /\ U # {}
  BY <1>2
<1>4. PICK u \in U : \A v \in U : u <= v
  <2> HIDE DEF U
  <2> QED
    BY <1>3, LeastOfNaturals
<1>5. ASSUME NEW y \in T PROVE y <= n - u
  <2>1. n - y \in U /\ u <= n - y
    BY <1>2, <1>4
  <2> QED
    BY <2>1, <1>1
<1>6. n - u \in T /\ \A y \in T : n - u >= y
  BY <1>4, <1>5, <1>1
<1> HIDE DEF U
<1> QED
  BY <1>6, <1>1 DEF Max

-------------------------------------------------------------------------------

(* Geometry *)

\* The sizes of the sources: GA_BLOCK_SIZE, PM_PAGE_SIZE, the two headers, and
\* the growth of line 69.
Sizeof ==
  /\ BlockSize = 64 /\ PageSize = 4096 /\ PoolHeader = 8 /\ AllocatorHeader = 20
  /\ GrowPages = 5 /\ GrowDivisor = 4096

\* With the sizes of the sources (64-byte blocks, 4096-byte pages, headers of
\* 8 and 20 bytes) GaCreateAllocator fits its pool, for every number of pages:
\* the data blocks end within the pages, and the bitmap has a bit for every
\* block that freeBlocks counts although its size is rounded down twice.
THEOREM PoolGeometry ==
  ASSUME Sizeof, NEW pages \in Nat \ {0}
  PROVE  /\ DataOffset(pages) + BlockSize * FreeBlocks(pages) <= PageSize * pages
         /\ FreeBlocks(pages) \in Nat \ {0} /\ DataOffset(pages) \in Nat
         /\ FreeBlocks(pages) <= 8 * BlockSize * BitmapBlocks(pages)
<1>1. Blocks(pages) = 64 * pages - 1
  BY DEF Blocks, Sizeof
<1>2. BitmapSize(pages) = 8 * pages - 1
  BY <1>1 DEF BitmapSize
<1>3. BitmapBlocks(pages) \in Nat /\ 64 * BitmapBlocks(pages) >= 8 * pages - 1
      /\ BitmapBlocks(pages) <= pages
  BY <1>2 DEF BitmapBlocks, Sizeof
<1>4. FreeBlocks(pages) = 64 * pages - 1 - BitmapBlocks(pages)
  BY <1>1 DEF FreeBlocks
<1>5. DataOffset(pages) = 28 + 64 * BitmapBlocks(pages)
  BY DEF DataOffset, Sizeof
<1>6. QED
  BY <1>3, <1>4, <1>5 DEF Sizeof

\* A pool's longest free run is a number of its blocks.
LEMMA LongestRunBounds ==
  ASSUME Sizeof, NEW pages \in Nat \ {0}, NEW marked
  PROVE  LongestRun(pages, marked) \in 0 .. FreeBlocks(pages)
<1> DEFINE Runs == {n \in 0 .. FreeBlocks(pages) : BlockRuns(pages, marked, n) # {}}
<1>1. FreeBlocks(pages) \in Nat
  BY PoolGeometry
<1>2. Span(0, 0) = {}
  BY DEF Span
<1>3. 0 \in BlockRuns(pages, marked, 0)
  BY <1>1, <1>2 DEF BlockRuns
<1>4. 0 \in Runs /\ Runs \in SUBSET (0 .. FreeBlocks(pages))
  BY <1>1, <1>3
<1>5. LongestRun(pages, marked) = Max(Runs)
  BY DEF LongestRun
<1> HIDE DEF Runs
<1> QED
  BY <1>1, <1>4, <1>5, GreatestUpTo

\* Requests and growth are numbers of blocks and of pages.
LEMMA RequestsAndGrowth ==
  ASSUME Sizeof
  PROVE  /\ \A size \in Nat : RequestBlocks(size) \in Nat
         /\ \A n \in Nat : GrowthOf(n) \in Nat \ {0}
  BY DEF Sizeof, RequestBlocks, GrowthOf

\* The page manager answers a request with the reserved page or with pages
\* that are free.
LEMMA AllocatedPages ==
  ASSUME NEW n \in Nat, 0 \in taken, AllocatePages(n) # BadPage
  PROVE  AllocatePages(n) \in Page /\ Span(AllocatePages(n), n) \subseteq Page \ taken
<1>1. PageRuns(n) # {} /\ PageRuns(n) \in SUBSET Nat
  BY GaAssumption DEF AllocatePages, PageRuns, Page
<1>2. AllocatePages(n) \in PageRuns(n)
  BY <1>1, LeastOfNaturals DEF AllocatePages
<1> QED
  BY <1>2 DEF PageRuns

\* Runs of numbers that share none lie one behind the other.
LEMMA SpansApart ==
  ASSUME NEW a \in Nat, NEW m \in Nat \ {0}, NEW b \in Nat, NEW n \in Nat \ {0},
         Span(a, m) \cap Span(b, n) = {}
  PROVE  a + m <= b \/ b + n <= a
<1>1. CASE a <= b
  <2>1. b \in Span(b, n) /\ (b < a + m => b \in Span(a, m))
    BY <1>1 DEF Span
  <2> QED
    BY <2>1
<1>2. CASE b <= a
  <2>1. a \in Span(a, m) /\ (a < b + n => a \in Span(b, n))
    BY <1>2 DEF Span
  <2> QED
    BY <2>1
<1> QED
  BY <1>1, <1>2

-------------------------------------------------------------------------------
(* Types *)

Pool == [pages : Nat \ {0}, left : Nat, marked : SUBSET Nat, next : Page \cup {Null}]

Places == [pc : {"idle", "locate", "allocate", "return"}, n : Nat,
           pool : Page \cup {Null}, result : Nat \cup {Null}]

\* A walk stands at a pool of the list, and no pool promises more than its
\* blocks.
Types ==
  /\ taken \subseteq Page /\ 0 \in taken
  /\ DOMAIN pools \subseteq Page /\ InitialPool \in DOMAIN pools
  /\ pools \in [DOMAIN pools -> Pool]
  /\ \A p \in DOMAIN pools :
       /\ pools[p].left <= FreeBlocks(pools[p].pages)
       /\ pools[p].next \in DOMAIN pools \cup {Null}
  /\ call \in Places
  /\ call.pc \in {"locate", "allocate"} => call.pool \in DOMAIN pools
  /\ call.pool \in DOMAIN pools \cup {Null}
  /\ refused \in BOOLEAN

\* A fresh pool is a pool.
LEMMA FreshPools ==
  ASSUME Sizeof, NEW pages \in Nat \ {0}, NEW bitmap \in SUBSET Nat
  PROVE  /\ FreshPool(pages, bitmap) \in Pool
         /\ FreshPool(pages, bitmap).left = FreeBlocks(pages)
         /\ FreshPool(pages, bitmap).pages = pages
         /\ FreshPool(pages, bitmap).next = Null
         /\ FreshPool(pages, bitmap).marked = bitmap
  BY PoolGeometry DEF FreshPool, Pool

\* So is a pool whose blocks were counted again.
LEMMA RecalculatedPools ==
  ASSUME Sizeof, NEW pool \in Pool, NEW bitmap \in SUBSET Nat
  PROVE  /\ Recalculated(pool, bitmap) \in Pool
         /\ Recalculated(pool, bitmap).left = LongestRun(pool.pages, bitmap)
         /\ Recalculated(pool, bitmap).left <= FreeBlocks(pool.pages)
         /\ Recalculated(pool, bitmap).pages = pool.pages
         /\ Recalculated(pool, bitmap).next = pool.next
         /\ Recalculated(pool, bitmap).marked = bitmap
<1>1. LongestRun(pool.pages, bitmap) \in 0 .. FreeBlocks(pool.pages)
  BY LongestRunBounds DEF Pool
<1>2. LongestRun(pool.pages, bitmap) \in Nat
      /\ LongestRun(pool.pages, bitmap) <= FreeBlocks(pool.pages)
  BY <1>1, PoolGeometry DEF Pool
<1> QED
  BY <1>2 DEF Recalculated, Pool

\* What AppendPool does to the pools: one is new, and nothing but a link changes
\* in the others.
LEMMA AppendedPool ==
  ASSUME Sizeof, Types, NEW last \in DOMAIN pools, NEW pages \in Nat \ {0},
         AppendPool(last, pages)
  PROVE  LET base == AllocatePages(pages) IN
         /\ base \in Page
         /\ DOMAIN pools' = DOMAIN pools \cup {base}
         /\ pools' \in [DOMAIN pools' -> Pool]
         /\ pools'[base].pages = pages /\ pools'[base].marked \in SUBSET Nat
         /\ pools'[base].left = FreeBlocks(pages)
         /\ \A p \in DOMAIN pools \ {base} :
              /\ pools'[p].pages = pools[p].pages /\ pools'[p].left = pools[p].left
              /\ pools'[p].marked = pools[p].marked
         /\ \A p \in DOMAIN pools' : pools'[p].next \in DOMAIN pools' \cup {Null}
         /\ call' = [call EXCEPT !.pc = "allocate", !.pool = base]
<1> DEFINE base == AllocatePages(pages)
           created(bitmap) == [p \in DOMAIN pools \cup {base} |->
                                 IF p = base THEN FreshPool(pages, bitmap) ELSE pools[p]]
<1>1. base \in Page
  BY AllocatedPages, GaAssumption DEF Types, Page, BadPage
<1>2. PICK bitmap \in SUBSET Nat : pools' = [created(bitmap) EXCEPT ![last].next = base]
  <2>1. PICK bitmap \in Garbage : pools' = [created(bitmap) EXCEPT ![last].next = base]
    BY Zenon DEF AppendPool
  <2> QED
    BY <2>1, GaAssumption
<1>3. /\ FreshPool(pages, bitmap) \in Pool
      /\ FreshPool(pages, bitmap).left = FreeBlocks(pages)
      /\ FreshPool(pages, bitmap).pages = pages
      /\ FreshPool(pages, bitmap).next = Null
      /\ FreshPool(pages, bitmap).marked = bitmap
  BY FreshPools
<1> HIDE DEF base
<1>4. /\ created(bitmap) \in [DOMAIN pools \cup {base} -> Pool]
      /\ created(bitmap)[base] = FreshPool(pages, bitmap)
      /\ \A p \in DOMAIN pools \ {base} : created(bitmap)[p] = pools[p]
      /\ \A p \in DOMAIN pools \cup {base} :
           created(bitmap)[p].next \in DOMAIN pools \cup {base} \cup {Null}
  BY <1>3 DEF Types
<1> HIDE DEF created
<1>5. /\ DOMAIN pools' = DOMAIN pools \cup {base}
      /\ pools' \in [DOMAIN pools' -> Pool]
      /\ \A p \in DOMAIN pools' : pools'[p].next \in DOMAIN pools' \cup {Null}
      /\ \A p \in DOMAIN pools' :
           /\ pools'[p].pages = created(bitmap)[p].pages
           /\ pools'[p].left = created(bitmap)[p].left
           /\ pools'[p].marked = created(bitmap)[p].marked
  BY <1>1, <1>2, <1>4 DEF Pool
<1>6. call' = [call EXCEPT !.pc = "allocate", !.pool = base]
  BY DEF AppendPool, base
<1> QED
  BY <1>1, <1>3, <1>4, <1>5, <1>6 DEF base

\* The types are those of the first state.
LEMMA InitTypes == ASSUME Sizeof, Init PROVE Types
<1>1. PICK bitmap \in SUBSET Nat :
        pools = [p \in {InitialPool} |-> FreshPool(InitialPages, bitmap)]
  BY GaAssumption DEF Init
<1>2. FreshPool(InitialPages, bitmap) \in Pool
      /\ FreshPool(InitialPages, bitmap).left = FreeBlocks(InitialPages)
      /\ FreshPool(InitialPages, bitmap).pages = InitialPages
      /\ FreshPool(InitialPages, bitmap).next = Null
  BY FreshPools, GaAssumption
<1>3. /\ DOMAIN pools = {InitialPool} /\ InitialPool \in Page
      /\ pools \in [DOMAIN pools -> Pool]
      /\ pools[InitialPool].left = FreeBlocks(pools[InitialPool].pages)
      /\ pools[InitialPool].next = Null
  BY <1>1, <1>2, GaAssumption DEF InitialPool, Page
<1>4. FreeBlocks(InitialPages) \in Nat
  BY PoolGeometry, GaAssumption
<1>5. taken \subseteq Page /\ 0 \in taken
  BY GaAssumption DEF Init, Span, InitialPool, Page
<1>6. call \in Places /\ call.pc = "idle" /\ call.pool = Null /\ refused \in BOOLEAN
  BY DEF Init, Idle, Places
<1> QED
  BY <1>1, <1>2, <1>3, <1>4, <1>5, <1>6 DEF Types

\* The blocks that GaAllocatorAllocate marks are free blocks of the pool.
LEMMA FoundBlocks ==
  ASSUME Sizeof, Types, Allocate
  PROVE  LET pool == pools[call.pool]
             i == Min(BlockRuns(pool.pages, pool.marked, call.n)) IN
         /\ call.pool \in DOMAIN pools /\ pool \in Pool
         /\ call.n \in Nat \ {0}
         /\ i \in Nat /\ i + call.n <= FreeBlocks(pool.pages)
         /\ Span(i, call.n) \cap pool.marked = {}
         /\ Span(i, call.n) \in SUBSET Nat
<1> DEFINE pool == pools[call.pool]
           runs == BlockRuns(pool.pages, pool.marked, call.n)
<1>1. call.pool \in DOMAIN pools /\ pool \in Pool /\ call.n \in Nat \ {0}
  BY DEF Allocate, Types, Places
<1>2. runs \in SUBSET Nat /\ runs # {}
  BY DEF Allocate, BlockRuns
<1>3. Min(runs) \in runs
  BY <1>2, LeastOfNaturals
<1>4. FreeBlocks(pool.pages) \in Nat
  BY <1>1, PoolGeometry DEF Pool
<1>5. /\ Min(runs) \in Nat /\ Min(runs) + call.n <= FreeBlocks(pool.pages)
      /\ Span(Min(runs), call.n) \cap pool.marked = {}
  BY <1>1, <1>3, <1>4 DEF BlockRuns
<1>6. Span(Min(runs), call.n) \in SUBSET Nat
  BY <1>1, <1>5 DEF Span
<1> QED
  BY <1>1, <1>5, <1>6

\* the pools when GaAllocatorRecalculate has counted the blocks of p
CountedAgain(p, bitmap) == [pools EXCEPT ![p] = Recalculated(pools[p], bitmap)]

\* Counting the blocks of a pool again leaves the list of pools as it is.
LEMMA CountingKeepsList ==
  ASSUME Sizeof, Types, NEW p \in DOMAIN pools, NEW bitmap \in SUBSET Nat,
         pools' = CountedAgain(p, bitmap)
  PROVE  /\ DOMAIN pools' = DOMAIN pools
         /\ pools' \in [DOMAIN pools' -> Pool]
         /\ pools'[p].marked = bitmap
         /\ pools'[p].left = LongestRun(pools[p].pages, bitmap)
         /\ \A q \in DOMAIN pools :
              /\ pools'[q].pages = pools[q].pages
              /\ pools'[q].next = pools[q].next
              /\ pools'[q].left <= FreeBlocks(pools[q].pages)
              /\ q # p => pools'[q] = pools[q]
<1>1. pools[p] \in Pool
  BY DEF Types
<1>2. /\ Recalculated(pools[p], bitmap) \in Pool
      /\ Recalculated(pools[p], bitmap).left = LongestRun(pools[p].pages, bitmap)
      /\ Recalculated(pools[p], bitmap).left <= FreeBlocks(pools[p].pages)
      /\ Recalculated(pools[p], bitmap).pages = pools[p].pages
      /\ Recalculated(pools[p], bitmap).next = pools[p].next
      /\ Recalculated(pools[p], bitmap).marked = bitmap
  BY <1>1, RecalculatedPools
<1> QED
  BY <1>2 DEF Types, CountedAgain

\* Every step keeps the types.
LEMMA NextTypes == ASSUME Sizeof, Types, [Next]_vars PROVE Types'
<1>1. CASE UNCHANGED vars
  BY <1>1 DEF vars, Types
<1>2. ASSUME NEW size \in Sizes, GaAllocateMemory(size) PROVE Types'
  <2>1. RequestBlocks(size) \in Nat
    BY RequestsAndGrowth, GaAssumption
  <2>2. call' \in Places /\ call'.pool = InitialPool
    BY <1>2, <2>1, GaAssumption DEF GaAllocateMemory, Places, InitialPool, Page
  <2> QED
    BY <1>2, <2>2 DEF GaAllocateMemory, Types
<1>3. CASE Found
  BY <1>3 DEF Found, Types, Places
<1>4. CASE Walk
  <2>1. pools[call.pool].next \in DOMAIN pools
    BY <1>4 DEF Walk, Types
  <2>2. call' \in Places /\ call'.pool = pools[call.pool].next
    BY <1>4, <2>1 DEF Walk, Types, Places
  <2> QED
    BY <1>4, <2>1, <2>2 DEF Walk, Types
<1>5. CASE Grow
  <2> DEFINE pages == GrowthOf(call.n)
             base == AllocatePages(pages)
  <2>1. call.pool \in DOMAIN pools /\ pages \in Nat \ {0}
    BY <1>5, RequestsAndGrowth DEF Grow, AppendPool, Types, Places
  <2>2. AppendPool(call.pool, pages)
    BY <1>5 DEF Grow
  <2>3. /\ base \in Page
        /\ DOMAIN pools' = DOMAIN pools \cup {base}
        /\ pools' \in [DOMAIN pools' -> Pool]
        /\ pools'[base].pages = pages /\ pools'[base].left = FreeBlocks(pages)
        /\ \A p \in DOMAIN pools \ {base} :
             pools'[p].pages = pools[p].pages /\ pools'[p].left = pools[p].left
        /\ \A p \in DOMAIN pools' : pools'[p].next \in DOMAIN pools' \cup {Null}
        /\ call' = [call EXCEPT !.pc = "allocate", !.pool = base]
    BY <2>1, <2>2, AppendedPool
  <2>4. FreeBlocks(pages) \in Nat
    BY <2>1, PoolGeometry
  <2>5. call' \in Places /\ call'.pool = base
    BY <2>3 DEF Types, Places
  <2>6. taken' \subseteq Page /\ 0 \in taken'
    <3>1. taken' = taken \cup Taken(base, pages)
      BY <2>2 DEF AppendPool
    <3>2. Taken(base, pages) \subseteq Page
      BY <2>1, AllocatedPages DEF Taken, Types
    <3> QED
      BY <3>1, <3>2 DEF Types
  <2>7. refused' \in BOOLEAN
    BY <2>2 DEF AppendPool, Types
  <2> HIDE DEF pages, base
  <2>8. \A p \in DOMAIN pools' : pools'[p].left <= FreeBlocks(pools'[p].pages)
    BY <2>3, <2>4 DEF Types
  <2> QED
    BY <2>3, <2>5, <2>6, <2>7, <2>8 DEF Types
<1>6. CASE Allocate
  <2> DEFINE pool == pools[call.pool]
             i == Min(BlockRuns(pool.pages, pool.marked, call.n))
             bitmap == pool.marked \cup Span(i, call.n)
             addr == PageSize * call.pool + DataOffset(pool.pages) + BlockSize * i
  <2>1. /\ call.pool \in DOMAIN pools /\ pool \in Pool /\ i \in Nat
        /\ Span(i, call.n) \in SUBSET Nat
    BY <1>6, FoundBlocks
  <2>2. bitmap \in SUBSET Nat
    BY <2>1 DEF Pool
  <2>3. /\ pools' = [pools EXCEPT ![call.pool] = Recalculated(pool, bitmap)]
        /\ call' = [call EXCEPT !.pc = "return", !.result = addr]
        /\ UNCHANGED <<taken, refused>>
    BY <1>6 DEF Allocate
  <2>4. addr \in Nat
    <3>1. BitmapBlocks(pool.pages) \in Nat
      BY <2>1 DEF Sizeof, BitmapBlocks, BitmapSize, Blocks, Pool
    <3>2. call.pool \in Nat /\ DataOffset(pool.pages) \in Nat
      BY <2>1, <3>1, GaAssumption DEF Types, Page, DataOffset, Sizeof
    <3> QED
      BY <2>1, <3>2 DEF Sizeof
  <2>5. /\ DOMAIN pools' = DOMAIN pools /\ pools' \in [DOMAIN pools' -> Pool]
        /\ \A q \in DOMAIN pools :
             /\ pools'[q].pages = pools[q].pages
             /\ pools'[q].next = pools[q].next
             /\ pools'[q].left <= FreeBlocks(pools[q].pages)
    <3>1. pools' = CountedAgain(call.pool, bitmap)
      BY <2>3 DEF CountedAgain
    <3> HIDE DEF bitmap
    <3> QED
      BY <2>1, <2>2, <3>1, CountingKeepsList
  <2> HIDE DEF addr, bitmap, i, pool
  <2> QED
    BY <2>3, <2>4, <2>5 DEF Types, Places
<1>7. CASE AllocateNull
  <2>1. call.pool \in DOMAIN pools /\ pools[call.pool].marked \in SUBSET Nat
    BY <1>7 DEF AllocateNull, Types, Pool
  <2>2. /\ DOMAIN pools' = DOMAIN pools /\ pools' \in [DOMAIN pools' -> Pool]
        /\ \A q \in DOMAIN pools :
             /\ pools'[q].pages = pools[q].pages
             /\ pools'[q].next = pools[q].next
             /\ pools'[q].left <= FreeBlocks(pools[q].pages)
    <3>1. pools' = CountedAgain(call.pool, pools[call.pool].marked)
      BY <1>7 DEF AllocateNull, CountedAgain
    <3> QED
      BY <2>1, <3>1, CountingKeepsList
  <2> QED
    BY <1>7, <2>2 DEF AllocateNull, Types, Places
<1>8. CASE Return
  BY <1>8 DEF Return, Idle, Types, Places
<1>9. ASSUME NEW chunk \in chunks, GaFreeMemory(chunk) PROVE Types'
  BY <1>9 DEF GaFreeMemory, Types
<1>10. ASSUME NEW n \in PayloadPages, MmAllocatePayload(n) PROVE Types'
  <2>1. taken' = taken \cup Taken(AllocatePages(n), n)
    BY <1>10 DEF MmAllocatePayload
  <2>2. Taken(AllocatePages(n), n) \subseteq Page
    BY AllocatedPages, GaAssumption DEF Taken, Types
  <2> QED
    BY <1>10, <2>1, <2>2 DEF MmAllocatePayload, Types
<1> QED
  BY <1>1, <1>2, <1>3, <1>4, <1>5, <1>6, <1>7, <1>8, <1>9, <1>10 DEF Next, Proceed

\* Every variable keeps its type, whatever is asked for and refused: taken
\* pages exist, links lead to pools, the walk stands at a pool, and
\* freeBlocksLeft never exceeds the blocks of its pool.
THEOREM TypeCorrect == ASSUME Sizeof PROVE Spec => []TypeOK
<1>1. Init => Types
  BY InitTypes
<1>2. Types /\ [Next]_vars => Types'
  BY NextTypes
<1>3. Types => TypeOK
  BY DEF Types, TypeOK, Pool
<1> QED
  BY <1>1, <1>2, <1>3, PTL DEF Spec

-------------------------------------------------------------------------------
(* freeBlocksLeft *)

\* Each step keeps the promise of freeBlocksLeft: a new pool promises all it
\* has, and a pool that served is counted again.
LEMMA NextHint == ASSUME Sizeof, Types, HintNeverLow, [Next]_vars PROVE HintNeverLow'
<1> DEFINE Kept(p) == pools'[p].left >= LongestRun(pools'[p].pages, pools'[p].marked)
<1> SUFFICES ASSUME ~refused' PROVE HintNeverLow'
  BY DEF HintNeverLow
<1>0. ~refused
  BY DEF Next, vars, Proceed
<1>1. CASE UNCHANGED pools
  BY <1>0, <1>1 DEF HintNeverLow
<1>2. CASE Grow
  <2> DEFINE pages == GrowthOf(call.n)
             base == AllocatePages(pages)
  <2>1. call.pool \in DOMAIN pools /\ pages \in Nat \ {0}
    BY <1>2, RequestsAndGrowth DEF Grow, AppendPool, Types, Places
  <2>2. AppendPool(call.pool, pages)
    BY <1>2 DEF Grow
  <2>3. /\ DOMAIN pools' = DOMAIN pools \cup {base}
        /\ pools'[base].pages = pages
        /\ pools'[base].left = FreeBlocks(pages)
        /\ \A p \in DOMAIN pools \ {base} :
             /\ pools'[p].pages = pools[p].pages /\ pools'[p].left = pools[p].left
             /\ pools'[p].marked = pools[p].marked
    BY <2>1, <2>2, AppendedPool
  <2>4. LongestRun(pages, pools'[base].marked) \in 0 .. FreeBlocks(pages)
    BY <2>1, LongestRunBounds
  <2>5. Kept(base)
    BY <2>3, <2>4
  <2>6. \A p \in DOMAIN pools \ {base} : Kept(p)
    BY <1>0, <2>3 DEF HintNeverLow
  <2> QED
    BY <2>3, <2>5, <2>6 DEF HintNeverLow
<1>3. ASSUME NEW p \in DOMAIN pools, NEW bitmap \in SUBSET Nat,
             pools' = CountedAgain(p, bitmap)
      PROVE  HintNeverLow'
  <2>1. pools[p].pages \in Nat \ {0}
    BY DEF Types, Pool
  <2>2. LongestRun(pools[p].pages, bitmap) \in 0 .. FreeBlocks(pools[p].pages)
    BY <2>1, LongestRunBounds
  <2>3. /\ DOMAIN pools' = DOMAIN pools
        /\ pools'[p].marked = bitmap /\ pools'[p].pages = pools[p].pages
        /\ pools'[p].left = LongestRun(pools[p].pages, bitmap)
        /\ \A q \in DOMAIN pools : q # p => pools'[q] = pools[q]
    BY <1>3, CountingKeepsList
  <2>4. Kept(p)
    BY <2>2, <2>3
  <2>5. \A q \in DOMAIN pools : q # p => Kept(q)
    BY <1>0, <2>3 DEF HintNeverLow
  <2> QED
    BY <2>3, <2>4, <2>5 DEF HintNeverLow
<1>4. CASE Allocate
  <2> DEFINE pool == pools[call.pool]
             i == Min(BlockRuns(pool.pages, pool.marked, call.n))
             bitmap == pool.marked \cup Span(i, call.n)
  <2>1. call.pool \in DOMAIN pools /\ bitmap \in SUBSET Nat
    BY <1>4, FoundBlocks DEF Pool
  <2>2. pools' = CountedAgain(call.pool, bitmap)
    BY <1>4 DEF Allocate, CountedAgain
  <2> HIDE DEF bitmap
  <2> QED
    BY <1>3, <2>1, <2>2
<1>5. CASE AllocateNull
  <2>1. call.pool \in DOMAIN pools /\ pools[call.pool].marked \in SUBSET Nat
    BY <1>5 DEF AllocateNull, Types, Pool
  <2>2. pools' = CountedAgain(call.pool, pools[call.pool].marked)
    BY <1>5 DEF AllocateNull, CountedAgain
  <2> QED
    BY <1>3, <2>1, <2>2
<1> QED
  BY <1>1, <1>2, <1>4, <1>5
     DEF Next, Proceed, vars, GaAllocateMemory, Found, Walk, Return, GaFreeMemory,
         MmAllocatePayload

\* For any memory, any requests and any contents of the bitmaps that nobody
\* clears, until a request for pages is refused freeBlocksLeft is never less
\* than the longest free run: no pool that could serve is passed by
\* GaLocateAllocator.
THEOREM NoPoolPassed == ASSUME Sizeof PROVE Spec => []HintNeverLow
<1>1. Init => Types /\ HintNeverLow
  <2>1. SUFFICES ASSUME Init PROVE HintNeverLow
    BY InitTypes
  <2>2. PICK bitmap \in SUBSET Nat :
          pools = [p \in {InitialPool} |-> FreshPool(InitialPages, bitmap)]
    BY <2>1, GaAssumption DEF Init
  <2>3. LongestRun(InitialPages, bitmap) \in 0 .. FreeBlocks(InitialPages)
    BY LongestRunBounds, GaAssumption
  <2> QED
    BY <2>2, <2>3 DEF HintNeverLow, FreshPool
<1>2. Types /\ HintNeverLow /\ [Next]_vars => (Types /\ HintNeverLow)'
  BY NextTypes, NextHint
<1> QED
  BY <1>1, <1>2, PTL DEF Spec

-------------------------------------------------------------------------------
(* Answers of Null *)

\* The pool in which GaAllocatorAllocate searches either promises more than
\* is asked for, or was made for this request.
PoolChosen ==
  call.pc = "allocate" =>
    \/ pools[call.pool].left > call.n
    \/ /\ pools[call.pool].pages = GrowthOf(call.n)
       /\ pools[call.pool].left = FreeBlocks(GrowthOf(call.n))

\* A pool without a run of n free blocks has no longer run either.
LEMMA NoLongerRun ==
  ASSUME Sizeof, NEW pages \in Nat \ {0}, NEW marked, NEW n \in Nat,
         BlockRuns(pages, marked, n) = {}
  PROVE  LongestRun(pages, marked) \in Nat /\ LongestRun(pages, marked) < n
<1> DEFINE Runs == {k \in 0 .. FreeBlocks(pages) : BlockRuns(pages, marked, k) # {}}
           longest == LongestRun(pages, marked)
<1>1. FreeBlocks(pages) \in Nat
  BY PoolGeometry
<1>2. 0 \in BlockRuns(pages, marked, 0)
  BY <1>1 DEF BlockRuns, Span
<1>3. 0 \in Runs /\ Runs \in SUBSET (0 .. FreeBlocks(pages))
  BY <1>1, <1>2
<1>4. longest = Max(Runs)
  BY DEF LongestRun
<1> HIDE DEF Runs, longest
<1>5. longest \in Runs
  BY <1>1, <1>3, <1>4, GreatestUpTo
<1>6. longest \in 0 .. FreeBlocks(pages) /\ BlockRuns(pages, marked, longest) # {}
  BY <1>5 DEF Runs
<1>7. ASSUME n <= longest PROVE FALSE
  <2>1. PICK i \in BlockRuns(pages, marked, longest) : TRUE
    BY <1>6
  <2>2. /\ i \in 0 .. FreeBlocks(pages) - longest
        /\ Span(i, longest) \cap marked = {}
    BY <2>1 DEF BlockRuns
  <2>3. Span(i, n) \subseteq Span(i, longest)
    BY <1>1, <1>6, <1>7, <2>2 DEF Span
  <2>4. i \in 0 .. FreeBlocks(pages) - n
    BY <1>1, <1>6, <1>7, <2>2
  <2> QED
    BY <2>2, <2>3, <2>4 DEF BlockRuns
<1> QED
  BY <1>1, <1>6, <1>7 DEF longest

\* Every step keeps it: a search begins only where GaLocateAllocator has
\* compared freeBlocksLeft, or in the pool that it has just made.
LEMMA NextChosen == ASSUME Sizeof, Types, PoolChosen, [Next]_vars PROVE PoolChosen'
<1>1. CASE Found
  <2>1. pools[call.pool].left > call.n /\ pools' = pools
    BY <1>1 DEF Found, Fits
  <2>2. call'.pool = call.pool /\ call'.n = call.n
    BY <1>1 DEF Found, Types, Places
  <2>3. pools'[call'.pool].left > call'.n
    BY <2>1, <2>2
  <2> QED
    BY <2>3 DEF PoolChosen
<1>2. CASE Grow
  <2> DEFINE pages == GrowthOf(call.n)
             base == AllocatePages(pages)
  <2>1. call.pool \in DOMAIN pools /\ pages \in Nat \ {0}
    BY <1>2, RequestsAndGrowth DEF Grow, AppendPool, Types, Places
  <2>2. AppendPool(call.pool, pages)
    BY <1>2 DEF Grow
  <2>3. /\ pools'[base].pages = pages /\ pools'[base].left = FreeBlocks(pages)
        /\ call' = [call EXCEPT !.pc = "allocate", !.pool = base]
    BY <2>1, <2>2, AppendedPool
  <2>4. call'.pool = base /\ call'.n = call.n
    BY <2>3 DEF Types, Places
  <2> QED
    BY <2>3, <2>4 DEF PoolChosen
<1>3. CASE UNCHANGED vars
  BY <1>3 DEF vars, PoolChosen
<1>4. ASSUME NEW n \in PayloadPages, MmAllocatePayload(n) PROVE PoolChosen'
  BY <1>4 DEF MmAllocatePayload, PoolChosen
<1>5. ASSUME NEW chunk \in chunks, GaFreeMemory(chunk) PROVE PoolChosen'
  BY <1>5 DEF GaFreeMemory, PoolChosen
<1>6. CASE Walk
  BY <1>6 DEF Walk, PoolChosen, Types, Places
<1>7. CASE Allocate
  <2>1. call'.pc = "return"
    BY <1>7 DEF Allocate, Types, Places
  <2> QED
    BY <2>1 DEF PoolChosen
<1>8. CASE AllocateNull
  <2>1. call'.pc = "return"
    BY <1>8 DEF AllocateNull, Types, Places
  <2> QED
    BY <2>1 DEF PoolChosen
<1>9. CASE Return
  BY <1>9 DEF Return, Idle, PoolChosen
<1>10. ASSUME NEW size \in Sizes, GaAllocateMemory(size) PROVE PoolChosen'
  BY <1>10 DEF GaAllocateMemory, PoolChosen
<1> QED
  BY <1>1, <1>2, <1>3, <1>4, <1>5, <1>6, <1>7, <1>8, <1>9, <1>10 DEF Next, Proceed

\* With the sizes of the sources, whatever was handed out before: Null comes
\* back only for a request of nothing, for one that no new pool is made large
\* enough for, and where freeBlocksLeft promised blocks that a bitmap nobody
\* cleared marks as used.
THEOREM NullExplained == ASSUME Sizeof PROVE Spec => NullOnlyToOversize
<1> DEFINE Explained ==
             AllocateNull /\ ~refused =>
               \/ call.n = 0
               \/ call.n > FreeBlocks(GrowthOf(call.n))
               \/ pools[call.pool].left >
                    LongestRun(pools[call.pool].pages, pools[call.pool].marked)
<1>1. Init => Types /\ PoolChosen
  <2>1. Init => PoolChosen
    BY DEF Init, Idle, PoolChosen
  <2> QED
    BY <2>1, InitTypes
<1>2. Types /\ PoolChosen /\ [Next]_vars => (Types /\ PoolChosen)'
  BY NextTypes, NextChosen
<1>3. Types /\ PoolChosen => Explained
  <2> SUFFICES ASSUME Types, PoolChosen, AllocateNull, call.n # 0,
                      ~(call.n > FreeBlocks(GrowthOf(call.n)))
               PROVE  pools[call.pool].left >
                        LongestRun(pools[call.pool].pages, pools[call.pool].marked)
    OBVIOUS
  <2> DEFINE pool == pools[call.pool]
             longest == LongestRun(pool.pages, pool.marked)
  <2>1. /\ call.pc = "allocate" /\ call.n \in Nat
        /\ BlockRuns(pool.pages, pool.marked, call.n) = {}
    BY DEF AllocateNull, Types, Places
  <2>2. pool.pages \in Nat \ {0} /\ pool.left \in Nat
    BY <2>1 DEF Types, Pool
  <2>3. longest \in Nat /\ longest < call.n
    BY <2>1, <2>2, NoLongerRun
  <2>4. FreeBlocks(GrowthOf(call.n)) \in Nat
    BY <2>1, RequestsAndGrowth, PoolGeometry
  <2>5. pool.left >= call.n
    BY <2>1, <2>2, <2>4 DEF PoolChosen
  <2> QED
    BY <2>1, <2>2, <2>3, <2>5
<1>4. Types /\ PoolChosen => [Explained]_vars
  BY <1>3
<1> QED
  BY <1>1, <1>2, <1>4, PTL DEF Spec, NullOnlyToOversize

-------------------------------------------------------------------------------
(* Memory handed out *)

PoolPages(p) == Span(p, pools[p].pages)

\* Pools and payloads lie in runs of taken pages, and no page is in two pools
\* or in a pool and a payload.
PagesApart ==
  /\ \A p \in DOMAIN pools : PoolPages(p) \subseteq taken
  /\ \A p, q \in DOMAIN pools : p # q => PoolPages(p) \cap PoolPages(q) = {}
  /\ payloads \subseteq [entry : Nat, count : Nat \ {0}]
  /\ \A r \in payloads : Span(r.entry, r.count) \subseteq taken
  /\ \A p \in DOMAIN pools, r \in payloads :
       PoolPages(p) \cap Span(r.entry, r.count) = {}

\* the memory of n blocks of pool p from block i on
BlocksOf(p, i, n) ==
  [addr |-> PageSize * p + DataOffset(pools[p].pages) + BlockSize * i,
   len |-> BlockSize * n]

\* chunk c is a run of marked blocks of pool p
Home(c, p) ==
  \E i \in Nat, n \in Nat \ {0} :
    /\ i + n <= FreeBlocks(pools[p].pages)
    /\ Span(i, n) \subseteq pools[p].marked
    /\ c = BlocksOf(p, i, n)

ChunksHoused == \A c \in chunks : \E p \in DOMAIN pools : Home(c, p)
ChunksApart  == \A c, d \in chunks : c # d => Apart(c, d)

\* Blocks of a pool lie behind its bitmap and within its pages.
LEMMA BlocksWithin ==
  ASSUME Sizeof, Types, NEW p \in DOMAIN pools, NEW i \in Nat, NEW n \in Nat \ {0},
         i + n <= FreeBlocks(pools[p].pages)
  PROVE  LET c == BlocksOf(p, i, n) IN
         /\ c.addr \in Nat /\ c.len \in Nat \ {0}
         /\ PageSize * p + DataOffset(pools[p].pages) <= c.addr
         /\ c.addr + c.len <= PageSize * (p + pools[p].pages)
<1> DEFINE pages == pools[p].pages
<1>1. p \in Nat /\ pages \in Nat \ {0}
  BY GaAssumption DEF Types, Pool, Page
<1>2. /\ DataOffset(pages) \in Nat /\ FreeBlocks(pages) \in Nat
      /\ DataOffset(pages) + 64 * FreeBlocks(pages) <= 4096 * pages
  BY <1>1, PoolGeometry DEF Sizeof
<1>3. 64 * i + 64 * n <= 64 * FreeBlocks(pages)
  BY <1>2
<1> HIDE DEF pages
<1> QED
  BY <1>1, <1>2, <1>3 DEF BlocksOf, Sizeof, pages

\* Every pool has room for its header and its bitmap.
LEMMA HeaderWithin ==
  ASSUME Sizeof, Types, NEW p \in DOMAIN pools
  PROVE  /\ p \in Nat /\ pools[p].pages \in Nat \ {0}
         /\ DataOffset(pools[p].pages) \in Nat
         /\ DataOffset(pools[p].pages) <= PageSize * pools[p].pages
<1>1. p \in Nat /\ pools[p].pages \in Nat \ {0}
  BY GaAssumption DEF Types, Pool, Page
<1>2. /\ DataOffset(pools[p].pages) \in Nat /\ FreeBlocks(pools[p].pages) \in Nat
      /\ DataOffset(pools[p].pages) + 64 * FreeBlocks(pools[p].pages) <= 4096 * pools[p].pages
  BY <1>1, PoolGeometry DEF Sizeof
<1> QED
  BY <1>1, <1>2 DEF Sizeof

\* A chunk lies behind the bitmap of its pool and within the pool's pages.
LEMMA ChunkWithin ==
  ASSUME Sizeof, Types, NEW c, NEW p \in DOMAIN pools, Home(c, p)
  PROVE  /\ c.addr \in Nat /\ c.len \in Nat \ {0}
         /\ PageSize * p + DataOffset(pools[p].pages) <= c.addr
         /\ c.addr + c.len <= PageSize * (p + pools[p].pages)
<1>1. PICK i \in Nat, n \in Nat \ {0} :
        i + n <= FreeBlocks(pools[p].pages) /\ c = BlocksOf(p, i, n)
  BY DEF Home
<1> QED
  BY <1>1, BlocksWithin

\* The invariant says that nothing overlaps.
LEMMA SafeNoOverlap ==
  ASSUME Sizeof, Types, PagesApart, ChunksHoused, ChunksApart
  PROVE  NoOverlap
<1>1. ASSUME NEW c \in chunks, NEW q \in DOMAIN pools PROVE Apart(c, Header(q))
  <2>1. PICK p \in DOMAIN pools : Home(c, p)
    BY DEF ChunksHoused
  <2>2. /\ c.addr \in Nat /\ c.len \in Nat \ {0}
        /\ PageSize * p + DataOffset(pools[p].pages) <= c.addr
        /\ c.addr + c.len <= PageSize * (p + pools[p].pages)
    BY <2>1, ChunkWithin
  <2>3. /\ p \in Nat /\ pools[p].pages \in Nat \ {0}
        /\ DataOffset(pools[p].pages) \in Nat
        /\ q \in Nat /\ pools[q].pages \in Nat \ {0}
        /\ DataOffset(pools[q].pages) \in Nat
        /\ DataOffset(pools[q].pages) <= PageSize * pools[q].pages
    BY HeaderWithin
  <2>4. CASE p = q
    BY <2>2, <2>3, <2>4 DEF Apart, Header, Sizeof
  <2>5. CASE p # q
    <3>1. Span(p, pools[p].pages) \cap Span(q, pools[q].pages) = {}
      BY <2>5 DEF PagesApart, PoolPages
    <3>2. p + pools[p].pages <= q \/ q + pools[q].pages <= p
      BY <2>3, <3>1, SpansApart
    <3> QED
      BY <2>2, <2>3, <3>2 DEF Apart, Header, Sizeof
  <2> QED
    BY <2>4, <2>5
<1>2. ASSUME NEW c \in chunks, NEW r \in payloads PROVE Apart(c, Payload(r))
  <2>1. PICK p \in DOMAIN pools : Home(c, p)
    BY DEF ChunksHoused
  <2>2. /\ c.addr \in Nat /\ c.len \in Nat \ {0}
        /\ PageSize * p + DataOffset(pools[p].pages) <= c.addr
        /\ c.addr + c.len <= PageSize * (p + pools[p].pages)
    BY <2>1, ChunkWithin
  <2>3. /\ p \in Nat /\ pools[p].pages \in Nat \ {0}
        /\ DataOffset(pools[p].pages) \in Nat
    BY HeaderWithin
  <2>4. r.entry \in Nat /\ r.count \in Nat \ {0}
    BY DEF PagesApart
  <2>5. Span(p, pools[p].pages) \cap Span(r.entry, r.count) = {}
    BY DEF PagesApart, PoolPages
  <2>6. p + pools[p].pages <= r.entry \/ r.entry + r.count <= p
    BY <2>3, <2>4, <2>5, SpansApart
  <2> QED
    BY <2>2, <2>3, <2>4, <2>6 DEF Apart, Payload, Sizeof
<1> QED
  BY <1>1, <1>2 DEF NoOverlap, ChunksApart

\* the invariant: it says nothing once pages have been refused
Safe == ~refused => PagesApart /\ ChunksHoused /\ ChunksApart

\* At the start there is one pool, and nothing has been handed out.
LEMMA InitSafe == ASSUME Sizeof, Init PROVE Safe
<1>1. DOMAIN pools = {InitialPool} /\ pools[InitialPool].pages = InitialPages
  BY DEF Init, FreshPool
<1>2. PoolPages(InitialPool) \subseteq taken
  BY <1>1 DEF Init, PoolPages
<1> QED
  BY <1>1, <1>2 DEF Init, Safe, PagesApart, ChunksHoused, ChunksApart

\* Unless it was refused, a new pool lies where none was.
LEMMA NewPool ==
  ASSUME Sizeof, Types, Safe, Grow, ~refused'
  PROVE  AllocatePages(GrowthOf(call.n)) \notin DOMAIN pools
<1> DEFINE pages == GrowthOf(call.n)
           base == AllocatePages(pages)
<1>1. pages \in Nat \ {0}
  BY RequestsAndGrowth DEF Grow, AppendPool, Types, Places
<1>2. AppendPool(call.pool, pages)
  BY DEF Grow
<1>3. base # BadPage /\ PagesApart
  BY <1>2 DEF AppendPool, Safe
<1>4. base \in Nat /\ Span(base, pages) \cap taken = {}
  BY <1>1, <1>3, AllocatedPages, GaAssumption DEF Types, Page
<1> HIDE DEF pages, base
<1>5. ASSUME NEW p \in DOMAIN pools PROVE p \in taken
  <2>1. p \in Span(p, pools[p].pages)
    BY HeaderWithin DEF Span
  <2> QED
    BY <1>3, <2>1 DEF PagesApart, PoolPages
<1>6. base \in Span(base, pages)
  BY <1>1, <1>4 DEF Span
<1>7. base \notin DOMAIN pools
  BY <1>4, <1>5, <1>6
<1> QED
  BY <1>7 DEF base, pages

\* A new pool takes pages that no pool and no payload has.
LEMMA GrowSafe == ASSUME Sizeof, Types, Safe, Grow PROVE Safe'
<1> DEFINE pages == GrowthOf(call.n)
           base == AllocatePages(pages)
<1> SUFFICES ASSUME ~refused' PROVE (PagesApart /\ ChunksHoused /\ ChunksApart)'
  BY DEF Safe
<1>1. call.pool \in DOMAIN pools /\ pages \in Nat \ {0}
  BY RequestsAndGrowth DEF Grow, AppendPool, Types, Places
<1>2. AppendPool(call.pool, pages)
  BY DEF Grow
<1>3. /\ base # BadPage /\ taken' = taken \cup Span(base, pages)
      /\ UNCHANGED <<chunks, payloads>>
      /\ PagesApart /\ ChunksHoused /\ ChunksApart
  BY <1>2 DEF AppendPool, Taken, Safe
<1>4. base \in Nat /\ Span(base, pages) \cap taken = {}
  BY <1>1, <1>3, AllocatedPages, GaAssumption DEF Types, Page
<1>5. /\ DOMAIN pools' = DOMAIN pools \cup {base} /\ pools'[base].pages = pages
      /\ \A p \in DOMAIN pools \ {base} :
           /\ pools'[p].pages = pools[p].pages
           /\ pools'[p].marked = pools[p].marked
  BY <1>1, <1>2, AppendedPool
<1> HIDE DEF pages, base
<1>6. base \notin DOMAIN pools
  BY <1>3, NewPool DEF base, pages
<1>7. /\ \A p : p = base => PoolPages(p)' = Span(base, pages)
      /\ \A p \in DOMAIN pools : PoolPages(p)' = PoolPages(p)
  BY <1>5, <1>6 DEF PoolPages
<1>8. PagesApart'
  BY <1>3, <1>4, <1>5, <1>7 DEF PagesApart
<1>9. ChunksHoused'
  <2>1. \A c, p : p \in DOMAIN pools /\ Home(c, p) => Home(c, p)'
    BY <1>5, <1>6 DEF Home, BlocksOf
  <2> QED
    BY <1>3, <1>5, <2>1 DEF ChunksHoused
<1>10. ChunksApart'
  BY <1>3 DEF ChunksApart
<1> QED
  BY <1>8, <1>9, <1>10

\* Counting a pool again with more blocks marked moves nothing.
LEMMA CountingSafe ==
  ASSUME Sizeof, Types, NEW p \in DOMAIN pools, NEW bitmap \in SUBSET Nat,
         pools' = CountedAgain(p, bitmap), pools[p].marked \subseteq bitmap,
         UNCHANGED <<taken, payloads>>
  PROVE  /\ PagesApart => PagesApart'
         /\ \A c, q : q \in DOMAIN pools /\ Home(c, q) => Home(c, q)'
<1>1. /\ DOMAIN pools' = DOMAIN pools /\ pools'[p].marked = bitmap
      /\ \A q \in DOMAIN pools :
           /\ pools'[q].pages = pools[q].pages
           /\ q # p => pools'[q] = pools[q]
  BY CountingKeepsList
<1>2. \A q \in DOMAIN pools : PoolPages(q)' = PoolPages(q)
  BY <1>1 DEF PoolPages
<1>3. PagesApart => PagesApart'
  BY <1>1, <1>2 DEF PagesApart
<1>4. \A q \in DOMAIN pools : pools[q].marked \subseteq pools'[q].marked
  BY <1>1
<1>5. \A c, q : q \in DOMAIN pools /\ Home(c, q) => Home(c, q)'
  BY <1>1, <1>4 DEF Home, BlocksOf
<1> QED
  BY <1>3, <1>5

\* The blocks that an allocation finds are in no chunk.
LEMMA AllocateSafe == ASSUME Sizeof, Types, Safe, Allocate PROVE Safe'
<1> DEFINE p == call.pool
           pool == pools[p]
           i == Min(BlockRuns(pool.pages, pool.marked, call.n))
           bitmap == pool.marked \cup Span(i, call.n)
           new == BlocksOf(p, i, call.n)
<1> SUFFICES ASSUME ~refused' PROVE (PagesApart /\ ChunksHoused /\ ChunksApart)'
  BY DEF Safe
<1>1. /\ p \in DOMAIN pools /\ pool \in Pool /\ call.n \in Nat \ {0} /\ i \in Nat
      /\ i + call.n <= FreeBlocks(pool.pages)
      /\ Span(i, call.n) \cap pool.marked = {} /\ Span(i, call.n) \in SUBSET Nat
  BY FoundBlocks
<1>2. bitmap \in SUBSET Nat
  BY <1>1 DEF Pool
<1>3. /\ pools' = CountedAgain(p, bitmap) /\ chunks' = chunks \cup {new}
      /\ UNCHANGED <<taken, payloads>>
      /\ PagesApart /\ ChunksHoused /\ ChunksApart
  BY DEF Allocate, CountedAgain, BlocksOf, Safe
<1>4. pools[p].marked \subseteq bitmap
  OBVIOUS
<1>5. Span(i, call.n) \subseteq bitmap
  OBVIOUS
<1>6. /\ DOMAIN pools' = DOMAIN pools /\ pools'[p].marked = bitmap
      /\ pools'[p].pages = pools[p].pages
  <2> HIDE DEF bitmap
  <2> QED
    BY <1>1, <1>2, <1>3, CountingKeepsList
<1>7. PagesApart' /\ \A c, q : q \in DOMAIN pools /\ Home(c, q) => Home(c, q)'
  <2> HIDE DEF bitmap
  <2> QED
    BY <1>1, <1>2, <1>3, <1>4, CountingSafe
<1> HIDE DEF bitmap, i
<1>8. \A c, q : c = new /\ q = p => Home(c, q)'
  BY <1>1, <1>5, <1>6 DEF Home, BlocksOf
<1>9. ChunksHoused'
  BY <1>1, <1>3, <1>6, <1>7, <1>8 DEF ChunksHoused
<1>10. ASSUME NEW c \in chunks PROVE Apart(c, new) /\ Apart(new, c)
  <2>1. PICK q \in DOMAIN pools : Home(c, q)
    BY <1>3 DEF ChunksHoused
  <2>2. PICK j \in Nat, n \in Nat \ {0} :
          /\ j + n <= FreeBlocks(pools[q].pages)
          /\ Span(j, n) \subseteq pools[q].marked /\ c = BlocksOf(q, j, n)
    BY <2>1 DEF Home
  <2>3. /\ c.addr \in Nat /\ c.len \in Nat \ {0}
        /\ PageSize * q + DataOffset(pools[q].pages) <= c.addr
        /\ c.addr + c.len <= PageSize * (q + pools[q].pages)
    BY <2>1, ChunkWithin
  <2>4. /\ new.addr \in Nat /\ new.len \in Nat \ {0}
        /\ PageSize * p + DataOffset(pools[p].pages) <= new.addr
        /\ new.addr + new.len <= PageSize * (p + pools[p].pages)
    BY <1>1, BlocksWithin
  <2>5. /\ p \in Nat /\ pools[p].pages \in Nat \ {0}
        /\ q \in Nat /\ pools[q].pages \in Nat \ {0}
        /\ DataOffset(pools[p].pages) \in Nat /\ DataOffset(pools[q].pages) \in Nat
    BY <1>1, HeaderWithin
  <2>6. CASE p = q
    <3>1. Span(i, call.n) \cap Span(j, n) = {}
      BY <1>1, <2>2, <2>6
    <3>2. i + call.n <= j \/ j + n <= i
      BY <1>1, <3>1, SpansApart
    <3> QED
      BY <1>1, <2>2, <2>5, <2>6, <3>2 DEF Apart, BlocksOf, Sizeof
  <2>7. CASE p # q
    <3>1. Span(p, pools[p].pages) \cap Span(q, pools[q].pages) = {}
      BY <1>1, <1>3, <2>7 DEF PagesApart, PoolPages
    <3>2. p + pools[p].pages <= q \/ q + pools[q].pages <= p
      BY <2>5, <3>1, SpansApart
    <3> HIDE DEF p, new
    <3> QED
      BY <2>3, <2>4, <2>5, <3>2 DEF Apart, Sizeof
  <2> QED
    BY <2>6, <2>7
<1>11. ChunksApart'
  BY <1>3, <1>10 DEF ChunksApart, Apart
<1> QED
  BY <1>7, <1>9, <1>11

\* A payload takes pages that no pool has.
LEMMA PayloadSafe ==
  ASSUME Sizeof, Types, Safe, NEW n \in PayloadPages, MmAllocatePayload(n)
  PROVE  Safe'
<1> DEFINE entry == AllocatePages(n)
           new == [entry |-> entry, count |-> n]
<1> SUFFICES ASSUME ~refused' PROVE (PagesApart /\ ChunksHoused /\ ChunksApart)'
  BY DEF Safe
<1>1. /\ entry # BadPage /\ taken' = taken \cup Span(entry, n)
      /\ payloads' = payloads \cup {new} /\ UNCHANGED <<pools, chunks>>
      /\ PagesApart /\ ChunksHoused /\ ChunksApart
  BY DEF MmAllocatePayload, Taken, Safe
<1>2. n \in Nat \ {0}
  BY GaAssumption
<1>3. entry \in Nat /\ Span(entry, n) \cap taken = {}
  BY <1>1, <1>2, AllocatedPages, GaAssumption DEF Types, Page
<1> HIDE DEF entry
<1>4. new \in [entry : Nat, count : Nat \ {0}] /\ new.entry = entry /\ new.count = n
  BY <1>2, <1>3
<1> HIDE DEF new
<1>5. \A p : PoolPages(p)' = PoolPages(p)
  BY <1>1 DEF PoolPages
<1>6. PagesApart'
  BY <1>1, <1>3, <1>4, <1>5 DEF PagesApart
<1>7. \A c, p : Home(c, p) => Home(c, p)'
  BY <1>1 DEF Home, BlocksOf
<1>8. ChunksHoused' /\ ChunksApart'
  BY <1>1, <1>7 DEF ChunksHoused, ChunksApart
<1> QED
  BY <1>6, <1>8

\* Every step keeps the invariant.
LEMMA NextSafe == ASSUME Sizeof, Types, Safe, [Next]_vars PROVE Safe'
<1>1. CASE AllocateNull
  <2>1. call.pool \in DOMAIN pools /\ pools[call.pool].marked \in SUBSET Nat
    BY <1>1 DEF AllocateNull, Types, Pool
  <2>2. /\ pools' = CountedAgain(call.pool, pools[call.pool].marked)
        /\ UNCHANGED <<taken, payloads, chunks, refused>>
    BY <1>1 DEF AllocateNull, CountedAgain
  <2>3. DOMAIN pools' = DOMAIN pools
    BY <2>1, <2>2, CountingKeepsList
  <2>4. /\ PagesApart => PagesApart'
        /\ \A c, q : q \in DOMAIN pools /\ Home(c, q) => Home(c, q)'
    BY <2>1, <2>2, CountingSafe
  <2> QED
    BY <2>2, <2>3, <2>4 DEF Safe, ChunksHoused, ChunksApart
<1>2. ASSUME UNCHANGED <<taken, pools, payloads, refused>>, chunks' \subseteq chunks
      PROVE  Safe'
  BY <1>2 DEF Safe, PagesApart, PoolPages, ChunksHoused, ChunksApart, Home, BlocksOf
<1> QED
  BY <1>1, <1>2, GrowSafe, AllocateSafe, PayloadSafe
     DEF Next, Proceed, vars, GaAllocateMemory, Found, Walk, Return, GaFreeMemory

\* With the sizes of the sources, for any amount of memory, any requests and
\* any contents of the bitmaps that nobody clears: until pages are refused,
\* no chunk that GaAllocateMemory hands out overlaps another chunk in use, the
\* header or bitmap of a pool, or a payload.
THEOREM NothingOverlaps == ASSUME Sizeof PROVE Spec => []NoOverlap
<1>1. Init => Types /\ Safe
  BY InitTypes, InitSafe
<1>2. Types /\ Safe /\ [Next]_vars => (Types /\ Safe)'
  BY NextTypes, NextSafe
<1>3. Types /\ Safe => NoOverlap
  <2>1. CASE refused
    BY <2>1 DEF NoOverlap
  <2>2. CASE ~refused
    BY <2>2, SafeNoOverlap DEF Safe
  <2> QED
    BY <2>1, <2>2
<1> QED
  BY <1>1, <1>2, <1>3, PTL DEF Spec

-------------------------------------------------------------------------------
(* The list of pools *)

\* Of the pools one ends the list, every other one but the first has one
\* before it, and the links lead from the first pool to all.
Linked ==
  /\ \E last \in DOMAIN pools : \A p \in DOMAIN pools :
       pools[p].next = Null <=> p = last
  /\ \A p \in DOMAIN pools \ {InitialPool} :
       \E before \in DOMAIN pools : \A q \in DOMAIN pools :
         pools[q].next = p <=> q = before
  /\ \A S \in SUBSET DOMAIN pools :
       InitialPool \in S /\ (\A p \in S : pools[p].next \in S \cup {Null})
         => S = DOMAIN pools

\* Pools linked in this way are one list, counted.
LEMMA LinkedIsOneList == ASSUME Linked PROVE OneList
<1>1. Cardinality({p \in DOMAIN pools : pools[p].next = Null}) = 1
  <2>1. PICK last \in DOMAIN pools :
          \A p \in DOMAIN pools : pools[p].next = Null <=> p = last
    BY DEF Linked
  <2>2. {p \in DOMAIN pools : pools[p].next = Null} = {last}
    BY <2>1
  <2> QED
    BY <2>2, FS_Singleton
<1>2. ASSUME NEW p \in DOMAIN pools \ {InitialPool}
      PROVE  Cardinality({q \in DOMAIN pools : pools[q].next = p}) = 1
  <2>1. PICK before \in DOMAIN pools :
          \A q \in DOMAIN pools : pools[q].next = p <=> q = before
    BY DEF Linked
  <2>2. {q \in DOMAIN pools : pools[q].next = p} = {before}
    BY <2>1
  <2> QED
    BY <2>2, FS_Singleton
<1> QED
  BY <1>1, <1>2 DEF Linked, OneList

\* The first pool ends the list.
LEMMA InitLinked == ASSUME Sizeof, Init PROVE Linked
<1>1. DOMAIN pools = {InitialPool} /\ pools[InitialPool].next = Null
  BY DEF Init, FreshPool
<1> QED
  BY <1>1 DEF Linked

\* A pool that lies where none was is linked behind the last one.
LEMMA GrowLinked ==
  ASSUME Sizeof, Types, Safe, Linked, ~refused, ~refused', Grow
  PROVE  Linked'
<1> DEFINE last == call.pool
           base == AllocatePages(GrowthOf(call.n))
<1>1. /\ last \in DOMAIN pools /\ pools[last].next = Null
      /\ AppendPool(last, GrowthOf(call.n)) /\ GrowthOf(call.n) \in Nat \ {0}
  BY RequestsAndGrowth DEF Grow, AppendPool, Types, Places
<1>2. base \in Page /\ DOMAIN pools' = DOMAIN pools \cup {base}
  BY <1>1, AppendedPool
<1>3. base \notin DOMAIN pools
  BY NewPool
<1>4. /\ pools'[last].next = base /\ pools'[base].next = Null
      /\ \A p \in DOMAIN pools \ {last} : pools'[p].next = pools[p].next
  <2>1. PICK bitmap : pools' = [[p \in DOMAIN pools \cup {base} |->
            IF p = base THEN FreshPool(GrowthOf(call.n), bitmap) ELSE pools[p]]
              EXCEPT ![last].next = base]
    BY <1>1, Zenon DEF AppendPool
  <2>2. FreshPool(GrowthOf(call.n), bitmap).next = Null
    BY DEF FreshPool
  <2>3. \A p \in DOMAIN pools : pools[p] \in Pool
    BY DEF Types
  <2> HIDE DEF base, last
  <2> QED
    BY <1>1, <1>3, <2>1, <2>2, <2>3 DEF Pool
<1>5. \A p \in DOMAIN pools : pools[p].next \in DOMAIN pools \cup {Null}
  BY DEF Types
<1>6. base # Null /\ Null \notin DOMAIN pools /\ InitialPool \in DOMAIN pools
  BY <1>2, GaAssumption DEF Types, Page
<1> HIDE DEF base, last
<1>7. \E l \in DOMAIN pools' : \A p \in DOMAIN pools' : pools'[p].next = Null <=> p = l
  <2>1. \A p \in DOMAIN pools : pools[p].next = Null <=> p = last
    BY <1>1 DEF Linked
  <2>2. \A p \in DOMAIN pools' : pools'[p].next = Null <=> p = base
    BY <1>1, <1>2, <1>3, <1>4, <1>6, <2>1
  <2> QED
    BY <1>2, <2>2
<1>8. ASSUME NEW p \in DOMAIN pools' \ {InitialPool}
      PROVE  \E before \in DOMAIN pools' : \A q \in DOMAIN pools' :
               pools'[q].next = p <=> q = before
  <2>1. CASE p = base
    <3>1. \A q \in DOMAIN pools' : pools'[q].next = base <=> q = last
      BY <1>1, <1>2, <1>3, <1>4, <1>5, <1>6
    <3> QED
      BY <1>1, <1>2, <2>1, <3>1
  <2>2. CASE p # base
    <3>1. p \in DOMAIN pools \ {InitialPool}
      BY <1>2, <2>2
    <3>2. PICK before \in DOMAIN pools :
            \A q \in DOMAIN pools : pools[q].next = p <=> q = before
      BY <3>1 DEF Linked
    <3>3. before # last
      BY <1>1, <1>6, <3>1, <3>2
    <3>4. \A q \in DOMAIN pools' : pools'[q].next = p <=> q = before
      BY <1>1, <1>2, <1>3, <1>4, <1>6, <2>2, <3>1, <3>2, <3>3
    <3> QED
      BY <1>2, <3>4
  <2> QED
    BY <2>1, <2>2
<1>9. ASSUME NEW S \in SUBSET DOMAIN pools', InitialPool \in S,
             \A p \in S : pools'[p].next \in S \cup {Null}
      PROVE  S = DOMAIN pools'
  <2> DEFINE T == S \ {base}
  <2>1. T \in SUBSET DOMAIN pools /\ InitialPool \in T
    BY <1>2, <1>3, <1>6, <1>9
  <2>2. ASSUME NEW p \in T PROVE pools[p].next \in T \cup {Null}
    <3>1. CASE p = last
      BY <1>1, <3>1
    <3>2. CASE p # last
      <4>1. pools'[p].next = pools[p].next /\ pools[p].next # base
        BY <1>3, <1>4, <1>5, <1>6, <2>1, <3>2
      <4> QED
        BY <1>9, <4>1
    <3> QED
      BY <3>1, <3>2
  <2>3. T = DOMAIN pools
    <3> HIDE DEF T
    <3> QED
      BY <2>1, <2>2 DEF Linked
  <2>4. last \in S /\ base \in S
    <3>1. last \in S
      BY <1>1, <2>3
    <3> QED
      BY <1>4, <1>6, <1>9, <3>1
  <2> QED
    BY <1>2, <2>3, <2>4
<1> QED
  BY <1>7, <1>8, <1>9 DEF Linked

\* No other step changes a link.
LEMMA KeptLinked ==
  ASSUME Linked, DOMAIN pools' = DOMAIN pools,
         \A p \in DOMAIN pools : pools'[p].next = pools[p].next
  PROVE  Linked'
<1>1. \E last \in DOMAIN pools' : \A p \in DOMAIN pools' :
        pools'[p].next = Null <=> p = last
  BY DEF Linked
<1>2. \A p \in DOMAIN pools' \ {InitialPool} :
        \E before \in DOMAIN pools' : \A q \in DOMAIN pools' :
          pools'[q].next = p <=> q = before
  BY DEF Linked
<1>3. ASSUME NEW S \in SUBSET DOMAIN pools', InitialPool \in S,
             \A p \in S : pools'[p].next \in S \cup {Null}
      PROVE  S = DOMAIN pools'
  <2>1. \A p \in S : pools[p].next \in S \cup {Null}
    BY <1>3
  <2> QED
    BY <1>3, <2>1 DEF Linked
<1> QED
  BY <1>1, <1>2, <1>3 DEF Linked

\* Every step keeps the list while no request is refused.
LEMMA NextLinked ==
  ASSUME Sizeof, Types, Safe, ~refused => Linked, [Next]_vars
  PROVE  (~refused => Linked)'
<1> SUFFICES ASSUME ~refused' PROVE Linked'
  OBVIOUS
<1>1. ~refused /\ Linked
  BY DEF Next, Proceed, vars, GaAllocateMemory, Found, Walk, Grow, AppendPool, Allocate,
         AllocateNull, Return, GaFreeMemory, MmAllocatePayload, Types
<1>2. CASE Grow
  BY <1>1, <1>2, GrowLinked
<1>3. CASE Allocate
  <2> DEFINE bitmap == pools[call.pool].marked
               \cup Span(Min(BlockRuns(pools[call.pool].pages,
                                       pools[call.pool].marked, call.n)), call.n)
  <2>1. call.pool \in DOMAIN pools /\ bitmap \in SUBSET Nat
    BY <1>3, FoundBlocks DEF Pool
  <2>2. pools' = CountedAgain(call.pool, bitmap)
    BY <1>3 DEF Allocate, CountedAgain
  <2> HIDE DEF bitmap
  <2>3. /\ DOMAIN pools' = DOMAIN pools
        /\ \A p \in DOMAIN pools : pools'[p].next = pools[p].next
    BY <2>1, <2>2, CountingKeepsList
  <2> QED
    BY <1>1, <2>3, KeptLinked
<1>4. CASE AllocateNull
  <2>1. call.pool \in DOMAIN pools /\ pools[call.pool].marked \in SUBSET Nat
    BY <1>4 DEF AllocateNull, Types, Pool
  <2>2. pools' = CountedAgain(call.pool, pools[call.pool].marked)
    BY <1>4 DEF AllocateNull, CountedAgain
  <2>3. /\ DOMAIN pools' = DOMAIN pools
        /\ \A p \in DOMAIN pools : pools'[p].next = pools[p].next
    BY <2>1, <2>2, CountingKeepsList
  <2> QED
    BY <1>1, <2>3, KeptLinked
<1>5. CASE UNCHANGED pools
  BY <1>1, <1>5, KeptLinked
<1> QED
  BY <1>2, <1>3, <1>4, <1>5
     DEF Next, Proceed, vars, GaAllocateMemory, Found, Walk, Return, GaFreeMemory,
         MmAllocatePayload

\* With the sizes of the sources, for any amount of memory and any requests:
\* until pages are refused the pools are one list from
\* GaInitialAllocationBlock on, in which the walk of GaLocateAllocator meets
\* every pool that GaAllocateMemory ever made.
THEOREM PoolsAreOneList == ASSUME Sizeof PROVE Spec => []OneList
<1>1. Init => Types /\ Safe /\ (~refused => Linked)
  BY InitTypes, InitSafe, InitLinked
<1>2. Types /\ Safe /\ (~refused => Linked) /\ [Next]_vars
        => (Types /\ Safe /\ (~refused => Linked))'
  BY NextTypes, NextSafe, NextLinked
<1>3. (~refused => Linked) => OneList
  BY LinkedIsOneList DEF OneList
<1> QED
  BY <1>1, <1>2, <1>3, PTL DEF Spec
===============================================================================
