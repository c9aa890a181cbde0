---------------------------------- MODULE Pm ----------------------------------
(***************************************************************************)
(* The physical page manager, inuoskrnl/pm/base.c, and the payload calls   *)
(* that sit on it (MmAllocatePayload, MmFreePayload in ga/base.c).         *)
(*                                                                         *)
(* A call is a sequence of steps: one per page that the scan of            *)
(* PmAllocatePage looks at, one per page it marks, one per page that       *)
(* MmFreePayload hands to PmFreePage.  Two contexts call the manager: the  *)
(* kernel's own thread of control ("main") and the handler of a signal,    *)
(* which may interrupt main between any two steps once KeInitialize has    *)
(* enabled signals, and runs to completion: every gate of IntInitialize is *)
(* an interrupt gate, and there is one processor.                          *)
(***************************************************************************)
EXTENDS Integers, FiniteSets

CONSTANTS
  PageCount,     \* PmPageCount, the length of PmGlobalAttributeTable
  WordSize,      \* sizeof(UIntPtr): memset clears whole words
  Requests,      \* the page counts that callers ask for
  MaxHandles     \* bound: payloads held when a call begins

ASSUME PmAssumption ==
  /\ PageCount \in Nat \ {0}
  /\ WordSize \in Nat \ {0}
  /\ WordSize <= PageCount
  /\ Requests \subseteq Nat

Page    == 0 .. PageCount - 1
BadPage == 0                           \* PM_BAD_PAGE
Context == {"main", "handler"}

VARIABLES
  occipued,      \* pages whose attribute .occipued is set
  monitor,       \* PmGlobalSynchronizationMonitor
  signals,       \* signals enabled: KeInitialize reached HalEnableSignals
  frame,         \* per context: the locals of the call in progress
  handles        \* payloads held: what callers remember of their calls

vars == <<occipued, monitor, signals, frame, handles>>

Run(entry, n) == entry .. entry + n - 1

Frame == [pc : {"idle", "scan", "mark", "free", "done"},
          count : Nat, i : Nat, entry : Nat, length : Nat, z : Nat]

Handle == [owner : Context, entry : Nat, count : Nat]

IdleFrame ==
  [pc |-> "idle", count |-> 0, i |-> 0, entry |-> 0, length |-> 0, z |-> 0]

-------------------------------------------------------------------------------

(* Definitions named Fault... are slips that the code could contain at that  *)
(* place; each shows that a property below would notice (see the README).    *)

(* PmInitialize has run.  Its memset stores whole words and writes the     *)
(* remaining bytes elsewhere, so the last PageCount % WordSize attributes  *)
(* keep what the memory held; page 0 is then reserved.                     *)
Unset == {p \in Page : p >= PageCount - (PageCount % WordSize)}

Init ==
  /\ \E garbage \in SUBSET Unset : occipued = garbage \cup {0}
  /\ monitor = FALSE
  /\ signals = FALSE
  /\ frame   = [c \in Context |-> IdleFrame]
  /\ handles = {}

\* main runs only while no handler is on the stack above it
At(c, pc) == /\ frame[c].pc = pc
             /\ c = "main" => frame["handler"].pc = "idle"

\* PmChangePageAttributes: Enter, store, Exit on the one global monitor, so
\* that the monitor is free afterwards whoever had entered it.  Both callers
\* store { .occipued = true }; the .forbidden bit is never read.
ChangePageAttributes(p) ==
  /\ occipued' = occipued \cup ({p} \cap Page)
  /\ monitor'  = FALSE

FaultAllocateNextFit(c, n) ==          \* starts at a remembered place
  /\ At(c, "idle")
  /\ Cardinality(handles) < MaxHandles
  /\ monitor' = TRUE
  /\ frame' = [frame EXCEPT ![c] =
       [IdleFrame EXCEPT !.pc = "scan", !.count = n, !.i = 2, !.entry = 2]]
  /\ UNCHANGED <<occipued, signals, handles>>

AllocateCall(c, n) ==
  /\ At(c, "idle")
  /\ Cardinality(handles) < MaxHandles
  /\ monitor' = TRUE                   \* compare-and-exchange, never spins
  /\ frame' = [frame EXCEPT ![c] =
                 [IdleFrame EXCEPT !.pc = "scan", !.count = n]]
  /\ UNCHANGED <<occipued, signals, handles>>

\* one iteration of the loop at lines 58-76, which leaves it when the run is
\* long enough
Scan(c, entry, length) ==
  /\ frame' = [frame EXCEPT
                 ![c].pc = IF length = frame[c].count THEN "mark" ELSE "scan",
                 ![c].i = @ + 1, ![c].entry = entry, ![c].length = length]
  /\ UNCHANGED <<occipued, monitor, signals, handles>>

ScanFree(c) ==
  /\ At(c, "scan")
  /\ frame[c].i \in Page \ occipued
  /\ Scan(c, frame[c].entry, frame[c].length + 1)

FaultScanStays(c) ==                   \* i is not advanced on this branch
  /\ At(c, "scan")
  /\ frame[c].i \in Page \cap occipued
  /\ UNCHANGED vars

ScanOccipued(c) ==
  /\ At(c, "scan")
  /\ frame[c].i \in Page \cap occipued
  /\ Scan(c, frame[c].i + 1, 0)

\* the call returns, and its caller stores the page with the count it asked
\* for (ObPayloadInitialize), whether or not it is PM_BAD_PAGE
Return(c, result) ==
  /\ handles' = handles \cup
       {[owner |-> c, entry |-> result, count |-> frame[c].count]}
  /\ frame' = [frame EXCEPT ![c].pc = "done", ![c].entry = result]
  /\ monitor' = FALSE
  /\ UNCHANGED <<occipued, signals>>

FaultFailEarly(c) ==                   \* i < PageCount - 1 in the loop
  /\ At(c, "scan")
  /\ frame[c].i >= PageCount - 1
  /\ Return(c, BadPage)

AllocateFail(c) ==                     \* the loop ran off the table
  /\ At(c, "scan")
  /\ frame[c].i = PageCount
  /\ Return(c, BadPage)

Mark(c) ==
  /\ At(c, "mark")
  /\ frame[c].z < frame[c].length
  /\ ChangePageAttributes(frame[c].entry + frame[c].z)
  /\ frame' = [frame EXCEPT ![c].z = @ + 1]
  /\ UNCHANGED <<signals, handles>>

FaultReturnEarly(c) ==                 \* z < length - 1 in the marking loop
  /\ At(c, "mark")
  /\ frame[c].z >= frame[c].length - 1
  /\ Return(c, frame[c].entry)

FaultReturnNext(c) ==                  \* returns the page after the first
  /\ At(c, "mark")
  /\ frame[c].z = frame[c].length
  /\ Return(c, frame[c].entry + 1)

AllocateReturn(c) ==
  /\ At(c, "mark")
  /\ frame[c].z = frame[c].length
  /\ Return(c, frame[c].entry)

\* MmFreePayload on a payload the context holds.  ObPayloadFree does not ask
\* whether the allocation had succeeded; ObPayloadFlush does.
FreeCall(c, h) ==
  /\ At(c, "idle")
  /\ h.owner = c
  /\ handles' = handles \ {h}
  /\ frame' = [frame EXCEPT ![c] =
                 [IdleFrame EXCEPT !.pc = "free", !.entry = h.entry,
                                   !.count = h.count]]
  /\ UNCHANGED <<occipued, monitor, signals>>

FaultFreeClears(c) ==                  \* .occipued = false
  /\ At(c, "free")
  /\ frame[c].z < frame[c].count
  /\ occipued' = occipued \ {frame[c].entry + frame[c].z}
  /\ monitor'  = FALSE
  /\ frame' = [frame EXCEPT ![c].z = @ + 1]
  /\ UNCHANGED <<signals, handles>>

FreePage(c) ==                         \* PmFreePage: line 93 stores true
  /\ At(c, "free")
  /\ frame[c].z < frame[c].count
  /\ ChangePageAttributes(frame[c].entry + frame[c].z)
  /\ frame' = [frame EXCEPT ![c].z = @ + 1]
  /\ UNCHANGED <<signals, handles>>

\* MmFreePayload ends; the caller of PmAllocatePage goes on with the index
Leave(c) ==
  /\ \/ At(c, "free") /\ frame[c].z = frame[c].count
     \/ At(c, "done")
  /\ frame' = [frame EXCEPT ![c] = IdleFrame]
  /\ UNCHANGED <<occipued, monitor, signals, handles>>

Begin(c) ==
  \/ \E n \in Requests : AllocateCall(c, n)
  \/ \E h \in handles : FreeCall(c, h)

Continue(c) ==
  \/ ScanFree(c) \/ ScanOccipued(c) \/ AllocateFail(c)
  \/ Mark(c) \/ AllocateReturn(c)
  \/ FreePage(c) \/ Leave(c)

EnableSignals ==                       \* KeInitialize, line 28
  /\ ~signals
  /\ At("main", "idle")
  /\ signals' = TRUE
  /\ UNCHANGED <<occipued, monitor, frame, handles>>

\* All there is while KeInitialize is at lines 15-27: signals are off and main
\* is alone.
BootNext == Begin("main") \/ Continue("main")

Next ==
  \/ BootNext
  \/ EnableSignals
  \/ signals /\ Begin("handler")
  \/ Continue("handler")

\* A processor that nobody interrupts goes on with the call it is in.
Spec == Init /\ [][Next]_vars /\ WF_vars(Continue("main"))
-------------------------------------------------------------------------------
(* Properties.                                                             *)

\* Every variable keeps its type (the attribute table, the locals of
\* PmAllocatePage and PmFreePage, the payloads that callers remember).
TypeOK ==
  /\ occipued \subseteq Page
  /\ monitor \in BOOLEAN
  /\ signals \in BOOLEAN
  /\ frame \in [Context -> Frame]
  /\ handles \subseteq Handle

\* successful allocations still held
Granted == {h \in handles : h.entry # BadPage}

Pages(h) == Run(h.entry, h.count)

\* PmAllocatePage never gives a page to two payloads: the promise of the
\* INUMONITOR annotation on it (pm/api.h:12).
Exclusive ==
  \A g, h \in Granted : g # h => Pages(g) \cap Pages(h) = {}

\* While signals are off the promise is kept.
ExclusiveAtBoot == ~signals => Exclusive

\* Without help from the monitor, PmAllocatePage still never gives one
\* context a page that the same context holds, however it is interrupted:
\* occupied pages stay occupied, and a context scans after it has marked.
ExclusivePerContext ==
  \A g, h \in Granted :
    g # h /\ g.owner = h.owner => Pages(g) \cap Pages(h) = {}

FreeRuns(n) == {e \in Page : Run(e, n) \subseteq Page \ occipued}

\* PmAllocatePage returns PM_BAD_PAGE only if the table holds no free run of
\* the requested length, even if a handler allocated during the scan.
FailsOnlyWhenFull ==
  \A c \in Context :
    frame[c].pc = "done" /\ frame[c].entry = BadPage
      => FreeRuns(frame[c].count) = {}

\* The run PmAllocatePage picks is the lowest: once it has been picked no
\* free run of that length starts below it, whatever a handler does since.
LowestFirst ==
  \A c \in Context :
    frame[c].pc \in {"mark", "done"} /\ frame[c].count > 0
      => \A e \in FreeRuns(frame[c].count) : e >= frame[c].entry

\* PM_BAD_PAGE is no page: a run that was found never begins at, or holds,
\* the reserved page 0, so callers could tell failure from success.
BadPageIsNoPage ==
  \A c \in Context :
    frame[c].pc = "mark" => frame[c].entry > BadPage

\* The monitor is left free by whoever was last in it: when no call is in
\* progress PmGlobalSynchronizationMonitor is false on every path out.
MonitorReleased ==
  (\A c \in Context : frame[c].pc \in {"idle", "done"}) => ~monitor

\* No step of PmAllocatePage, PmFreePage or MmFreePayload makes an occupied
\* page free (PmFreePage stores .occipued = true): a page is lent once.
NeverReused == [][occipued \subseteq occipued']_vars

\* A call of the page manager comes back, unless signals are enabled: from
\* then on handlers may keep main from running.
CallsReturn ==
  frame["main"].pc # "idle" ~> frame["main"].pc = "idle" \/ signals

\* pages that main has marked for a run it has not yet returned
InFlight ==
  LET f == frame["main"] IN
  IF f.pc = "mark" THEN Run(f.entry, f.z) ELSE {}

Abstract == INSTANCE PageRuns
              WITH taken <- occipued \ InFlight, claims <- handles, owner <- "main"

\* While signals are off, the steps of main implement the one-step promise
\* of PageRuns.
AtomicWhenAlone ==
  /\ Abstract!Start
  /\ [][~signals' => [Abstract!Step]_<<occipued \ InFlight, handles>>]_vars
===============================================================================
