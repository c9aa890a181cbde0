# INTERNATIONALE: models, checks and proofs

This directory holds TLA+ models of the INTERNATIONALE kernel (loader,
firmware layer, HAL and executive), the TLC configurations that check them, and
theorems with proofs for TLAPS. `PROJECT.json` lists components, runs, mutants,
theorems, findings and hazards, and maps each definition to the lines it models.

    tlc -config Pm.cfg MCPm              # a run: its cfg, its module
    tlapm PmProofs.tla                   # the proofs of a module

## 1. The system

The program is a single-processor IA-32 kernel of some 4600 lines of C. A loader
(`inuldr`) reads the kernel from an archive on an ATA disk, turns paging on and
jumps into it. `KeBootstrap` takes over the address space, `KeInitialize` brings
up the parts one after the other, enables signals (interrupts) and ends in the
idle loop `BmEntry`. What runs afterwards are handlers. There are no threads yet:
concurrency is a handler that interrupts the one thread of control.

| Component | State | Operations | Interacts with | Hard |
|---|---|---|---|---|
| **Pm** pages, `pm/base.c` | `PmGlobalAttributeTable` (a byte per page), one monitor | `PmInitialize`, `PmAllocatePage`, `PmFreePage` | called by Ga, and by Ob payloads | scan and marking are separate steps; the monitor keeps nobody out |
| **Ga** heap, `ga/base.c` | list of pools, each with bitmap and `freeBlocksLeft` | `GaInitialize`, `GaAllocateMemory`, growth by a pool, an empty free | pages from Pm; every `ObCreate...` | hint against bitmap, geometry, refusal of pages |
| **Ob** objects, `ob/base.c` | vectors (count, allocated, array), queues, payloads | add, remove, reallocate, push, pop | heap; KiDPC; Pvm's lists of tables | handlers in the middle of `count++`; sizes |
| **Ki** signals of the kernel, `ki/base.c` | registered signals, KiDPC, KiSystemTime | `KiInitialize`, `KiSignalInvoke`, shedule and resolve | Fw calls handlers, Ob queues | loop until the queue is empty |
| **Fw** control levels, `inufw/platform/pc/base.c` | level, `prev`, masks and `executing` of signals | raise, lower, begin, end, register | IDT before, PIC behind | nested handlers share one `prev`; acknowledgement |
| **Int**, **Pic**, **Pit**, **Gdt** | gates, masks and in-service bits of two controllers | remap, mask, end of interrupt | processor, devices | cascade, priorities, vector against line |
| **Hal**, `inuhal/arch/IA32` | monitors, interrupt flag, CR3, `HalInformation` | monitors, boot address spaces, `HalSetDescription` | Pvm's tables to the processor's | code, stack and window move under the processor |
| **Pvm** address spaces, `pvm/base.c` | five levels of tables, three vectors | `VmCreateDescription`, `VmMapDescription`, `VmInitialize` | payloads for tables; Hal loads them | one virtual page must not disturb another |
| **De** console, `inufw/module/de` | cursor, lengths, framebuffer | letter, line feed, return, fill | every printing function of Fw | the edge of the screen; printing before it is there |
| **Fw printing**, `inufw/platform/pc/base.c` | the place in the format, the count | `FwDebugPrint`, `FwIoPrint`, `FwIOPrint...` | numerals from Rt, letters to De | two loops over one format; lengths against INT_MAX |
| **Ata, Tar, Elf, Inuldr** | the drive's registers, the place in the archive | read sectors, find and read a file, load, map | the loader's buffer | address registers written in halves, errors, three walks that must agree |
| **Cm** registry, **Ps** threads, **Ki** listeners | namespaces, `ThreadCarousel`, a vector of listeners per signal | register, find, unregister; add a process; invoke a signal and its listeners | created in order by `KeInitialize`; vectors and strings of Ob | names that `ObCreateString` erases; recursion while listeners change |
| **Rt** memory, strings, numerals, `rt/base.c`, `rt/math.c` | none | copies, comparisons, conversions, 64-bit arithmetic | everything | word tails, buffers, wrapping words |
| **Jsn, Mm, Vm, stubs** | | see section 7 | | |

What makes each part correct: pages and chunks are owned once (Pm, Ga); a call
comes back and answers as if it had been alone (Pm, Ob); a refusal means there
was nothing to give (Pm, Ga); levels and masks come back to passive, and lines
are acknowledged by their own handler (Fw, Pic); virtual memory is a map (Pvm)
that never moves under the processor (Boot); the loader gets its file whole
(Disk); nothing is painted beside the screen (De); a message arrives as it was
meant (Output); globals exist before they are followed, what is registered is
found, and listeners are all invoked (Executive).

## 2. The modules

| Module | Models | Abstract | Runs | Theorems |
|---|---|---|---|---|
| `Pm` | page manager, payload calls, one handler | `PageRuns` | `pm`, `pm_monitor` | `PmProofs` |
| `Ga` | heap over a page manager that is alone | | `ga`, `ga_out_of_memory` | `GaProofs` |
| `Ob` | KiDPC: queue, vector, arrays, one handler | | `ob`, `ob_array` | `ObProofs` |
| `Executive` | order of `KeInitialize`, registry, threads, listeners of signals | | `executive` | `ExecutiveProofs` |
| `Signals` | IDT, both 8259A, control levels, boot of the signals | | `signals` | `SignalsProofs` |
| `Pvm` | tables, the walk, the processor's directory | `AddressSpace` | `pvm` | `PvmProofs` |
| `Boot` | loader to running kernel; EXTENDS `Pvm` | | `boot` | `PvmProofs` |
| `Disk` | drive, ATA driver, TAR walks, loader | | `disk` | `DiskProofs` |
| `Console` | cursor and painted pixels | | `output` | `OutputProofs` |
| `Arith64` | `rt/math.c` on words of two halves | its `Exact` | `output` | `OutputProofs` |
| `Rt` | memory, strings and numerals of `rt/base.c`; EXTENDS `Arith64` | | `output` | `OutputProofs` |
| `Output` | the printing functions; EXTENDS `Console` and `Rt` | `Console` | `output` | `OutputProofs` |

Modules `MC...` hold the sets that a configuration file cannot write. Names of
variables and actions are those of the source wherever it has one.

Definitions named `Fault...` (not the exception `Fault` of `Signals`) are no behaviour
of the code. Each is one action or
operator of the code with a plausible slip (a missing line, `>` for `>=`, a
reset forgotten); `PROJECT.json` names the definition it can replace and the
property that then fails, which is how each property shows it can fail.

### Pm
`frame[c]` holds the locals of the call in progress of context `c`, with a
program counter: `scan` (one page per step, 58-76), `mark` (`PmChangePageAttributes`
per page, 66-72), `free` (`MmFreePayload`'s loop over `PmFreePage`). `main` steps
only while no handler is in a call; after `EnableSignals` a handler may begin
between any two of its steps. `monitor` is set and cleared where the source does,
but holds nobody: `HalEnterMonitor` ignores the result of its compare and
exchange. `PmFreePage` stores `.occipued = true`, so a page is lent once.
`Init` lets the last `PageCount % WordSize` pages keep any attribute, as `memset`
does. `PageRuns` is the same manager as one-step answers; the mapping hides the
pages a request has marked but not yet returned.

### Ga
A pool is named by its first page. Each call is `GaAllocateMemory`, `Walk` over
pools whose hint is too low, `Grow`, `Allocate` or `AllocateNull`, `Return`. The
page manager is used as `Pm` promises it to a caller that is alone (lowest free
run, or page 0): the sources call the heap only before signals are enabled. A
new pool's bitmap is not cleared: it starts with a member of `Garbage`. The answer
`PM_BAD_PAGE` makes a pool on page 0, over the header and the bitmap of the first
one; what those say then is not followed, and the model ends there (`refused`).

### Ob
One action per step of `ObVectorAdd` and `ObpVectorReallocate`; the `count++` of
line 79 is three of them, since nothing makes it atomic. `elements` is what the
slots hold; an element that goes outside its array, or a `memcpy` over the object,
ends the model (`memory = "spoilt"`): what the neighbour then holds is not
followed. `KiSignalResolve` runs with interrupts off, as ki/api.h:22 says.
Nothing in the sources calls `KiSignalShedule` yet; the model takes its two
annotations (`INUSAFE`, `INUMONITOR`) as the contract: main and handlers may.

### Executive
`pc` counts the calls of `KeInitialize` that create objects; `created` are the
globals they have stored, and `missing` those that some call followed while they
were Null (page 0 is mapped, so the program would not notice). `Registry` holds
what each name literal contains now, the namespaces of the root, and two
histories for the property. Literals are told apart even when their text is
equal: `ObCreateString` copies the empty array over the literal, so what a
literal says depends on who was given it before. It has no `return` either; as
the project is built (without optimisation) the register still holds the string,
and the model takes that. Each call of the registry or of `Ps` is one step,
because nothing that interrupts touches what it uses. `KiSignalInvoke` is not:
`stack` holds a frame per call with its loop variable, and between any two steps
an interrupt may invoke a signal on the same stack or change listeners.
`ObVectorRemove` copies over the object it found; `RemoveSpoils` tells when that
writes anything, and the model ends there. `PsThreadExecute` ends in `HalSetState`,
a stub that stops the machine; the fields of a thread and the carousel, which
nothing here reads, are left out.

### Signals
`pic` is both controllers (request, service and mask bits of 16 lines), an
external part modelled with fixed priority, cascade and non-specific end of
interrupt. `frames` is the stack of handlers. A vector stands for its signal.
`boot` follows `KeBootstrap` and `KeInitialize`. `FwMaskSignal` passes a vector to
`PicMaskIrq`; `PicLines` is what the shifts in the code then do; a shift by 32
is undefined in C, and `shift32` is which of its outcomes this build has. An exception
(`Fault`) may come at any moment after the gates are there, with a signal for it
or without, and so may a spurious interrupt on the last line of a controller.
What finds a Null signal or context (`Lost`) ends the model (`cpu = "lost"`): page 0
is mapped, so the program would go on with what it finds there.

### Pvm and Boot
A table is a sequence entry, named by its position. `VmMapDescription` begins a
walk, and `VmiMapGpde`, `VmiMapMpde`, `VmiMapLpde`, `VmiMapLpte`, `VmiMapPf` are
its steps, each with the table it may create; `call` holds their arguments, with
`vaddr`, which the code hands down and never reads, as what `AddressSpace` calls the
request. The three vectors that a description keeps its payloads in are left out:
nothing reads them, and they cannot hold what is put into them (section 5).
`Counter` is the `counter` of the packing loop. `HalSetDescription` copies the tables
to what CR3 leads to, two of ours to one of the processor's. `Boot` follows the
machine: `cr3` is the whole map in force, `used` the virtual pages of code, stack
and frame. Its `VmInitialize` maps page by page through the steps of `Pvm`, and
`VmLoad` loads what those tables say. Each action needs its code mapped: a
wrong switch stops the model, and `Boots` fails. `BootAssumption` says where things
lie: the loader low, the kernel, its stack (`0x80300000`, entry.c) and heap high, and that
`VmInitialize` asks for every page of the machine.

### Disk
`drive` is the task file of an ATA drive with its two-deep registers (external);
the driver's functions are its callers, in program order. A drive that is busy takes
nothing that is written to its registers; it stays busy after a reset, which
the driver does not wait for. It shows an error with BSY clear, as drives do, or
still set (`Failures`), and offers junk then. A walk that takes junk for a header
goes wherever its size says: `task = "lost"` ends the model. `task` is the loader's:
length of the file, layout of the buffer, location, size again, reading. The
content of a sector is the name of its member and part. An archive is a sequence of
members with the sectors of their headers; `DiskAssumption` says how TAR lays them
out, independently of the formulas of the walks (`Sectors`, `NextSector`), and that
sectors and sizes fit the 32-bit words (`Word`) that the loader counts them in.

### Console and Output
`painted` is the first and the last pixel that the last call wrote. Letters are
8 wide and `YFont` high; shapes are left out. In `Output` a message is what its
caller means (pieces of text and conversions with their arguments); `call` holds
what the function sees: the rest of the format as one string, the arguments left,
the letters on their way to the screen and the count. `Text`, `Conversion` and
`Unknown` are the three branches of the loop. Each letter goes through
`FwIOPrintLetter` to an action of `Console`. `FwDebugPrint` and the four branches
of `FwIoPrint` are the same text in the source and one action here.
`FwIOPrintNumerical` hands its unsigned argument to `itoa` as an int. `Meaning`
is what the caller of a conversion means by its argument: for `%x` the digits of the
int's own bits. `Widened` messages are those in which the code prints others.

### Rt and Arith64
Operators on sequences of letters, on memory as a function of addresses and on
numbers modulo `2^Bits`. `memcpy` goes word by word and then byte by byte;
so does `memset`, whose bytes go to the wrong addresses;
`ultoa` cuts what does not fit its buffer; the divisions and shifts of `math.c` are
done on halves, with the wrap of every intermediate word. What recursion needs is
a recursive function: over the numbers, or over no more steps than the loop takes.
`Pow` is 2 ^ k; the shifts by half of the width, a quarter, ... of `__clzdi2` and its
kin are by `width \div Pow[k]`, as many as the width has `Halvings`; `Fields` is
the masks 0x55..., 0x33... and 0x0F....

## 3. Runs, bounds, and why they are enough

* `pm`: while signals are off, no page is lent twice, the manager acts as
  `PageRuns` (`AtomicWhenAlone`); calls return. After `EnableSignals` a handler
  comes in at every step. What survives without a monitor: no context is
  given a page it already holds, refusals are true, the run is the lowest.
  Six pages, word of four: two pages that `memset` misses, requests for 0, 1 and
  3 pages, three payloads: runs fill, fragment and are refused.
* `pm_monitor` (violation): `Exclusive` with signals on.
* `ga`: memory that is cleared and memory that is not (`Garbage`), up to the first request
  for pages that is refused, where the model ends: chunks, headers and payloads stay apart
  and the pools form one list, all of it within reach of the first pool, hints are never
  too low, `Null` is answered only to what no pool could hold or on uncleared memory,
  every call returns. Twelve pages of four blocks: an initial pool of 14 blocks and room
  for two of ten, so that pools are walked, added and refused.
* `ga_out_of_memory` (violation): the promised stop never happens.
* `ob`: two contexts, seven pushes, and `KiSignalResolve`. `InitialSize` 5 and
  `Header` 39 give arrays that hold what the real 10 and 19 give relative to
  `allocated` (one block: one more than the initial array), with two reallocations
  within seven pushes. Order is kept while nobody interrupts, no slot beyond
  `allocated` is used, every push returns.
* `ob_array` (violation): at the sizes of the sources the tenth push reallocates; the
  array has room for eleven references, `allocated` says twenty.
* `signals`: what `KiInitialize` registers, with two drivers more (keyboard, and line 8 of
  the second controller) and a line that the firmware masked; five interrupts, breakpoint
  and shedule trap; an exception that has a signal and one that has none (14 and 0), and
  spurious interrupts, at any moment: levels come back to passive, no line that is raised
  and no trap runs through Null, masked lines are not delivered, service bits match
  handlers, every tick is counted, every open line is served. Handlers nest at most by a
  fault or trap, and five raises let every handler be interrupted and leave a request
  pending behind it.
* `pvm`: four entries per table, two directories, maps of five pages that share a
  table, a region, a directory or nothing, four calls: each level is created,
  found and shared. Eight pages are observed, three of them never asked for.
* `boot`: 32 pages, half of them high; several places for loader, kernel, stack and
  screen. The loops of `VmInitialize` run in full.
* `disk`: registers of one binary digit put the limit of 24-bit addresses at sector 8,
  archives of three and five members end on either side of it, sizes include 0, a part of
  a sector, and whole sectors; the drive answers late, or fails with BSY clear or set.
  What `AtaWait` notices halts the loader; what it misses is junk in the place of a
  sector, or a walk by a junk header, and the properties say that nothing else goes wrong.
* `executive`: three signals of which two have a lock and one no function, up to
  three listeners, five calls by drivers and interrupts. That is enough to make
  a signal listen to two others, one of them through the third, to change
  that while it is invoked, and to invoke it again from an interrupt. The names
  are two of the kernel, one of a driver, and a driver's own literal with the
  text "Ps". The stack holds six calls: without a cycle of listeners main and
  one interrupt need no more. `Pointer` is 2 so that `ObVectorRemove` meets both
  of its cases, the copy and none, with vectors this short.
* `output`: a screen of five letters by three lines, so that lines wrap and the
  screen winds; messages with every shape the kernel prints and those that it
  does not (`%%` in a row, an unknown conversion, a percent sign at the end, an
  empty message, a message longer than INT_MAX, which is 15 here); every `int` of
  five bits through `%i` and `%x`. `PrintedAsAsked` leaves the negative ones of `%x` out
  (`Widened`). The operators of `Rt` are compared with what
  they are for on all parts of these formats, and those of `Arith64` for all pairs
  of words of eight bits (halves of four), where every shift, both borders of the
  halves and every sign occur. Whole words of `memcpy` are four bytes.

`CHECK_DEADLOCK FALSE` stands only where the system really stops: a halted
processor, a finished boot or load, pushes used up.

Liveness assumes what one processor gives: in `Pm`, `Ga` and `Boot` the
sequence that is alone goes on (weak fairness of its next step); in `Signals` the
processor goes on, devices owe nothing; in `Ob` a handler and main go on, and the
number of interrupts is bounded by `MaxPushes`; in `Disk` the loader goes on and
the drive ends each command, with data or an error, since `AtaWait` has no limit
of its own; in `Executive` a `KiSignalInvoke` that is in progress goes on, with
`MaxCalls` bounding the interrupts; in `Output` the printing goes on. New requests,
interrupts, calls and traps are never forced.

## 4. What is proved

TLAPS proves these for every value of the constants that the modules' assumptions allow.
The assumptions are on constants only (`PmAssumption`, `GaAssumption`,
`SignalsAssumption`, `ObAssumption`, `ConsoleAssumption`, `ExecutiveAssumption`,
`PvmAssumption`, `BootAssumption`, `DiskAssumption`, `Arith64Assumption`, `RtAssumption`,
`OutputAssumption`), and the hypotheses of some theorems besides: `Sizeof`,
`FirmwareMasks`, `Acknowledged` and `Cleared`. The runs meet all of them; those of a
theorem whose hypothesis a run could also break say in section 5 or 6 what then happens.

* `PmProofs`. `IInv` is: types; per context, a hypothesis on its frame
  (everything below `i` that a scan passed does not begin a free run; pages it
  marked are occupied; runs it holds are occupied and apart from the one being
  marked); the monitor is entered only while a call is in progress. The safety
  properties are not inductive without the hypothesis on frames. A step of one
  context keeps its own hypothesis (a lemma per action) and that of the other
  because free runs only shrink (`FreeRunsShrink`, `Undisturbed`). From it follow
  the type invariant, the invariants of run `pm` that hold with signals on,
  `MonitorLeftFree` and, as an action property, `OccupancyGrows`. With signals off,
  `BootInv` adds that what main has seen free stays free until it marks it;
  `BootExclusive` follows, and `Refinement`: scans and marks are stutters of
  `PageRuns`, the return is `Grant` or `Refuse`, and giving back is `GiveBack` and
  `Lose`.
* `GaProofs`, for the sizes of the sources (`Sizeof`: pages of 4096, blocks of 64, headers
  of 8 and 20 bytes) and any memory. `PoolGeometry`: every pool's header, bitmap and
  blocks fit its pages, although the bitmap's size is rounded down twice.
  `NothingOverlaps` needs `Types /\ Safe`: until pages are refused, pools and payloads lie
  in disjoint runs of taken pages, every chunk is a run of marked blocks of one pool, and
  chunks of one pool have no block in common. The new chunk is apart because `Allocate`
  picks blocks that are not marked; a new pool is apart because the page manager grants
  free pages. After a refusal this is false (run `ga_out_of_memory`), hence the condition,
  which all these theorems have. `NoPoolPassed`: the hint counts at least every run that
  is left, since it is recomputed from the bitmap. `PoolsAreOneList`: the counts of
  `OneList` are not inductive, as nothing in them says that appending at the end of a walk
  reaches what is there already. `Linked` adds that a set which contains the first pool
  and is closed under `next` has all pools, that links are not shared, and that a walk
  stands on a pool; a new pool is none of the old ones because its header lies in pages
  that were free (`NewPool`), and `Null` is the number of no page (`GaAssumption`).
  `NullExplained` is about a step: `PoolChosen` keeps why the walk stopped at its pool,
  and a pool without a run of the length asked for has no longer one (`NoLongerRun`).
* `SignalsProofs`, for any drivers, lines and firmware masks. `OneHandler` says
  what the stack of frames looks like: while the machine runs there is at most one
  frame, taken with the flag on and at `CL_PASSIVE`; a second only as an exception
  that stops the machine. `PassiveOutsideHandlers` by itself is not inductive: the
  level to go back to is the one field `prev`, and only the depth of the stack
  keeps it. `MaskedKeptOut` follows at each delivery. `LinesFound` (`NoLineLost`) assumes
  `FirmwareMasks` (each line without a signal was masked by the firmware) and adds
  `Known`: lines that are open have signals. It covers lines and traps; an exception
  without a signal, and a spurious interrupt, do go through Null. `ServiceExact` assumes
  `Acknowledged` (no line behind line 8 is open, as in the sources; section 5 has the
  other case). `PicSendEoi` does not say which line it means, so the property holds
  only if the first line in service is the one whose handler runs. `InService`
  says so: handlers never nest over a line that is still in service, and what an
  end of interrupt retires is that one.
* `ObProofs`. `SlotsAllocated`: the slot that is stored to is below `allocated`,
  however handlers interrupt. `SlotBelowAllocated` alone is not inductive: `IInv`
  adds that a handler past its check keeps one slot more than it needs, which is
  what main, interrupted past its own check, lives on; `count` may then reach
  `allocated`, and the next check makes room. `QueueKeepsOrder`: while
  signals are off only main pushes, and `Ordered` follows it through the
  reallocation: up to `CopyFirst` the old array has the elements, from `Switch` on the
  new one, with `count` and the locals of the call saying how many of them. When
  signals come on the claim is given up, as it must be (section 5).
* `ExecutiveProofs`, for any literals, signals, objects and bounds. `Created`: each call
  of `KeInitialize` finds what it follows. `Sound` of the registry: every namespace is
  named "", a literal other than "ROOT" holds "" exactly if it has named one, and the
  first namespace has all that was filed. Without the first two clauses nothing says that
  a lookup ends at the namespace that was meant; with them one sees that all lookups end
  at the first. `InvocationsComplete` rests on `SInv`, which speaks of every frame on the
  stack and not only of the top: a settled call has invoked what the listeners it is
  through with invoke, and waits for the next one unless an interrupt is above it. A call
  that returns thus hands over exactly what its caller lacks (`HandsOver`). That nothing
  is cut off by the depth of the reference, the number of signals, is `DeepEnough`: a call
  can return only if its signal is `Grounded` (no endless path of listeners), and the
  grounded signals come in at most as many `Levels` as there are signals. The recursive
  functions are shown to exist and to obey their equations by `AllNumbers` and `Iterated`,
  induction over a set of numbers in place of an operator.
* `PvmProofs`, for tables of any even length and any set of pages asked for, when the
  pages of tables come zeroed (`Cleared`; the other case is in section 5). `Refinement`: a
  call is `Ask`, the four steps down are stutters of `AddressSpace`, the last is `Map`,
  and `HalSetDescription` is `Load`. The invariant names a place for every table (`Key`:
  its level and the slots that lead to it) and says that each entry leads to the table of
  the place below it; without it two entries could share a table, and a write for one page
  show through another. `Trail` says that a walk stands on the way of the page it is for.
  For `Load`, divisions show that the pair of halves and the offset in them are those of
  the page, and a cardinality that packing moves no pair of a directory without holes.
  `TablesFormTree` needs another reading of the same tables, `Hanging`: numbered as they
  were made, each but the first has one entry, `link`, that it was made for, one level
  above its own, and an entry above the last level names no table but that. So `link` is a
  bijection between tables and entries, which is the count in `Tree`, and `Below` leads
  from level to level. For `Boot`, a machine of any size, again under `Cleared` and with
  `BootAssumption`, the invariant knows the whole map at each step (`MapOf`: none, the
  loader's two copies of the low half, the exchange of the halves) and in which half code,
  stack and frame are: `WindowStaysOpen`, `ScreenReached`, `SwitchesSafe`. A switch is
  safe because both maps agree on that half, and takes effect because the map in force
  shows the table where `HalVirtualToPhysical` says. The last switch is the one that could
  go wrong page by page: `Filling` says that all pages up to `progress` are in the tables,
  except the one whose walk goes on; at the end no region is missing (`AllDense`), so
  `LoadSafe` gives what the processor then sees, the same map.
* `DiskProofs`, for registers of any range, any archive that `DiskAssumption` admits and a
  drive that is late or fails at any moment, whether it shows that with BSY clear or set.
  `SectorsExact`: after `AtaConfigureLoad` the registers say the address that was asked
  for (`Configured`), on both sides of 0x01000000, because three digits and the rest of a
  division by 0x01000000 are the same (`ThreeLow`); `DriveSound` says that a drive that
  failed offers junk and nothing else, and `Reading` that one that did not offers the
  sector asked for; `Astray` is what is left once a walk has read a junk header.
  `FileWhole` and `BufferFits` are not inductive without `Walking` (a walk stands at the
  header of a member not behind the wanted one) and `Known` (what the three walks found
  agrees). That no sector belongs to two members (`InOrder`) follows from the layout for
  archives of any length, by a least counterexample.
* `OutputProofs`, for every screen, font, set of messages, width of an int and
  words of 4 to 64 bits. The cursor stays within the ranges from which each paint
  is inside the framebuffer (`PaintsInside`), and every step of `Output` is one of
  `Console` or a stutter (`PrintsAsConsole`), so that no call of print leaves it
  either (`PrintsInside`).

  `PrintsAsAsked`: `PrintedAsAsked` speaks of the return alone, and not of messages with a
  negative argument of `%x`. `Shown` is what the code shows for a piece, those included,
  and agrees with what is asked for all others (`ShownAsExpected`). `CallInv` adds what
  holds at every letter: what is left of the format is that of some pieces, the arguments
  left are theirs, and what was printed, what is on its way and what those pieces mean are
  together the whole message; the count is what was handed to `print` so far. Each round
  of the loop has a lemma that says what it prints and which pieces remain (`Handles`,
  `TextRun`): a run of text ends where a piece does, though it may join several pieces,
  and a percent sign sent as text may be the first of two. An unknown conversion takes the
  whole rest, which is why `Expected` does. `Formats` says what a format is; the only
  thing it excludes is text behind a percent sign that has nothing behind it.

  `NumeralsReadBack`, for every base: the digits of `Numeral` are those of the reference
  (`Digits`), each is a letter that denotes it, and reading them multiplies back what the
  divisions took off. That none is lost in the buffer of `ultoa` for a radix of four
  or more is the length of a numeral below `Pow[Bits]` (`2 * BufferDigits = Bits`).

  `RoutinesAreExact`, for every text. `memset` is exact for whole words and for less than
  one (`ClearsAre`), which is all that is claimed of it. Of `memmove` the invariant says
  which bytes are moved already and that those still to be read are as they were, in
  either direction; of `memcpy` the same for whole words and for the bytes behind them,
  unless it copies a region upwards onto itself. `memcmp` compares words, and two words
  are equal exactly if their bytes are. `strstr` finds the first place because its inner
  counter starts again for each letter.

  `ArithmeticIsExact`. `RoundHolds` is the invariant of the long division: after each bit,
  quotient and remainder divide what was shifted in, and the word that was `a` still holds
  what was not. The sign of `b - rem - 1`, which decides `wrap`, is read off a word that
  has wrapped, and would be wrong for some pairs of words; never here (`Comparing`): the
  word compared is below `2 * b`, and a divisor above half the modulus has one round, in
  which it goes in. Shifts are shown on halves, for any two factors of the width; counts
  of zeros by an invariant of the halvings (what was shifted out was 0, what is counted is
  its length); counts of ones digit by digit: a mask takes every other field, so the sum
  of pairs, of fours and of bytes can be followed, and the bytes added onto the lowest do
  not overflow it.

  Recursive functions are shown to exist and to obey their equations by
  `Recursion` and `Rising`; inductions are over sets of numbers (`NextNumber`, and
  `AllNumbers` where a value depends on a quotient), since an operator cannot be the
  parameter of a theorem here.

The type invariants of `Pm`, `Ga`, `Signals`, `Ob` and `Console` are theorems and
no longer part of a run; those of `Pvm` and `Disk` are the first conjuncts of `Tree`
and `ReadsAskedSector`. Every safety property of a passing run is a theorem.

Only model-checked: liveness, which needs fairness and ENABLED, and what
concerns a fault that a theorem's hypothesis excludes (section 5).

## 5. Where the code disagrees with what it says

| Run | The code |
|---|---|
| `pm_monitor` | hal.c:95: a monitor never waits; two payloads get one page when a handler allocates during an allocation |
| `ga_out_of_memory` | ga/base.c:69: "Memory is out!" cannot be reached; the pool is laid over page 0 |
| `ob_array` | ob/base.c:151: arguments of `ObCreateArray` swapped; grown arrays hold eleven references |

Also met while modelling, without a run of their own. The models have this
behaviour; the properties above are stated for the cases it leaves sound, and
the constant or the operator in brackets shows the other case.

* ob/base.c:79: a push that interrupts another is lost (`KeptInOrder` of `Ob`
  without its condition on handlers).
* ki/base.c:59 with ob/base.c:139: nothing leaves the queue, and the first signal is
  invoked for ever.
* ob/base.c:436: `ObCreateString` copies its new array over the literal, instead of
  the other way round, and returns nothing. All namespaces get the same, empty name
  and lookups end at the first one (`FoundUnderItsName` says what is left: what was
  filed is found, though things of other namespaces with it).
* ki/base.c:84: a cycle of listeners overflows the stack (`InvokeReturns` without
  `Cyclic`); ki/base.c:33: `KiDI` is never created.
* ob/base.c:139: a listener or object that is removed stays, and some bytes over
  it are copied (`RemoveSpoils`).
* rt/base.c:10: `memcpy` onto an overlapping region above copies what it wrote;
  nothing in the program relies on it (`RoutinesExact` leaves that case out).
* inufw/platform/pc/base.c:184: numbers with the top bit set are printed negative.
* inufw/platform/pc/base.c:149: lines 9 to 15 are never acknowledged (`Signals` with
  a driver for 41 and line 9 open: `ServiceMatchesHandlers` fails).
* inufw/platform/pc/base.c:50: a vector is passed for a line, nothing is masked in the
  controller (`PicLines`).
* pvm/base.c:124: only the first entry of a new table is cleared (`Pvm` with
  `Cleared = FALSE`: `Tree` fails, and with it what the theorems of `PvmProofs` say).
* hal.c:184: pages that nobody mapped are present and writable (`HalSetDescription`
  of `Pvm`).
* ata/base.c:72: an error is looked for only while BSY is set, and drives report it
  when BSY is clear. The run `disk` has both: what `AtaWait` misses is taken for
  data. `ReadsAskedSector`, `FileDelivered` and `Answers` say what comes of it: junk in the
  place of a sector, or a walk by a junk header (`task = "lost"`).
* inufw/platform/pc/base.c:293 with rt/base.c:220: `%x` hands an int to `ultoa` as 64
  bits. entry.c:154 prints FFFFFFFF80000000 for 80000000, and so on for each address
  above (`PrintedAsAsked` of `Output` without `Widened` fails).
* rt/base.c:84: `memset` writes the bytes behind the last whole word at four times their
  distance: they keep what they had, and bytes elsewhere are cleared (`RoutinesExact`
  claims whole words, or less than one; `Unset` of `Pm` is what `PmInitialize` gets).
* pvm/base.c:14, 30, 46, 60: `VmInitialize` keeps some two thousand payloads in a vector
  whose grown array holds eleven references (`ob_array`): the rest is
  written over the chunks behind. `Pvm` leaves the vectors out.
* ga/base.c:26-35, 69: the first refused pool lies over the header and the bitmap of the
  first pool, so the heap's list and counts may then say anything (the model of
  `ga` ends there; `ga_out_of_memory` shows that nothing stops the program).
* inufw/platform/pc/base.c:127-141: each vector has a gate, and each goes through
  `FwSignals[index]`, which is Null for every exception before `KiInitialize`, for most of
  them afterwards, and for the spurious interrupts of lines 7 and 15 (`NoLineLost`
  without its exceptions fails).

## 6. Assumptions about what is outside

The firmware leaves every line without a signal masked (`Signals` with such a
line open: `NoLineLost` fails). Pages for tables are zeroed in `pvm` and `boot`, as
memory is that the firmware has just cleared; and what the vectors of a description write over
(section 5) is no table. The archive holds the wanted file, and its first
member is a directory, as `src/Makefile` packs it: the walk for the location
starts at sector 1. There is one processor, and all gates are interrupt
gates (`int/base.c`). Letters are eight pixels wide, as in `de.c`.

## 7. Not modelled

* `mm/base.c` is not linked, `vm/base.c` calls a stub; `bm`, `nt`, `sm`, `ldr`,
  `inuenv` are empty; `jsn` is not called and its loop has no exit.
* `Gdt` and `Pit` write constants. (The PIT's divisor does not fit 16 bits; the rate
  has no effect on any state here.)
* Of `rt/base.c` what has no caller: `swpbts`, `rvsmemcpy`, `strcat`, the random
  numbers, the helpers for single bits.
* `GaAllocatorFree`, `ObVectorSet`, `ObVectorClear`, `PicDisable` and
  other functions without a caller; behind `KiDI`, which is Null, the loops of
  `KiReshedule` and `KiSignalDefferExecute`.
* `HalSetState` and what threads would do: it is a stub, and nothing creates a
  thread or a process. The fields of a thread and the queue of them are left out.
* The three vectors of a description: they are written and never read.
* Constructors that only fill in fields, the accessors of ELF headers, wording of
  messages, shapes of letters, the glyph table and its index.

## 8. Order of work

Done, in this order: Pm with its proofs, Ga, Signals, Pvm, Boot, Disk, Console, Ob;
then Rt, Arith64, Output, Executive, the proofs of Ga, Signals, Executive and Pvm, and last
those of the lists, queues and trees (`OneList`, `KeptInOrder`, `ServiceMatchesHandlers`,
`Tree`), of Boot, of Disk and of the listeners (`InvokesListeners`), of `Output`,
`Rt` and `Arith64`.

What could follow, once the code goes further: the heap of `Ga` under the vectors of
`Pvm`, to follow what a grown vector writes over; KiDPC resolved at `CL_SIGNALS`, as
soon as something schedules into it.
