--------------------------------- MODULE Boot ---------------------------------
(***************************************************************************)
(* The address spaces between the loader and the running kernel:           *)
(* BtldrInitialize (inuldr/arch/IA32/entry.c), KeBootstrap (ke/base.c),    *)
(* HalRemapBootloader and HalSetDescription (inuhal/arch/IA32/hal.c), and  *)
(* VmInitialize (pvm/base.c), which fills the tables of module Pvm.        *)
(*                                                                         *)
(* Addresses are page numbers; Half is 0x80000000.  cr3 is the map the     *)
(* processor translates with, whole, as each NtLoadVm leaves it; signals   *)
(* are off throughout (module Signals).                                    *)
(***************************************************************************)
EXTENDS Pvm

CONSTANTS
  LoaderPages,    \* where the loader's code, stack and catalogue may lie
  KernelPages,    \* virtual pages the kernel image and its stack may have
  Framebuffers    \* physical pages the framebuffer may have

Half == Cardinality(Virtual) \div 2

\* VmInitialize maps every page, to every page, as present; the loader lies
\* in the low half and the kernel, its stack and its heap in the high one.
ASSUME BootAssumption ==
  /\ Asked = Virtual /\ Observed = Virtual /\ Virtual \subseteq Physical
  /\ Absent \notin Attributes
  /\ LoaderPages \subseteq 0 .. Half - 1
  /\ KernelPages \subseteq Half .. 2 * Half - 1
  /\ Framebuffers \subseteq Virtual

VARIABLES
  pc,            \* the next call of the boot sequence
  cr3,           \* virtual page -> physical page, or NoPage
  loadOffset,    \* HalInformation.loadOffset
  framebuffer,   \* the physical page of the screen
  screen,        \* framebufferAddress of de.c
  image,         \* virtual page of the kernel's code and HalPageTable
  stackLocation, \* Catalogue.stackLocation
  used,          \* virtual pages of the code, stack and frame that are in use
  progress       \* VmInitialize: pages mapped so far, over both loops

bootVars == <<pc, cr3, loadOffset, framebuffer, screen, image, stackLocation, used, progress>>

(* Definitions named Fault... are slips the code could contain at that      *)
(* place; each shows that a property below would notice (see the README).   *)

HalPhysicalToVirtual(p) == (p + loadOffset) % (2 * Half)
HalVirtualToPhysical(v) == (v - loadOffset) % (2 * Half)

\* The loader runs with paging off; HalInitialize(Null) made its offset 0.
BootInit ==
  /\ Init
  /\ pc = "BtldrMapMmu"
  /\ cr3 = [v \in Virtual |-> v]
  /\ loadOffset = 0
  /\ framebuffer \in Framebuffers
  /\ screen = framebuffer
  /\ image \in KernelPages /\ stackLocation \in KernelPages
  /\ \E code, stack \in LoaderPages : used = [eip |-> code, esp |-> stack, ebp |-> stack]
  /\ progress = 0

\* FwCheckFile fails: FwEmergency halts before the maps are touched.
DamagedFile ==
  /\ pc = "BtldrMapMmu"
  /\ pc' = "halted"
  /\ UNCHANGED <<vars, cr3, loadOffset, framebuffer, screen, image, stackLocation, used, progress>>

BtldrMapMmu ==
  /\ pc = "BtldrMapMmu"
  /\ cr3' = [v \in Virtual |-> v % Half]
  /\ pc' = "FwJumpFileEntry"
  /\ UNCHANGED <<vars, loadOffset, framebuffer, screen, image, stackLocation, used, progress>>

\* FwLoadFile copied the image to its own virtual addresses.
FwJumpFileEntry ==
  /\ pc = "FwJumpFileEntry"
  /\ used' = [used EXCEPT !.eip = image]
  /\ pc' = "HalInitialize"
  /\ UNCHANGED <<vars, cr3, loadOffset, framebuffer, screen, image, stackLocation, progress>>

FaultHalInitialize ==              \* the catalogue is not taken over
  /\ pc = "HalInitialize"
  /\ pc' = "HalSwitchStack"
  /\ UNCHANGED <<vars, cr3, loadOffset, framebuffer, screen, image, stackLocation, used, progress>>

HalInitialize ==
  /\ pc = "HalInitialize"
  /\ loadOffset' = Half
  /\ pc' = "HalSwitchStack"
  /\ UNCHANGED <<vars, cr3, framebuffer, screen, image, stackLocation, used, progress>>

FaultHalSwitchStack ==             \* without line 110
  /\ pc = "HalSwitchStack"
  /\ used' = [used EXCEPT !.esp = stackLocation]
  /\ pc' = "HalRemapBootloader"
  /\ UNCHANGED <<vars, cr3, loadOffset, framebuffer, screen, image, stackLocation, progress>>

HalSwitchStack ==
  /\ pc = "HalSwitchStack"
  /\ used' = [used EXCEPT !.esp = stackLocation, !.ebp = @ + Half]
  /\ pc' = "HalRemapBootloader"
  /\ UNCHANGED <<vars, cr3, loadOffset, framebuffer, screen, image, stackLocation, progress>>

\* CR3 takes a physical address: tables that lie elsewhere are not found.
NtLoadVm(tableData, map) ==
  cr3' = IF cr3[tableData] = HalVirtualToPhysical(tableData)
           THEN map ELSE [v \in Virtual |-> NoPage]

HalRemapBootloader ==
  /\ pc = "HalRemapBootloader"
  /\ NtLoadVm(image, [v \in Virtual |-> (v + Half) % (2 * Half)])
  /\ pc' = "FwInitialize"
  /\ UNCHANGED <<vars, loadOffset, framebuffer, screen, image, stackLocation, used, progress>>

FaultFwInitialize ==               \* FbAddress answers the physical address
  /\ pc = "FwInitialize"
  /\ screen' = framebuffer
  /\ pc' = "VmInitialize"
  /\ UNCHANGED <<vars, cr3, loadOffset, framebuffer, image, stackLocation, used, progress>>

\* DeInitialize keeps the address of the framebuffer.
FwInitialize ==
  /\ pc = "FwInitialize"
  /\ screen' = HalPhysicalToVirtual(framebuffer)
  /\ pc' = "VmInitialize"
  /\ UNCHANGED <<vars, cr3, loadOffset, framebuffer, image, stackLocation, used, progress>>

VmCreate ==
  /\ pc = "VmInitialize"
  /\ HalInitializeDescription
  /\ pc' = "VmMapDescription"
  /\ UNCHANGED <<cr3, loadOffset, framebuffer, screen, image, stackLocation, used, progress>>

FaultVmNextPage ==                 \* the second loop does not reset loadTarget
  /\ pc = "VmMapDescription" /\ progress < 2 * Half
  /\ \E a \in Attributes :
       VmMapDescription((progress + Half) % (2 * Half), progress % Half, a)
  /\ progress' = progress + 1
  /\ UNCHANGED <<pc, cr3, loadOffset, framebuffer, screen, image, stackLocation, used>>

\* First the low physical pages at high addresses, then the high ones at low.
VmNextPage ==
  /\ pc = "VmMapDescription" /\ progress < 2 * Half
  /\ \E a \in Attributes :
       VmMapDescription((progress + Half) % (2 * Half), progress, a)
  /\ progress' = progress + 1
  /\ UNCHANGED <<pc, cr3, loadOffset, framebuffer, screen, image, stackLocation, used>>

VmWalk ==
  /\ Walk
  /\ UNCHANGED bootVars

\* The directory's payload lies at a high address, as all of the heap.
VmLoad ==
  /\ pc = "VmMapDescription" /\ progress = 2 * Half
  /\ HalSetDescription
  /\ \E heap \in KernelPages : NtLoadVm(heap, [v \in Virtual |-> Translate(v)'])
  /\ pc' = "running"
  /\ UNCHANGED <<loadOffset, framebuffer, screen, image, stackLocation, used, progress>>

\* A processor whose next instruction has no page faults without end.
BootNext ==
  /\ cr3[used.eip] # NoPage
  /\ \/ DamagedFile \/ BtldrMapMmu \/ FwJumpFileEntry \/ HalInitialize
     \/ HalSwitchStack \/ HalRemapBootloader \/ FwInitialize
     \/ VmCreate \/ VmNextPage \/ VmWalk \/ VmLoad

\* One processor runs the sequence and nothing interrupts it.
BootSpec ==
  BootInit /\ [][BootNext]_<<vars, bootVars>> /\ WF_<<vars, bootVars>>(BootNext)

-------------------------------------------------------------------------------
\* No switch of the map moves what the processor is using: the code it runs,
\* the stack and the frame of KeBootstrap stay on the same physical pages.
SwitchKeepsPages ==
  [][\A r \in DOMAIN used : cr3'[used[r]] = cr3[used[r]]]_cr3

\* From the kernel's first map on, and through the switch to the tables that
\* VmInitialize builds page by page, HalPhysicalToVirtual gives an address
\* behind which every physical page is found.
WindowOpen ==
  pc \in {"FwInitialize", "VmInitialize", "VmMapDescription", "running"}
    => \A p \in Virtual : cr3[HalPhysicalToVirtual(p)] = p

\* Whoever prints (the loader before it turns paging on, the kernel after
\* FwInitialize) reaches the framebuffer through the address kept in de.c.
PrintsReachScreen ==
  pc \in {"BtldrMapMmu", "halted", "VmInitialize", "VmMapDescription", "running"}
    => cr3[screen] = framebuffer

\* The kernel is reached, or the loader found its file damaged.
Boots == <>(pc \in {"running", "halted"})
===============================================================================
