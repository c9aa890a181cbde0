-------------------------------- MODULE Signals --------------------------------
(***************************************************************************)
(* Interrupt dispatch on the one processor: the gates of the IDT (int), the *)
(* two interrupt controllers (pic), FwExecuteSignal and the control levels *)
(* (inufw/platform/pc/base.c), and what KiInitialize registers (ki).       *)
(*                                                                         *)
(* A vector names its signal: FwSignals[v] is set once and never changed.  *)
(* The listeners of a signal are left out (KiInitialize adds none) and so  *)
(* is its monitor, which no one waits for (module Pm).                     *)
(***************************************************************************)
EXTENDS Integers, Sequences, FiniteSets, FiniteSetsExt

CONSTANTS
  Drivers,       \* vectors that someone passed to FwRegisterSignal besides
  Traps,         \* software interrupts in the code that handlers interrupt
  Faults,        \* exceptions that the processor may report at any time
  Lines,         \* interrupt lines 0..15 whose device raises them
  Spurious,      \* lines on which a controller may deliver what no device raised
  FirmwareMask,  \* lines that the firmware had masked in the controllers
  MaxRaises      \* bound: how often devices raise a line

(* Definitions named Fault... are slips the code could contain at that      *)
(* place; each shows that a property below would notice (see the README).   *)

IRQ_START == 32
IrqVector(line) == IRQ_START + line
FaultPicVectors == 33 .. 40         \* index > 0x20
PicVectors == 32 .. 40              \* 0x20 <= index && index <= 0x28

CL_PASSIVE == 1
CL_SIGNALS == 2
CL_SHEDULE == 3
CL_CLOCK == 30
CL_EXCEPTION == 31
CL_INITIALIZATION == 32

Clock      == IRQ_START          \* KiClock, FwRegisterTimer
Breakpoint == 3                  \* KiBP
Shedule    == 227                \* KiShedule, 0xE3
SystemCall == 226                \* KiSC
Fatal      == {6, 13, 14, SystemCall}   \* KiILI, KiGPF, KiPF
Exceptions == (0 .. 31) \ {Breakpoint}
KiSignals == Fatal \cup {Breakpoint, Shedule, Clock}

controlLevel(v) == CASE v = Clock   -> CL_CLOCK
                     [] v = Shedule -> CL_SHEDULE
                     [] v \in Fatal \cup {Breakpoint} -> CL_EXCEPTION
                     [] OTHER       -> CL_SIGNALS

ASSUME SignalsAssumption ==
  /\ Drivers \subseteq {IrqVector(l) : l \in 1 .. 15}
  /\ Traps \subseteq {Breakpoint, Shedule, SystemCall} /\ Faults \subseteq Exceptions
  /\ Lines \subseteq 0 .. 15 /\ FirmwareMask \subseteq 0 .. 15
  /\ Spurious \subseteq {7, 15} \ Lines
  /\ \A l \in Spurious : IrqVector(l) \notin Drivers
  /\ MaxRaises \in Nat

VARIABLES
  boot,          \* where KeInitialize stands; "idle" once in BmEntry
  cpu,           \* "runs", "halted" by FwEmergency, or "lost" behind a Null
  enabled,       \* the interrupt flag
  registered,    \* vectors with FwSignals[v] # Null
  masked,        \* vectors with FwSignals[v]->masked
  executing,     \* vectors with FwSignals[v]->executing
  context,       \* the Representation: level and prev
  frames,        \* handlers entered and not left: vector, pc, saved flag
  pic,           \* both controllers: requested, in service, masked lines
  KiSystemTime,
  raised,        \* how often devices have raised a line
  shift32        \* what 1 << 32 is in this build: {8} (line 8, by shl) or {}

vars == <<boot, cpu, enabled, registered, masked, executing, context, frames,
          pic, KiSystemTime, raised, shift32>>

Top == frames[Len(frames)]
Running(pc) == cpu = "runs" /\ frames # <<>> /\ Top.pc = pc
Advance(pc) == frames' = [frames EXCEPT ![Len(frames)].pc = pc]

Init ==
  /\ boot = "firmware" /\ cpu = "runs" /\ enabled = FALSE
  /\ registered = {} /\ masked = {} /\ executing = {}
  /\ context = [level |-> 0, prev |-> 0, ready |-> FALSE]
  /\ frames = <<>>
  /\ pic = [irr |-> {}, isr |-> {}, imr |-> FirmwareMask]
  /\ KiSystemTime = 0 /\ raised = 0
  /\ shift32 \in {{}, {8}}

-------------------------------------------------------------------------------
(* The two 8259 controllers, the second on line 2 of the first *)

Master == 0 .. 7
Slave  == 8 .. 15
Cascade == 2

\* order of service, first line first
Rank(l) == IF l \in Slave THEN 8 * Cascade + l - 8 ELSE 8 * l

\* the lines that an interrupt brings into service, at both controllers; a
\* spurious one is not in service at its own
Served(l) == ({l} \ Spurious) \cup (IF l \in Slave THEN {Cascade} ELSE {})

\* lines that the controllers put to the processor now
Deliverable ==
  {l \in pic.irr \ pic.imr :
     /\ l \in Slave => Cascade \notin pic.imr
     /\ \A s \in pic.isr :
          Rank(l) < Rank(s) /\ ~(l \in Slave /\ s = Cascade)}

FirstDeliverable ==
  {l \in Deliverable : \A k \in Deliverable : Rank(l) <= Rank(k)}

\* ICW1 forgets every request; the masks of the firmware are put back
PicRemap(p) == [irr |-> {}, isr |-> {}, imr |-> p.imr]

\* PicMaskIrq and PicUnmaskIrq put 1 << irq (or irq - 8) into one byte
PicLines(irq) ==
  IF irq < 16 THEN {irq} ELSE IF irq - 8 < 32 THEN {} ELSE shift32

\* a non-specific end of interrupt: the first line in service at that one
Retire(lines, isr) == isr \ {l \in lines \cap isr : l = Min(lines \cap isr)}

FaultPicSendEoi(p, irq) ==                     \* line 70 in an else
  [p EXCEPT !.isr = Retire(IF irq >= 8 THEN Slave ELSE Master, p.isr)]

\* to the second controller too when irq >= 8, as every vector is
PicSendEoi(p, irq) ==
  LET isr == IF irq >= 8 THEN Retire(Slave, p.isr) ELSE p.isr
  IN [p EXCEPT !.isr = Retire(Master, isr)]

-------------------------------------------------------------------------------
(* Signals and control levels *)

FaultClearsFlag(v) == v # Breakpoint           \* 0x8F for the breakpoint

\* IntInitialize gives every vector flags 0x8E, a gate that clears the flag
ClearsFlag(v) == TRUE

MaskedLines(vectors) ==
  UNION {PicLines(v) : v \in vectors \cap PicVectors}

FwRaiseControlLevel(level) ==
  LET below == {v \in registered : controlLevel(v) < level} IN
  /\ masked' = masked \cup below
  /\ pic' = [pic EXCEPT !.imr = @ \cup MaskedLines(below)]

FaultFwLowerControlLevel(p, level) ==          \* line 100 compares with <
  LET above == {v \in registered : controlLevel(v) < level} IN
  /\ masked' = masked \ above
  /\ pic' = [p EXCEPT !.imr = @ \ MaskedLines(above)]

FwLowerControlLevel(p, level) ==
  LET above == {v \in registered : controlLevel(v) > level} IN
  /\ masked' = masked \ above
  /\ pic' = [p EXCEPT !.imr = @ \ MaskedLines(above)]

-------------------------------------------------------------------------------
(* KeInitialize, as far as signals are concerned *)

Booting(from, to) == cpu = "runs" /\ frames = <<>> /\ boot = from /\ boot' = to

FaultFwInitialize ==                           \* pic lines 100-101 missing
  /\ Booting("firmware", "kernel")
  /\ pic' = [PicRemap(pic) EXCEPT !.imr = {}]
  /\ UNCHANGED <<cpu, enabled, registered, masked, executing, context, frames,
                 KiSystemTime, raised, shift32>>

FwInitialize ==
  /\ Booting("firmware", "kernel")
  /\ pic' = PicRemap(pic)
  /\ UNCHANGED <<cpu, enabled, registered, masked, executing, context, frames,
                 KiSystemTime, raised, shift32>>

\* FwRegisterSignal seven times, then KiInitializeProcessor; before signals
\* are enabled others may register signals of their own
KiInitialize ==
  /\ Booting("kernel", "passive")
  /\ registered' = KiSignals \cup Drivers
  /\ context' = [context EXCEPT !.level = CL_INITIALIZATION, !.ready = TRUE]
  /\ UNCHANGED <<cpu, enabled, masked, executing, frames, pic, KiSystemTime,
                 raised, shift32>>

LowerToPassive ==
  /\ Booting("passive", "enable")
  /\ context' = [context EXCEPT !.level = CL_PASSIVE]
  /\ FwLowerControlLevel(pic, CL_PASSIVE)
  /\ UNCHANGED <<cpu, enabled, registered, executing, frames, KiSystemTime,
                 raised, shift32>>

HalEnableSignals ==
  /\ Booting("enable", "idle")
  /\ enabled' = TRUE
  /\ UNCHANGED <<cpu, registered, masked, executing, context, frames, pic,
                 KiSystemTime, raised, shift32>>

-------------------------------------------------------------------------------
(* One interrupt: FwInterruptHandler and FwExecuteSignal *)

\* the processor takes the gate of v
Enter(v) ==
  /\ frames' = Append(frames, [vector |-> v, pc |-> "begin", saved |-> enabled])
  /\ enabled' = (enabled /\ ~ClearsFlag(v))
  /\ UNCHANGED <<boot, cpu, registered, masked, executing, context,
                 KiSystemTime, raised, shift32>>

Accept(l) ==
  /\ cpu = "runs" /\ enabled /\ l \in FirstDeliverable
  /\ pic' = [pic EXCEPT !.irr = @ \ {l}, !.isr = @ \cup Served(l)]
  /\ Enter(IrqVector(l))

\* an instruction; a pending interrupt is taken before it
Trap(v) ==
  /\ cpu = "runs" /\ boot = "idle" /\ frames = <<>>
  /\ Deliverable = {}
  /\ Enter(v)
  /\ UNCHANGED pic

\* In KeInitialize, in BmEntry or in a handler: every exception has a gate from
\* IntInitialize on, whether KiInitialize has a signal for it or not.
\* bound: no fault of the code that handles a fault
Fault(v) ==
  /\ cpu = "runs" /\ boot # "firmware"
  /\ \A i \in DOMAIN frames : frames[i].vector \notin Faults
  /\ Enter(v)
  /\ UNCHANGED pic

\* a request that is gone when the processor asks for its vector
SpuriousInterrupt(l) ==
  /\ cpu = "runs" /\ enabled
  /\ pic' = [pic EXCEPT !.isr = @ \cup Served(l)]
  /\ Enter(IrqVector(l))

\* FwBeginSignal reads FwSignals[index] without a test.
Lost == Running("begin") /\ (~context.ready \/ Top.vector \notin registered)

\* Through Null, of the signal or of the context, it follows whatever memory
\* holds at address 0 to a control level, a function and a vector of listeners;
\* nothing is said of the machine after that.
Lose ==
  /\ Lost
  /\ cpu' = "lost"
  /\ UNCHANGED <<boot, enabled, registered, masked, executing, context, frames, pic,
                 KiSystemTime, raised, shift32>>

FwBeginSignal ==
  /\ Running("begin") /\ ~Lost
  /\ context' = [context EXCEPT !.prev = context.level,
                                !.level = controlLevel(Top.vector)]
  /\ FwRaiseControlLevel(controlLevel(Top.vector))
  /\ executing' = executing \cup {Top.vector}
  /\ Advance("invoke")
  /\ UNCHANGED <<boot, cpu, enabled, registered, KiSystemTime, raised, shift32>>

\* KiSignalInvoke calls the function, if there is one; KiClockHandler finds
\* no current thread, and only counts
KiSignalInvoke ==
  /\ Running("invoke") /\ Top.vector \notin Fatal
  /\ KiSystemTime' = IF Top.vector = Clock THEN KiSystemTime + 1 ELSE KiSystemTime
  /\ Advance("end")
  /\ UNCHANGED <<boot, cpu, enabled, registered, masked, executing, context, pic,
                 raised, shift32>>

\* KiGPFHandler and its like
FwEmergency ==
  /\ Running("invoke") /\ Top.vector \in Fatal
  /\ enabled' = FALSE
  /\ cpu' = "halted"
  /\ UNCHANGED <<boot, registered, masked, executing, context, frames, pic,
                 KiSystemTime, raised, shift32>>

FaultFwEndSignal ==                            \* only level is put back
  /\ Running("end")
  /\ executing' = executing \ {Top.vector}
  /\ pic' = IF Top.vector \in PicVectors THEN PicSendEoi(pic, Top.vector) ELSE pic
  /\ context' = [context EXCEPT !.level = context.prev]
  /\ Advance("return")
  /\ UNCHANGED <<boot, cpu, enabled, registered, masked, KiSystemTime, raised, shift32>>

FwEndSignal ==
  /\ Running("end")
  /\ executing' = executing \ {Top.vector}
  /\ FwLowerControlLevel(IF Top.vector \in PicVectors
                           THEN PicSendEoi(pic, Top.vector) ELSE pic,
                         context.prev)
  /\ context' = [context EXCEPT !.level = context.prev]
  /\ Advance("return")
  /\ UNCHANGED <<boot, cpu, enabled, registered, KiSystemTime, raised, shift32>>

\* iret
InterruptReturn ==
  /\ Running("return")
  /\ frames' = SubSeq(frames, 1, Len(frames) - 1)
  /\ enabled' = Top.saved
  /\ UNCHANGED <<boot, cpu, registered, masked, executing, context, pic,
                 KiSystemTime, raised, shift32>>

\* a device raises its line, which is latched on the edge
Raise(l) ==
  /\ raised < MaxRaises
  /\ raised' = raised + 1
  /\ pic' = [pic EXCEPT !.irr = @ \cup {l}]
  /\ UNCHANGED <<boot, cpu, enabled, registered, masked, executing, context,
                 frames, KiSystemTime, shift32>>

Boot   == FwInitialize \/ KiInitialize \/ LowerToPassive \/ HalEnableSignals
Handle == FwBeginSignal \/ KiSignalInvoke \/ FwEmergency \/ FwEndSignal
            \/ InterruptReturn \/ Lose
Processor == Boot \/ Handle \/ \E l \in Lines : Accept(l)

Next ==
  \/ Processor
  \/ \E v \in Traps : Trap(v)
  \/ \E v \in Faults : Fault(v)
  \/ \E l \in Spurious : SpuriousInterrupt(l)
  \/ \E l \in Lines : Raise(l)

\* the processor goes on executing, and takes what the controllers deliver
Spec == Init /\ [][Next]_vars /\ WF_vars(Processor)

-------------------------------------------------------------------------------
(* Properties.                                                             *)

Vectors == 0 .. 255

\* Every variable keeps its type: flags, levels, the handlers on the stack
\* and the state of the two controllers.
TypeOK ==
  /\ boot \in {"firmware", "kernel", "passive", "enable", "idle"}
  /\ cpu \in {"runs", "halted", "lost"} /\ enabled \in BOOLEAN
  /\ registered \in {{}, KiSignals \cup Drivers}
  /\ masked \subseteq registered /\ executing \subseteq registered
  /\ context \in [level : 0 .. CL_INITIALIZATION, prev : 0 .. CL_INITIALIZATION,
                  ready : BOOLEAN]
  /\ frames \in Seq([vector : Vectors, saved : BOOLEAN,
                     pc : {"begin", "invoke", "end", "return"}])
  /\ pic \in [irr : SUBSET (0 .. 15), isr : SUBSET (0 .. 15), imr : SUBSET (0 .. 15)]
  /\ KiSystemTime \in Nat /\ raised \in 0 .. MaxRaises /\ shift32 \in {{}, {8}}

\* Code that runs with signals on, outside every handler, runs at CL_PASSIVE
\* with no signal masked, whatever interrupted it before: FwEndSignal always
\* finds in the one `prev' of the processor the level it must go back to.
PassiveOutsideHandlers ==
  cpu = "runs" /\ boot = "idle" /\ frames = <<>>
    => enabled /\ context.level = CL_PASSIVE /\ masked = {} /\ executing = {}

\* The line of a signal that FwRaiseControlLevel masked is not delivered
\* before FwLowerControlLevel unmasks it, though the mask of the controller
\* is not what keeps it out: FwMaskSignal passes a vector for a line (50).
MaskedNotDelivered ==
  [][\A l \in Lines : Accept(l) => IrqVector(l) \notin masked]_vars

\* A line is in service at its controller exactly while its handler has not
\* come to FwEndSignal: none is acknowledged early, twice for another line,
\* or never.
ServiceMatchesHandlers ==
  cpu = "runs" =>
    pic.isr = UNION {Served(frames[i].vector - IRQ_START) :
                       i \in {j \in DOMAIN frames :
                                /\ frames[j].vector - IRQ_START \in 0 .. 15
                                /\ frames[j].pc # "return"}}

\* No line that a device raises and no software interrupt finds a Null signal
\* or context: signals are enabled after both are there, no level opens a line
\* that is not registered, and such lines keep the mask of the firmware.  What
\* does go through Null is an exception for which there is no signal, as there
\* is for none before KiInitialize, or a spurious interrupt.
NoLineLost ==
  Lost => Top.vector \in (Exceptions \ registered) \cup {IrqVector(l) : l \in Spurious}

\* Every timer interrupt raised once signals are on is counted in
\* KiSystemTime, unless a fault stops the machine.
EveryTickCounted ==
  \A n \in 0 .. MaxRaises :
    boot = "idle" /\ 0 \in pic.irr /\ KiSystemTime = n
      ~> KiSystemTime > n \/ cpu # "runs"

\* Every line that its device raised and the firmware left open is accepted.
EveryLineServed ==
  \A l \in Lines \ FirmwareMask :
    boot = "idle" /\ l \in pic.irr ~> l \notin pic.irr \/ cpu # "runs"
===============================================================================
