----------------------------- MODULE SignalsProofs -----------------------------
(***************************************************************************)
(* What holds of module Signals for any drivers, any lines and any masks   *)
(* of the firmware.  Everything rests on the shape of the stack: a handler *)
(* runs with the interrupt flag off, so only an exception comes on top of  *)
(* one, and an exception never returns: its handler stops the machine, or  *)
(* it has none.                                                            *)
(***************************************************************************)
EXTENDS Signals, SequenceTheorems, TLAPS

Registered == KiSignals \cup Drivers

Frames == [vector : Vectors, saved : BOOLEAN, pc : {"begin", "invoke", "end", "return"}]

Contexts == [level : 0 .. CL_INITIALIZATION, prev : 0 .. CL_INITIALIZATION, ready : BOOLEAN]

-------------------------------------------------------------------------------
(* Lemmas *)

\* Every level is one of four, all above CL_PASSIVE.
LEMMA Levels == \A v : controlLevel(v) \in {CL_CLOCK, CL_SHEDULE, CL_EXCEPTION, CL_SIGNALS}
  BY DEF controlLevel

\* Every signal that is registered has a vector of the table.
LEMMA RegisteredVectors == Registered \subseteq Vectors
  BY SignalsAssumption DEF Registered, KiSignals, Fatal, SystemCall, Breakpoint, Shedule,
                          Clock, IRQ_START, IrqVector, Vectors

\* The vectors of spurious interrupts.
SpuriousVectors == {IrqVector(l) : l \in Spurious}

\* A registered exception stops the machine; spurious interrupts have no signal;
\* an exception is neither a line nor a software interrupt.
LEMMA FaultVectors ==
  /\ Faults \subseteq Exceptions /\ Faults \subseteq Vectors
  /\ Faults \cap Registered \subseteq Fatal
  /\ SpuriousVectors \subseteq Vectors /\ SpuriousVectors \cap Registered = {}
  /\ SpuriousVectors \cap Faults = {}
<1>1. Faults \subseteq Exceptions
  BY SignalsAssumption
<1>2. Exceptions \subseteq Vectors /\ Exceptions \cap Registered \subseteq Fatal
  BY SignalsAssumption DEF Exceptions, Registered, KiSignals, Fatal, SystemCall, Breakpoint,
                          Shedule, Clock, IRQ_START, IrqVector, Vectors
<1>3. SpuriousVectors \subseteq {39, 47}
  BY SignalsAssumption DEF SpuriousVectors, IrqVector, IRQ_START
<1>4. \A v \in SpuriousVectors : v \notin Drivers
  BY SignalsAssumption DEF SpuriousVectors
<1>5. \A v \in {39, 47} : v \notin KiSignals /\ v \in Vectors /\ v \notin Exceptions
  BY DEF Exceptions, KiSignals, Fatal, SystemCall, Breakpoint, Shedule, Clock, IRQ_START, Vectors
<1>6. SpuriousVectors \cap Registered = {}
  BY <1>3, <1>4, <1>5 DEF Registered
<1>7. SpuriousVectors \subseteq Vectors /\ SpuriousVectors \cap Faults = {}
  BY <1>1, <1>3, <1>5
<1>8. Faults \subseteq Vectors /\ Faults \cap Registered \subseteq Fatal
  <2> HIDE DEF Registered
  <2> QED
    BY <1>1, <1>2
<1> QED
  BY <1>1, <1>6, <1>7, <1>8

\* The vectors of software interrupts are none of the exceptions.
LEMMA TrapVectors ==
  ASSUME NEW v \in Traps
  PROVE  v \in Vectors /\ v \notin Faults /\ v \in Registered
<1>1. v \in {Breakpoint, Shedule, SystemCall} /\ Faults \subseteq Exceptions
  BY SignalsAssumption
<1>2. v \in Vectors /\ v \notin Exceptions
  BY <1>1 DEF Vectors, Exceptions, Breakpoint, Shedule, SystemCall
<1> QED
  BY <1>1, <1>2 DEF Registered, KiSignals, Fatal

\* Masks that go through the vector reach no line but line 8, and that only
\* for the vector of line 8.
LEMMA MaskedLine8 ==
  ASSUME shift32 \in {{}, {8}}, NEW vectors, NEW l \in MaskedLines(vectors)
  PROVE  l = 8 /\ IrqVector(8) \in vectors
<1>1. PICK v \in vectors \cap PicVectors : l \in PicLines(v)
  BY DEF MaskedLines
<1>2. v \in 32 .. 40
  BY <1>1 DEF PicVectors
<1>3. CASE v < 40
  <2>1. PicLines(v) = {}
    BY <1>2, <1>3 DEF PicLines
  <2> QED
    BY <1>1, <2>1
<1>4. CASE v = 40
  <2>1. PicLines(v) = shift32
    BY <1>4 DEF PicLines
  <2> QED
    BY <1>1, <1>4, <2>1 DEF IrqVector, IRQ_START
<1> QED
  BY <1>2, <1>3, <1>4

\* An end of interrupt adds nothing to what a controller has, and changes
\* neither requests nor masks.
LEMMA EndOfInterrupt ==
  ASSUME NEW p \in [irr : SUBSET (0 .. 15), isr : SUBSET (0 .. 15), imr : SUBSET (0 .. 15)],
         NEW irq
  PROVE  /\ PicSendEoi(p, irq) \in
              [irr : SUBSET (0 .. 15), isr : SUBSET (0 .. 15), imr : SUBSET (0 .. 15)]
         /\ PicSendEoi(p, irq).imr = p.imr
<1>1. \A lines, isr : Retire(lines, isr) \subseteq isr
  BY DEF Retire
<1>2. PICK isr \in SUBSET p.isr : PicSendEoi(p, irq) = [p EXCEPT !.isr = isr]
  BY <1>1 DEF PicSendEoi
<1> QED
  BY <1>2

\* A sequence without its last element.
LEMMA WithoutLast ==
  ASSUME NEW S, NEW s \in Seq(S), s # <<>>
  PROVE  /\ SubSeq(s, 1, Len(s) - 1) \in Seq(S)
         /\ Len(SubSeq(s, 1, Len(s) - 1)) = Len(s) - 1
         /\ \A i \in 1 .. Len(s) - 1 : SubSeq(s, 1, Len(s) - 1)[i] = s[i]
<1> DEFINE n == Len(s) - 1
<1>1. n \in Nat /\ \A i \in 1 .. n : s[i] \in S
  OBVIOUS
<1> HIDE DEF n
<1>2. 1 \in Int /\ n \in Int /\ n - 1 + 1 = n
  BY <1>1
<1>3. /\ SubSeq(s, 1, n) \in Seq(S)
      /\ Len(SubSeq(s, 1, n)) = IF 1 <= n THEN n - 1 + 1 ELSE 0
      /\ \A i \in 1 .. n - 1 + 1 : SubSeq(s, 1, n)[i] = s[1 + i - 1]
  <2>1. \A i \in 1 .. n : s[i] \in S
    BY <1>1
  <2> QED
    BY ONLY <1>2, <2>1, SubSeqProperties
<1>4. Len(SubSeq(s, 1, n)) = n /\ \A i \in 1 .. n : SubSeq(s, 1, n)[i] = s[i]
  <2>1. \A i \in 1 .. n : 1 + i - 1 = i
    BY <1>1
  <2> QED
    BY <1>1, <1>2, <1>3, <2>1
<1> QED
  BY <1>3, <1>4 DEF n

-------------------------------------------------------------------------------
(* Type correctness *)

\* What each step may do to the stack.
LEMMA Pushed ==
  ASSUME TypeOK, NEW v \in Vectors, Enter(v)
  PROVE  /\ frames' \in Seq(Frames) /\ Len(frames') = Len(frames) + 1
         /\ \A i \in 1 .. Len(frames) : frames'[i] = frames[i]
         /\ frames'[Len(frames) + 1] = [vector |-> v, pc |-> "begin", saved |-> enabled]
  BY DEF TypeOK, Frames, Enter

\* A step of a handler changes where the topmost one stands and nothing below it.
LEMMA Advanced ==
  ASSUME TypeOK, NEW from, Running(from),
         NEW pc \in {"begin", "invoke", "end", "return"}, Advance(pc)
  PROVE  /\ frames' \in Seq(Frames) /\ Len(frames') = Len(frames)
         /\ Len(frames) \in Nat \ {0} /\ Top \in Frames
         /\ \A i \in 1 .. Len(frames) - 1 : frames'[i] = frames[i]
         /\ frames'[Len(frames)] = [Top EXCEPT !.pc = pc]
<1>1. frames \in Seq(Frames) /\ frames # <<>>
  BY DEF TypeOK, Frames, Running
<1>2. Len(frames) \in Nat \ {0} /\ Len(frames) \in DOMAIN frames
  BY <1>1
<1>3. Top \in Frames
  BY <1>1, <1>2 DEF Top
<1>4. [Top EXCEPT !.pc = pc] \in Frames
  BY <1>3 DEF Frames
<1> QED
  BY <1>1, <1>2, <1>3, <1>4 DEF Advance, Top

\* A handler that returns leaves the ones below it as they were.
LEMMA Popped ==
  ASSUME TypeOK, Running("return"), InterruptReturn
  PROVE  /\ frames' \in Seq(Frames) /\ Len(frames') = Len(frames) - 1
         /\ Len(frames) \in Nat \ {0} /\ Top \in Frames
         /\ \A i \in 1 .. Len(frames) - 1 : frames'[i] = frames[i]
<1>1. frames \in Seq(Frames) /\ frames # <<>>
  BY DEF TypeOK, Frames, Running
<1>2. Len(frames) \in Nat \ {0} /\ Len(frames) \in DOMAIN frames
  BY <1>1
<1> QED
  BY <1>1, <1>2, WithoutLast DEF InterruptReturn, Top

\* Masks stay within the signals that are registered, and within 16 lines.
Controllers ==
  /\ masked \subseteq registered
  /\ pic \in [irr : SUBSET (0 .. 15), isr : SUBSET (0 .. 15), imr : SUBSET (0 .. 15)]

\* Raising the control level masks lines that there are.
LEMMA RaisedTypes ==
  ASSUME TypeOK, NEW level, FwRaiseControlLevel(level), registered' = registered
  PROVE  Controllers'
<1>1. \A vectors : MaskedLines(vectors) \subseteq 0 .. 15
  BY MaskedLine8 DEF TypeOK
<1> QED
  BY <1>1 DEF TypeOK, Controllers, FwRaiseControlLevel

\* Lowering it unmasks no others.
LEMMA LoweredTypes ==
  ASSUME TypeOK, NEW level, NEW p, FwLowerControlLevel(p, level), registered' = registered,
         p \in [irr : SUBSET (0 .. 15), isr : SUBSET (0 .. 15), imr : SUBSET (0 .. 15)]
  PROVE  Controllers'
  BY DEF TypeOK, Controllers, FwLowerControlLevel

\* Every step of the processor, the devices and the boot sequence keeps the types.
LEMMA TypeStep == TypeOK /\ [Next]_vars => TypeOK'
<1> SUFFICES ASSUME TypeOK, [Next]_vars PROVE TypeOK'
  OBVIOUS
<1> USE DEF Frames, Contexts
<1>0. context \in Contexts
  BY DEF TypeOK
<1>1. CASE FwInitialize
  BY <1>1 DEF TypeOK, FwInitialize, Booting, PicRemap
<1>2. CASE KiInitialize
  <2>1. masked \subseteq Registered /\ executing \subseteq Registered
    BY DEF TypeOK, Registered
  <2>2. context' \in Contexts
    <3>1. context' = [level |-> CL_INITIALIZATION, prev |-> context.prev, ready |-> TRUE]
      BY <1>0, <1>2 DEF KiInitialize
    <3> QED
      BY <1>0, <3>1 DEF CL_INITIALIZATION
  <2> QED
    BY <1>2, <2>1, <2>2 DEF TypeOK, KiInitialize, Booting, Registered
<1>3. CASE LowerToPassive
  <2>1. Controllers'
    BY <1>3, LoweredTypes DEF LowerToPassive, TypeOK
  <2>2. context' \in Contexts
    BY <1>0, <1>3 DEF LowerToPassive, CL_INITIALIZATION, CL_PASSIVE
  <2> QED
    BY <1>3, <2>1, <2>2 DEF TypeOK, Controllers, LowerToPassive, Booting
<1>4. CASE HalEnableSignals
  BY <1>4 DEF TypeOK, HalEnableSignals, Booting
<1>5. CASE FwBeginSignal
  <2>1. frames' \in Seq(Frames)
    BY <1>5, Advanced DEF FwBeginSignal
  <2>2. Controllers'
    BY <1>5, RaisedTypes DEF FwBeginSignal
  <2>3. executing' \subseteq registered'
    BY <1>5 DEF TypeOK, FwBeginSignal, Lost
  <2>4. controlLevel(Top.vector) \in 0 .. CL_INITIALIZATION
    BY Levels DEF CL_INITIALIZATION, CL_CLOCK, CL_SHEDULE, CL_EXCEPTION, CL_SIGNALS
  <2>5. context' \in Contexts
    BY <1>0, <1>5, <2>4 DEF FwBeginSignal
  <2> QED
    BY <1>5, <2>1, <2>2, <2>3, <2>5 DEF TypeOK, Controllers, FwBeginSignal
<1>6. CASE KiSignalInvoke
  <2>1. frames' \in Seq(Frames)
    BY <1>6, Advanced DEF KiSignalInvoke
  <2> QED
    BY <1>6, <2>1 DEF TypeOK, KiSignalInvoke
<1>7. CASE FwEmergency
  BY <1>7 DEF TypeOK, FwEmergency
<1>8. CASE FwEndSignal
  <2>1. frames' \in Seq(Frames)
    BY <1>8, Advanced DEF FwEndSignal
  <2>2. Controllers'
    BY <1>8, LoweredTypes, EndOfInterrupt DEF FwEndSignal, TypeOK
  <2>3. executing' \subseteq registered'
    BY <1>8 DEF TypeOK, FwEndSignal
  <2>4. context' \in Contexts
    BY <1>8 DEF TypeOK, FwEndSignal
  <2> QED
    BY <1>8, <2>1, <2>2, <2>3, <2>4 DEF TypeOK, Controllers, FwEndSignal
<1>9. CASE InterruptReturn
  <2>1. frames' \in Seq(Frames) /\ Top \in Frames
    BY <1>9, Popped DEF InterruptReturn
  <2> QED
    BY <1>9, <2>1 DEF TypeOK, InterruptReturn
<1>10. ASSUME NEW l \in Lines, Accept(l) PROVE TypeOK'
  <2>1. IrqVector(l) \in Vectors
    BY SignalsAssumption DEF IrqVector, IRQ_START, Vectors
  <2>2. frames' \in Seq(Frames)
    BY <1>10, <2>1, Pushed DEF Accept
  <2>3. Served(l) \subseteq 0 .. 15
    BY SignalsAssumption DEF Served, Cascade
  <2> QED
    BY <1>10, <2>2, <2>3 DEF TypeOK, Accept, Enter, ClearsFlag
<1>11. ASSUME NEW v \in Traps \cup Faults, Trap(v) \/ Fault(v) PROVE TypeOK'
  <2>1. v \in Vectors
    BY TrapVectors, FaultVectors
  <2>2. Enter(v) /\ UNCHANGED pic
    BY <1>11 DEF Trap, Fault
  <2>3. frames' \in Seq(Frames)
    BY <2>1, <2>2, Pushed
  <2> QED
    BY <2>2, <2>3 DEF TypeOK, Enter, ClearsFlag
<1>12. ASSUME NEW l \in Lines, Raise(l) PROVE TypeOK'
  <2>1. l \in 0 .. 15 /\ MaxRaises \in Nat
    BY SignalsAssumption
  <2>2. raised' \in 0 .. MaxRaises
    BY <1>12, <2>1 DEF TypeOK, Raise
  <2>3. pic' \in [irr : SUBSET (0 .. 15), isr : SUBSET (0 .. 15), imr : SUBSET (0 .. 15)]
    BY <1>12, <2>1 DEF TypeOK, Raise
  <2> QED
    BY <1>12, <2>2, <2>3 DEF TypeOK, Raise
<1>13. CASE UNCHANGED vars
  BY <1>13 DEF TypeOK, vars
<1>14. CASE Lose
  BY <1>14 DEF TypeOK, Lose
<1>15. ASSUME NEW l \in Spurious, SpuriousInterrupt(l) PROVE TypeOK'
  <2>1. IrqVector(l) \in Vectors
    BY FaultVectors DEF SpuriousVectors
  <2>2. frames' \in Seq(Frames)
    BY <1>15, <2>1, Pushed DEF SpuriousInterrupt
  <2>3. Served(l) \subseteq 0 .. 15
    BY SignalsAssumption DEF Served, Cascade
  <2> QED
    BY <1>15, <2>2, <2>3 DEF TypeOK, SpuriousInterrupt, Enter, ClearsFlag
<1> QED
  BY <1>1, <1>2, <1>3, <1>4, <1>5, <1>6, <1>7, <1>8, <1>9, <1>10, <1>11, <1>12, <1>13, <1>14,
     <1>15 DEF Next, Processor, Boot, Handle

\* So it is before KeBootstrap.
LEMMA TypeInit == Init => TypeOK
<1> SUFFICES ASSUME Init PROVE TypeOK
  OBVIOUS
<1>1. context \in Contexts
  BY DEF Init, Contexts, CL_INITIALIZATION
<1>2. pic \in [irr : SUBSET (0 .. 15), isr : SUBSET (0 .. 15), imr : SUBSET (0 .. 15)]
  BY SignalsAssumption DEF Init
<1>3. raised \in 0 .. MaxRaises
  BY SignalsAssumption DEF Init
<1>4. frames \in Seq([vector : Vectors, saved : BOOLEAN,
                     pc : {"begin", "invoke", "end", "return"}])
  BY DEF Init
<1>5. registered = {} /\ masked = {} /\ executing = {} /\ enabled \in BOOLEAN
  BY DEF Init
<1> QED
  BY <1>1, <1>2, <1>3, <1>4, <1>5 DEF Init, TypeOK, Contexts

\* Flags, levels, the stack of handlers and both controllers keep their types,
\* and only registered signals are masked or executing: FwRaiseControlLevel
\* skips the empty entries of FwSignals.
THEOREM TypeCorrect == Spec => []TypeOK
  BY TypeInit, TypeStep, PTL DEF Spec

-------------------------------------------------------------------------------
(* One handler at a time *)

\* Nothing is masked, nothing is executing, and the level is the lowest.
AtRest == context.level = CL_PASSIVE /\ masked = {} /\ executing = {}

\* What main finds, before and after the handlers: signals come on last.
Main ==
  /\ boot # "idle" /\ frames = <<>> => ~enabled /\ masked = {} /\ executing = {}
  /\ boot \in {"passive", "enable", "idle"} => registered = Registered /\ context.ready
  /\ boot \in {"firmware", "kernel"} => registered = {}
  /\ boot = "enable" /\ frames = <<>> => AtRest
  /\ boot = "idle" /\ frames = <<>> => enabled /\ AtRest

\* The flag is off in every handler.  Above the lowest there is at most one
\* more, that of an exception; and no exception comes to its end, whether it
\* was taken above a handler, in main or in KeInitialize, where nothing else is.
\* Only a registered signal gets beyond FwBeginSignal.
Stack ==
  /\ frames # <<>> => /\ ~enabled
                      /\ IF boot = "idle" THEN frames[1].saved ELSE frames[1].vector \in Faults
  /\ Len(frames) <= 2
  /\ Len(frames) = 2 => frames[2].vector \in Faults
  /\ \A i \in 1 .. Len(frames) :
       /\ frames[i].vector \in Faults => frames[i].pc \in {"begin", "invoke"}
       /\ frames[i].pc # "begin" => frames[i].vector \in Registered

\* What the lowest handler finds and leaves, as long as nothing is above it.
Handler ==
  Len(frames) = 1 /\ boot = "idle" =>
    /\ frames[1].pc \in {"begin", "return"} => AtRest
    /\ frames[1].pc \in {"invoke", "end"} =>
         context.prev = CL_PASSIVE /\ executing = {frames[1].vector}

OneHandler == TypeOK /\ Main /\ Stack /\ Handler

\* Going back to CL_PASSIVE opens every signal there is.
LEMMA PassiveOpensAll ==
  ASSUME TypeOK, NEW p, FwLowerControlLevel(p, CL_PASSIVE)
  PROVE  masked' = {}
<1>1. \A v \in registered : controlLevel(v) > CL_PASSIVE
  BY Levels DEF CL_PASSIVE, CL_CLOCK, CL_SHEDULE, CL_EXCEPTION, CL_SIGNALS
<1> QED
  BY <1>1 DEF TypeOK, FwLowerControlLevel

\* A new frame is the only one, or that of an exception above the lowest.
LEMMA EnterKeeps ==
  ASSUME OneHandler, NEW v \in Vectors, Enter(v),
         \/ v \in Faults /\ \A i \in DOMAIN frames : frames[i].vector \notin Faults
         \/ boot = "idle" /\ frames = <<>>
  PROVE  Main' /\ Stack' /\ Handler'
<1>1. TypeOK /\ Main /\ Stack /\ Handler
  BY DEF OneHandler
<1>2. frames \in Seq(Frames) /\ Len(frames) \in Nat /\ DOMAIN frames = 1 .. Len(frames)
  BY <1>1 DEF TypeOK, Frames
<1>3. /\ Len(frames') = Len(frames) + 1
      /\ \A i \in 1 .. Len(frames) : frames'[i] = frames[i]
      /\ frames'[Len(frames) + 1] = [vector |-> v, pc |-> "begin", saved |-> enabled]
  BY <1>1, Pushed
<1>4. enabled' = FALSE /\ frames' # <<>>
  <2>1. enabled' = FALSE
    BY DEF Enter, ClearsFlag
  <2>2. Len(frames') # 0
    BY <1>2, <1>3
  <2> QED
    BY <2>1, <2>2, EmptySeq
<1>5. CASE frames = <<>>
  <2>1. Len(frames') = 1 /\ frames'[1] = [vector |-> v, pc |-> "begin", saved |-> enabled]
    BY <1>3, <1>5
  <2>2. boot = "idle" => enabled /\ AtRest
    BY <1>1, <1>5 DEF Main
  <2>3. UNCHANGED <<boot, registered, masked, executing, context>>
    BY DEF Enter
  <2>4. Main'
    BY <1>1, <1>4, <2>3 DEF Main
  <2>5. boot # "idle" => v \in Faults
    OBVIOUS
  <2>6. Stack'
    BY <1>4, <2>1, <2>2, <2>3, <2>5 DEF Stack
  <2>7. Handler'
    BY <2>1, <2>2, <2>3 DEF Handler, AtRest
  <2> QED
    BY <2>4, <2>6, <2>7
<1>6. CASE frames # <<>>
  <2>0. v \in Faults /\ \A i \in DOMAIN frames : frames[i].vector \notin Faults
    BY <1>6
  <2>1. Len(frames) = 1
    <3>1. Len(frames) # 0
      BY <1>2, <1>6, EmptySeq
    <3>2. ASSUME Len(frames) = 2 PROVE FALSE
      <4>1. 2 \in DOMAIN frames
        BY <1>2, <3>2
      <4>2. frames[2].vector \in Faults
        BY <1>1, <3>2 DEF Stack
      <4> QED
        BY <2>0, <4>1, <4>2
    <3>3. Len(frames) <= 2
      BY <1>1 DEF Stack
    <3>4. \A n \in Nat : n <= 2 => n \in {0, 1, 2}
      OBVIOUS
    <3>5. Len(frames) \in {0, 1, 2}
      BY <1>2, <3>3, <3>4
    <3> QED
      BY <3>1, <3>2, <3>5
  <2>2. /\ Len(frames') = 2 /\ frames'[1] = frames[1]
        /\ frames'[2].vector = v /\ frames'[2].pc = "begin"
    BY <1>3, <2>1
  <2>3. frames[1].vector \notin Faults
    BY <1>2, <2>0, <2>1
  <2>4. boot = "idle" /\ frames[1].saved
    BY <1>1, <1>6, <2>3 DEF Stack
  <2>5. UNCHANGED <<boot, registered, context>>
    BY DEF Enter
  <2>6. Main'
    BY <1>1, <1>4, <2>4, <2>5 DEF Main
  <2>7. \A i \in 1 .. Len(frames') : i = 1 \/ i = 2
    BY <2>2
  <2>8. Stack'
    <3>1. Len(frames') <= 2 /\ frames'[2].vector \in Faults /\ frames'[1].saved
      BY <2>0, <2>2, <2>4
    <3>2. /\ frames[1].vector \in Faults => frames[1].pc \in {"begin", "invoke"}
          /\ frames[1].pc # "begin" => frames[1].vector \in Registered
      BY <1>1, <2>1 DEF Stack
    <3>3. \A i \in 1 .. Len(frames') :
            /\ frames'[i].vector \in Faults => frames'[i].pc \in {"begin", "invoke"}
            /\ frames'[i].pc # "begin" => frames'[i].vector \in Registered
      BY <2>2, <2>7, <3>2
    <3> QED
      BY <1>4, <2>4, <2>5, <3>1, <3>3 DEF Stack
  <2> QED
    BY <2>2, <2>6, <2>8 DEF Handler
<1> QED
  BY <1>5, <1>6

\* A handler that goes on stays where it is on the stack.
LEMMA AdvanceKeeps ==
  ASSUME OneHandler, NEW from, Running(from), NEW pc \in {"begin", "invoke", "end", "return"},
         Advance(pc), UNCHANGED <<boot, enabled, registered>>, context'.ready = context.ready,
         Top.vector \in Registered, Top.vector \in Faults => pc = "invoke"
  PROVE  /\ Main' /\ Stack'
         /\ Len(frames') = Len(frames) /\ Len(frames) \in 1 .. 2
         /\ Len(frames) = 2 => Top.vector \in Faults
         /\ Len(frames) = 1 => /\ Top = frames[1] /\ Top.pc = from
                               /\ frames'[1] = [frames[1] EXCEPT !.pc = pc] /\ Top \in Frames
<1>1. TypeOK /\ Main /\ Stack /\ Handler
  BY DEF OneHandler
<1>2. /\ Len(frames') = Len(frames) /\ Len(frames) \in Nat \ {0} /\ Top \in Frames
      /\ \A i \in 1 .. Len(frames) - 1 : frames'[i] = frames[i]
      /\ frames'[Len(frames)] = [Top EXCEPT !.pc = pc]
  BY <1>1, Advanced
<1>3. Len(frames) \in 1 .. 2 /\ frames # <<>> /\ frames' # <<>>
  BY <1>1, <1>2 DEF Stack, Running
<1>4. Main'
  BY <1>1, <1>3 DEF Main
<1>5. [Top EXCEPT !.pc = pc].vector = Top.vector /\ [Top EXCEPT !.pc = pc].pc = pc
      /\ [Top EXCEPT !.pc = pc].saved = Top.saved
  BY <1>2 DEF Frames
<1>6. Top.vector \in Faults => pc \in {"begin", "invoke"}
  OBVIOUS
<1>7. CASE Len(frames) = 1
  <2>1. Top = frames[1] /\ frames'[1] = [frames[1] EXCEPT !.pc = pc]
    BY <1>2, <1>7 DEF Top
  <2>2. \A i \in 1 .. Len(frames') : i = 1
    BY <1>2, <1>7
  <2>3. Stack'
    BY <1>1, <1>2, <1>3, <1>5, <1>6, <1>7, <2>1, <2>2 DEF Stack
  <2> QED
    BY <1>2, <1>3, <1>4, <1>7, <2>1, <2>3 DEF Running
<1>8. CASE Len(frames) = 2
  <2>1. Top = frames[2] /\ frames'[1] = frames[1] /\ frames'[2] = [Top EXCEPT !.pc = pc]
    BY <1>2, <1>8 DEF Top
  <2>2. \A i \in 1 .. Len(frames') : i = 1 \/ i = 2
    BY <1>2, <1>8
  <2>3. 1 \in 1 .. Len(frames) /\ Top.vector \in Faults
    BY <1>1, <1>8, <2>1 DEF Stack
  <2>4. Stack'
    <3>1. Len(frames') <= 2 /\ frames'[2].vector \in Faults
      BY <1>2, <1>5, <1>8, <2>1, <2>3
    <3>2. /\ frames[1].vector \in Faults => frames[1].pc \in {"begin", "invoke"}
          /\ frames[1].pc # "begin" => frames[1].vector \in Registered
      BY <1>1, <2>3 DEF Stack
    <3>3. \A i \in 1 .. Len(frames') :
            /\ frames'[i].vector \in Faults => frames'[i].pc \in {"begin", "invoke"}
            /\ frames'[i].pc # "begin" => frames'[i].vector \in Registered
      <4>1. frames'[2].vector = Top.vector /\ frames'[2].pc = pc /\ Top.vector \in Registered
        BY <1>5, <2>1
      <4>2. \A i \in {1} : /\ frames'[i].vector \in Faults => frames'[i].pc \in {"begin", "invoke"}
                           /\ frames'[i].pc # "begin" => frames'[i].vector \in Registered
        BY <2>1, <3>2
      <4>3. \A i \in {2} : /\ frames'[i].vector \in Faults => frames'[i].pc \in {"begin", "invoke"}
                           /\ frames'[i].pc # "begin" => frames'[i].vector \in Registered
        BY <1>6, <4>1
      <4> QED
        BY <2>2, <4>2, <4>3
    <3>4. ~enabled' /\ IF boot' = "idle" THEN frames'[1].saved ELSE frames'[1].vector \in Faults
      BY <1>1, <1>3, <2>1 DEF Stack
    <3> QED
      BY <3>1, <3>3, <3>4 DEF Stack
  <2> QED
    BY <1>2, <1>3, <1>4, <1>8, <2>3, <2>4
<1> QED
  BY <1>3, <1>7, <1>8

\* No exception stands where a handler ends or returns, and none returns to
\* KeInitialize.
LEMMA EndsAlone ==
  ASSUME OneHandler, NEW pc \in {"end", "return"}, Running(pc)
  PROVE  /\ Top.vector \notin Faults /\ Len(frames) = 1 /\ Top = frames[1]
         /\ boot = "idle" /\ Top \in Frames
<1>1. TypeOK /\ Stack
  BY DEF OneHandler
<1>2. frames \in Seq(Frames) /\ frames # <<>> /\ Top.pc = pc
  BY <1>1 DEF TypeOK, Frames, Running
<1>3. Len(frames) \in Nat \ {0} /\ Len(frames) <= 2 /\ Top = frames[Len(frames)]
  BY <1>1, <1>2 DEF Stack, Top
<1>4. Len(frames) \in 1 .. Len(frames)
  BY <1>3
<1>5. Top.vector \notin Faults
  BY <1>1, <1>2, <1>3, <1>4 DEF Stack
<1>6. Len(frames) # 2
  BY <1>1, <1>3, <1>5 DEF Stack
<1>7. Len(frames) = 1
  <2>1. \A n \in Nat \ {0} : n <= 2 /\ n # 2 => n = 1
    OBVIOUS
  <2> QED
    BY <1>3, <1>6, <2>1
<1>8. Top = frames[1] /\ Top \in Frames
  BY <1>2, <1>3, <1>7
<1>9. boot = "idle"
  BY <1>1, <1>2, <1>5, <1>8 DEF Stack
<1> QED
  BY <1>5, <1>7, <1>8, <1>9

\* Signals are on in main alone, once KeInitialize is over.
LEMMA EnabledInMain == ASSUME OneHandler, enabled PROVE boot = "idle" /\ frames = <<>>
  BY DEF OneHandler, Main, Stack

\* Every step keeps at most one handler at an invoked level, and what it saved.
LEMMA OneHandlerStep == OneHandler /\ [Next]_vars => OneHandler'
<1> SUFFICES ASSUME OneHandler, [Next]_vars PROVE OneHandler'
  OBVIOUS
<1>0. TypeOK /\ TypeOK' /\ Main /\ Stack /\ Handler
  BY TypeStep DEF OneHandler
<1> SUFFICES Main' /\ Stack' /\ Handler'
  BY <1>0 DEF OneHandler
<1>1. CASE FwInitialize
  BY <1>0, <1>1 DEF Main, Stack, Handler, AtRest, FwInitialize, Booting
<1>2. CASE KiInitialize
  <2>1. context'.ready
    BY <1>0, <1>2 DEF TypeOK, KiInitialize
  <2> QED
    BY <1>0, <1>2, <2>1 DEF Main, Stack, Handler, AtRest, KiInitialize, Booting, Registered
<1>3. CASE LowerToPassive
  <2>1. masked' = {} /\ context'.level = CL_PASSIVE /\ context'.ready = context.ready
    BY <1>0, <1>3, PassiveOpensAll DEF TypeOK, LowerToPassive
  <2> QED
    BY <1>0, <1>3, <2>1 DEF Main, Stack, Handler, AtRest, LowerToPassive, Booting
<1>4. CASE HalEnableSignals
  BY <1>0, <1>4 DEF Main, Stack, Handler, AtRest, HalEnableSignals, Booting
<1>5. CASE FwBeginSignal
  <2>1. /\ context' = [context EXCEPT !.prev = context.level,
                                      !.level = controlLevel(Top.vector)]
        /\ executing' = executing \cup {Top.vector}
        /\ Advance("invoke") /\ Running("begin") /\ UNCHANGED <<boot, enabled, registered>>
    BY <1>5 DEF FwBeginSignal
  <2>0. Top.vector \in Registered
    <3>1. Top.vector \in registered
      BY <1>5 DEF FwBeginSignal, Lost
    <3> QED
      BY <1>0, <3>1 DEF TypeOK, Registered
  <2>2. context'.ready = context.ready /\ context'.prev = context.level
    BY <1>0, <2>1 DEF TypeOK
  <2>3. /\ Main' /\ Stack' /\ Len(frames') = Len(frames) /\ Len(frames) \in 1 .. 2
        /\ Len(frames) = 1 => /\ Top = frames[1] /\ Top.pc = "begin"
                              /\ frames'[1] = [frames[1] EXCEPT !.pc = "invoke"] /\ Top \in Frames
    BY <2>1, <2>2, <2>0, AdvanceKeeps
  <2>4. Len(frames) = 1 => frames'[1].pc = "invoke" /\ frames'[1].vector = Top.vector
    BY <2>3 DEF Frames
  <2>5. Len(frames) = 1 /\ boot = "idle" => AtRest
    BY <1>0, <2>3 DEF Handler
  <2> QED
    BY <2>1, <2>2, <2>3, <2>4, <2>5 DEF Handler, AtRest
<1>6. CASE KiSignalInvoke
  <2>1. /\ UNCHANGED <<boot, enabled, registered, masked, executing, context>>
        /\ Advance("end") /\ Running("invoke") /\ Top.vector \notin Fatal
    BY <1>6 DEF KiSignalInvoke
  <2>2. Top.vector \in Registered /\ Top.vector \notin Faults
    <3>1. Len(frames) \in 1 .. Len(frames) /\ Top = frames[Len(frames)]
      BY <1>0, <2>1, Advanced DEF Top
    <3>2. Top.vector \in Registered
      BY <1>0, <2>1, <3>1 DEF Stack, Running
    <3> QED
      BY <2>1, <3>2, FaultVectors
  <2>3. /\ Main' /\ Stack' /\ Len(frames') = Len(frames) /\ Len(frames) = 1
        /\ Len(frames) = 1 => /\ Top = frames[1] /\ Top.pc = "invoke"
                              /\ frames'[1] = [frames[1] EXCEPT !.pc = "end"] /\ Top \in Frames
    BY <2>1, <2>2, AdvanceKeeps
  <2>4. frames'[1].pc = "end" /\ frames'[1].vector = frames[1].vector /\ frames[1].pc = "invoke"
    BY <2>3 DEF Frames
  <2> QED
    BY <1>0, <2>1, <2>2, <2>3, <2>4 DEF Handler
<1>7. CASE FwEmergency
  <2>1. frames # <<>> /\ boot' = boot /\ enabled' = FALSE
    BY <1>7 DEF FwEmergency, Running
  <2> QED
    BY <1>0, <1>7, <2>1 DEF Main, Stack, Handler, AtRest, FwEmergency
<1>8. CASE FwEndSignal
  <2>1. /\ UNCHANGED <<boot, enabled, registered>>
        /\ context' = [context EXCEPT !.level = context.prev]
        /\ executing' = executing \ {Top.vector}
        /\ Advance("return") /\ Running("end")
    BY <1>8 DEF FwEndSignal
  <2>2. context'.ready = context.ready /\ context'.level = context.prev
    BY <1>0, <2>1 DEF TypeOK
  <2>3. Top.vector \notin Faults /\ Len(frames) = 1 /\ boot = "idle" /\ Top.vector \in Registered
    <3>1. Top.vector \notin Faults /\ Len(frames) = 1 /\ Top = frames[1] /\ boot = "idle"
      BY <2>1, EndsAlone
    <3>2. frames[1].vector \in Registered
      BY <1>0, <2>1, <3>1 DEF Stack, Running
    <3> QED
      BY <3>1, <3>2
  <2>4. /\ Main' /\ Stack' /\ Len(frames') = Len(frames) /\ Len(frames) \in 1 .. 2
        /\ Len(frames) = 1 => /\ Top = frames[1] /\ Top.pc = "end"
                              /\ frames'[1] = [frames[1] EXCEPT !.pc = "return"] /\ Top \in Frames
    BY <2>1, <2>2, <2>3, AdvanceKeeps
  <2>5. context.prev = CL_PASSIVE /\ executing = {Top.vector}
    BY <1>0, <2>3, <2>4 DEF Handler
  <2>6. masked' = {}
    <3>1. PICK p : FwLowerControlLevel(p, context.prev)
      BY <1>8 DEF FwEndSignal
    <3>2. FwLowerControlLevel(p, CL_PASSIVE)
      BY <2>5, <3>1 DEF FwLowerControlLevel
    <3> QED
      BY <1>0, <3>2, PassiveOpensAll
  <2>7. Len(frames) = 1 /\ frames'[1].pc = "return"
    BY <2>3, <2>4 DEF Frames
  <2>8. AtRest'
    BY <2>1, <2>2, <2>5, <2>6 DEF AtRest
  <2>9. Handler'
    BY <2>7, <2>8 DEF Handler
  <2> QED
    BY <2>4, <2>9
<1>9. CASE InterruptReturn
  <2>1. Running("return") /\ enabled' = Top.saved
        /\ UNCHANGED <<boot, registered, masked, executing, context>>
    BY <1>9 DEF InterruptReturn
  <2>2. Len(frames) = 1 /\ boot = "idle" /\ Top = frames[1]
    BY <2>1, EndsAlone
  <2>3. frames' = <<>>
    <3>1. frames' \in Seq(Frames) /\ Len(frames') = Len(frames) - 1
      BY <1>0, <1>9, <2>1, Popped
    <3> QED
      BY <2>2, <3>1, EmptySeq
  <2>4. enabled' = TRUE /\ AtRest
    BY <1>0, <2>1, <2>2 DEF TypeOK, Stack, Handler, Running
  <2> QED
    BY <1>0, <2>1, <2>2, <2>3, <2>4, EmptySeq DEF Main, Stack, Handler, AtRest
<1>10. ASSUME NEW l \in Lines, Accept(l) PROVE Main' /\ Stack' /\ Handler'
  <2>1. IrqVector(l) \in Vectors
    BY SignalsAssumption DEF IrqVector, IRQ_START, Vectors
  <2>2. boot = "idle" /\ frames = <<>> /\ Enter(IrqVector(l))
    BY <1>0, <1>10, EnabledInMain DEF Accept
  <2> QED
    BY <2>1, <2>2, EnterKeeps
<1>11. ASSUME NEW v \in Traps, Trap(v) PROVE Main' /\ Stack' /\ Handler'
  <2>1. v \in Vectors
    BY TrapVectors
  <2>2. boot = "idle" /\ frames = <<>> /\ Enter(v)
    BY <1>11 DEF Trap
  <2> QED
    BY <2>1, <2>2, EnterKeeps
<1>14. ASSUME NEW v \in Faults, Fault(v) PROVE Main' /\ Stack' /\ Handler'
  <2>1. v \in Vectors
    BY FaultVectors
  <2>2. Enter(v) /\ \A i \in DOMAIN frames : frames[i].vector \notin Faults
    BY <1>14 DEF Fault
  <2> QED
    BY <2>1, <2>2, EnterKeeps
<1>15. ASSUME NEW l \in Spurious, SpuriousInterrupt(l) PROVE Main' /\ Stack' /\ Handler'
  <2>1. IrqVector(l) \in Vectors
    BY FaultVectors DEF SpuriousVectors
  <2>2. boot = "idle" /\ frames = <<>> /\ Enter(IrqVector(l))
    BY <1>0, <1>15, EnabledInMain DEF SpuriousInterrupt
  <2> QED
    BY <2>1, <2>2, EnterKeeps
<1>16. CASE Lose
  BY <1>0, <1>16 DEF Main, Stack, Handler, AtRest, Lose
<1>12. ASSUME NEW l \in Lines, Raise(l) PROVE Main' /\ Stack' /\ Handler'
  BY <1>0, <1>12 DEF Main, Stack, Handler, AtRest, Raise
<1>13. CASE UNCHANGED vars
  BY <1>0, <1>13 DEF Main, Stack, Handler, AtRest, vars
<1> QED
  BY <1>1, <1>2, <1>3, <1>4, <1>5, <1>6, <1>7, <1>8, <1>9, <1>10, <1>11, <1>12, <1>13, <1>14,
     <1>15, <1>16 DEF Next, Processor, Boot, Handle

\* So it is in every behaviour.
LEMMA OneHandlerAlways == Spec => []OneHandler
<1>1. Init => OneHandler
  <2> SUFFICES ASSUME Init PROVE OneHandler
    OBVIOUS
  <2>1. TypeOK
    BY TypeInit
  <2>2. frames = <<>> /\ Len(frames) = 0
    BY EmptySeq DEF Init
  <2> QED
    BY <2>1, <2>2 DEF Init, OneHandler, Main, Stack, Handler
<1> QED
  BY <1>1, OneHandlerStep, PTL DEF Spec

\* Whatever handlers ran, main finds CL_PASSIVE and every signal open: the one
\* `prev' of the processor is enough, for any drivers, since a second handler
\* never comes back.
THEOREM BackToPassive == Spec => []PassiveOutsideHandlers
<1>1. OneHandler => PassiveOutsideHandlers
  BY DEF OneHandler, Main, AtRest, PassiveOutsideHandlers
<1> QED
  BY <1>1, OneHandlerAlways, PTL

\* No line is accepted whose signal is masked, for any lines: it is the
\* interrupt flag that sees to that.
THEOREM MaskedKeptOut == Spec => MaskedNotDelivered
<1>1. OneHandler /\ [Next]_vars =>
        [\A l \in Lines : Accept(l) => IrqVector(l) \notin masked]_vars
  BY EnabledInMain DEF OneHandler, Main, AtRest, Accept
<1> QED
  BY <1>1, OneHandlerAlways, PTL DEF Spec, MaskedNotDelivered

-------------------------------------------------------------------------------
(* No interrupt without a signal *)

\* The firmware has masked the lines for which nobody registers a signal.
FirmwareMasks == \A l \in Lines \ FirmwareMask : IrqVector(l) \in Registered

\* What may interrupt: a registered signal, an exception, a spurious interrupt.
Expected == Registered \cup Faults \cup SpuriousVectors

\* Only the lines of registered signals are open, and of devices only they are
\* handled.
Known ==
  /\ \A l \in Lines \ pic.imr : IrqVector(l) \in Registered
  /\ \A i \in 1 .. Len(frames) : frames[i].vector \in Expected

\* Every step opens and handles lines of registered signals only.
LEMMA KnownStep ==
  ASSUME FirmwareMasks, OneHandler, Known, [Next]_vars
  PROVE  Known'
<1>0. TypeOK /\ Main /\ Stack /\ registered \subseteq Registered
  BY DEF OneHandler, TypeOK, Registered
<1>1. ASSUME NEW from, Running(from), NEW pc \in {"begin", "invoke", "end", "return"}, Advance(pc)
      PROVE  \A i \in 1 .. Len(frames') : frames'[i].vector \in Expected
  <2>1. /\ Len(frames') = Len(frames) /\ Len(frames) \in Nat \ {0} /\ Top \in Frames
        /\ \A i \in 1 .. Len(frames) - 1 : frames'[i] = frames[i]
        /\ frames'[Len(frames)] = [Top EXCEPT !.pc = pc]
    BY <1>0, <1>1, Advanced
  <2>2. Top.vector \in Expected
    BY <2>1 DEF Known, Top
  <2>3. frames'[Len(frames)].vector = Top.vector
    BY <2>1 DEF Frames
  <2>4. \A i \in 1 .. Len(frames) - 1 : frames'[i].vector \in Expected
    BY <2>1 DEF Known
  <2>5. \A i \in 1 .. Len(frames) : i \in 1 .. Len(frames) - 1 \/ i = Len(frames)
    BY <2>1
  <2> QED
    BY <2>1, <2>2, <2>3, <2>4, <2>5
<1>2. ASSUME NEW v \in Expected, Enter(v)
      PROVE  \A i \in 1 .. Len(frames') : frames'[i].vector \in Expected
  <2>1. /\ Len(frames') = Len(frames) + 1 /\ Len(frames) \in Nat
        /\ \A i \in 1 .. Len(frames) : frames'[i] = frames[i]
        /\ frames'[Len(frames) + 1] = [vector |-> v, pc |-> "begin", saved |-> enabled]
    BY <1>0, <1>2, Pushed, RegisteredVectors, FaultVectors DEF TypeOK, Expected
  <2> QED
    BY <2>1 DEF Known
<1>3. ASSUME NEW p, p.imr = pic.imr, NEW level, FwLowerControlLevel(p, level),
             p \in [irr : SUBSET (0 .. 15), isr : SUBSET (0 .. 15), imr : SUBSET (0 .. 15)]
      PROVE  \A l \in Lines \ pic'.imr : IrqVector(l) \in Registered
  <2> SUFFICES ASSUME NEW l \in Lines \ pic'.imr PROVE IrqVector(l) \in Registered
    OBVIOUS
  <2> DEFINE above == {v \in registered : controlLevel(v) > level}
  <2>1. pic'.imr = pic.imr \ MaskedLines(above)
    BY <1>3 DEF FwLowerControlLevel
  <2>2. CASE l \notin pic.imr
    BY <2>2 DEF Known
  <2>3. CASE l \in MaskedLines(above)
    <3>1. l = 8 /\ IrqVector(8) \in above
      BY <1>0, <2>3, MaskedLine8 DEF TypeOK
    <3> QED
      BY <1>0, <3>1
  <2> QED
    BY <2>1, <2>2, <2>3
<1>4. CASE FwInitialize \/ KiInitialize \/ HalEnableSignals
  BY <1>4 DEF Known, FwInitialize, PicRemap, KiInitialize, HalEnableSignals
<1>5. CASE LowerToPassive
  BY <1>0, <1>3, <1>5 DEF Known, LowerToPassive, TypeOK
<1>6. CASE FwBeginSignal
  <2>1. pic.imr \subseteq pic'.imr
    BY <1>0, <1>6 DEF FwBeginSignal, FwRaiseControlLevel, TypeOK
  <2> QED
    BY <1>1, <1>6, <2>1 DEF Known, FwBeginSignal
<1>7. CASE KiSignalInvoke
  BY <1>1, <1>7 DEF Known, KiSignalInvoke
<1>8. CASE FwEmergency
  BY <1>8 DEF Known, FwEmergency
<1>9. CASE FwEndSignal
  <2>1. PICK p : /\ p \in [irr : SUBSET (0 .. 15), isr : SUBSET (0 .. 15), imr : SUBSET (0 .. 15)]
                 /\ p.imr = pic.imr /\ FwLowerControlLevel(p, context.prev)
    BY <1>0, <1>9, EndOfInterrupt DEF FwEndSignal, TypeOK
  <2> QED
    BY <1>1, <1>3, <1>9, <2>1 DEF Known, FwEndSignal
<1>10. CASE InterruptReturn
  <2>1. /\ Len(frames') = Len(frames) - 1 /\ Len(frames) \in Nat \ {0}
        /\ \A i \in 1 .. Len(frames) - 1 : frames'[i] = frames[i]
    BY <1>0, <1>10, Popped DEF InterruptReturn
  <2> QED
    BY <1>10, <2>1 DEF Known, InterruptReturn
<1>11. ASSUME NEW l \in Lines, Accept(l) PROVE Known'
  <2>1. IrqVector(l) \in Registered
    BY <1>11 DEF Known, Accept, FirstDeliverable, Deliverable
  <2>2. pic'.imr = pic.imr /\ Enter(IrqVector(l))
    BY <1>0, <1>11 DEF Accept, TypeOK
  <2> QED
    BY <1>2, <2>1, <2>2 DEF Known, Expected
<1>12. ASSUME NEW v \in Traps \cup Faults, Trap(v) \/ Fault(v) PROVE Known'
  <2>1. v \in Expected
    BY TrapVectors DEF Expected
  <2>2. Enter(v) /\ pic' = pic
    BY <1>12 DEF Trap, Fault
  <2> QED
    BY <1>2, <2>1, <2>2 DEF Known
<1>13. ASSUME NEW l \in Lines, Raise(l) PROVE Known'
  BY <1>0, <1>13 DEF Known, Raise, TypeOK
<1>14. CASE UNCHANGED vars
  BY <1>14 DEF Known, vars
<1>15. CASE Lose
  BY <1>15 DEF Known, Lose
<1>16. ASSUME NEW l \in Spurious, SpuriousInterrupt(l) PROVE Known'
  <2>1. IrqVector(l) \in Expected
    BY DEF Expected, SpuriousVectors
  <2>2. pic'.imr = pic.imr /\ Enter(IrqVector(l))
    BY <1>0, <1>16 DEF SpuriousInterrupt, TypeOK
  <2> QED
    BY <1>2, <2>1, <2>2 DEF Known
<1> QED
  BY <1>15, <1>16, <1>4, <1>5, <1>6, <1>7, <1>8, <1>9, <1>10, <1>11, <1>12, <1>13, <1>14
     DEF Next, Processor, Boot, Handle

\* If the firmware masked every line without a signal, no line that a device
\* raises and no software interrupt finds a Null signal or context, whatever is
\* registered: PicRemap keeps those masks, no level opens them, and signals come
\* on after KiInitialize.  An exception that goes through Null, before or after
\* it, is one that has no signal.
THEOREM LinesFound ==
  ASSUME FirmwareMasks
  PROVE  Spec => []NoLineLost
<1>1. Init => Known
  BY EmptySeq DEF Init, Known, FirmwareMasks
<1>2. OneHandler /\ Known => NoLineLost
  <2> SUFFICES ASSUME OneHandler, Known, Lost
               PROVE  Top.vector \in (Exceptions \ registered) \cup SpuriousVectors
    BY DEF NoLineLost, SpuriousVectors
  <2>1. frames # <<>> /\ frames \in Seq(Frames) /\ TypeOK /\ Main /\ Stack
    BY DEF Lost, Running, OneHandler, TypeOK, Frames
  <2>2. Len(frames) \in 1 .. Len(frames) /\ Top = frames[Len(frames)] /\ Len(frames) \in Nat
    BY <2>1, EmptySeq DEF Top
  <2>3. Top.vector \in Expected
    BY <2>2 DEF Known
  <2>4. CASE registered = Registered /\ context.ready
    <3>1. Top.vector \notin Registered
      BY <2>4 DEF Lost
    <3> QED
      BY <2>3, <2>4, <3>1, FaultVectors DEF Expected
  <2>5. CASE boot \in {"firmware", "kernel"}
    <3>1. registered = {} /\ frames[1].vector \in Faults
      BY <2>1, <2>5 DEF Main, Stack
    <3>2. Top.vector \in Faults
      <4>1. Len(frames) <= 2
        BY <2>1 DEF Stack
      <4>2. Len(frames) = 1 \/ Len(frames) = 2
        <5>1. \A n \in Nat : n \in 1 .. n /\ n <= 2 => n = 1 \/ n = 2
          OBVIOUS
        <5> QED
          BY <2>2, <4>1, <5>1
      <4> QED
        BY <2>1, <2>2, <3>1, <4>2 DEF Stack
    <3> QED
      BY <3>1, <3>2, FaultVectors
  <2> QED
    BY <2>1, <2>4, <2>5 DEF TypeOK, Main
<1>3. OneHandler /\ Known /\ [Next]_vars => Known'
  BY KnownStep
<1> QED
  BY <1>1, <1>2, <1>3, OneHandlerAlways, PTL DEF Spec

-------------------------------------------------------------------------------
(* What is in service *)

\* FwEndSignal acknowledges the vectors up to 0x28 and no others: the firmware
\* has masked the lines behind line 8, or no device raises them.
Acknowledged == \A l \in Lines \ FirmwareMask : l <= 8

Software == {Breakpoint, Shedule} \cup Fatal \cup Exceptions

\* the vectors of lines that FwEndSignal may have to acknowledge
LineVectors == {IrqVector(l) : l \in (0 .. 8) \ Spurious}

\* the lines that a handler keeps in service
InService(f) == IF f.vector - IRQ_START \in 0 .. 15 /\ f.pc # "return"
                THEN Served(f.vector - IRQ_START) ELSE {}

\* The lowest handler's line is in service, and no other.
Service ==
  /\ \A l \in Lines \ pic.imr : l <= 8
  /\ frames = <<>> => pic.isr = {}
  /\ frames # <<>> => /\ frames[1].vector \in LineVectors \cup Software \cup SpuriousVectors
                      /\ pic.isr = InService(frames[1])

\* Which vectors are lines, and which of these are acknowledged.
LEMMA LinesAndSoftware ==
  /\ \A v \in LineVectors : /\ v \in PicVectors /\ v - IRQ_START \in (0 .. 8) \ Spurious
                            /\ v \in Vectors
  /\ \A v \in Software : v \in Vectors /\ v - IRQ_START \notin 0 .. 15 /\ v \notin PicVectors
  /\ \A v \in SpuriousVectors : v - IRQ_START \in 0 .. 15 /\ v - IRQ_START \in Spurious
<1>1. \A v \in LineVectors : /\ v \in PicVectors /\ v - IRQ_START \in (0 .. 8) \ Spurious
                             /\ v \in Vectors
  BY DEF LineVectors, IrqVector, IRQ_START, PicVectors, Vectors
<1>2. \A v \in Software : v \in Vectors /\ v - IRQ_START \notin 0 .. 15 /\ v \notin PicVectors
  BY DEF Software, Breakpoint, Shedule, Fatal, SystemCall, Exceptions, IRQ_START, PicVectors,
         Vectors
<1>3. \A v \in SpuriousVectors : v - IRQ_START \in 0 .. 15 /\ v - IRQ_START \in Spurious
  BY SignalsAssumption DEF SpuriousVectors, IrqVector, IRQ_START
<1> QED
  BY <1>1, <1>2, <1>3

\* An end of interrupt at a controller without lines in service changes
\* nothing, and at one with a single line retires that.
LEMMA RetireOne ==
  ASSUME NEW lines, NEW isr, NEW l \in Nat
  PROVE  /\ lines \cap isr = {} => Retire(lines, isr) = isr
         /\ lines \cap isr = {l} => Retire(lines, isr) = isr \ {l}
<1>1. lines \cap isr = {} => Retire(lines, isr) = isr
  BY DEF Retire
<1>2. Min({l}) = l
  <2>1. l \in {l} /\ \A y \in {l} : l <= y
    OBVIOUS
  <2>2. \A x \in {l} : x = l
    OBVIOUS
  <2> QED
    BY <2>1, <2>2 DEF Min
<1>3. ASSUME lines \cap isr = {l} PROVE Retire(lines, isr) = isr \ {l}
  <2>1. Retire(lines, isr) = isr \ {k \in {l} : k = Min({l})}
    BY <1>3 DEF Retire
  <2> QED
    BY <2>1, <1>2
<1> QED
  BY <1>1, <1>3

\* PicSendEoi retires what its vector's line brought into service, in both
\* controllers where both take part.
LEMMA EoiRetiresServed ==
  ASSUME NEW v \in LineVectors,
         NEW p \in [irr : SUBSET (0 .. 15), isr : SUBSET (0 .. 15), imr : SUBSET (0 .. 15)],
         p.isr = Served(v - IRQ_START)
  PROVE  PicSendEoi(p, v).isr = {}
<1> DEFINE l == v - IRQ_START
<1>1. l \in 0 .. 8 /\ v >= 8 /\ l \in Nat /\ l \notin Spurious
  BY DEF LineVectors, IrqVector, IRQ_START
<1>2. PicSendEoi(p, v).isr = Retire(Master, Retire(Slave, p.isr))
  BY <1>1 DEF PicSendEoi
<1> HIDE DEF l
<1>3. CASE l = 8
  <2>1. p.isr = {8, 2}
    BY <1>1, <1>3 DEF Served, Slave, Cascade, l
  <2>2. Retire(Slave, {8, 2}) = {2}
    <3>1. Slave \cap {8, 2} = {8}
      BY DEF Slave
    <3>2. Retire(Slave, {8, 2}) = {8, 2} \ {8}
      BY <3>1, RetireOne
    <3> QED
      BY <3>2
  <2>3. Retire(Master, {2}) = {}
    <3>1. Master \cap {2} = {2}
      BY DEF Master
    <3>2. Retire(Master, {2}) = {2} \ {2}
      BY <3>1, RetireOne
    <3> QED
      BY <3>2
  <2> QED
    BY <1>2, <2>1, <2>2, <2>3
<1>4. CASE l # 8
  <2>1. l \in Master /\ l \notin Slave
    BY <1>1, <1>4 DEF Master, Slave
  <2>2. p.isr = {l}
    BY <1>1, <2>1 DEF Served, l
  <2>3. Retire(Slave, {l}) = {l}
    <3>1. Slave \cap {l} = {}
      BY <2>1
    <3> QED
      BY <1>1, <3>1, RetireOne
  <2>4. Retire(Master, {l}) = {}
    <3>1. Master \cap {l} = {l}
      BY <2>1
    <3>2. Retire(Master, {l}) = {l} \ {l}
      BY <1>1, <3>1, RetireOne
    <3> QED
      BY <3>2
  <2> QED
    BY <1>2, <2>2, <2>3, <2>4
<1> QED
  BY <1>3, <1>4

\* Where a handler goes on, the lowest keeps its vector, and its pc where
\* another is above it.
LEMMA AdvanceLowest ==
  ASSUME OneHandler, NEW from, Running(from), NEW pc \in {"begin", "invoke", "end", "return"},
         Advance(pc)
  PROVE  /\ frames # <<>> /\ frames' # <<>>
         /\ frames'[1].vector = frames[1].vector
         /\ \/ frames'[1].pc = frames[1].pc /\ Len(frames) = 2
            \/ frames'[1].pc = pc /\ frames[1].pc = from /\ Top = frames[1]
<1>1. TypeOK /\ Stack
  BY DEF OneHandler
<1>2. /\ Len(frames') = Len(frames) /\ Len(frames) \in Nat \ {0} /\ Top \in Frames
      /\ \A i \in 1 .. Len(frames) - 1 : frames'[i] = frames[i]
      /\ frames'[Len(frames)] = [Top EXCEPT !.pc = pc]
  BY <1>1, Advanced
<1>3. Len(frames) \in 1 .. 2 /\ frames # <<>> /\ frames' # <<>>
  BY <1>1, <1>2 DEF Stack, Running
<1>4. CASE Len(frames) = 1
  <2>1. Top = frames[1] /\ frames'[1] = [frames[1] EXCEPT !.pc = pc] /\ frames[1] \in Frames
    BY <1>2, <1>4 DEF Top
  <2>2. frames'[1].vector = frames[1].vector /\ frames'[1].pc = pc
    BY <2>1 DEF Frames
  <2> QED
    BY <1>3, <2>1, <2>2 DEF Running
<1>5. CASE Len(frames) = 2
  <2>1. frames'[1] = frames[1]
    BY <1>2, <1>5
  <2> QED
    BY <1>3, <1>5, <2>1
<1> QED
  BY <1>3, <1>4, <1>5

\* Every step keeps what is in service at that of the lowest handler.
LEMMA ServiceStep ==
  ASSUME OneHandler, Service, [Next]_vars
  PROVE  Service'
<1>0. TypeOK /\ Main /\ Stack /\ frames \in Seq(Frames)
      /\ pic \in [irr : SUBSET (0 .. 15), isr : SUBSET (0 .. 15), imr : SUBSET (0 .. 15)]
  BY DEF OneHandler, TypeOK, Frames
<1>1. ASSUME NEW from \in {"begin", "invoke"}, Running(from), NEW pc \in {"invoke", "end"},
             Advance(pc), pic'.isr = pic.isr, pic.imr \subseteq pic'.imr
      PROVE  Service'
  <2>1. /\ frames # <<>> /\ frames' # <<>>
        /\ frames'[1].vector = frames[1].vector
        /\ frames'[1].pc # "return" <=> frames[1].pc # "return"
    BY <1>1, AdvanceLowest
  <2>2. InService(frames[1])' = InService(frames[1])
    BY <2>1 DEF InService
  <2> QED
    BY <1>1, <2>1, <2>2 DEF Service
<1>2. ASSUME NEW v \in Vectors, Enter(v), pic'.imr = pic.imr,
             \/ /\ v \in LineVectors \cup SpuriousVectors /\ frames = <<>>
                /\ pic'.isr = pic.isr \cup Served(v - IRQ_START)
             \/ v \in Software /\ pic'.isr = pic.isr
      PROVE  Service'
  <2>1. /\ Len(frames') = Len(frames) + 1 /\ Len(frames) \in Nat
        /\ \A i \in 1 .. Len(frames) : frames'[i] = frames[i]
        /\ frames'[Len(frames) + 1] = [vector |-> v, pc |-> "begin", saved |-> enabled]
    BY <1>0, <1>2, Pushed
  <2>2. frames' # <<>>
    BY <2>1
  <2>3. CASE frames = <<>>
    <3>1. frames'[1].vector = v /\ frames'[1].pc = "begin"
      BY <2>1, <2>3
    <3>2. pic.isr = {}
      BY <2>3 DEF Service
    <3>3. v \in LineVectors \cup SpuriousVectors => v - IRQ_START \in 0 .. 15
      BY LinesAndSoftware
    <3>4. v \in Software => v - IRQ_START \notin 0 .. 15
      BY LinesAndSoftware
    <3>5. pic'.isr = InService(frames[1])'
      BY <1>2, <3>1, <3>2, <3>3, <3>4 DEF InService
    <3> QED
      BY <1>2, <2>2, <3>1, <3>5 DEF Service
  <2>4. CASE frames # <<>>
    <3>1. frames'[1] = frames[1] /\ pic'.isr = pic.isr
      BY <1>2, <2>1, <2>4
    <3> QED
      BY <1>2, <2>2, <2>4, <3>1 DEF Service, InService
  <2> QED
    BY <2>3, <2>4
<1>3. ASSUME NEW p, FwLowerControlLevel(p, CL_PASSIVE), p.imr = pic.imr,
             p \in [irr : SUBSET (0 .. 15), isr : SUBSET (0 .. 15), imr : SUBSET (0 .. 15)]
      PROVE  /\ \A l \in Lines \ pic'.imr : l <= 8
             /\ pic'.isr = p.isr
  <2>1. PICK above : pic' = [p EXCEPT !.imr = @ \ MaskedLines(above)]
    BY <1>3 DEF FwLowerControlLevel
  <2>2. \A l \in MaskedLines(above) : l <= 8
    BY <1>0, MaskedLine8 DEF TypeOK
  <2> QED
    BY <1>3, <2>1, <2>2 DEF Service
<1>4. CASE FwInitialize
  BY <1>4, <1>0 DEF Service, FwInitialize, PicRemap, Booting
<1>5. CASE KiInitialize \/ HalEnableSignals
  BY <1>5 DEF Service, InService, KiInitialize, HalEnableSignals
<1>6. CASE LowerToPassive
  <2>1. FwLowerControlLevel(pic, CL_PASSIVE) /\ frames' = frames
    BY <1>6 DEF LowerToPassive
  <2>2. /\ \A l \in Lines \ pic'.imr : l <= 8
        /\ pic'.isr = pic.isr
    BY <1>0, <1>3, <2>1
  <2> QED
    BY <2>1, <2>2 DEF Service, InService
<1>7. CASE FwBeginSignal
  <2>1. /\ Running("begin") /\ Advance("invoke")
        /\ pic'.isr = pic.isr /\ pic.imr \subseteq pic'.imr
    BY <1>0, <1>7 DEF FwBeginSignal, FwRaiseControlLevel
  <2> QED
    BY <1>1, <2>1
<1>8. CASE KiSignalInvoke
  <2>1. Running("invoke") /\ Advance("end") /\ pic' = pic
    BY <1>8 DEF KiSignalInvoke
  <2> QED
    BY <1>1, <2>1
<1>9. CASE FwEmergency
  BY <1>9 DEF FwEmergency, Service, InService
<1>10. CASE FwEndSignal
  <2> DEFINE p == IF Top.vector \in PicVectors THEN PicSendEoi(pic, Top.vector) ELSE pic
  <2>1. Running("end") /\ Advance("return") /\ FwLowerControlLevel(p, context.prev)
    BY <1>10 DEF FwEndSignal
  <2>2. Len(frames) = 1 /\ boot = "idle" /\ Top.vector \in Registered
    <3>1. Len(frames) = 1 /\ Top = frames[1] /\ boot = "idle"
      BY <2>1, EndsAlone
    <3> QED
      BY <1>0, <2>1, <3>1 DEF Stack, Running
  <2>3. /\ frames # <<>> /\ frames' # <<>> /\ frames'[1].vector = frames[1].vector
        /\ frames'[1].pc = "return" /\ frames[1].pc = "end" /\ Top = frames[1]
    BY <2>1, <2>2, AdvanceLowest
  <2>4. Top.vector \in LineVectors \cup Software
    BY <2>2, <2>3, FaultVectors DEF Service
  <2>5. context.prev = CL_PASSIVE
    BY <2>2, <2>3 DEF OneHandler, Handler
  <2>6. /\ p \in [irr : SUBSET (0 .. 15), isr : SUBSET (0 .. 15), imr : SUBSET (0 .. 15)]
        /\ p.imr = pic.imr
    BY <1>0, EndOfInterrupt
  <2>7. p.isr = {}
    <3>1. pic.isr = InService(frames[1])
      BY <2>3 DEF Service
    <3>2. CASE Top.vector \in LineVectors
      <4>1. Top.vector \in PicVectors /\ Top.vector - IRQ_START \in 0 .. 15
        BY <3>2, LinesAndSoftware
      <4>2. pic.isr = Served(Top.vector - IRQ_START)
        BY <2>3, <3>1, <4>1 DEF InService
      <4> QED
        BY <1>0, <3>2, <4>1, <4>2, EoiRetiresServed
    <3>3. CASE Top.vector \in Software
      BY <2>3, <3>1, <3>3, LinesAndSoftware DEF InService
    <3> QED
      BY <2>4, <3>2, <3>3
  <2> HIDE DEF p
  <2>8. FwLowerControlLevel(p, CL_PASSIVE)
    BY <2>1, <2>5
  <2>9. /\ \A l \in Lines \ pic'.imr : l <= 8
        /\ pic'.isr = {}
    BY <1>3, <2>6, <2>7, <2>8
  <2>10. InService(frames[1])' = {}
    BY <2>3 DEF InService
  <2> QED
    BY <2>3, <2>9, <2>10 DEF Service
<1>11. CASE InterruptReturn
  <2>1. Running("return") /\ pic' = pic
    BY <1>11 DEF InterruptReturn
  <2>2. Len(frames) = 1 /\ Top = frames[1] /\ frames # <<>>
    BY <2>1, EndsAlone DEF Running
  <2>3. frames' = <<>>
    <3>1. frames' \in Seq(Frames) /\ Len(frames') = Len(frames) - 1
      BY <1>0, <1>11, <2>1, Popped
    <3> QED
      BY <2>2, <3>1, EmptySeq
  <2>4. pic.isr = {}
    BY <2>1, <2>2 DEF Service, InService, Running
  <2> QED
    BY <2>1, <2>3, <2>4 DEF Service
<1>12. ASSUME NEW l \in Lines, Accept(l) PROVE Service'
  <2>1. l \in (0 .. 8) \ Spurious
    BY <1>12, SignalsAssumption DEF Service, Accept, FirstDeliverable, Deliverable
  <2>2. IrqVector(l) \in LineVectors /\ IrqVector(l) \in Vectors /\ IrqVector(l) - IRQ_START = l
    BY <2>1, LinesAndSoftware DEF LineVectors, IrqVector, IRQ_START
  <2>3. frames = <<>> /\ Enter(IrqVector(l))
    BY <1>12, EnabledInMain DEF Accept
  <2>4. pic'.imr = pic.imr /\ pic'.isr = pic.isr \cup Served(l)
    BY <1>0, <1>12 DEF Accept
  <2> QED
    BY <1>2, <2>2, <2>3, <2>4
<1>13. ASSUME NEW v \in Traps \cup Faults, Trap(v) \/ Fault(v) PROVE Service'
  <2>1. v \in Software
    BY SignalsAssumption DEF Fatal, Software
  <2>2. Enter(v) /\ pic' = pic
    BY <1>13 DEF Trap, Fault
  <2> QED
    BY <1>2, <2>1, <2>2, LinesAndSoftware
<1>16. CASE Lose
  BY <1>16 DEF Service, InService, Lose
<1>17. ASSUME NEW l \in Spurious, SpuriousInterrupt(l) PROVE Service'
  <2>1. /\ IrqVector(l) \in SpuriousVectors /\ IrqVector(l) \in Vectors
        /\ IrqVector(l) - IRQ_START = l
    BY FaultVectors, SignalsAssumption DEF SpuriousVectors, IrqVector, IRQ_START
  <2>2. frames = <<>> /\ Enter(IrqVector(l))
    BY <1>17, EnabledInMain DEF SpuriousInterrupt
  <2>3. pic'.imr = pic.imr /\ pic'.isr = pic.isr \cup Served(l)
    BY <1>0, <1>17 DEF SpuriousInterrupt
  <2> QED
    BY <1>2, <2>1, <2>2, <2>3
<1>14. ASSUME NEW l \in Lines, Raise(l) PROVE Service'
  <2>1. frames' = frames /\ pic'.isr = pic.isr /\ pic'.imr = pic.imr
    BY <1>0, <1>14 DEF Raise
  <2> QED
    BY <2>1 DEF Service, InService
<1>15. CASE UNCHANGED vars
  BY <1>15 DEF Service, InService, vars
<1> QED
  BY <1>4, <1>5, <1>6, <1>7, <1>8, <1>9, <1>10, <1>11, <1>12, <1>13, <1>14, <1>15, <1>16, <1>17
     DEF Next, Processor, Boot, Handle

\* The lowest handler is the only one that can be an interrupt's.
LEMMA ServiceOfLowest == ASSUME OneHandler, Service PROVE ServiceMatchesHandlers
<1> DEFINE Handlers == {j \in DOMAIN frames :
                          /\ frames[j].vector - IRQ_START \in 0 .. 15
                          /\ frames[j].pc # "return"}
           Lowest(i) == Served(frames[i].vector - IRQ_START)
<1>1. frames \in Seq(Frames) /\ Len(frames) \in Nat /\ Len(frames) <= 2
      /\ DOMAIN frames = 1 .. Len(frames)
  BY DEF OneHandler, TypeOK, Frames, Stack
<1>2. \A v \in Software : v - IRQ_START \notin 0 .. 15
  BY LinesAndSoftware
<1>4. CASE frames = <<>>
  <2>1. Handlers = {}
    BY <1>4
  <2>2. pic.isr = {}
    BY <1>4 DEF Service
  <2> QED
    BY <2>1, <2>2 DEF ServiceMatchesHandlers
<1>5. CASE frames # <<>>
  <2>1. 1 \in DOMAIN frames
    BY <1>1, <1>5, EmptySeq
  <2>2. \A j \in Handlers : j = 1
    <3>1. \A j \in DOMAIN frames : j = 1 \/ (j = 2 /\ Len(frames) = 2)
      BY <1>1
    <3>2. Len(frames) = 2 => frames[2].vector \in Software
      BY FaultVectors DEF OneHandler, Stack, Software
    <3> QED
      BY <1>2, <3>1, <3>2
  <2>3. pic.isr = InService(frames[1])
    BY <1>5 DEF Service
  <2>4. CASE frames[1].vector - IRQ_START \in 0 .. 15 /\ frames[1].pc # "return"
    <3>1. Handlers = {1}
      BY <2>1, <2>2, <2>4
    <3>2. UNION {Lowest(i) : i \in Handlers} = Lowest(1)
      <4> HIDE DEF Handlers, Lowest
      <4> QED
        BY <3>1
    <3> QED
      BY <2>3, <2>4, <3>2 DEF ServiceMatchesHandlers, InService
  <2>5. CASE ~(frames[1].vector - IRQ_START \in 0 .. 15 /\ frames[1].pc # "return")
    <3>1. Handlers = {}
      BY <2>2, <2>5
    <3> QED
      BY <2>3, <2>5, <3>1 DEF ServiceMatchesHandlers, InService
  <2> QED
    BY <2>4, <2>5
<1> QED
  BY <1>4, <1>5

\* Where no line behind line 8 is open, a line is in service exactly while its
\* handler has not come to FwEndSignal, for any drivers, any masks of the
\* firmware and either meaning of 1 << 32: what PicSendEoi retires blindly, the
\* first line in service at each controller, is the line of the handler.
THEOREM ServiceExact ==
  ASSUME Acknowledged
  PROVE  Spec => []ServiceMatchesHandlers
<1>1. Init => Service
  BY DEF Init, Service, Acknowledged
<1>2. OneHandler /\ Service /\ [Next]_vars => Service'
  BY ServiceStep
<1>3. OneHandler /\ Service => ServiceMatchesHandlers
  BY ServiceOfLowest
<1> QED
  BY <1>1, <1>2, <1>3, OneHandlerAlways, PTL DEF Spec
===============================================================================
