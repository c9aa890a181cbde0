------------------------------- MODULE Executive -------------------------------
(***************************************************************************)
(* The objects that KeInitialize (ke/base.c) creates once there is a heap,  *)
(* and the calls that work on them: the registry of namespaces             *)
(* (cm/base.c), the threads (ps/base.c), the signals and those that listen *)
(* to them (ki/base.c), with the constructors of ob/base.c.                *)
(*                                                                         *)
(* A name is the literal its caller passes: literals of equal text are     *)
(* different ones.  One call is one step, except KiSignalInvoke, which     *)
(* calls itself for each listener.  While it runs an interrupt may invoke  *)
(* a signal of its own, and add or remove listeners, on the same stack.    *)
(***************************************************************************)
EXTENDS Integers, Sequences, FiniteSets, Functions, SequencesExt

CONSTANTS
  Literals,      \* name literals in the program, "ROOT" and "Ps" among them
  Written,       \* the text the source gives to each literal
  Signals,       \* signals that take part, those of drivers
  Locks,         \* signals created with lock = true
  Silent,        \* signals created with the function Null
  Objects,       \* what drivers register
  Pointer,       \* sizeof(UIntPtr)
  StackDepth,    \* calls of KiSignalInvoke that the stack holds
  MaxObjects,    \* bound: elements of a vector, before it grows (module Ob)
  MaxListeners,  \* bound: listeners, over all signals
  MaxCalls       \* bound: calls begun by main and by interrupts

ASSUME ExecutiveAssumption ==
  /\ {"ROOT", "Ps"} \subseteq Literals
  /\ Written \in [Literals -> STRING] /\ "" \notin Range(Written)
  /\ IsFiniteSet(Signals) /\ Locks \subseteq Signals /\ Silent \subseteq Signals
  /\ Pointer \in Nat \ {0}
  /\ StackDepth \in Nat /\ StackDepth >= 2 * Cardinality(Signals)
  /\ MaxObjects \in Nat /\ MaxObjects < 9
  /\ MaxListeners \in Nat /\ MaxCalls \in Nat

VARIABLES
  pc,          \* the call of KeInitialize that comes next; past the end, BmEntry
  created,     \* globals that are no longer Null
  missing,     \* globals that were followed while they were Null
  Registry,    \* what each literal holds, the namespaces of the root, and as
               \* a history the names given to namespaces and the objects
               \* registered under a name after that
  listeners,   \* per signal: its vector of listeners
  monitors,    \* signals whose monitor is entered
  stack,       \* calls of KiSignalInvoke in progress
  memory,      \* "sound"; "spoilt" by a stray copy; "overflow" of the stack
  halted,      \* FwStub or FwEmergency stopped the processor
  calls        \* bound: calls begun

kiVars == <<listeners, monitors, stack>>
vars == <<pc, created, missing, Registry, kiVars, memory, halted, calls>>

(* Definitions named Fault... are slips the code could contain at that      *)
(* place; each shows that a property below would notice (see the README).   *)

-------------------------------------------------------------------------------
(* Objects *)

Null == "Null"

ObCreateVector == [objects |-> <<>>, monitor |-> FALSE]

\* Enters and leaves the monitor, whoever had entered it.
ObVectorAdd(vector, object) ==
  [objects |-> Append(vector.objects, object), monitor |-> FALSE]

\* Where the object stands first, 0 for nowhere.
IndexIn(vector, object) ==
  SelectInSeq(vector.objects, LAMBDA o : o = object)

\* The vector keeps what it finds, and its monitor.
ObVectorRemove(vector, object) ==
  [vector EXCEPT !.monitor = IndexIn(vector, object) # 0]

\* It copies count - Pointer * i bytes, unsigned, over the object it found.
RemoveSpoils(vector, object) ==
  LET i == IndexIn(vector, object)
  IN  i # 0 /\ Len(vector.objects) # Pointer * i

\* memset clears the first characters of the new array, and memcpy copies
\* from it to the literal: both hold the empty string.  The function has no
\* return statement; as the project is built, without optimisation, its
\* caller finds the string in the register that still holds it.
ObCreateString(literal) == ""

ObCreateRegistry(literal) ==
  [string |-> ObCreateString(literal), objects |-> ObCreateVector]

-------------------------------------------------------------------------------
(* The registry, as functions of its state r *)

\* wstrcmp with one namespace after the other, up to the first that is equal
Named(r, name) ==
  {k \in DOMAIN r.spaces : r.spaces[k].string = r.text[name]}
First(r, name) == {k \in Named(r, name) : \A j \in Named(r, name) : k <= j}

WithNamespace(r, name) ==
  [r EXCEPT !.spaces = Append(@, ObCreateRegistry(name)),
            !.text[name] = "", !.named = @ \cup {name}]

\* vectors: for the first namespace of a name, if there is one
Replaced(r, vectors) ==
  [r EXCEPT !.spaces = [k \in DOMAIN @ |->
     IF k \in DOMAIN vectors THEN [@[k] EXCEPT !.objects = vectors[k]] ELSE @[k]]]

\* A name that no namespace has is passed over without a word.
WithObject(r, object, name) ==
  [Replaced(r, [k \in First(r, name) |-> ObVectorAdd(r.spaces[k].objects, object)])
     EXCEPT !.filed = IF name \in r.named THEN @ \cup {<<object, name>>} ELSE @]

WithoutObject(r, object, name) ==
  Replaced(r, [k \in First(r, name) |-> ObVectorRemove(r.spaces[k].objects, object)])

FaultCmRegisterGetNamespaceVector(name) ==     \* line 52 is missing
  LET last == {k \in Named(Registry, name) : \A j \in Named(Registry, name) : k >= j}
  IN  {Registry.spaces[k].objects : k \in last}

\* the vector, if there is one
CmRegisterGetNamespaceVector(name) ==
  {Registry.spaces[k].objects : k \in First(Registry, name)}

Runs == missing = {} /\ memory = "sound" /\ ~halted

\* A global that is Null is page 0, which is mapped: nothing is said of what
\* follows, and the model stops.
Follow(globals) == missing' = missing \cup (globals \ created)

CmRegisterNamespace(name) ==
  /\ Len(Registry.spaces) < MaxObjects
  /\ Follow({"Registry"})
  /\ Registry' = WithNamespace(Registry, name)
  /\ UNCHANGED <<pc, created, kiVars, memory, halted>>

CmRegisterObject(object, name) ==
  /\ \A k \in First(Registry, name) :
       Len(Registry.spaces[k].objects.objects) < MaxObjects
  /\ Follow({"Registry"})
  /\ Registry' = WithObject(Registry, object, name)
  /\ UNCHANGED <<pc, created, kiVars, memory, halted>>

CmUnregisterObject(object, name) ==
  /\ Follow({"Registry"})
  /\ Registry' = WithoutObject(Registry, object, name)
  /\ memory' = IF \E k \in First(Registry, name) :
                       RemoveSpoils(Registry.spaces[k].objects, object)
                 THEN "spoilt" ELSE "sound"
  /\ UNCHANGED <<pc, created, kiVars, halted>>

-------------------------------------------------------------------------------
(* Threads *)

\* The queue of threads, and the vector inside it, are objects of "Ps".
PsInitialize ==
  /\ Follow({"Registry"})
  /\ created' = created \cup {"ThreadCarousel", "Threads"}
  /\ Registry' =
       LET queue == WithObject(WithNamespace(Registry, "Ps"), "ThreadCarousel", "Ps")
       IN  WithObject(queue, "Threads", "Ps")
  /\ UNCHANGED <<kiVars, memory, halted>>

\* The queue that the threads of a process are pushed to.  Nothing takes one
\* out and nothing reads what PsThreadSuspend stores: they are left out.
PsAddProcess ==
  /\ Follow({"ThreadCarousel"})
  /\ UNCHANGED <<pc, created, Registry, kiVars, memory, halted>>

\* HalSetState is a stub, which stops the machine.
PsThreadExecute ==
  /\ halted' = TRUE
  /\ UNCHANGED <<pc, created, missing, Registry, kiVars, memory>>

-------------------------------------------------------------------------------
(* Signals and their listeners *)

Top == stack[Len(stack)]

\* The function of s, if it has one, is called before its listeners; what a
\* call has invoked so far is kept in its frame, as a history.
Frame(s, interrupt) ==
  [signal |-> s, i |-> 0, interrupt |-> interrupt, settled |-> TRUE,
   invoked |-> IF s \in Silent THEN <<>> ELSE <<s>>]

FaultCall(below, s, interrupt) ==              \* a monitor that waits
  /\ s \in Locks => s \notin monitors
  /\ stack' = Append(below, Frame(s, interrupt))
  /\ monitors' = IF s \in Locks THEN monitors \cup {s} ELSE monitors
  /\ memory' = IF Len(stack) = StackDepth THEN "overflow" ELSE "sound"

\* A call begins.  One too many writes below the stack.
Call(below, s, interrupt) ==
  /\ stack' = Append(below, Frame(s, interrupt))
  /\ monitors' = IF s \in Locks THEN monitors \cup {s} ELSE monitors
  /\ memory' = IF Len(stack) = StackDepth THEN "overflow" ELSE "sound"

KiSignalInvoke(s) ==
  /\ stack = <<>>
  /\ Call(stack, s, FALSE)
  /\ UNCHANGED <<pc, created, missing, Registry, listeners, halted>>

\* FwExecuteSignal on top of what main is in; the gate keeps a second one out
Interrupt(s) ==
  /\ stack # <<>> /\ \A n \in DOMAIN stack : ~stack[n].interrupt
  /\ Call(stack, s, TRUE)
  /\ UNCHANGED <<pc, created, missing, Registry, listeners, halted>>

FaultNextListener ==                           \* i is one for all calls
  /\ Runs /\ stack # <<>> /\ Top.i < Len(listeners[Top.signal].objects)
  /\ Call([n \in DOMAIN stack |-> [stack[n] EXCEPT !.i = Top.i + 1]],
          listeners[Top.signal].objects[Top.i + 1], FALSE)
  /\ UNCHANGED <<pc, created, missing, Registry, listeners, halted, calls>>

\* count is read again for every listener.
NextListener ==
  /\ Runs /\ stack # <<>> /\ Top.i < Len(listeners[Top.signal].objects)
  /\ Call([stack EXCEPT ![Len(stack)].i = @ + 1],
          listeners[Top.signal].objects[Top.i + 1], FALSE)
  /\ UNCHANGED <<pc, created, missing, Registry, listeners, halted, calls>>

AtEnd(frame) == frame.i = Len(listeners[frame.signal].objects)

\* The monitor is left, entered or not.
InvokeReturn ==
  /\ Runs /\ stack # <<>> /\ AtEnd(Top)
  /\ LET below == Front(stack) IN
     stack' = IF Top.interrupt \/ below = <<>> THEN below
              ELSE [below EXCEPT ![Len(below)].invoked = @ \o Top.invoked,
                                 ![Len(below)].settled = @ /\ Top.settled]
  /\ monitors' = monitors \ {Top.signal}
  /\ UNCHANGED <<pc, created, missing, Registry, listeners, memory, halted, calls>>

\* A call in progress is no longer settled: its listeners change under it.
Listeners(s, vector) ==
  /\ listeners' = [listeners EXCEPT ![s] = vector]
  /\ stack' = [n \in DOMAIN stack |-> [stack[n] EXCEPT !.settled = FALSE]]

KiSignalAddListener(s, source) ==
  /\ SumFunction([t \in Signals |-> Len(listeners[t].objects)]) < MaxListeners
  /\ Listeners(s, ObVectorAdd(listeners[s], source))
  /\ UNCHANGED <<pc, created, missing, Registry, monitors, memory, halted>>

KiSignalRemoveListener(s, source) ==
  /\ Listeners(s, ObVectorRemove(listeners[s], source))
  /\ memory' = IF RemoveSpoils(listeners[s], source) THEN "spoilt" ELSE "sound"
  /\ UNCHANGED <<pc, created, missing, Registry, monitors, halted>>

\* KiReshedule, KiSignalDefferExecute and KiSignalDeffer begin with KiDI.
KiSignalDeffer ==
  /\ Follow({"KiDI"})
  /\ UNCHANGED <<pc, created, Registry, kiVars, memory, halted>>

-------------------------------------------------------------------------------
(* KeInitialize *)

FaultKeInitialize ==                           \* lines 22 and 24 swapped
  <<"PsInitialize", "KiInitialize", "CmInitialize", "FwLowerControlLevel">>

\* lines 22 to 27: ObInitialize and BmInitialize are empty
KeInitialize ==
  <<"CmInitialize", "KiInitialize", "PsInitialize", "FwLowerControlLevel">>

Booting(call) ==
  /\ Runs /\ pc \in DOMAIN KeInitialize /\ KeInitialize[pc] = call
  /\ pc' = pc + 1
  /\ UNCHANGED calls

CmInitialize ==
  /\ Booting("CmInitialize")
  /\ created' = created \cup {"Registry"}
  /\ Registry' = [Registry EXCEPT !.text["ROOT"] = ObCreateString("ROOT")]
  /\ UNCHANGED <<missing, kiVars, memory, halted>>

\* The last of them, FwRepresentations, is what KiInitializeProcessor uses.
KiInitialize ==
  /\ Booting("KiInitialize")
  /\ created' = created \cup {"FwSignalHandler", "KiDPC", "KiKS", "FwRepresentations"}
  /\ UNCHANGED <<missing, Registry, kiVars, memory, halted>>

FwLowerControlLevel ==
  /\ Booting("FwLowerControlLevel")
  /\ Follow({"FwRepresentations"})
  /\ UNCHANGED <<created, Registry, kiVars, memory, halted>>

Boot ==
  CmInitialize \/ KiInitialize \/ (Booting("PsInitialize") /\ PsInitialize)
    \/ FwLowerControlLevel

Init ==
  /\ pc = 1 /\ created = {} /\ missing = {}
  /\ Registry = [text |-> Written, spaces |-> <<>>, named |-> {}, filed |-> {}]
  /\ listeners = [s \in Signals |-> ObCreateVector]
  /\ monitors = {} /\ stack = <<>>
  /\ memory = "sound" /\ halted = FALSE /\ calls = 0

\* What main calls once KeInitialize is through
Calls ==
  \/ \E l \in Literals : CmRegisterNamespace(l)
  \/ \E o \in Objects, l \in Literals : CmRegisterObject(o, l)
  \/ \E o \in Objects \cup {"Threads"}, l \in Literals : CmUnregisterObject(o, l)
  \/ PsAddProcess \/ PsThreadExecute
  \/ \E s \in Signals : KiSignalInvoke(s)
  \/ KiSignalDeffer

\* What an interrupt may do at any moment
Interrupts ==
  \E s \in Signals :
    \/ Interrupt(s)
    \/ \E t \in Signals : KiSignalAddListener(s, t) \/ KiSignalRemoveListener(s, t)

Begin ==
  /\ Runs /\ pc > Len(KeInitialize) /\ calls < MaxCalls
  /\ calls' = calls + 1
  /\ (stack = <<>> /\ Calls) \/ Interrupts

Next == Boot \/ NextListener \/ InvokeReturn \/ Begin

\* The processor goes on with a call that it is in.
Spec == Init /\ [][Next]_vars /\ WF_vars(NextListener \/ InvokeReturn)

-------------------------------------------------------------------------------
(* Properties.                                                             *)

\* Every global that a call follows was created by KeInitialize before, but
\* for KiDI, which nothing creates.
UsesWhatExists == missing \subseteq {"KiDI"}

\* The objects of ThreadCarousel, Threads and the drivers that were
\* registered under a name after it was given to a namespace are in the
\* vector that CmRegisterGetNamespaceVector finds under it, although
\* ObCreateString has overwritten the name with the empty string, as it has
\* those of all other namespaces; and a literal that was not given to a
\* namespace finds none, be its text that of one that was.
FoundUnderItsName ==
  /\ \A entry \in Registry.filed :
       \E v \in CmRegisterGetNamespaceVector(entry[2]) : entry[1] \in Range(v.objects)
  /\ \A name \in Literals \ (Registry.named \cup {"ROOT"}) :
       CmRegisterGetNamespaceVector(name) = {}

\* Signals that s invokes within n calls, depth first
DepthFirst[n \in Nat] ==
  [s \in Signals |->
     (IF s \in Silent THEN <<>> ELSE <<s>>) \o
     IF n = 0 THEN <<>>
     ELSE FlattenSeq([i \in DOMAIN listeners[s].objects |->
                        DepthFirst[n - 1][listeners[s].objects[i]]])]

\* A call of KiSignalInvoke whose listeners stayed as they were has, when it
\* returns, called the function of the signal and of everything that listens
\* to it, directly or not, depth first and as often as it listens, whatever
\* interrupts invoked in the meantime.
InvokesListeners ==
  stack # <<>> /\ Runs /\ AtEnd(Top) /\ Top.settled =>
    Top.invoked = DepthFirst[Cardinality(Signals)][Top.signal]

\* Signals reached from s by n listeners or less
Reached[n \in Nat] ==
  [s \in Signals |-> IF n = 0 THEN {}
     ELSE UNION {{t} \cup Reached[n - 1][t] : t \in Range(listeners[s].objects)}]
Cyclic == \E s \in Signals : s \in Reached[Cardinality(Signals)][s]

\* KiSignalInvoke comes back, and the stack is large enough, unless a signal
\* listens to itself through others: nothing looks for that.  A listener
\* that someone tried to remove, which spoils it, may keep it from returning.
InvokeReturns ==
  stack # <<>> ~> stack = <<>> \/ Cyclic \/ memory = "spoilt"
===============================================================================
