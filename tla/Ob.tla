---------------------------------- MODULE Ob ----------------------------------
(***************************************************************************)
(* A queue and the vector inside it, inuoskrnl/ob/base.c, as KiDPC is used *)
(* by inuoskrnl/ki/base.c: KiSignalShedule pushes a signal, KiReshedule    *)
(* lets KiSignalResolve pop and invoke all of them.                        *)
(*                                                                         *)
(* ObVectorAdd is a sequence of steps, in the order the source writes      *)
(* them.  As in module Pm a handler may push between any two steps of      *)
(* main once signals are enabled, and runs to completion.  Elements have   *)
(* the names 1, 2, ... in the order in which their pushes began.  What an  *)
(* array does to the chunks behind its own is not followed: the model ends *)
(* with the first element outside.                                         *)
(***************************************************************************)
EXTENDS Integers, Sequences, FiniteSets

CONSTANTS
  InitialSize,    \* VECTOR_INITIAL_SIZE
  Header,         \* sizeof(struct Array)
  Pointer,        \* sizeof(UIntPtr)
  BlockSize,      \* GA_BLOCK_SIZE: the heap gives whole blocks
  MaxPushes       \* bound: pushes begun

ASSUME ObAssumption ==
  /\ InitialSize \in Nat /\ InitialSize > 1
  /\ Header \in Nat /\ Pointer \in Nat \ {0} /\ BlockSize \in Nat \ {0}
  /\ MaxPushes \in Nat \ {0}

Context == {"main", "handler"}

VARIABLES
  vector,      \* count, allocated, and objects: the array
  monitors,    \* those of "queue" and "vector" that are entered
  frame,       \* per context: the call in progress
  signals,     \* whether signals are enabled
  memory,      \* "sound", or "spoilt": something was written where it must not
  pushed       \* history: the elements whose push has returned, in order

vars == <<vector, monitors, frame, signals, memory, pushed>>

(* Definitions named Fault... are slips the code could contain at that      *)
(* place; each shows that a property below would notice (see the README).   *)

-------------------------------------------------------------------------------
ATObject == 5

\* The switch of ObCreateArray: a type that is none leaves elementSize 0.
ElementSize(type) ==
  CASE type \in {0, 8}    -> 1          \* ATByte, ATBool
    [] type \in {1, 2}    -> 2          \* ATShort, ATChar
    [] type \in {3, 4, 5} -> 4          \* ATInt, ATFloat, ATObject
    [] type \in {6, 7}    -> 8          \* ATDouble, ATLong
    [] OTHER              -> 0

\* References that fit the chunk of an array; enum ArrayType is one byte.
Capacity(length, type) ==
  LET size   == Header + ElementSize(type % 256) * length
      blocks == (size + BlockSize - 1) \div BlockSize
  IN  (blocks * BlockSize - Header) \div Pointer

\* 0 stands for whatever a slot holds that nobody wrote.
Slots == 0 .. MaxPushes - 1

ObCreateArray(length, type) ==
  [capacity |-> Capacity(length, type), elements |-> [i \in Slots |-> 0]]

InitialArray == ObCreateArray(InitialSize, ATObject)

Idle == [pc |-> "idle", object |-> 0, new |-> InitialArray, index |-> 0]

\* main runs only while no handler is on the stack above it
At(c, pc) ==
  /\ memory = "sound"
  /\ frame[c].pc = pc
  /\ c = "main" => frame["handler"].pc = "idle"

Goto(c, pc) == frame' = [frame EXCEPT ![c].pc = pc]

\* ObCreateQueue
Init ==
  /\ vector = [count |-> 0, allocated |-> InitialSize, objects |-> InitialArray]
  /\ monitors = {}
  /\ frame = [c \in Context |-> Idle]
  /\ signals = FALSE /\ memory = "sound"
  /\ pushed = << >>

Pushing == {"check", "create", "copy", "switch", "double", "load", "count", "store", "leave"}
Begun == Len(pushed) + Cardinality({c \in Context : frame[c].pc \in Pushing})

\* ObQueuePush and ObVectorAdd enter their monitors, which keeps nobody out
\* (module Pm).
ObQueuePush(c) ==
  /\ At(c, "idle") /\ Begun < MaxPushes
  /\ monitors' = {"queue", "vector"}
  /\ frame' = [frame EXCEPT ![c] = [Idle EXCEPT !.pc = "check", !.object = Begun + 1]]
  /\ UNCHANGED <<vector, signals, memory, pushed>>

FaultCheck(c) ==                   \* count alone, and > for >=
  /\ At(c, "check")
  /\ Goto(c, IF vector.count > vector.allocated THEN "create" ELSE "load")
  /\ UNCHANGED <<vector, monitors, signals, memory, pushed>>

\* line 75
Check(c) ==
  /\ At(c, "check")
  /\ Goto(c, IF vector.count + 1 >= vector.allocated THEN "create" ELSE "load")
  /\ UNCHANGED <<vector, monitors, signals, memory, pushed>>

\* ObpVectorReallocate: line 151 has the arguments of ObCreateArray swapped.
Create(c) ==
  /\ At(c, "create")
  /\ frame' = [frame EXCEPT ![c].pc = "copy",
                            ![c].new = ObCreateArray(ATObject, vector.allocated * 2)]
  /\ UNCHANGED <<vector, monitors, signals, memory, pushed>>

CopyFirst(c, n) ==
  /\ At(c, "copy")
  /\ frame' = [frame EXCEPT ![c].pc = "switch",
                 ![c].new.elements = [i \in Slots |-> IF i < n THEN vector.objects.elements[i]
                                                               ELSE @[i]]]
  /\ memory' = IF n > frame[c].new.capacity THEN "spoilt" ELSE "sound"
  /\ UNCHANGED <<vector, monitors, signals, pushed>>

FaultCopy(c) == CopyFirst(c, vector.count - 1)

Copy(c) == CopyFirst(c, vector.count)

\* The old array stays allocated; only a call that is past this could know it.
Switch(c) ==
  /\ At(c, "switch")
  /\ vector' = [vector EXCEPT !.objects = frame[c].new]
  /\ Goto(c, "double")
  /\ UNCHANGED <<monitors, signals, memory, pushed>>

FaultDouble(c) ==                  \* line 155 is missing
  /\ At(c, "double")
  /\ Goto(c, "check")
  /\ UNCHANGED <<vector, monitors, signals, memory, pushed>>

Double(c) ==                       \* and back to the label Realloc
  /\ At(c, "double")
  /\ vector' = [vector EXCEPT !.allocated = @ * 2]
  /\ Goto(c, "check")
  /\ UNCHANGED <<monitors, signals, memory, pushed>>

\* line 79: count is read, written back, and the element stored
Load(c) ==
  /\ At(c, "load")
  /\ frame' = [frame EXCEPT ![c].pc = "count", ![c].index = vector.count]
  /\ UNCHANGED <<vector, monitors, signals, memory, pushed>>

Count(c) ==
  /\ At(c, "count")
  /\ vector' = [vector EXCEPT !.count = frame[c].index + 1]
  /\ Goto(c, "store")
  /\ UNCHANGED <<monitors, signals, memory, pushed>>

Store(c) ==
  /\ At(c, "store")
  /\ vector' = [vector EXCEPT !.objects.elements[frame[c].index] = frame[c].object]
  /\ memory' = IF frame[c].index >= vector.objects.capacity THEN "spoilt" ELSE "sound"
  /\ Goto(c, "leave")
  /\ UNCHANGED <<monitors, signals, pushed>>

\* The end of ObVectorAdd and of ObQueuePush.  Queue.last is left out: it is
\* counted up and down and read by nobody; Queue.first stays 0.
Leave(c) ==
  /\ At(c, "leave")
  /\ monitors' = {}
  /\ pushed' = Append(pushed, frame[c].object)
  /\ frame' = [frame EXCEPT ![c] = Idle]
  /\ UNCHANGED <<vector, signals, memory>>

-------------------------------------------------------------------------------
(* What is queued is invoked until ObQueuePop answers Null, with signals    *)
(* off: "INUNOINTERRUPT Void KiReshedule" (ki/api.h:22).                    *)

Resolving == frame["main"].pc \in {"pop", "remove"}

\* KiReshedule asks ObQueueEmpty first; KiSignalResolve itself does not.
KiSignalResolve ==
  /\ At("main", "idle")
  /\ Goto("main", "pop")
  /\ UNCHANGED <<vector, monitors, signals, memory, pushed>>

ObQueuePopNull ==
  /\ At("main", "pop") /\ vector.count = 0
  /\ monitors' = monitors \ {"queue"}
  /\ frame' = [frame EXCEPT !["main"] = Idle]
  /\ UNCHANGED <<vector, signals, memory, pushed>>

ObQueuePop ==
  /\ At("main", "pop") /\ vector.count > 0
  /\ monitors' = monitors \cup {"queue"}
  /\ frame' = [frame EXCEPT !["main"].pc = "remove",
                            !["main"].object = vector.objects.elements[0]]
  /\ UNCHANGED <<vector, signals, memory, pushed>>

\* ObVectorRemove finds the element at index 0 and returns, in its monitor.
\* It copies count - Pointer bytes, an unsigned number, over the object and
\* not over the slots: a negative one is most of the memory, a positive one
\* spoils the object.  The vector stays as it is.
ObVectorRemove ==
  /\ At("main", "remove")
  /\ vector.objects.elements[0] = frame["main"].object
  /\ memory' = IF vector.count = Pointer THEN "sound" ELSE "spoilt"
  /\ monitors' = {"vector"}            \* ObQueuePop leaves its own
  /\ Goto("main", "pop")               \* KiSignalInvoke, and round again
  /\ UNCHANGED <<vector, signals, pushed>>

-------------------------------------------------------------------------------
EnableSignals ==
  /\ ~signals /\ At("main", "idle")
  /\ signals' = TRUE
  /\ UNCHANGED <<vector, monitors, frame, memory, pushed>>

Continue(c) ==
  \/ Check(c) \/ Create(c) \/ Copy(c) \/ Switch(c) \/ Double(c)
  \/ Load(c) \/ Count(c) \/ Store(c) \/ Leave(c)

Main ==
  Continue("main") \/ ObQueuePopNull \/ ObQueuePop \/ ObVectorRemove

Next ==
  \/ ObQueuePush("main") \/ KiSignalResolve \/ Main
  \/ EnableSignals
  \/ signals /\ ~Resolving /\ ObQueuePush("handler")
  \/ Continue("handler")

\* The processor goes on with the handler, if there is one, or with main.
Spec ==
  Init /\ [][Next]_vars /\ WF_vars(Main) /\ WF_vars(Continue("handler"))

-------------------------------------------------------------------------------
Array == [capacity : Int, elements : [Slots -> Nat]]

\* Every variable keeps its type.
TypeOK ==
  /\ vector \in [count : Nat, allocated : Nat, objects : Array]
  /\ monitors \subseteq {"queue", "vector"}
  /\ frame \in [Context -> [pc : Pushing \cup {"idle", "pop", "remove"},
                            object : Nat, new : Array, index : Nat]]
  /\ signals \in BOOLEAN /\ memory \in {"sound", "spoilt"}
  /\ pushed \in Seq(Nat)

\* While signals are off, the queue holds what was pushed, in order, through
\* every reallocation, until something is written outside an array.
KeptInOrder ==
  ~signals /\ frame["main"].pc = "idle" /\ memory = "sound" =>
    /\ vector.count = Len(pushed)
    /\ \A i \in 0 .. vector.count - 1 : vector.objects.elements[i] = pushed[i + 1]

\* The loop from Realloc to line 78 ends, and so does every push of main,
\* although allocated and objects may change under it.
PushesReturn ==
  frame["main"].pc \in Pushing ~> frame["main"].pc = "idle" \/ memory = "spoilt"

\* ObVectorAdd compares once and stores later: whatever a handler pushes in
\* between, the slot it uses is below allocated.
SlotBelowAllocated ==
  \A c \in Context :
    frame[c].pc \in {"count", "store"} => frame[c].index < vector.allocated

\* "ObCreateArray(Int32 length, enum ArrayType type)" (ob/api.h:222): an array
\* has room for the elements that allocated promises.
ArrayHoldsAllocated ==
  (\A c \in Context : frame[c].pc = "idle") =>
    vector.allocated <= vector.objects.capacity
===============================================================================
