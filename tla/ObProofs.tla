------------------------------- MODULE ObProofs -------------------------------
(* Where ObVectorAdd stores, for every size of array and however a handler   *)
(* interrupts it.                                                           *)
EXTENDS Ob, FiniteSetTheorems, TLAPS

Arrays == [capacity : Int, elements : [Slots -> Nat]]

Pcs == Pushing \cup {"idle", "pop", "remove"}

\* As much of the types as the argument needs.
Shapes ==
  /\ vector \in [count : Nat, allocated : Nat, objects : Arrays]
  /\ frame \in [Context -> [pc : Pcs, object : Nat, new : Arrays, index : Nat]]
  /\ pushed \in Seq(Nat)

\* count may reach allocated when main has loaded it behind a handler's push;
\* the check before the next push then makes room.  Nobody comes between the
\* check of a handler and its store.
IInv ==
  /\ Shapes
  /\ vector.count <= vector.allocated
  /\ frame["main"].pc = "load" => vector.count < vector.allocated
  /\ frame["handler"].pc = "load" => vector.count + 1 < vector.allocated
  /\ frame["handler"].pc = "count" => frame["handler"].index + 1 < vector.allocated
  /\ SlotBelowAllocated

\* What ObCreateArray makes is an array.
LEMMA NewArray ==
  ASSUME NEW length \in Nat, NEW type \in Nat
  PROVE  ObCreateArray(length, type) \in Arrays
<1>1. ElementSize(type % 256) \in Nat
  BY DEF ElementSize
<1>2. ElementSize(type % 256) * length \in Nat
  BY <1>1
<1>3. (Header + ElementSize(type % 256) * length + BlockSize - 1) \div BlockSize \in Int
  BY <1>2, ObAssumption
<1>4. ((Header + ElementSize(type % 256) * length + BlockSize - 1) \div BlockSize)
        * BlockSize - Header \in Int
  BY <1>3, ObAssumption
<1>5. Capacity(length, type) \in Int
  BY <1>4, ObAssumption DEF Capacity
<1> QED BY <1>5 DEF ObCreateArray, Arrays

\* The queue as ObCreateQueue leaves it.
LEMMA Initially == Init => IInv
<1> SUFFICES ASSUME Init PROVE IInv
  OBVIOUS
<1>1. InitialArray \in Arrays
  BY NewArray, ObAssumption DEF InitialArray, ATObject
<1>2. Shapes
  BY <1>1, ObAssumption DEF Init, Shapes, Idle, Pcs
<1> QED BY <1>2, ObAssumption DEF Init, IInv, SlotBelowAllocated, Idle, Context

\* The pushes in progress are counted.
LEMMA PushersCounted == Cardinality({c \in Context : frame[c].pc \in Pushing}) \in Nat
<1>1. IsFiniteSet({"main"} \cup {"handler"})
  BY FS_Singleton, FS_Union
<1>2. Context = {"main"} \cup {"handler"}
  BY DEF Context
<1>3. IsFiniteSet(Context)
  BY <1>1, <1>2, Zenon
<1>4. IsFiniteSet({c \in Context : frame[c].pc \in Pushing})
  BY <1>3, FS_Subset
<1> QED BY <1>4, FS_CardinalityType

\* A push that begins has a name.
LEMMA BegunNat == ASSUME Shapes PROVE Begun \in Nat
<1>1. Len(pushed) \in Nat
  BY DEF Shapes
<1>2. \A i, j \in Nat : i + j \in Nat
  OBVIOUS
<1> QED BY <1>1, <1>2, PushersCounted, Zenon DEF Begun

Frames == [Context -> [pc : Pcs, object : Nat, new : Arrays, index : Nat]]

\* The frame and the array of a copy that is done.
LEMMA CopiedFrame ==
  ASSUME NEW f \in [pc : Pcs, object : Nat, new : Arrays, index : Nat],
         NEW k \in [Slots -> Nat]
  PROVE  LET g == [f EXCEPT !.pc = "switch", !.new.elements = k]
         IN  /\ g \in [pc : Pcs, object : Nat, new : Arrays, index : Nat]
             /\ g.pc = "switch" /\ g.index = f.index
<1> DEFINE a == [f.new EXCEPT !.elements = k]
<1>1. a \in Arrays
  BY DEF Arrays
<1>2. [f EXCEPT !.pc = "switch", !.new = a] = [f EXCEPT !.pc = "switch", !.new.elements = k]
  OBVIOUS
<1> HIDE DEF a
<1> QED BY <1>1, <1>2 DEF Pcs, Pushing

\* Goto changes one pc.
LEMMA Moved ==
  ASSUME frame \in Frames, NEW c \in Context, NEW pc \in Pcs, Goto(c, pc)
  PROVE  /\ frame' \in Frames
         /\ frame'[c].pc = pc /\ frame'[c].index = frame[c].index
         /\ \A d \in Context \ {c} : frame'[d] = frame[d]
BY DEF Goto, Frames

\* One step of a push, in either context.
LEMMA PushStep ==
  ASSUME IInv, NEW c \in Context, ObQueuePush(c) \/ Continue(c)
  PROVE  IInv'
<1> USE DEF IInv, At, SlotBelowAllocated
<1>0. /\ frame \in Frames
      /\ vector \in [count : Nat, allocated : Nat, objects : Arrays]
      /\ pushed \in Seq(Nat)
      /\ frame[c] \in [pc : Pcs, object : Nat, new : Arrays, index : Nat]
      /\ frame[c].index \in Nat /\ frame[c].object \in Nat /\ frame[c].new \in Arrays
      /\ vector.count \in Nat /\ vector.allocated \in Nat /\ vector.objects \in Arrays
  BY DEF Shapes, Frames
<1>1. CASE ObQueuePush(c)
  <2>1. Begun + 1 \in Nat /\ InitialArray \in Arrays
    BY BegunNat, NewArray, ObAssumption DEF InitialArray, ATObject
  <2>2. Shapes'
    BY <1>1, <2>1 DEF ObQueuePush, Idle, Shapes, Pcs, Pushing
  <2> QED BY <1>1, <2>2, <1>0 DEF ObQueuePush, Idle, Context, Frames
<1>2. CASE Check(c)
  <2> DEFINE pc == IF vector.count + 1 >= vector.allocated THEN "create" ELSE "load"
  <2>1. Goto(c, pc) /\ pc \in Pcs /\ vector' = vector /\ pushed' = pushed
    BY <1>2 DEF Check, Pcs, Pushing
  <2>2. pc = "load" => vector.count + 1 < vector.allocated
    BY <1>0
  <2> HIDE DEF pc
  <2>3. Shapes'
    BY <2>1, <1>0, Moved DEF Shapes, Frames
  <2>4. pc \in {"create", "load"}
    BY DEF pc
  <2> QED BY <2>1, <2>2, <2>3, <2>4, <1>0, Moved DEF Context
<1>3. CASE Create(c)
  <2>1. ObCreateArray(ATObject, vector.allocated * 2) \in Arrays
    BY NewArray, <1>0 DEF ATObject
  <2>2. Shapes'
    BY <1>3, <2>1, <1>0 DEF Create, Shapes, Pcs, Pushing
  <2> QED BY <1>3, <2>2, <1>0 DEF Create, Context, Frames
<1>4. CASE Copy(c)
  <2> DEFINE kept == [i \in Slots |-> IF i < vector.count THEN vector.objects.elements[i]
                                      ELSE frame[c].new.elements[i]]
  <2>1. kept \in [Slots -> Nat]
    BY <1>0 DEF Arrays, Frames
  <2>2. frame' = [frame EXCEPT ![c] = [frame[c] EXCEPT !.pc = "switch", !.new.elements = kept]]
          /\ vector' = vector /\ pushed' = pushed
    BY <1>4 DEF Copy, CopyFirst
  <2> HIDE DEF kept
  <2>3. /\ frame' \in Frames
        /\ frame'[c].pc = "switch" /\ frame'[c].index = frame[c].index
        /\ \A d \in Context \ {c} : frame'[d] = frame[d]
    <3> DEFINE f == [frame[c] EXCEPT !.pc = "switch", !.new.elements = kept]
    <3>1. /\ f \in [pc : Pcs, object : Nat, new : Arrays, index : Nat]
          /\ f.pc = "switch" /\ f.index = frame[c].index
      BY <2>1, <1>0, CopiedFrame
    <3>2. frame' = [frame EXCEPT ![c] = f]
      BY <2>2
    <3> HIDE DEF f
    <3> QED BY <3>1, <3>2, <1>0 DEF Frames
  <2>4. Shapes'
    BY <2>2, <2>3, <1>0 DEF Shapes, Frames
  <2> QED BY <2>2, <2>3, <2>4, <1>0 DEF Context
<1>5. CASE Switch(c)
  <2>1. Goto(c, "double") /\ vector'.count = vector.count
          /\ vector'.allocated = vector.allocated /\ pushed' = pushed
    BY <1>5, <1>0 DEF Switch
  <2>2. vector' \in [count : Nat, allocated : Nat, objects : Arrays]
    BY <1>5, <1>0 DEF Switch, Frames
  <2> QED BY <2>1, <2>2, <1>0, Moved DEF Shapes, Frames, Context, Pcs, Pushing
<1>6. CASE Double(c)
  <2>1. Goto(c, "check") /\ vector'.count = vector.count
          /\ vector'.allocated = vector.allocated * 2 /\ pushed' = pushed
    BY <1>6, <1>0 DEF Double
  <2>2. vector' \in [count : Nat, allocated : Nat, objects : Arrays]
    <3>1. vector.allocated * 2 \in Nat
      BY <1>0
    <3> QED BY <1>6, <1>0, <3>1 DEF Double
  <2>3. vector'.allocated \in Nat /\ vector.allocated <= vector'.allocated
    BY <2>1, <1>0
  <2>4. Shapes'
    BY <2>1, <2>2, <1>0, Moved DEF Shapes, Frames, Pcs, Pushing
  <2> QED
    <3>1. frame'[c].pc = "check" /\ frame'[c].index = frame[c].index
            /\ \A d \in Context \ {c} : frame'[d] = frame[d]
      BY <2>1, <1>0, Moved DEF Pcs, Pushing
    <3>2. \A d \in Context : frame[d].index \in Nat
      BY <1>0 DEF Frames
    <3>3. \A i, j, k \in Nat : (i < j /\ j <= k => i < k) /\ (i <= j /\ j <= k => i <= k)
                              /\ (i + 1 < j /\ j <= k => i + 1 < k)
      OBVIOUS
    <3>4. \A d \in Context : frame'[d].index = frame[d].index
      BY <3>1
    <3>5. SlotBelowAllocated'
      BY <2>1, <2>3, <3>1, <3>2, <3>3, <3>4, <1>0
    <3>6. vector'.count <= vector'.allocated
      BY <2>1, <2>3, <3>3, <1>0
    <3> QED BY <2>1, <2>3, <2>4, <3>1, <3>2, <3>3, <3>4, <3>5, <3>6, <1>0 DEF Context
<1>7. CASE Load(c)
  <2>1. Shapes'
    BY <1>7, <1>0 DEF Load, Shapes, Frames, Pcs, Pushing
  <2>2. frame'[c].pc = "count" /\ frame'[c].index = vector.count /\ vector' = vector
            /\ \A d \in Context \ {c} : frame'[d] = frame[d]
    BY <1>7, <1>0 DEF Load, Frames
  <2>3. frame[c].pc = "load"
    BY <1>7 DEF Load
  <2> QED BY <2>1, <2>2, <2>3, <1>0 DEF Context
<1>8. CASE Count(c)
  <2>1. Goto(c, "store") /\ vector'.count = frame[c].index + 1
          /\ vector'.allocated = vector.allocated /\ pushed' = pushed
    BY <1>8, <1>0 DEF Count
  <2>2. vector' \in [count : Nat, allocated : Nat, objects : Arrays]
    <3>1. frame[c].index + 1 \in Nat
      BY <1>0
    <3> QED BY <1>8, <1>0, <3>1 DEF Count
  <2>3. Shapes'
    BY <2>1, <2>2, <1>0, Moved DEF Shapes, Frames, Pcs, Pushing
  <2> QED BY <1>8, <2>1, <2>2, <2>3, <1>0, Moved DEF Count, Frames, Context, Pcs, Pushing
<1>9. CASE Store(c)
  <2>1. vector' \in [count : Nat, allocated : Nat, objects : Arrays]
    BY <1>9, <1>0 DEF Store, Arrays, Frames
  <2>2. vector'.count = vector.count /\ vector'.allocated = vector.allocated
          /\ Goto(c, "leave") /\ pushed' = pushed
    BY <1>9, <1>0 DEF Store
  <2> QED BY <2>1, <2>2, <1>0, Moved DEF Shapes, Frames, Context, Pcs, Pushing
<1>10. CASE Leave(c)
  <2>1. InitialArray \in Arrays
    BY NewArray, ObAssumption DEF InitialArray, ATObject
  <2>2. Shapes'
    BY <1>10, <2>1, <1>0 DEF Leave, Idle, Shapes, Frames, Pcs, Pushing
  <2> QED BY <1>10, <2>2, <1>0 DEF Leave, Idle, Context, Frames
<1> QED
  BY <1>1, <1>2, <1>3, <1>4, <1>5, <1>6, <1>7, <1>8, <1>9, <1>10 DEF Continue

\* One step of KiSignalResolve.
LEMMA ResolveStep ==
  ASSUME IInv, KiSignalResolve \/ ObQueuePopNull \/ ObQueuePop \/ ObVectorRemove
  PROVE  IInv'
<1> USE DEF IInv, Shapes, At, Goto, Context, SlotBelowAllocated, Pcs, Pushing
<1>1. CASE KiSignalResolve
  BY <1>1 DEF KiSignalResolve
<1>2. CASE ObQueuePopNull
  <2>1. InitialArray \in Arrays
    BY NewArray, ObAssumption DEF InitialArray, ATObject
  <2>2. Shapes'
    BY <1>2, <2>1 DEF ObQueuePopNull, Idle
  <2> QED BY <1>2, <2>2 DEF ObQueuePopNull, Idle
<1>3. CASE ObQueuePop
  <2>1. vector.objects.elements[0] \in Nat
    BY ObAssumption DEF Slots, Arrays
  <2> QED BY <1>3, <2>1 DEF ObQueuePop
<1>4. CASE ObVectorRemove
  BY <1>4 DEF ObVectorRemove
<1> QED BY <1>1, <1>2, <1>3, <1>4

\* Every step keeps the invariant.
LEMMA Inductive == IInv /\ [Next]_vars => IInv'
<1> SUFFICES ASSUME IInv, [Next]_vars PROVE IInv'
  OBVIOUS
<1>1. CASE \E c \in Context : ObQueuePush(c) \/ Continue(c)
  BY <1>1, PushStep
<1>2. CASE KiSignalResolve \/ ObQueuePopNull \/ ObQueuePop \/ ObVectorRemove
  BY <1>2, ResolveStep
<1>3. CASE EnableSignals \/ UNCHANGED vars
  BY <1>3 DEF EnableSignals, vars, IInv, Shapes, SlotBelowAllocated
<1> QED BY <1>1, <1>2, <1>3 DEF Next, Main, Context

\* ObVectorAdd compares count with allocated once and stores later: the slot
\* that it uses is below allocated all the same, in main and in a handler.
THEOREM SlotsAllocated == Spec => []SlotBelowAllocated
<1>1. IInv => SlotBelowAllocated
  BY DEF IInv
<1> QED BY Initially, Inductive, <1>1, PTL DEF Spec

\* What the argument above has no use for.
Flags ==
  /\ monitors \subseteq {"queue", "vector"}
  /\ signals \in BOOLEAN /\ memory \in {"sound", "spoilt"}

\* Signals are off at first and nothing is entered.
LEMMA InitFlags == Init => Flags
  BY DEF Init, Flags

\* No step leaves these types.
LEMMA NextFlags == Flags /\ [Next]_vars => Flags'
<1> SUFFICES ASSUME Flags, [Next]_vars PROVE Flags'
  OBVIOUS
<1>1. ASSUME NEW c \in Context, ObQueuePush(c) \/ Continue(c) PROVE Flags'
  BY <1>1 DEF Flags, ObQueuePush, Continue, Check, Create, Copy, CopyFirst, Switch,
              Double, Load, Count, Store, Leave
<1>2. CASE KiSignalResolve \/ ObQueuePopNull \/ ObQueuePop \/ ObVectorRemove
  BY <1>2 DEF Flags, KiSignalResolve, ObQueuePopNull, ObQueuePop, ObVectorRemove
<1>3. CASE EnableSignals \/ UNCHANGED vars
  BY <1>3 DEF EnableSignals, vars, Flags
<1> QED
  BY <1>1, <1>2, <1>3 DEF Next, Main, Context

\* The queue, its arrays and the locals of both contexts keep their types,
\* for every initial size and number of pushes.
THEOREM TypeCorrect == Spec => []TypeOK
<1>1. IInv /\ Flags => TypeOK
  BY DEF IInv, Shapes, Flags, TypeOK, Arrays, Array, Pcs
<1> QED
  BY Initially, Inductive, InitFlags, NextFlags, <1>1, PTL DEF Spec

-------------------------------------------------------------------------------
(* The queue of a caller that nobody interrupts *)

\* the array holds, in order, every element whose push has returned
Holds(elements) == \A i \in 0 .. Len(pushed) - 1 : elements[i] = pushed[i + 1]

\* Before signals are enabled only main pushes.  count runs ahead of the
\* element by the two steps from line 79 on, and the array that is being
\* filled holds what the old one holds.
Ordered ==
  LET main == frame["main"] IN
  /\ frame["handler"].pc = "idle"
  /\ main.pc \in Pushing => Len(pushed) < MaxPushes
  /\ Len(pushed) <= MaxPushes
  /\ vector.count = IF main.pc \in {"store", "leave"} THEN Len(pushed) + 1 ELSE Len(pushed)
  /\ Holds(vector.objects.elements)
  /\ main.pc = "switch" => Holds(main.new.elements)
  /\ main.pc \in {"count", "store"} => main.index = Len(pushed)
  /\ main.pc = "leave" => vector.objects.elements[Len(pushed)] = main.object

OrderedAlone == ~signals /\ memory = "sound" => Ordered

\* Only main takes steps while signals are off, and nobody goes on once memory
\* is spoilt.
LEMMA AloneStep ==
  ASSUME OrderedAlone, Next, ~signals', memory' = "sound"
  PROVE  /\ Ordered
         /\ ObQueuePush("main") \/ KiSignalResolve \/ Main
<1>1. ~signals /\ memory = "sound"
  BY DEF Next, Main, Continue, ObQueuePush, KiSignalResolve, ObQueuePopNull, ObQueuePop,
         ObVectorRemove, EnableSignals, Check, Create, Copy, CopyFirst, Switch, Double,
         Load, Count, Store, Leave, At
<1>2. Ordered
  BY <1>1 DEF OrderedAlone
<1>3. ~Continue("handler")
  BY <1>2 DEF Ordered, Continue, Check, Create, Copy, CopyFirst, Switch, Double, Load,
              Count, Store, Leave, At
<1> QED
  BY <1>1, <1>2, <1>3 DEF Next, EnableSignals

\* A push finds the queue in order at every step and leaves it so.
LEMMA OrderedPush ==
  ASSUME IInv, Ordered, ObQueuePush("main") \/ Continue("main")
  PROVE  Ordered'
<1> DEFINE n == Len(pushed)
           Frame == [pc : Pcs, object : Nat, new : Arrays, index : Nat]
<1>0. /\ frame \in [Context -> Frame] /\ frame["main"] \in Frame
      /\ vector \in [count : Nat, allocated : Nat, objects : Arrays]
      /\ vector.objects \in Arrays /\ vector.objects.elements \in [Slots -> Nat]
      /\ pushed \in Seq(Nat) /\ n \in Nat
      /\ "main" \in Context /\ "handler" \in Context
  BY DEF IInv, Shapes, Context, Arrays
<1>1. CASE ObQueuePush("main")
  <2>1. Cardinality({c \in Context : frame[c].pc \in Pushing}) \in Nat
    BY PushersCounted
  <2>2. n < MaxPushes
    BY <1>0, <1>1, <2>1, ObAssumption DEF ObQueuePush, Begun
  <2>3. /\ frame'["main"].pc = "check" /\ frame'["handler"] = frame["handler"]
        /\ UNCHANGED <<vector, pushed>> /\ frame["main"].pc = "idle"
    BY <1>0, <1>1 DEF ObQueuePush, Idle, At
  <2> QED
    BY <2>2, <2>3 DEF Ordered, Holds
<1>2. CASE Check("main") \/ Create("main") \/ Double("main")
  <2>1. /\ frame["main"].pc \in {"check", "create", "double"}
        /\ frame'["main"].pc \in {"check", "create", "copy", "load"}
        /\ frame'["handler"] = frame["handler"]
        /\ vector'.count = vector.count /\ vector'.objects = vector.objects
        /\ pushed' = pushed
    BY <1>0, <1>2 DEF Check, Create, Double, Goto, At
  <2> QED
    BY <2>1 DEF Ordered, Holds, Pushing
<1>3. CASE Copy("main")
  <2> DEFINE kept == [i \in Slots |-> IF i < vector.count THEN vector.objects.elements[i]
                                      ELSE frame["main"].new.elements[i]]
  <2>1. /\ frame' = [frame EXCEPT !["main"] =
                       [frame["main"] EXCEPT !.pc = "switch", !.new.elements = kept]]
        /\ frame["main"].pc = "copy" /\ UNCHANGED <<vector, pushed>>
    BY <1>3 DEF Copy, CopyFirst, At
  <2>2. Holds(kept)
    <3>1. vector.count = n /\ n <= MaxPushes
      BY <2>1 DEF Ordered
    <3>2. \A i \in 0 .. n - 1 : i \in Slots /\ i < n
      BY <1>0, <3>1, ObAssumption DEF Slots
    <3> QED
      BY <3>1, <3>2 DEF Ordered, Holds
  <2> HIDE DEF kept
  <2>3. frame'["main"].pc = "switch" /\ frame'["handler"] = frame["handler"]
    BY <1>0, <2>1
  <2>4. frame'["main"].new.elements = kept
    <3> DEFINE a == [frame["main"].new EXCEPT !.elements = kept]
    <3>1. a.elements = kept
      BY <1>0 DEF Arrays
    <3>2. frame' = [frame EXCEPT !["main"] = [frame["main"] EXCEPT !.pc = "switch", !.new = a]]
      BY <2>1
    <3> HIDE DEF a
    <3>3. frame'["main"].new = a
      BY <1>0, <3>2
    <3> QED
      BY <3>1, <3>3
  <2> QED
    BY <2>1, <2>2, <2>3, <2>4 DEF Ordered, Holds, Pushing
<1>4. CASE Switch("main")
  <2>1. /\ frame["main"].pc = "switch"
        /\ frame'["main"].pc = "double" /\ frame'["handler"] = frame["handler"]
        /\ vector'.count = vector.count /\ vector'.objects = frame["main"].new
        /\ pushed' = pushed
    BY <1>0, <1>4 DEF Switch, Goto, At
  <2> QED
    BY <2>1 DEF Ordered, Holds, Pushing
<1>5. CASE Load("main")
  <2>1. /\ frame["main"].pc = "load"
        /\ frame'["main"].pc = "count" /\ frame'["main"].index = vector.count
        /\ frame'["handler"] = frame["handler"] /\ UNCHANGED <<vector, pushed>>
    BY <1>0, <1>5 DEF Load, At
  <2> QED
    BY <2>1 DEF Ordered, Holds, Pushing
<1>6. CASE Count("main")
  <2>1. /\ frame["main"].pc = "count"
        /\ frame'["main"].pc = "store" /\ frame'["main"].index = frame["main"].index
        /\ frame'["handler"] = frame["handler"] /\ pushed' = pushed
        /\ vector'.count = frame["main"].index + 1 /\ vector'.objects = vector.objects
    BY <1>0, <1>6 DEF Count, Goto, At
  <2> QED
    BY <2>1 DEF Ordered, Holds, Pushing
<1>7. CASE Store("main")
  <2>1. /\ frame["main"].pc = "store" /\ frame["main"].index = n /\ n < MaxPushes
    BY <1>7 DEF Store, At, Ordered, Pushing
  <2>2. /\ frame'["main"].pc = "leave" /\ frame'["main"].object = frame["main"].object
        /\ frame'["handler"] = frame["handler"] /\ pushed' = pushed
        /\ vector'.count = vector.count
    BY <1>0, <1>7 DEF Store, Goto
  <2>3. vector'.objects.elements =
          [vector.objects.elements EXCEPT ![n] = frame["main"].object]
    BY <1>0, <1>7, <2>1 DEF Store, Arrays
  <2>4. n \in Slots
    BY <1>0, <2>1, ObAssumption DEF Slots
  <2>5. /\ vector'.objects.elements[n] = frame["main"].object
        /\ \A i \in 0 .. n - 1 :
             vector'.objects.elements[i] = vector.objects.elements[i]
    BY <1>0, <2>3, <2>4
  <2>6. Holds(vector.objects.elements) /\ vector.count = n + 1
    BY <2>1 DEF Ordered
  <2>7. Holds(vector.objects.elements)'
    BY <2>2, <2>5, <2>6 DEF Holds
  <2> QED
    BY <1>0, <2>1, <2>2, <2>5, <2>6, <2>7 DEF Ordered, Pushing
<1>8. CASE Leave("main")
  <2>1. /\ frame["main"].pc = "leave" /\ pushed' = Append(pushed, frame["main"].object)
        /\ frame'["main"].pc = "idle" /\ frame'["handler"] = frame["handler"]
        /\ vector' = vector
    BY <1>0, <1>8 DEF Leave, Idle, At
  <2>2. frame["main"].object \in Nat
    BY <1>0
  <2>3. /\ Len(pushed') = n + 1 /\ pushed'[n + 1] = frame["main"].object
        /\ \A i \in 0 .. n - 1 : pushed'[i + 1] = pushed[i + 1]
    BY <1>0, <2>1, <2>2
  <2>4. /\ n < MaxPushes /\ vector.count = n + 1
        /\ Holds(vector.objects.elements)
        /\ vector.objects.elements[n] = frame["main"].object
    BY <2>1 DEF Ordered, Pushing
  <2>5. ASSUME NEW i \in 0 .. Len(pushed') - 1
        PROVE  vector.objects.elements[i] = pushed'[i + 1]
    <3>1. CASE i = n
      BY <2>3, <2>4, <3>1
    <3>2. CASE i # n
      <4>1. i \in 0 .. n - 1
        BY <1>0, <2>3, <3>2
      <4> QED
        BY <2>3, <2>4, <4>1 DEF Holds
    <3> QED
      BY <3>1, <3>2
  <2>6. Len(pushed') <= MaxPushes
    BY <1>0, <2>3, <2>4, ObAssumption
  <2> QED
    BY <2>1, <2>3, <2>4, <2>5, <2>6 DEF Ordered, Holds, Pushing
<1> QED
  BY <1>1, <1>2, <1>3, <1>4, <1>5, <1>6, <1>7, <1>8 DEF Continue

\* KiSignalResolve moves nothing in the array: ObVectorRemove copies elsewhere.
LEMMA OrderedResolve ==
  ASSUME IInv, Ordered, KiSignalResolve \/ ObQueuePopNull \/ ObQueuePop \/ ObVectorRemove
  PROVE  Ordered'
<1>1. /\ frame["main"].pc \in {"idle", "pop", "remove"}
      /\ frame'["main"].pc \in {"idle", "pop", "remove"}
      /\ frame'["handler"] = frame["handler"] /\ UNCHANGED <<vector, pushed>>
  <2>1. frame \in [Context -> [pc : Pcs, object : Nat, new : Arrays, index : Nat]]
    BY DEF IInv, Shapes
  <2> QED
    BY <2>1 DEF KiSignalResolve, ObQueuePopNull, ObQueuePop, ObVectorRemove, Goto, At,
                Idle, Context
<1> QED
  BY <1>1 DEF Ordered, Holds, Pushing

\* Every step keeps the order.
LEMMA NextOrdered == IInv /\ OrderedAlone /\ [Next]_vars => OrderedAlone'
<1> SUFFICES ASSUME IInv, OrderedAlone, [Next]_vars, ~signals', memory' = "sound"
             PROVE  Ordered'
  BY DEF OrderedAlone
<1>1. CASE Next
  BY <1>1, AloneStep, OrderedPush, OrderedResolve DEF Main
<1>2. CASE UNCHANGED vars
  BY <1>2 DEF vars, OrderedAlone, Ordered, Holds
<1> QED
  BY <1>1, <1>2

\* For every initial size of the vector and any number of pushes and pops:
\* while signals are off the queue holds what ObQueuePush was given, in order,
\* through every reallocation, until something is written outside an array.
THEOREM QueueKeepsOrder == Spec => []KeptInOrder
<1>1. Init => OrderedAlone
  <2> SUFFICES ASSUME Init PROVE Ordered
    BY DEF OrderedAlone
  <2>1. /\ frame["main"].pc = "idle" /\ frame["handler"].pc = "idle"
        /\ vector.count = 0 /\ pushed = << >>
    BY DEF Init, Idle, Context
  <2> QED
    BY <2>1, ObAssumption DEF Ordered, Holds, Pushing
<1>2. OrderedAlone => KeptInOrder
  <2> SUFFICES ASSUME OrderedAlone, ~signals, memory = "sound", frame["main"].pc = "idle"
               PROVE  /\ vector.count = Len(pushed)
                      /\ \A i \in 0 .. vector.count - 1 :
                           vector.objects.elements[i] = pushed[i + 1]
    BY DEF KeptInOrder
  <2> QED
    BY DEF OrderedAlone, Ordered, Holds
<1> QED
  BY Initially, Inductive, NextOrdered, <1>1, <1>2, PTL DEF Spec
===============================================================================
