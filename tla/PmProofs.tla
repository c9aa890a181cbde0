------------------------------- MODULE PmProofs -------------------------------
(* Theorems about the page manager, for every table and set of requests.    *)
EXTENDS Pm, TLAPS

\* Every step keeps the types.
LEMMA Typing == ASSUME TypeOK, [Next]_vars PROVE TypeOK'
<1> USE PmAssumption DEF TypeOK, Frame, Handle, Context, Page, BadPage, IdleFrame
<1>1. ASSUME NEW c \in Context, NEW n \in Requests, AllocateCall(c, n)
      PROVE  TypeOK'
  BY <1>1 DEF AllocateCall, At
<1>2. ASSUME NEW c \in Context, ScanFree(c) PROVE TypeOK'
  BY <1>2 DEF ScanFree, Scan, At
<1>3. ASSUME NEW c \in Context, ScanOccipued(c) PROVE TypeOK'
  BY <1>3 DEF ScanOccipued, Scan, At
<1>4. ASSUME NEW c \in Context, AllocateFail(c) PROVE TypeOK'
  <2>1. handles' \subseteq Handle
    <3>1. frame[c].count \in Nat /\ frame[c].entry \in Nat
      OBVIOUS
    <3>2. [owner |-> c, entry |-> BadPage, count |-> frame[c].count] \in Handle
      BY <3>1
    <3>3. [owner |-> c, entry |-> frame[c].entry, count |-> frame[c].count] \in Handle
      BY <3>1
    <3>4. QED
      BY <3>2, <3>3, <1>4 DEF AllocateFail, Return
  <2>2. frame' \in [Context -> Frame]
    BY <1>4 DEF AllocateFail, Return
  <2>3. QED
    BY <2>1, <2>2, <1>4 DEF AllocateFail, Return
<1>5. ASSUME NEW c \in Context, Mark(c) PROVE TypeOK'
  <2>1. occipued' \subseteq Page
    BY <1>5 DEF Mark, ChangePageAttributes
  <2>2. frame' \in [Context -> Frame]
    BY <1>5 DEF Mark
  <2>3. QED
    BY <2>1, <2>2, <1>5 DEF Mark, ChangePageAttributes
<1>6. ASSUME NEW c \in Context, AllocateReturn(c) PROVE TypeOK'
  <2>1. handles' \subseteq Handle
    <3>1. frame[c].count \in Nat /\ frame[c].entry \in Nat
      OBVIOUS
    <3>2. [owner |-> c, entry |-> BadPage, count |-> frame[c].count] \in Handle
      BY <3>1
    <3>3. [owner |-> c, entry |-> frame[c].entry, count |-> frame[c].count] \in Handle
      BY <3>1
    <3>4. QED
      BY <3>2, <3>3, <1>6 DEF AllocateReturn, Return
  <2>2. frame' \in [Context -> Frame]
    BY <1>6 DEF AllocateReturn, Return
  <2>3. QED
    BY <2>1, <2>2, <1>6 DEF AllocateReturn, Return
<1>7. ASSUME NEW c \in Context, NEW h \in handles, FreeCall(c, h) PROVE TypeOK'
  BY <1>7 DEF FreeCall, At
<1>8. ASSUME NEW c \in Context, FreePage(c) PROVE TypeOK'
  <2>1. occipued' \subseteq Page
    BY <1>8 DEF FreePage, ChangePageAttributes
  <2>2. frame' \in [Context -> Frame]
    BY <1>8 DEF FreePage
  <2>3. QED
    BY <2>1, <2>2, <1>8 DEF FreePage, ChangePageAttributes
<1>9. ASSUME NEW c \in Context, Leave(c) PROVE TypeOK'
  BY <1>9 DEF Leave, At
<1>10. CASE EnableSignals
  BY <1>10 DEF EnableSignals, At
<1>11. CASE UNCHANGED vars
  BY <1>11 DEF vars
<1>12. QED
  BY <1>1, <1>2, <1>3, <1>4, <1>5, <1>6, <1>7, <1>8, <1>9, <1>10, <1>11
     DEF Next, BootNext, Begin, Continue

-------------------------------------------------------------------------------
(* The inductive invariant.  A scan has a hypothesis about the pages it has  *)
(* passed; it survives interruption because occupied pages stay occupied and *)
(* because nobody but the context itself adds to what the context holds.     *)

\* no free run of the requested length starts below the scan's entry
NoneBelow(c) == \A e \in FreeRuns(frame[c].count) : e >= frame[c].entry

\* what the context holds lies outside the run it is collecting
ApartFromOwn(c) ==
  \A h \in Granted :
    h.owner = c => Pages(h) \cap Run(frame[c].entry, frame[c].length) = {}

Scanning(c) ==
  LET f == frame[c] IN
  /\ f.i <= PageCount /\ f.entry <= f.i /\ f.length = f.i - f.entry
  /\ f.i > 0 => f.length < f.count /\ f.entry > 0
  /\ f.z = 0
  /\ NoneBelow(c)
  /\ ApartFromOwn(c)

Marking(c) ==
  LET f == frame[c] IN
  /\ f.length = f.count /\ f.entry > 0 /\ f.entry + f.length <= PageCount
  /\ f.z <= f.length
  /\ Run(f.entry, f.z) \subseteq occipued
  /\ f.count > 0 => NoneBelow(c)
  /\ ApartFromOwn(c)

Finished(c) ==
  LET f == frame[c] IN
  /\ f.entry = BadPage => FreeRuns(f.count) = {}
  /\ f.count > 0 => NoneBelow(c)

Local(c) ==
  /\ frame[c].pc = "scan" => Scanning(c)
  /\ frame[c].pc = "mark" => Marking(c)
  /\ frame[c].pc = "done" => Finished(c)

\* before signals are enabled the handler has made no call
HandlerSilent ==
  ~signals => /\ frame["handler"].pc = "idle"
              /\ \A h \in handles : h.owner = "main"

GrantedOccipued == \A h \in Granted : Pages(h) \subseteq occipued

MonitorInUse == monitor => \E c \in Context : frame[c].pc \in {"scan", "mark"}

IInv ==
  /\ TypeOK
  /\ 0 \in occipued
  /\ HandlerSilent
  /\ GrantedOccipued
  /\ ExclusivePerContext
  /\ \A c \in Context : Local(c)
  /\ MonitorInUse

-------------------------------------------------------------------------------

\* Occupying pages never creates a free run.
LEMMA FreeRunsShrink ==
  ASSUME occipued \subseteq occipued', NEW n \in Nat
  PROVE  FreeRuns(n)' \subseteq FreeRuns(n)
BY DEF FreeRuns, Run, Page

\* A context whose frame a step leaves alone keeps its hypothesis, whatever
\* the other context does to the table.
LEMMA Undisturbed ==
  ASSUME NEW d \in Context, TypeOK, Local(d),
         occipued \subseteq occipued', frame'[d] = frame[d],
         \A h \in handles' \ handles : h.owner # d
  PROVE  Local(d)'
<1>1. frame[d].count \in Nat
  BY DEF TypeOK, Frame
<1>2. FreeRuns(frame[d].count)' \subseteq FreeRuns(frame[d].count)
  BY <1>1, FreeRunsShrink DEF FreeRuns, Run, Page
<1>3. NoneBelow(d) => NoneBelow(d)'
  BY <1>2 DEF NoneBelow
<1>4. ApartFromOwn(d) => ApartFromOwn(d)'
  BY DEF ApartFromOwn, Granted, Pages, Run
<1>5. frame[d].pc = "scan" => Scanning(d)'
  BY <1>3, <1>4 DEF Local, Scanning
<1>6. frame[d].pc = "mark" => Marking(d)'
  BY <1>3, <1>4 DEF Local, Marking, Run
<1>7. frame[d].pc = "done" => Finished(d)'
  BY <1>2, <1>3 DEF Local, Finished
<1>8. QED
  BY <1>5, <1>6, <1>7 DEF Local

\* As PmInitialize leaves the table.
LEMMA Initially == Init => IInv
<1> SUFFICES ASSUME Init PROVE IInv
  OBVIOUS
<1> USE PmAssumption DEF Context, IdleFrame
<1>1. occipued \subseteq Page /\ 0 \in occipued
  BY DEF Init, Unset, Page
<1>2. TypeOK
  BY <1>1 DEF Init, TypeOK, Frame, Handle
<1>3. QED
  BY <1>1, <1>2 DEF Init, IInv, HandlerSilent, GrantedOccipued, Granted,
     ExclusivePerContext, Local, MonitorInUse

-------------------------------------------------------------------------------
(* One lemma per action.  Each takes the step of one context c; the other    *)
(* context is covered by Undisturbed.                                        *)

\* A request, from either context.
LEMMA AllocateCallStep ==
  ASSUME IInv, TypeOK', NEW c \in Context, NEW n \in Requests,
         AllocateCall(c, n), c = "handler" => signals
  PROVE  IInv'
<1> USE PmAssumption DEF IInv
<1>1. frame'[c] = [IdleFrame EXCEPT !.pc = "scan", !.count = n]
  BY DEF AllocateCall, TypeOK
<1>2. UNCHANGED <<occipued, handles, signals>>
      /\ \A d \in Context \ {c} : frame'[d] = frame[d]
  BY DEF AllocateCall, TypeOK
<1>3. Local(c)'
  <2>1. frame'[c].pc = "scan" /\ frame'[c].i = 0 /\ frame'[c].entry = 0
        /\ frame'[c].length = 0 /\ frame'[c].z = 0
    BY <1>1 DEF IdleFrame
  <2>2. NoneBelow(c)'
    BY <2>1 DEF NoneBelow, FreeRuns, Page
  <2>3. ApartFromOwn(c)'
    BY <2>1 DEF ApartFromOwn, Run
  <2>4. QED
    BY <2>1, <2>2, <2>3 DEF Local, Scanning
<1>4. \A d \in Context \ {c} : Local(d)'
  BY <1>2, Undisturbed
<1>5. HandlerSilent'
  BY <1>2 DEF HandlerSilent, Context
<1>6. MonitorInUse'
  BY <1>1 DEF MonitorInUse, IdleFrame
<1>7. GrantedOccipued' /\ ExclusivePerContext'
  BY <1>2 DEF GrantedOccipued, ExclusivePerContext, Granted, Pages
<1>8. QED
  BY <1>2, <1>3, <1>4, <1>5, <1>6, <1>7

\* The scan over a free page.
LEMMA ScanFreeStep ==
  ASSUME IInv, TypeOK', NEW c \in Context, ScanFree(c)
  PROVE  IInv'
<1> USE PmAssumption DEF IInv
<1> DEFINE f == frame[c]
           g == frame'[c]
<1>1. f \in Frame /\ f.pc = "scan" /\ f.i \in Page \ occipued /\ f.i # 0
  BY DEF ScanFree, At, TypeOK
<1>2. /\ g.pc = IF f.length + 1 = f.count THEN "mark" ELSE "scan"
      /\ g.i = f.i + 1 /\ g.entry = f.entry /\ g.length = f.length + 1
      /\ g.count = f.count /\ g.z = f.z
  BY DEF ScanFree, Scan, TypeOK, Frame
<1>3. UNCHANGED <<occipued, handles, monitor, signals>>
      /\ \A d \in Context \ {c} : frame'[d] = frame[d]
  BY DEF ScanFree, Scan, TypeOK
<1>4. f.i \in Nat /\ f.entry \in Nat /\ f.length \in Nat /\ f.count \in Nat
  BY <1>1 DEF Frame
<1>5. Scanning(c)
  BY <1>1 DEF Local
<1>6. NoneBelow(c)'
  BY <1>2, <1>3, <1>5 DEF Scanning, NoneBelow, FreeRuns
<1>7. ApartFromOwn(c)'
  <2>1. Run(g.entry, g.length) = Run(f.entry, f.length) \cup {f.i}
    BY <1>2, <1>4, <1>5 DEF Run, Scanning
  <2>2. \A h \in Granted : f.i \notin Pages(h)
    BY <1>1 DEF GrantedOccipued
  <2>3. QED
    BY <2>1, <2>2, <1>3, <1>5 DEF Scanning, ApartFromOwn, Granted, Pages
<1>8. Local(c)'
  <2>1. g.i <= PageCount /\ g.entry + g.length <= PageCount
    BY <1>1, <1>2, <1>4, <1>5 DEF Scanning, Page
  <2>2. g.z = 0 /\ Run(g.entry, g.z) = {} /\ g.entry > 0
    BY <1>1, <1>2, <1>4, <1>5 DEF Scanning, Run
  <2>3. f.length < f.count
    BY <1>1, <1>4, <1>5 DEF Scanning
  <2>4. CASE f.length + 1 = f.count
    BY <2>1, <2>2, <2>4, <1>2, <1>4, <1>6, <1>7 DEF Local, Marking
  <2>5. CASE f.length + 1 # f.count
    <3>1. Scanning(c)'
      BY <2>1, <2>2, <2>3, <2>5, <1>2, <1>4, <1>5, <1>6, <1>7 DEF Scanning
    <3>2. QED
      BY <3>1, <2>5, <1>2 DEF Local
  <2>6. QED
    BY <2>4, <2>5
<1>9. \A d \in Context \ {c} : Local(d)'
  BY <1>3, Undisturbed
<1>10. HandlerSilent'
  BY <1>1, <1>3 DEF HandlerSilent, Context
<1>11. MonitorInUse'
  BY <1>2, <1>3 DEF MonitorInUse
<1>12. GrantedOccipued' /\ ExclusivePerContext'
  BY <1>3 DEF GrantedOccipued, ExclusivePerContext, Granted, Pages
<1>13. QED
  BY <1>3, <1>8, <1>9, <1>10, <1>11, <1>12

\* The scan over an occupied page.
LEMMA ScanOccipuedStep ==
  ASSUME IInv, TypeOK', NEW c \in Context, ScanOccipued(c)
  PROVE  IInv'
<1> USE PmAssumption DEF IInv
<1> DEFINE f == frame[c]
           g == frame'[c]
<1>1. f \in Frame /\ f.pc = "scan" /\ f.i \in Page \cap occipued
  BY DEF ScanOccipued, At, TypeOK
<1>2. /\ g.pc = IF 0 = f.count THEN "mark" ELSE "scan"
      /\ g.i = f.i + 1 /\ g.entry = f.i + 1 /\ g.length = 0
      /\ g.count = f.count /\ g.z = f.z
  BY DEF ScanOccipued, Scan, TypeOK, Frame
<1>3. UNCHANGED <<occipued, handles, monitor, signals>>
      /\ \A d \in Context \ {c} : frame'[d] = frame[d]
  BY DEF ScanOccipued, Scan, TypeOK
<1>4. f.i \in Nat /\ f.entry \in Nat /\ f.length \in Nat /\ f.count \in Nat
  BY <1>1 DEF Frame
<1>5. Scanning(c)
  BY <1>1 DEF Local
<1>6. f.count > 0 => NoneBelow(c)'
  <2> SUFFICES ASSUME f.count > 0, NEW e \in FreeRuns(f.count)
               PROVE  e >= f.i + 1
    BY <1>2, <1>3 DEF NoneBelow, FreeRuns
  <2>1. e \in Nat /\ e >= f.entry /\ Run(e, f.count) \cap occipued = {}
    BY <1>5 DEF Scanning, NoneBelow, FreeRuns, Page
  <2>2. f.i < e + f.count
    BY <2>1, <1>4, <1>5 DEF Scanning
  <2>3. ~(e <= f.i)
    BY <2>1, <2>2, <1>1, <1>4 DEF Run
  <2>4. QED
    BY <2>1, <2>3, <1>4
<1>7. Run(g.entry, g.length) = {} /\ Run(g.entry, g.z) = {}
  BY <1>2, <1>4, <1>5 DEF Run, Scanning
<1>8. ApartFromOwn(c)'
  BY <1>7 DEF ApartFromOwn
<1>9. Local(c)'
  <2>1. g.i <= PageCount /\ g.entry + g.length <= PageCount /\ g.z = 0
    BY <1>1, <1>2, <1>4, <1>5 DEF Page, Scanning
  <2>2. CASE f.count = 0
    BY <2>1, <2>2, <1>2, <1>4, <1>7, <1>8 DEF Local, Marking
  <2>3. CASE f.count # 0
    BY <2>1, <2>3, <1>2, <1>4, <1>6, <1>8 DEF Local, Scanning
  <2>4. QED
    BY <2>2, <2>3
<1>10. \A d \in Context \ {c} : Local(d)'
  BY <1>3, Undisturbed
<1>11. HandlerSilent'
  BY <1>1, <1>3 DEF HandlerSilent, Context
<1>12. MonitorInUse'
  BY <1>2, <1>3 DEF MonitorInUse
<1>13. GrantedOccipued' /\ ExclusivePerContext'
  BY <1>3 DEF GrantedOccipued, ExclusivePerContext, Granted, Pages
<1>14. QED
  BY <1>3, <1>9, <1>10, <1>11, <1>12, <1>13

\* The refusal.
LEMMA AllocateFailStep ==
  ASSUME IInv, TypeOK', NEW c \in Context, AllocateFail(c)
  PROVE  IInv'
<1> USE PmAssumption DEF IInv
<1> DEFINE f == frame[c]
           g == frame'[c]
<1>1. f \in Frame /\ f.pc = "scan" /\ f.i = PageCount
  BY DEF AllocateFail, At, TypeOK
<1>2. g.pc = "done" /\ g.entry = BadPage /\ g.count = f.count
  BY DEF AllocateFail, Return, TypeOK, Frame
<1>3. /\ UNCHANGED <<occipued, signals>>
      /\ handles' = handles \cup
           {[owner |-> c, entry |-> BadPage, count |-> f.count]}
      /\ ~monitor'
      /\ \A d \in Context \ {c} : frame'[d] = frame[d]
  BY DEF AllocateFail, Return, TypeOK
<1>4. f.i \in Nat /\ f.entry \in Nat /\ f.length \in Nat /\ f.count \in Nat
  BY <1>1 DEF Frame
<1>5. Scanning(c)
  BY <1>1 DEF Local
<1>6. FreeRuns(f.count) = {}
  <2> SUFFICES ASSUME NEW e \in FreeRuns(f.count) PROVE FALSE
    OBVIOUS
  <2>1. f.length < f.count /\ f.entry + f.length = PageCount
    BY <1>1, <1>4, <1>5 DEF Scanning
  <2>2. e \in Nat /\ e >= f.entry /\ Run(e, f.count) \subseteq Page
    BY <1>5 DEF Scanning, NoneBelow, FreeRuns, Page
  <2>3. e + f.count - 1 \in Run(e, f.count) /\ e + f.count - 1 \notin Page
    BY <2>1, <2>2, <1>4 DEF Run, Page
  <2>4. QED
    BY <2>2, <2>3
<1>7. Local(c)'
  BY <1>2, <1>3, <1>6 DEF Local, Finished, NoneBelow, FreeRuns
<1>8. \A d \in Context \ {c} : Local(d)'
  BY <1>3, Undisturbed
<1>9. HandlerSilent'
  BY <1>1, <1>3 DEF HandlerSilent, Context
<1>10. Granted' = Granted
  BY <1>3 DEF Granted
<1>11. GrantedOccipued' /\ ExclusivePerContext' /\ MonitorInUse'
  BY <1>3, <1>10 DEF GrantedOccipued, ExclusivePerContext, Pages, MonitorInUse
<1>12. QED
  BY <1>3, <1>7, <1>8, <1>9, <1>11

\* One page is marked.
LEMMA MarkStep ==
  ASSUME IInv, TypeOK', NEW c \in Context, Mark(c)
  PROVE  IInv'
<1> USE PmAssumption DEF IInv
<1> DEFINE f == frame[c]
           g == frame'[c]
<1>1. f \in Frame /\ f.pc = "mark" /\ f.z < f.length
  BY DEF Mark, At, TypeOK
<1>2. /\ g.pc = "mark" /\ g.entry = f.entry /\ g.count = f.count
      /\ g.length = f.length /\ g.z = f.z + 1 /\ g.i = f.i
  BY <1>1 DEF Mark, TypeOK, Frame
<1>3. /\ UNCHANGED <<handles, signals>>
      /\ occipued' = occipued \cup ({f.entry + f.z} \cap Page)
      /\ ~monitor'
      /\ \A d \in Context \ {c} : frame'[d] = frame[d]
  BY DEF Mark, ChangePageAttributes, TypeOK
<1>4. f.z \in Nat /\ f.entry \in Nat /\ f.length \in Nat /\ f.count \in Nat
  BY <1>1 DEF Frame
<1>5. Marking(c)
  BY <1>1 DEF Local
<1>6. Run(g.entry, g.z) \subseteq occipued'
  <2>1. f.entry + f.z \in Page
    BY <1>1, <1>4, <1>5 DEF Marking, Page
  <2>2. Run(g.entry, g.z) = Run(f.entry, f.z) \cup {f.entry + f.z}
    BY <1>2, <1>4 DEF Run
  <2>3. QED
    BY <2>1, <2>2, <1>3, <1>5 DEF Marking
<1>7. f.count > 0 => NoneBelow(c)'
  <2> SUFFICES ASSUME f.count > 0, NEW e \in Page,
                      Run(e, f.count) \subseteq Page \ occipued'
               PROVE  e >= f.entry
    BY <1>2 DEF NoneBelow, FreeRuns, Page, Run
  <2>1. e \in FreeRuns(f.count)
    BY <1>3 DEF FreeRuns
  <2>2. QED
    BY <2>1, <1>5 DEF Marking, NoneBelow
<1>8. ApartFromOwn(c)'
  BY <1>2, <1>3, <1>5 DEF Marking, ApartFromOwn, Granted, Pages
<1>9. Local(c)'
  BY <1>1, <1>2, <1>4, <1>5, <1>6, <1>7, <1>8 DEF Local, Marking
<1>10. \A d \in Context \ {c} : Local(d)'
  BY <1>3, Undisturbed
<1>11. HandlerSilent'
  BY <1>1, <1>3 DEF HandlerSilent, Context
<1>12. GrantedOccipued' /\ ExclusivePerContext' /\ MonitorInUse'
  BY <1>3 DEF GrantedOccipued, ExclusivePerContext, Granted, Pages, MonitorInUse
<1>13. QED
  BY <1>3, <1>9, <1>10, <1>11, <1>12

\* The run is returned.
LEMMA AllocateReturnStep ==
  ASSUME IInv, TypeOK', NEW c \in Context, AllocateReturn(c)
  PROVE  IInv'
<1> USE PmAssumption DEF IInv
<1> DEFINE f == frame[c]
           g == frame'[c]
           new == [owner |-> c, entry |-> f.entry, count |-> f.count]
<1>1. f \in Frame /\ f.pc = "mark" /\ f.z = f.length
  BY DEF AllocateReturn, At, TypeOK
<1>2. g.pc = "done" /\ g.entry = f.entry /\ g.count = f.count
  BY DEF AllocateReturn, Return, TypeOK, Frame
<1>3. /\ UNCHANGED <<occipued, signals>>
      /\ handles' = handles \cup {new}
      /\ ~monitor'
      /\ \A d \in Context \ {c} : frame'[d] = frame[d]
  BY DEF AllocateReturn, Return, TypeOK
<1>4. f.z \in Nat /\ f.entry \in Nat /\ f.length \in Nat /\ f.count \in Nat
  BY <1>1 DEF Frame
<1>5. Marking(c)
  BY <1>1 DEF Local
<1>6. Local(c)'
  <2>1. f.count > 0 => NoneBelow(c)'
    BY <1>2, <1>3, <1>5 DEF Marking, NoneBelow, FreeRuns
  <2>2. g.entry # BadPage
    BY <1>2, <1>4, <1>5 DEF Marking, BadPage
  <2>3. QED
    BY <2>1, <2>2, <1>2 DEF Local, Finished
<1>7. \A d \in Context \ {c} : Local(d)'
  BY <1>3, Undisturbed
<1>8. HandlerSilent'
  BY <1>1, <1>3 DEF HandlerSilent, Context
<1>9. Granted' \subseteq Granted \cup {new}
  BY <1>3 DEF Granted
<1>10. Pages(new) = Run(f.entry, f.length) /\ Pages(new) = Run(f.entry, f.z)
  BY <1>1, <1>5 DEF Pages, Marking
<1>11. GrantedOccipued'
  BY <1>3, <1>5, <1>9, <1>10 DEF GrantedOccipued, Marking, Pages
<1>12. ExclusivePerContext'
  <2>1. \A h \in Granted : h.owner = c => Pages(h) \cap Pages(new) = {}
    BY <1>5, <1>10 DEF Marking, ApartFromOwn
  <2>2. QED
    BY <2>1, <1>9 DEF ExclusivePerContext, Pages
<1>13. MonitorInUse'
  BY <1>3 DEF MonitorInUse
<1>14. QED
  BY <1>3, <1>6, <1>7, <1>8, <1>11, <1>12, <1>13

\* A payload is given back.
LEMMA FreeCallStep ==
  ASSUME IInv, TypeOK', NEW c \in Context, NEW h \in handles,
         FreeCall(c, h), c = "handler" => signals
  PROVE  IInv'
<1> USE PmAssumption DEF IInv
<1>1. frame[c].pc = "idle" /\ frame'[c].pc = "free"
  BY DEF FreeCall, At, TypeOK, IdleFrame
<1>2. /\ UNCHANGED <<occipued, monitor, signals>>
      /\ handles' = handles \ {h}
      /\ \A d \in Context \ {c} : frame'[d] = frame[d]
  BY DEF FreeCall, TypeOK
<1>3. Local(c)'
  BY <1>1 DEF Local
<1>4. \A d \in Context \ {c} : Local(d)'
  BY <1>2, Undisturbed
<1>5. HandlerSilent'
  BY <1>2 DEF HandlerSilent, Context
<1>6. Granted' \subseteq Granted
  BY <1>2 DEF Granted
<1>7. GrantedOccipued' /\ ExclusivePerContext'
  BY <1>2, <1>6 DEF GrantedOccipued, ExclusivePerContext, Pages
<1>8. MonitorInUse'
  BY <1>1, <1>2 DEF MonitorInUse
<1>9. QED
  BY <1>2, <1>3, <1>4, <1>5, <1>7, <1>8

\* One of its pages.
LEMMA FreePageStep ==
  ASSUME IInv, TypeOK', NEW c \in Context, FreePage(c)
  PROVE  IInv'
<1> USE DEF IInv
<1>1. frame[c].pc = "free" /\ frame'[c].pc = "free"
  BY DEF FreePage, At, TypeOK, Frame
<1>2. /\ UNCHANGED <<handles, signals>>
      /\ occipued \subseteq occipued'
      /\ ~monitor'
      /\ \A d \in Context \ {c} : frame'[d] = frame[d]
  BY DEF FreePage, ChangePageAttributes, TypeOK
<1>3. Local(c)'
  BY <1>1 DEF Local
<1>4. \A d \in Context \ {c} : Local(d)'
  BY <1>2, Undisturbed
<1>5. HandlerSilent'
  BY <1>1, <1>2 DEF HandlerSilent, Context
<1>6. GrantedOccipued' /\ ExclusivePerContext' /\ MonitorInUse'
  BY <1>2 DEF GrantedOccipued, ExclusivePerContext, Granted, Pages, MonitorInUse
<1>7. QED
  BY <1>2, <1>3, <1>4, <1>5, <1>6

\* The end of ObPayloadFree.
LEMMA LeaveStep ==
  ASSUME IInv, TypeOK', NEW c \in Context, Leave(c)
  PROVE  IInv'
<1> USE DEF IInv
<1>1. frame[c].pc \in {"free", "done"} /\ frame'[c].pc = "idle"
  BY DEF Leave, At, TypeOK, IdleFrame
<1>2. /\ UNCHANGED <<occipued, monitor, signals, handles>>
      /\ \A d \in Context \ {c} : frame'[d] = frame[d]
  BY DEF Leave, TypeOK
<1>3. Local(c)'
  BY <1>1 DEF Local
<1>4. \A d \in Context \ {c} : Local(d)'
  BY <1>2, Undisturbed
<1>5. HandlerSilent'
  BY <1>1, <1>2 DEF HandlerSilent, Context
<1>6. GrantedOccipued' /\ ExclusivePerContext' /\ MonitorInUse'
  BY <1>1, <1>2
     DEF GrantedOccipued, ExclusivePerContext, Granted, Pages, MonitorInUse
<1>7. QED
  BY <1>2, <1>3, <1>4, <1>5, <1>6

\* Signals are enabled.
LEMMA EnableSignalsStep ==
  ASSUME IInv, TypeOK', EnableSignals \/ UNCHANGED vars
  PROVE  IInv'
<1>1. UNCHANGED <<occipued, monitor, frame, handles>>
      /\ (signals' \/ signals' = signals)
  BY DEF EnableSignals, vars
<1>2. \A d \in Context : Local(d)'
  BY <1>1, Undisturbed DEF IInv
<1>3. QED
  BY <1>1, <1>2 DEF IInv, HandlerSilent, GrantedOccipued, ExclusivePerContext,
     Granted, Pages, MonitorInUse

\* Every step keeps the invariant.
LEMMA Inductive == ASSUME IInv, [Next]_vars PROVE IInv'
<1>1. TypeOK'
  BY Typing DEF IInv
<1>2. ASSUME NEW c \in Context, Begin(c), c = "handler" => signals
      PROVE  IInv'
  BY <1>1, <1>2, AllocateCallStep, FreeCallStep DEF Begin
<1>3. ASSUME NEW c \in Context, Continue(c) PROVE IInv'
  BY <1>1, <1>3, ScanFreeStep, ScanOccipuedStep, AllocateFailStep, MarkStep,
     AllocateReturnStep, FreePageStep, LeaveStep DEF Continue
<1>4. ASSUME EnableSignals \/ UNCHANGED vars PROVE IInv'
  BY <1>1, <1>4, EnableSignalsStep
<1>5. QED
  BY <1>2, <1>3, <1>4 DEF Next, BootNext, Context

\* So it always holds.
LEMMA Invariance == Spec => []IInv
BY Initially, Inductive, PTL DEF Spec

-------------------------------------------------------------------------------

\* The variables keep their types in every execution.
THEOREM TypeCorrect == Spec => []TypeOK
BY Invariance, PTL DEF IInv

\* However main is interrupted, no context is given a page it already holds.
THEOREM ExclusiveToContext == Spec => []ExclusivePerContext
BY Invariance, PTL DEF IInv

\* PM_BAD_PAGE is returned only if no free run of the length exists.
THEOREM FailureMeansFull == Spec => []FailsOnlyWhenFull
<1>1. IInv => FailsOnlyWhenFull
  BY DEF IInv, FailsOnlyWhenFull, Local, Finished
<1>2. QED
  BY <1>1, Invariance, PTL

\* The run found is the lowest there is.
THEOREM FirstFit == Spec => []LowestFirst
<1>1. IInv => LowestFirst
  BY DEF IInv, LowestFirst, Local, Marking, Finished, NoneBelow
<1>2. QED
  BY <1>1, Invariance, PTL

\* A run that was found never begins at the page that means failure.
THEOREM SentinelUnambiguous == Spec => []BadPageIsNoPage
<1>1. IInv => BadPageIsNoPage
  BY DEF IInv, BadPageIsNoPage, Local, Marking, BadPage
<1>2. QED
  BY <1>1, Invariance, PTL

\* Every way out of the manager leaves the monitor free.
THEOREM MonitorLeftFree == Spec => []MonitorReleased
<1>1. IInv => MonitorReleased
  BY DEF IInv, MonitorReleased, MonitorInUse
<1>2. QED
  BY <1>1, Invariance, PTL

\* No step frees a page.
THEOREM OccupancyGrows == Spec => NeverReused
<1>1. [Next]_vars => (occipued \subseteq occipued')
  <2> SUFFICES ASSUME [Next]_vars PROVE occipued \subseteq occipued'
    OBVIOUS
  <2>1. ASSUME NEW c \in Context, Begin(c) PROVE occipued \subseteq occipued'
    BY <2>1 DEF Begin, AllocateCall, FreeCall
  <2>2. ASSUME NEW c \in Context, Continue(c)
        PROVE  occipued \subseteq occipued'
    BY <2>2 DEF Continue, ScanFree, ScanOccipued, Scan, AllocateFail, Return,
       Mark, AllocateReturn, FreePage, ChangePageAttributes, Leave
  <2>3. QED
    BY <2>1, <2>2 DEF Next, BootNext, EnableSignals, Context, vars
<1>2. QED
  BY <1>1, PTL DEF Spec, NeverReused

-------------------------------------------------------------------------------
(* While signals are off: main is alone, so what it has seen free stays free *)
(* until main itself marks it.                                               *)

Foreseen ==
  LET f == frame["main"] IN
  /\ f.pc = "scan" => Run(f.entry, f.length) \cap occipued = {}
  /\ f.pc = "mark" => Run(f.entry + f.z, f.length - f.z) \cap occipued = {}
  /\ f.pc \in {"scan", "mark"} => f.count \in Requests

BootInv == IInv /\ ~signals /\ Foreseen

\* At boot nothing is foreseen.
LEMMA BootInitially == Init => BootInv
BY Initially DEF BootInv, Init, Foreseen, IdleFrame, Context

\* Without signals every step keeps BootInv.
LEMMA BootInductive == ASSUME BootInv, [BootNext]_vars PROVE BootInv'
<1> USE DEF BootInv
<1>1. IInv'
  BY Inductive DEF Next
<1>2. ~signals'
  BY DEF BootNext, Begin, Continue, AllocateCall, FreeCall, ScanFree,
     ScanOccipued, Scan, AllocateFail, Return, Mark, AllocateReturn,
     FreePage, Leave, vars
<1> DEFINE f == frame["main"]
           g == frame'["main"]
<1>3. f \in Frame /\ Local("main") /\ "main" \in Context /\ TypeOK
  BY DEF IInv, TypeOK, Context
<1>4. f.z \in Nat /\ f.entry \in Nat /\ f.length \in Nat /\ f.i \in Nat
      /\ f.count \in Nat
  BY <1>3 DEF Frame
<1>5. ASSUME NEW n \in Requests, AllocateCall("main", n) PROVE Foreseen'
  <2>1. g.pc = "scan" /\ g.entry = 0 /\ g.length = 0 /\ g.count = n
    BY <1>3, <1>5 DEF AllocateCall, IInv, TypeOK, IdleFrame
  <2>2. QED
    BY <2>1 DEF Foreseen, Run
<1>6. ASSUME ScanFree("main") PROVE Foreseen'
  <2>1. /\ f.pc = "scan" /\ f.i \notin occipued /\ f.length = f.i - f.entry
        /\ f.z = 0 /\ f.entry <= f.i
    BY <1>3, <1>6 DEF ScanFree, At, Local, Scanning
  <2>2. /\ g.pc \in {"scan", "mark"} /\ g.entry = f.entry
        /\ g.length = f.length + 1 /\ g.z = f.z /\ occipued' = occipued
        /\ g.count = f.count
    BY <1>3, <1>6 DEF ScanFree, Scan, IInv, TypeOK, Frame
  <2>3. Run(g.entry, g.length) = Run(f.entry, f.length) \cup {f.i}
    BY <2>1, <2>2, <1>4 DEF Run
  <2>4. g.entry + g.z = g.entry /\ g.length - g.z = g.length
    BY <2>1, <2>2, <1>4
  <2>5. QED
    BY <2>1, <2>2, <2>3, <2>4 DEF Foreseen
<1>7. ASSUME ScanOccipued("main") PROVE Foreseen'
  <2>1. f.pc = "scan" /\ f.z = 0
    BY <1>3, <1>7 DEF ScanOccipued, At, Local, Scanning
  <2>2. /\ g.pc \in {"scan", "mark"} /\ g.entry = f.i + 1
        /\ g.length = 0 /\ g.z = f.z /\ occipued' = occipued
        /\ g.count = f.count
    BY <1>3, <1>7 DEF ScanOccipued, Scan, IInv, TypeOK, Frame
  <2>3. QED
    BY <2>1, <2>2, <1>4 DEF Foreseen, Run
<1>8. ASSUME Mark("main") PROVE Foreseen'
  <2>1. f.pc = "mark" /\ f.z < f.length
    BY <1>8 DEF Mark, At
  <2>2. /\ g.pc = "mark" /\ g.entry = f.entry /\ g.length = f.length
        /\ g.z = f.z + 1 /\ g.count = f.count
        /\ occipued' \subseteq occipued \cup {f.entry + f.z}
    BY <2>1, <1>3, <1>8 DEF Mark, ChangePageAttributes, IInv, TypeOK, Frame
  <2>3. Run(g.entry + g.z, g.length - g.z)
          \subseteq Run(f.entry + f.z, f.length - f.z) \ {f.entry + f.z}
    BY <2>1, <2>2, <1>4 DEF Run
  <2>4. QED
    BY <2>1, <2>2, <2>3 DEF Foreseen
<1>9. ASSUME \/ AllocateFail("main") \/ AllocateReturn("main")
             \/ \E h \in handles : FreeCall("main", h)
             \/ FreePage("main") \/ Leave("main")
      PROVE  Foreseen'
  <2>1. ASSUME AllocateFail("main") PROVE g.pc = "done"
    BY <1>3, <2>1 DEF AllocateFail, Return, TypeOK, Frame
  <2>2. ASSUME AllocateReturn("main") PROVE g.pc = "done"
    BY <1>3, <2>2 DEF AllocateReturn, Return, TypeOK, Frame
  <2>3. ASSUME NEW h \in handles, FreeCall("main", h) PROVE g.pc = "free"
    BY <1>3, <2>3 DEF FreeCall, IdleFrame, TypeOK
  <2>4. ASSUME FreePage("main") PROVE g.pc = "free"
    BY <1>3, <2>4 DEF FreePage, At, TypeOK, Frame
  <2>5. ASSUME Leave("main") PROVE g.pc = "idle"
    BY <1>3, <2>5 DEF Leave, IdleFrame, TypeOK
  <2>6. g.pc \in {"idle", "free", "done"}
    BY <1>9, <2>1, <2>2, <2>3, <2>4, <2>5
  <2>7. QED
    BY <2>6 DEF Foreseen
<1>10. ASSUME UNCHANGED vars PROVE Foreseen'
  BY <1>10 DEF vars, Foreseen
<1>11. Foreseen'
  BY <1>5, <1>6, <1>7, <1>8, <1>9, <1>10 DEF BootNext, Begin, Continue
<1>12. QED
  BY <1>1, <1>2, <1>11

\* While signals are off nobody but main takes a step.
LEMMA MainAlone == ASSUME BootInv, ~signals', [Next]_vars PROVE [BootNext]_vars
<1>1. \A c \in Context : c = "handler" => frame[c].pc = "idle"
  BY DEF BootInv, IInv, HandlerSilent
<1>2. frame["handler"].pc = "idle"
  BY <1>1 DEF Context
<1>3. ~Continue("handler")
  <2>1. ~At("handler", "scan") /\ ~At("handler", "mark") /\ ~At("handler", "free")
        /\ ~At("handler", "done")
    BY <1>2 DEF At
  <2>2. QED
    BY <2>1 DEF Continue, ScanFree, ScanOccipued, AllocateFail, Mark,
       AllocateReturn, FreePage, Leave
<1>4. ~EnableSignals
  BY DEF EnableSignals
<1>5. QED
  BY <1>3, <1>4 DEF BootInv, Next

\* So BootInv holds for as long as signals are off, and they never go off.
LEMMA BootInvariance == Spec => [](~signals => BootInv)
<1>1. Init => BootInv
  BY BootInitially
<1>2. (~signals => BootInv) /\ [Next]_vars => (~signals => BootInv)'
  <2> SUFFICES ASSUME ~signals => BootInv, [Next]_vars, ~signals' PROVE BootInv'
    OBVIOUS
  <2>1. ~signals
    BY DEF Next, BootNext, EnableSignals, Begin, Continue, AllocateCall, FreeCall,
       ScanFree, ScanOccipued, Scan, AllocateFail, Return, Mark,
       AllocateReturn, FreePage, Leave, vars
  <2>2. [BootNext]_vars
    BY <2>1, MainAlone
  <2>3. QED
    BY <2>1, <2>2, BootInductive
<1>3. QED
  BY <1>1, <1>2, PTL DEF Spec

\* While signals are off no page belongs to two payloads.
THEOREM BootExclusive == Spec => []ExclusiveAtBoot
<1>1. (~signals => BootInv) => ExclusiveAtBoot
  BY DEF BootInv, IInv, HandlerSilent, ExclusiveAtBoot, Exclusive,
     ExclusivePerContext, Granted
<1>2. QED
  BY <1>1, BootInvariance, PTL

-------------------------------------------------------------------------------
(* While signals are off the steps of main implement PageRuns, with the      *)
(* pages marked for an unfinished request not yet counted as taken.          *)

\* The table of PmInitialize is a start of PageRuns.
LEMMA AbstractStart == Init => Abstract!Start
<1> SUFFICES ASSUME Init PROVE Abstract!Start
  OBVIOUS
<1>1. frame["main"].pc = "idle"
  BY DEF Init, IdleFrame, Context
<1>2. InFlight = {}
  BY <1>1 DEF InFlight
<1>3. occipued \subseteq Page /\ 0 \in occipued /\ handles = {}
  BY PmAssumption DEF Init, Unset, Page
<1>4. QED
  BY <1>2, <1>3 DEF Abstract!Start, Abstract!Page, Page

\* the scan and the marking are invisible; the answer is given on return
LEMMA AbstractStep ==
  ASSUME BootInv, BootInv', [BootNext]_vars
  PROVE  [Abstract!Step]_<<occipued \ InFlight, handles>>
<1> USE PmAssumption
<1> DEFINE f == frame["main"]
           g == frame'["main"]
           taken == occipued \ InFlight
<1>1. f \in Frame /\ Local("main") /\ "main" \in Context /\ TypeOK
  BY DEF BootInv, IInv, TypeOK, Context
<1>2. f.z \in Nat /\ f.entry \in Nat /\ f.length \in Nat /\ f.count \in Nat
  BY <1>1 DEF Frame
<1>3. ASSUME NEW n \in Requests, AllocateCall("main", n)
      PROVE  UNCHANGED <<taken, handles>>
  <2>1. f.pc = "idle" /\ g.pc = "scan" /\ UNCHANGED <<occipued, handles>>
    BY <1>1, <1>3 DEF AllocateCall, At, TypeOK, IdleFrame
  <2>2. QED
    BY <2>1 DEF InFlight
<1>4. ASSUME ScanFree("main") \/ ScanOccipued("main")
      PROVE  UNCHANGED <<taken, handles>>
  <2>1. f.pc = "scan" /\ f.z = 0
    BY <1>1, <1>4 DEF ScanFree, ScanOccipued, At, Local, Scanning
  <2>2. g.z = f.z /\ UNCHANGED <<occipued, handles>> /\ g.entry \in Nat
    BY <1>1, <1>4 DEF ScanFree, ScanOccipued, Scan, TypeOK, Frame, Page
  <2>3. InFlight = {} /\ InFlight' = {}
    BY <2>1, <2>2 DEF InFlight, Run
  <2>4. QED
    BY <2>2, <2>3
<1>5. ASSUME Mark("main") PROVE UNCHANGED <<taken, handles>>
  <2>1. f.pc = "mark" /\ f.z < f.length /\ Marking("main")
    BY <1>1, <1>5 DEF Mark, At, Local
  <2>2. f.entry + f.z \in Page /\ f.entry + f.z \notin occipued
    BY <2>1, <1>2 DEF BootInv, Foreseen, Marking, Run, Page
  <2>3. /\ g.pc = "mark" /\ g.entry = f.entry /\ g.z = f.z + 1
        /\ occipued' = occipued \cup {f.entry + f.z} /\ handles' = handles
    BY <2>1, <2>2, <1>1, <1>5 DEF Mark, ChangePageAttributes, TypeOK, Frame
  <2>4. InFlight = Run(f.entry, f.z)
        /\ InFlight' = Run(f.entry, f.z) \cup {f.entry + f.z}
    BY <2>1, <2>3, <1>2 DEF InFlight, Run
  <2>5. QED
    BY <2>2, <2>3, <2>4
<1>6. ASSUME AllocateReturn("main")
      PROVE  \E n \in Requests : Abstract!Grant(n)
  <2>1. f.pc = "mark" /\ f.z = f.length /\ Marking("main") /\ f.count \in Requests
    BY <1>1, <1>6 DEF AllocateReturn, At, Local, BootInv, Foreseen
  <2>2. /\ g.pc = "done" /\ occipued' = occipued
        /\ handles' = handles \cup
             {[owner |-> "main", entry |-> f.entry, count |-> f.count]}
    BY <1>1, <1>6 DEF AllocateReturn, Return, TypeOK
  <2>3. InFlight = Run(f.entry, f.count) /\ InFlight' = {}
    BY <2>1, <2>2 DEF InFlight, Marking
  <2>4. Run(f.entry, f.count) \subseteq Page /\ f.entry \in 1 .. PageCount
    BY <2>1, <1>2 DEF Marking, Run, Page
  <2>5. Run(f.entry, f.count) \subseteq occipued
    BY <2>1 DEF Marking
  <2>6. Abstract!Grant(f.count)
    BY <2>2, <2>3, <2>4, <2>5 DEF Abstract!Grant, Abstract!Span, Abstract!Page, Run, Page
  <2>7. QED
    BY <2>1, <2>6
<1>7. ASSUME AllocateFail("main")
      PROVE  \E n \in Requests : Abstract!Refuse(n)
  <2>1. f.pc = "scan" /\ f.count \in Requests
    BY <1>1, <1>7 DEF AllocateFail, At, BootInv, Foreseen
  <2>2. /\ g.pc = "done" /\ g.entry = BadPage /\ g.count = f.count
        /\ occipued' = occipued
        /\ handles' = handles \cup
             {[owner |-> "main", entry |-> BadPage, count |-> f.count]}
    BY <1>1, <1>7 DEF AllocateFail, Return, TypeOK, Frame
  <2>3. FreeRuns(f.count) = {}
    BY <2>2, <1>1 DEF BootInv, IInv, Local, Finished, FreeRuns
  <2>4. InFlight = {} /\ InFlight' = {}
    BY <2>1, <2>2 DEF InFlight
  <2>5. Abstract!Refuse(f.count)
    BY <2>2, <2>3, <2>4 DEF Abstract!Refuse, Abstract!Available, Abstract!Span,
       Abstract!Page, FreeRuns, Run, Page, BadPage
  <2>6. QED
    BY <2>1, <2>5
<1>8. ASSUME NEW h \in handles, FreeCall("main", h) PROVE Abstract!GiveBack(h)
  <2>1. f.pc = "idle" /\ g.pc = "free" /\ occipued' = occipued
        /\ handles' = handles \ {h}
    BY <1>1, <1>8 DEF FreeCall, At, TypeOK, IdleFrame
  <2>2. QED
    BY <2>1 DEF Abstract!GiveBack, InFlight
<1>9. ASSUME FreePage("main")
      PROVE  (\E p \in Page : Abstract!Lose(p)) \/ UNCHANGED <<taken, handles>>
  <2>1. f.pc = "free" /\ g.pc = "free" /\ handles' = handles
        /\ occipued' = occipued \cup ({f.entry + f.z} \cap Page)
    BY <1>1, <1>9 DEF FreePage, ChangePageAttributes, At, TypeOK
  <2>2. InFlight = {} /\ InFlight' = {}
    BY <2>1 DEF InFlight
  <2>3. CASE f.entry + f.z \in Page
    BY <2>1, <2>2, <2>3 DEF Abstract!Lose
  <2>4. CASE f.entry + f.z \notin Page
    BY <2>1, <2>2, <2>4
  <2>5. QED
    BY <2>3, <2>4
<1>10. ASSUME Leave("main") \/ UNCHANGED vars PROVE UNCHANGED <<taken, handles>>
  <2>1. CASE UNCHANGED vars
    BY <2>1 DEF vars, InFlight
  <2>2. CASE Leave("main")
    <3>1. f.pc \in {"free", "done"} /\ g.pc = "idle" /\ UNCHANGED <<occipued, handles>>
      BY <1>1, <2>2 DEF Leave, At, TypeOK, IdleFrame
    <3>2. QED
      BY <3>1 DEF InFlight
  <2>3. QED
    BY <1>10, <2>1, <2>2
<1>11. QED
  BY <1>3, <1>4, <1>5, <1>6, <1>7, <1>8, <1>9, <1>10
     DEF BootNext, Begin, Continue, Abstract!Step, Abstract!Page, Page

\* While signals are off the page manager answers each request as if in one
\* step: with a run of untaken pages, or with a refusal when there is none.
THEOREM Refinement == Spec => AtomicWhenAlone
<1> DEFINE seen == <<occipued \ InFlight, handles>>
<1>1. /\ ~signals => BootInv
      /\ (~signals => BootInv)'
      /\ [Next]_vars
      => [~signals' => [Abstract!Step]_seen]_vars
  <2> SUFFICES ASSUME ~signals => BootInv, (~signals => BootInv)', [Next]_vars,
                      ~signals'
               PROVE  [Abstract!Step]_seen
    OBVIOUS
  <2>1. ~signals
    BY DEF Next, BootNext, EnableSignals, Begin, Continue, AllocateCall, FreeCall,
       ScanFree, ScanOccipued, Scan, AllocateFail, Return, Mark,
       AllocateReturn, FreePage, Leave, vars
  <2>2. [BootNext]_vars
    BY <2>1, MainAlone
  <2>3. QED
    BY <2>1, <2>2, AbstractStep
<1>2. QED
  BY <1>1, AbstractStart, BootInvariance, PTL DEF Spec, AtomicWhenAlone
===============================================================================
