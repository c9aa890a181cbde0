------------------------------- MODULE PageRuns -------------------------------
(***************************************************************************)
(* What the page manager promises to a caller that is alone: a request is  *)
(* answered in one step, either with a run of pages that nobody has been   *)
(* given before, or with a refusal when no such run is left.  Giving a     *)
(* payload back takes the claim away but never makes a page available      *)
(* again, and giving back a refused request can cost pages.                *)
(***************************************************************************)
EXTENDS Integers

CONSTANTS PageCount, Requests, owner

VARIABLES
  taken,     \* pages that no request will be given
  claims     \* what callers hold: [owner, entry, count]; entry 0 is a refusal

Page == 0 .. PageCount - 1
Span(entry, n) == entry .. entry + n - 1

Available(n) == {e \in Page : Span(e, n) \subseteq Page \ taken}

Start ==
  /\ taken \in SUBSET Page
  /\ 0 \in taken
  /\ claims = {}

\* a run of free pages, and none of them the reserved page
Grant(n) ==
  \E e \in 1 .. PageCount :
    /\ Span(e, n) \subseteq Page \ taken
    /\ taken'  = taken \cup Span(e, n)
    /\ claims' = claims \cup {[owner |-> owner, entry |-> e, count |-> n]}

\* only when there is no such run
Refuse(n) ==
  /\ Available(n) = {}
  /\ claims' = claims \cup {[owner |-> owner, entry |-> 0, count |-> n]}
  /\ taken'  = taken

GiveBack(claim) ==
  /\ claim \in claims
  /\ claims' = claims \ {claim}
  /\ taken'  = taken

Lose(p) ==
  /\ taken'  = taken \cup {p}
  /\ claims' = claims

Step ==
  \/ \E n \in Requests : Grant(n) \/ Refuse(n)
  \/ \E claim \in claims : GiveBack(claim)
  \/ \E p \in Page : Lose(p)

Served == Start /\ [][Step]_<<taken, claims>>
===============================================================================
