----------------------------- MODULE AddressSpace -----------------------------
(***************************************************************************)
(* What the memory map of the kernel promises: a call of VmMapDescription *)
(* sets the virtual page that it was made for, at one moment before it     *)
(* returns, and touches no other; HalSetDescription makes the processor    *)
(* see the map, provided every directory was filled from its first region  *)
(* on, as VmInitialize fills it.                                           *)
(***************************************************************************)
EXTENDS Integers

CONSTANTS
  Virtual,      \* virtual page numbers
  Page,         \* physical page numbers
  Attributes,   \* struct VMA
  Unmapped,     \* the entry of a virtual page that nobody mapped
  NoPage,       \* the processor finds no page
  RegionSize,   \* pages behind one entry of the processor's directory
  RegionCount   \* entries of it that one LPDE covers

VARIABLES
  space,        \* virtual page -> [address, attributes], or Unmapped
  loaded,       \* virtual page -> page, as the processor translates
  requests      \* what VmMapDescription was called for and has not done

Init ==
  /\ space = [v \in Virtual |-> Unmapped]
  /\ loaded = [v \in Virtual |-> NoPage]
  /\ requests = {}

Request == [virtual : Virtual, page : Page, attributes : Attributes]

Ask(r) ==
  /\ requests = {}
  /\ requests' = {r}
  /\ UNCHANGED <<space, loaded>>

Map(r) ==
  /\ requests' = requests \ {r}
  /\ space' = [space EXCEPT ![r.virtual] = [address |-> r.page, attributes |-> r.attributes]]
  /\ UNCHANGED loaded

Regions == {v \div RegionSize : v \in {u \in Virtual : space[u] # Unmapped}}

Dense ==
  \A r \in Regions : \A q \in (r \div RegionCount) * RegionCount .. r : q \in Regions

Load ==
  /\ requests = {}
  /\ loaded' \in [Virtual -> Page \cup {NoPage}]
  /\ Dense => \A v \in Virtual :
                space[v] # Unmapped => loaded'[v] = space[v].address
  /\ UNCHANGED <<space, requests>>

Next ==
  \/ \E r \in Request : Ask(r)
  \/ \E r \in requests : Map(r)
  \/ Load

Spec == Init /\ [][Next]_<<space, loaded, requests>>
===============================================================================
