-------------------------------- MODULE MCPvm ---------------------------------
(* Tables of four entries and two directories: two regions of eight pages in *)
(* each.  The pages asked for share a table, a region, a directory, or none. *)
EXTENDS Pvm

MCAsked == {0, 5, 9, 10, 18}
MCObserved == MCAsked \cup {1, 13, 26}
MCPhysical == {0, 3}
MCAttributes == {"rw"}
===============================================================================
