--------------------------------- MODULE MCPm ---------------------------------
(* Callers ask for nothing, for one page and for a run of three, in a table *)
(* of six pages whose last two memset misses.                              *)
EXTENDS Pm

MCRequests == {0, 1, 3}
===============================================================================
