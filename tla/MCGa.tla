--------------------------------- MODULE MCGa ---------------------------------
(* Twelve pages of four blocks: the initial pool has 14 blocks to give, and  *)
(* there is room for two more pools of ten.  Requests of 5, 10 and 11 blocks *)
(* fit twice, once, and never in a new pool.                                 *)
EXTENDS Ga

MCSizes == {0, 320, 640, 704}
MCPayloadPages == {2}
MCGarbage == {{}, 3 .. 8}
===============================================================================
