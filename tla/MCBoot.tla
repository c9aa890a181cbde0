-------------------------------- MODULE MCBoot --------------------------------
(* 32 pages, half of them "high".  The kernel, its stack and the screen each *)
(* have several places.                                                      *)
EXTENDS Boot

MCLoaderPages == {0, 3}
MCKernelPages == {16, 19, 31}
MCFramebuffers == {1, 28}
MCVirtual == 0 .. 31
MCAttributes == {"rw"}
===============================================================================
