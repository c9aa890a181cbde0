----------------------------- MODULE MCExecutive -----------------------------
(* A driver names a namespace of its own, and looks up "Ps" with a literal   *)
(* of its own.  Three signals of drivers may listen to each other.           *)
EXTENDS Executive

MCLiterals == {"ROOT", "Ps", "Disk", "Ps of a driver"}
MCWritten == [l \in MCLiterals |-> IF l = "Ps of a driver" THEN "Ps" ELSE l]
===============================================================================
