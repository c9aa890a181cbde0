-------------------------------- MODULE MCDisk --------------------------------
(* Registers of one binary digit: sectors from 8 on need READ EXT.  Members  *)
(* end inside a sector or with it, and the file may begin or end on either   *)
(* side of the limit.                                                        *)
EXTENDS Disk, SequencesExt

Dir     == [matches |-> FALSE, size |-> 0]
Other(n) == [matches |-> FALSE, size |-> n]
File(n)  == [matches |-> TRUE, size |-> n]

Put(a, m) ==
  Append(a, [matches |-> m.matches, size |-> m.size,
                   first |-> IF a = << >> THEN 0 ELSE Behind(Last(a))])

Packed(members) == FoldLeft(Put, << >>, members)

MCArchives ==
  {Packed(<<Dir, File(n), Other(3)>>) : n \in {0, 1, 3, 4}}
    \cup {Packed(<<Dir, Other(m), Dir, File(n), File(2)>>) :
            m \in {3, 8, 11, 17}, n \in {1, 4, 9}}
===============================================================================
