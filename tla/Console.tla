-------------------------------- MODULE Console -------------------------------
(***************************************************************************)
(* The display engine, inufw/module/de/de.c: where letters are painted.    *)
(*                                                                         *)
(* The framebuffer is an array of XLength * YLength pixels; a pixel is     *)
(* named by its index.  Before DeInitialize every static variable is 0,    *)
(* and FwEmergency may print all the same (FbInitialize does).             *)
(***************************************************************************)
EXTENDS Integers

CONSTANTS XLength, YLength,   \* FbX, FbY
          XFont, YFont        \* the 8 and 16 of DeInitialize

ASSUME ConsoleAssumption ==
  /\ XFont = 8      \* currentX moves by 8 whatever the font
  /\ YFont \in Nat \ {0}
  /\ XLength \in Nat /\ XFont <= XLength
  /\ YLength \in Nat /\ YFont < YLength

VARIABLES
  engine,              \* xLength, yLength, xFontLength, yFontLength
  currentX, currentY,
  painted              \* first and last pixel that the last call wrote

vars == <<engine, currentX, currentY, painted>>

(* Definitions named Fault... are slips the code could contain at that      *)
(* place; each shows that a property below would notice (see the README).   *)

Dark == [x |-> 0, y |-> 0, xFont |-> 0, yFont |-> 0]
Lit  == [x |-> XLength, y |-> YLength, xFont |-> XFont, yFont |-> YFont]

None == [first |-> 0, last |-> -1]
Pixel(x, y) == y * engine.x + x

Init ==
  /\ engine = Dark
  /\ currentX = 0 /\ currentY = 0
  /\ painted = None

DeInitialize ==
  /\ engine = Dark
  /\ engine' = Lit
  /\ currentX' = 0 /\ currentY' = 1
  /\ painted' = [first |-> 0, last |-> XLength * YLength - 1]

\* DeLineWind: to the top, on an empty screen.
DeLineWind(winds, y) ==
  /\ currentY' = IF winds THEN 0 ELSE y

FaultWinds(y) == y > engine.y - engine.yFont

\* Line 84.
Winds(y) == y >= engine.y - engine.yFont

\* The screen that DeLineWind clears lies inside the framebuffer as it is
\* filled by number of pixels; painted has the letter.
\* The bits of a row go from right to left: z runs over 0..7, and bit 8 of a
\* byte is never set.  So the last column of a letter is at currentX itself.
DeDrawLetter ==
  LET ends == currentX > engine.x - engine.xFont
      y    == IF ends THEN currentY + engine.yFont ELSE currentY
  IN  /\ currentX' = (IF ends THEN 0 ELSE currentX) + 8
      /\ DeLineWind(Winds(y), y)
      /\ painted' = IF engine.yFont = 0 THEN None
                    ELSE [first |-> Pixel(currentX' - engine.xFont + 1, currentY'),
                          last  |-> Pixel(currentX', currentY' + engine.yFont - 1)]
      /\ UNCHANGED engine

DeReturnCarette ==
  /\ currentX' = 0
  /\ painted' = None
  /\ UNCHANGED <<engine, currentY>>

DeSkipLine ==
  LET y == currentY + engine.yFont
      winds == y > engine.y - engine.yFont
  IN  /\ DeLineWind(winds, y)
      /\ painted' = IF winds THEN [first |-> 0, last |-> engine.x * engine.y - 1] ELSE None
      /\ UNCHANGED <<engine, currentX>>

\* FwIOPrintLetter and DeDrawString tell these letters apart.
Next == DeInitialize \/ DeReturnCarette \/ DeSkipLine \/ DeDrawLetter

Spec == Init /\ [][Next]_vars

-------------------------------------------------------------------------------
\* The cursor stays on the screen, in one of the two states of the engine.
TypeOK ==
  /\ engine \in {Dark, Lit}
  /\ currentX \in 0 .. XLength + 8 /\ currentY \in 0 .. YLength
  /\ painted \in [first : Int, last : Int]

\* Nothing is painted outside the framebuffer, not even the last column of a
\* letter at the right edge, which lies in the next row; and nothing at all
\* before the framebuffer is there.
InsideFramebuffer ==
  painted = None \/ /\ engine = Lit
                    /\ 0 <= painted.first /\ painted.last < XLength * YLength
===============================================================================
