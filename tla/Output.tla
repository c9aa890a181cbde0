--------------------------------- MODULE Output -------------------------------
(***************************************************************************)
(* Text output, inufw/platform/pc/base.c: FwDebugPrint, FwIoPrint and the  *)
(* FwIOPrint family, letter by letter down to module Console.              *)
(*                                                                         *)
(* A message is what a caller wrote: the function it calls, the pieces of  *)
(* its format and with each conversion the argument that belongs to it.    *)
(* The code gets the format as one string.                                 *)
(***************************************************************************)
EXTENDS Console, Rt, SequencesExt

CONSTANTS
  Messages,    \* [how, pieces]
  Prefix       \* per function and type, what is printed first

Percent == 37
CR == 13
LF == 10

\* how: "debug" is FwDebugPrint, the types of FwIoPrint by name; "line" is
\* FwIOPrintLine, "inform" FwIOInform, "stub" FwStub and "crash" FwEmergency,
\* "string" is FwIOPrint and "number" FwIOPrintNumerical.
Formatting == {"debug", "warning", "error", "stubbed", "info"}
Lines      == {"line", "inform", "stub", "crash"}

\* The letters of the conversions c, s, i and x.
Converts(letter) == letter \in {99, 115, 105, 120}

\* What a format is made of: text, two percent signs, conversions with their
\* arguments, and a percent sign in front of anything else.
Byte == 0 .. 255
Ints == -Pow[IntBits - 1] .. IntMax
Word64s == 1 - Modulus .. Modulus - 1
Pieces ==
       [kind : {"text"}, letters : Seq(Byte \ {0, Percent})]
  \cup [kind : {"percent"}]
  \cup [kind : {"c"}, letters : {<<99>>}, value : Byte]
  \cup [kind : {"s"}, letters : {<<115>>}, value : Seq(Byte \ {0})]
  \cup [kind : {"i"}, letters : {<<105>>}, value : Ints]
  \cup [kind : {"x"}, letters : {<<120>>}, value : Ints]
  \cup [kind : {"other"}, letters :
           {s \in Seq(Byte \ {0}) : s # << >> => ~Converts(s[1]) /\ s[1] # Percent}]

\* A percent sign with nothing behind it ends the format.
Formats ==
  {pieces \in Seq(Pieces) :
     \A k \in DOMAIN pieces :
       pieces[k].kind = "other" /\ pieces[k].letters = << >> => k = Len(pieces)}

ASSUME OutputAssumption ==
  /\ Prefix \in [Formatting \cup Lines -> Seq(Byte)]
  /\ \A m \in Messages : m.how \in Formatting => m.pieces \in Formats
  /\ \A m \in Messages : \A k \in DOMAIN m.pieces :
       m.pieces[k].kind \in {"i", "x"} => m.pieces[k].value \in Word64s

VARIABLES
  call         \* the call in progress

printVars == <<vars, call>>

(* Definitions named Fault... are slips the code could contain at that      *)
(* place; each shows that a property below would notice (see the README).   *)

Idle == [pc |-> "idle"]

\* The format as it is written in the source.
Source(piece) ==
  CASE piece.kind = "text"    -> piece.letters
    [] piece.kind = "percent" -> <<Percent, Percent>>
    [] OTHER                  -> <<Percent>> \o piece.letters

Format(pieces) == FlattenSeq([i \in DOMAIN pieces |-> Source(pieces[i])])

HasArgument(piece) == piece.kind \in {"c", "s", "i", "x"}

Arguments(pieces) ==
  FlattenSeq([i \in DOMAIN pieces |->
                IF HasArgument(pieces[i]) THEN <<pieces[i].value>> ELSE << >>])

PrintInit == Init /\ call = Idle

-------------------------------------------------------------------------------
(* The calls.                                                               *)

\* left: letters on their way to the screen; rest: the format behind them.
Start(m, left, rest) ==
  [pc |-> "letters", message |-> m, left |-> left, rest |-> rest,
   arguments |-> Arguments(m.pieces), written |-> 0, out |-> << >>]

\* FwDebugPrint and FwIoPrint: the prefix goes through FwIOPrint.
FwDebugPrint(m) ==
  /\ call.pc = "idle" /\ m.how \in Formatting
  /\ call' = Start(m, Prefix[m.how], Format(m.pieces))
  /\ UNCHANGED vars

\* FwIOPrintLine and what is made of it.  These strings are not formats.
FwIOPrintLine(m) ==
  /\ call.pc = "idle" /\ m.how \in Lines
  /\ call' = Start(m, Prefix[m.how] \o Format(m.pieces) \o <<CR, LF>>, << >>)
  /\ UNCHANGED vars

FwIOPrint(m) ==
  /\ call.pc = "idle" /\ m.how = "string"
  /\ call' = Start(m, Format(m.pieces), << >>)
  /\ UNCHANGED vars

\* The unsigned value goes to itoa as an int.
FwIOPrintNumerical(m) ==
  /\ call.pc = "idle" /\ m.how = "number"
  /\ LET v == m.pieces[1].value
     IN  call' = Start(m, itoa(IF v > IntMax THEN v - Pow[IntBits] ELSE v, 10), << >>)
  /\ UNCHANGED vars

\* FwIOPrintLetter.
FwIOPrintLetter(c) ==
  CASE c = CR -> DeReturnCarette
    [] c = LF -> DeSkipLine
    [] OTHER  -> DeDrawLetter

\* DeDrawString, or print and putchar: one letter.
Letter ==
  /\ call.pc = "letters" /\ call.left # << >>
  /\ FwIOPrintLetter(Head(call.left))
  /\ call' = [call EXCEPT !.left = Tail(@), !.out = Append(@, Head(call.left))]

-------------------------------------------------------------------------------
(* One round of the loop over the format.                                   *)

Parsing == call.pc = "letters" /\ call.left = << >> /\ call.rest # << >>

AtText == call.rest[1] # Percent \/ At(call.rest, 2) = Percent

\* Hand n letters of text to print, and go on behind skip letters of the
\* format; or give up, when the count would not fit an int.
Segment(text, skip, arguments) ==
  /\ IF IntMax - call.written < Len(text)
     THEN call' = [call EXCEPT !.pc = "return", !.written = -1]
     ELSE call' = [call EXCEPT !.left = text, !.written = @ + Len(text),
                               !.rest = SubSeq(@, skip + 1, Len(@)),
                               !.arguments = arguments]
  /\ UNCHANGED vars

\* Text up to the next percent sign; of two of them the first is left out.
TextLength(s) ==
  LET ends == {n \in 1 .. Len(s) : At(s, n + 1) \in {0, Percent}}
  IN  CHOOSE n \in ends : \A o \in ends : n <= o

FaultText ==                      \* format++ is missing
  /\ Parsing /\ AtText
  /\ LET n == TextLength(call.rest)
     IN  Segment(SubSeq(call.rest, 1, n), n, call.arguments)

Text ==
  /\ Parsing /\ AtText
  /\ LET from == IF call.rest[1] = Percent THEN 1 ELSE 0
         body == SubSeq(call.rest, from + 1, Len(call.rest))
         n    == TextLength(body)
     IN  Segment(SubSeq(body, 1, n), from + n, call.arguments)

\* An int becomes a UInt64 on the way to ultoa, and keeps its sign there.
Rendered(letter, value) ==
  CASE letter = 99  -> <<value>>
    [] letter = 115 -> value
    [] letter = 105 -> itoa(value, 10)
    [] letter = 120 -> ultoa(value % Modulus, 16)

FaultConversion ==                \* format is set back to the percent sign
  /\ Parsing /\ ~AtText
  /\ Converts(At(call.rest, 2))
  /\ Segment(Rendered(call.rest[2], Head(call.arguments)), 0, call.arguments)

Conversion ==
  /\ Parsing /\ ~AtText
  /\ Converts(At(call.rest, 2))
  /\ Segment(Rendered(call.rest[2], Head(call.arguments)), 2, Tail(call.arguments))

\* A conversion that is none of these: the rest of the format is text, a
\* percent sign alone at the end is one too.
Unknown ==
  /\ Parsing /\ ~AtText
  /\ ~Converts(At(call.rest, 2))
  /\ Segment(call.rest, Len(call.rest), call.arguments)

\* FwEmergency goes on to HalHalt, FwStub to FwEmergency.
Return ==
  /\ call.pc = "letters" /\ call.left = << >> /\ call.rest = << >>
  /\ call' = [call EXCEPT !.pc = IF call.message.how \in {"crash", "stub"} THEN "halt"
                                                                           ELSE "return"]
  /\ UNCHANGED vars

Leave ==
  /\ call.pc = "return"
  /\ call' = Idle
  /\ UNCHANGED vars

-------------------------------------------------------------------------------
Printing == Letter \/ Text \/ Conversion \/ Unknown \/ Return \/ Leave

\* FwInitialize calls DeInitialize once, and not in the middle of a line.
PrintNext ==
  \/ call.pc = "idle" /\ DeInitialize /\ UNCHANGED call
  \/ \E m \in Messages :
       FwDebugPrint(m) \/ FwIOPrintLine(m) \/ FwIOPrint(m) \/ FwIOPrintNumerical(m)
  \/ Printing

\* Nothing waits in the middle of a line.
PrintSpec == PrintInit /\ [][PrintNext]_printVars /\ WF_printVars(Printing)

-------------------------------------------------------------------------------
(* Properties.                                                             *)

\* What a reader of the message expects: every conversion in its place, of %x
\* the bits of the int, and behind a conversion that the code does not know the
\* format as it stands.
Digits(value, base, letter) ==
  LET upto[n \in Nat] == IF n < base THEN <<letter[n]>>
                         ELSE Append(upto[n \div base], letter[n % base])
  IN  upto[value]

Meaning(piece) ==
  CASE piece.kind = "text"    -> piece.letters
    [] piece.kind = "percent" -> <<Percent>>
    [] piece.kind = "c"       -> <<piece.value>>
    [] piece.kind = "s"       -> piece.value
    [] piece.kind = "i"       -> IF piece.value < 0
                                 THEN <<Minus>> \o Digits(-piece.value, 10, Smalls)
                                 ELSE Digits(piece.value, 10, Smalls)
    [] piece.kind = "x"       -> Digits(piece.value % Pow[IntBits], 16, Larges)
    [] piece.kind = "other"   -> Source(piece)

Expected(pieces) ==
  LET unknown == {i \in DOMAIN pieces : pieces[i].kind = "other"}
      text(i) == IF \E u \in unknown : u < i THEN Source(pieces[i]) ELSE Meaning(pieces[i])
  IN  FlattenSeq([i \in DOMAIN pieces |-> text(i)])

\* A negative int behind %x, as every address from 0x80000000 on is: the code
\* makes a UInt64 of it, and prints more digits than an int has (README,
\* section 5).
Widened(pieces) == \E i \in DOMAIN pieces : pieces[i].kind = "x" /\ pieces[i].value < 0

Returned(how) == call.pc = "return" /\ call.message.how \in how

\* FwDebugPrint and FwIoPrint print what the format and the arguments mean,
\* behind their prefix, and answer how many letters that were; -1 exactly if
\* an int cannot count them, and then what was printed is the beginning.
\* Messages with a negative argument of %x are left out.
PrintedAsAsked ==
  Returned(Formatting) /\ ~Widened(call.message.pieces) =>
    LET whole == Prefix[call.message.how] \o Expected(call.message.pieces)
    IN  IF Len(Expected(call.message.pieces)) <= IntMax
        THEN call.out = whole /\ call.written = Len(Expected(call.message.pieces))
        ELSE IsPrefix(call.out, whole) /\ call.written = -1

\* Every message is printed to its end, whatever is in its format.
PrintReturns == call.pc = "letters" ~> call.pc \in {"return", "halt"}

-------------------------------------------------------------------------------
(* The operators of Rt on the strings and numbers at hand, compared with      *)
(* what they are for.                                                         *)

\* They depend on the message alone: once for each, before there is a screen.
Begun == call.pc = "letters" /\ Init

Value(digits, base) ==
  LET digit(c) == IF c < 58 THEN c - Zero ELSE IF c < 97 THEN c - 65 + 10 ELSE c - 97 + 10
      upto[n \in Nat] == IF n = 0 THEN 0 ELSE upto[n - 1] * base + digit(At(digits, n))
  IN  upto[Len(digits)]

\* The digits of itoa, ultoa and ltoa denote the value, none is lost in the
\* buffer of ultoa for a radix of four or more, and atoi reads them back.
NumbersReadBack ==
  Begun => \A k \in {k \in DOMAIN call.message.pieces : call.message.pieces[k].kind \in {"i", "x"}} :
    LET v == call.message.pieces[k].value IN
    /\ v < 0 => /\ Head(itoa(v, 10)) = Minus /\ Value(Tail(itoa(v, 10)), 10) = -v
                /\ Value(Tail(ltoa(v, 10).buffer), 10) = -v
    /\ v >= 0 => atoi(itoa(v, 10)) = v
    /\ \A base \in 2 .. 36 : v >= 0 => Value(itoa(v, base), base) = v
    /\ \A base \in 4 .. 36 :
         Value(ultoa(v % Modulus, base), base) = v % Modulus

\* Copying within the letters of text.
CopiesExact(text) ==
  LET size == Len(text)
      m == [a \in 0 .. size - 1 |-> text[a + 1]]
  IN  \A dest, src \in 0 .. size - 1 : \A n \in 0 .. size :
        dest + n <= size /\ src + n <= size =>
          /\ memmove(m, dest, src, n) = Move(m, dest, src, n)
          /\ dest <= src \/ src + n <= dest => memcpy(m, dest, src, n) = Move(m, dest, src, n)

\* Clearing a part of them, of whole words or shorter than one.
ClearsExact(text) ==
  LET size == Len(text)
      m == [a \in 0 .. size - 1 |-> text[a + 1]]
  IN  \A dest \in 0 .. size - 1 : \A n \in 0 .. size :
        dest + n <= size /\ (n % 4 = 0 \/ n < 4) =>
          memset(m, dest, n) = [a \in DOMAIN m |-> IF a \in dest .. dest + n - 1 THEN 0 ELSE m[a]]

\* Where part stands in text, counted in letters before it.
Places(part, text) ==
  {i \in 0 .. Len(text) - Len(part) : SubSeq(text, i + 1, i + Len(part)) = part}

SearchesExact(part, text) ==
  LET first == CHOOSE i \in Places(part, text) : \A j \in Places(part, text) : i <= j
  IN  strstr(text, part) = first /\ lctentr(part, text, Len(text)) = first

Sign(x) == IF x < 0 THEN -1 ELSE IF x > 0 THEN 1 ELSE 0

ComparisonsExact(a, b) ==
  /\ strcmp(a, b) = 0 <=> a = b
  /\ Sign(strcmp(a, b)) = -Sign(strcmp(b, a))
  /\ wstrque(a, b) <=> a = b
  /\ Len(a) = Len(b) => /\ memcmp(a, b, Len(a)) = 0 <=> a = b
                        /\ memcmp(a, b, Len(a)) = -memcmp(b, a, Len(a))
  /\ strstr(a, b) = Null /\ b # << >> => Places(b, a) = {}

Substrings(text) == {SubSeq(text, i, j) : i \in 1 .. Len(text), j \in 1 .. Len(text)}

HandledExactly(text) ==
  /\ CopiesExact(text) /\ ClearsExact(text)
  /\ \A part \in Substrings(text) \ {<< >>} : SearchesExact(part, text)
  /\ \A a, b \in Substrings(text) : ComparisonsExact(a, b)

\* The runtime library on the formats that are printed.  memmove copies every
\* region as if it had been read before anything was written, and memcpy every
\* region that it does not copy upwards onto itself; memset clears a region of
\* whole words or of less than one, and no other (README, section 5).  strstr, wstrstr and
\* lctentr find the first place and only what is there; the comparisons say
\* "equal" of equal strings and of no others, and the other way round of the
\* strings the other way round.
RoutinesExact == Begun => HandledExactly(call.rest)

\* Division, shifts and counts of Arith64 are exact for every word: looked at
\* once, before the first call, as they depend on no state.
ArithmeticExact == PrintInit => Exact
===============================================================================
