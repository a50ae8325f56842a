------------------------------ MODULE Keyboard ------------------------------
(***************************************************************************)
(* The keyboard driver of kbc.c: the table of scan codes, the shift state  *)
(* and the interrupt handler's reading of one byte; and the keyboard with  *)
(* its controller, which hands over one byte at a time.                    *)
(*                                                                         *)
(* A byte of the keyboard is a key code and whether the key was released   *)
(* (bit 7, the break bit).                                                 *)
(***************************************************************************)
EXTENDS Integers, Sequences, FiniteSets

CONSTANTS Keys,    \* the key codes of the keyboard
          Legend,  \* what is printed on a key: its character without and with shift
          FifoSize, \* bound: bytes the keyboard keeps while the controller is full
          Fingers   \* bound: keys held down at a time

KEYCODE_LSHIFT == 42
KEYCODE_RSHIFT == 54
KEYCODE_LCTRL  == 29
KEYCODE_LALT   == 56

Shifts    == {KEYCODE_LSHIFT, KEYCODE_RSHIFT}
Modifiers == Shifts \cup {KEYCODE_LCTRL, KEYCODE_LALT}

scanCode ==
  <<"NUL", "ESC", "1", "2", "3", "4", "5", "6", "7", "8", "9", "0", "-", "=", "BS",
    "HT", "q", "w", "e", "r", "t", "y", "u", "i", "o", "p", "[", "]", "\n", "NUL",
    "a", "s", "d", "f", "g", "h", "j", "k", "l", ";", "'", "grave", "NUL", "\\", "z",
    "x", "c", "v", "b", "n", "m", ",", ".", "/", "NUL", "NUL", "NUL", " ">>

\* What is read behind the table is not known, so no such key is pressed here.
ASSUME KeyboardAssumption ==
  /\ Keys \subseteq 0 .. Len(scanCode) - 1
  /\ Legend \in [Keys \ Modifiers -> STRING \X STRING]
  /\ FifoSize \in Nat /\ Fingers \in Nat

VARIABLES outputBuffer, \* the byte in the controller's output buffer (OBF: not Empty)
          fifo,         \* bytes the keyboard has yet to send to the controller
          held,         \* keys that are held down
          isShift

keyboardVars == <<outputBuffer, fifo, held, isShift>>

Empty      == [key |-> -1, isBrake |-> FALSE]
Byte(k, b) == [key |-> k, isBrake |-> b]

-----------------------------------------------------------------------------
(***************************************************************************)
(* The driver                                                              *)
(***************************************************************************)
Letters == {"a", "b", "c", "d", "e", "f", "g", "h", "i", "j", "k", "l", "m",
            "n", "o", "p", "q", "r", "s", "t", "u", "v", "w", "x", "y", "z"}

\* c - 'a' + 'A'
Upper ==
  [a |-> "A", b |-> "B", c |-> "C", d |-> "D", e |-> "E", f |-> "F", g |-> "G",
   h |-> "H", i |-> "I", j |-> "J", k |-> "K", l |-> "L", m |-> "M", n |-> "N",
   o |-> "O", p |-> "P", q |-> "Q", r |-> "R", s |-> "S", t |-> "T", u |-> "U",
   v |-> "V", w |-> "W", x |-> "X", y |-> "Y", z |-> "Z"]

\* The cases of the switch: a character, what it becomes, and what with shift.
Symbols ==
  {<<"1", "1", "!">>, <<"2", "2", "@">>, <<"3", "3", "#">>, <<"4", "4", "$">>,
   <<"5", "5", "%">>, <<"6", "6", "^">>, <<"7", "7", "&">>, <<"8", "8", "*">>,
   <<"9", "9", "(">>, <<"0", "0", ")">>, <<"-", "-", "_">>, <<"=", "=", "+">>,
   <<"[", "[", "{">>, <<"]", "]", "}">>, <<"\n", "\n", "\n">>, <<";", ";", ":">>,
   <<"'", "\"", "'">>, <<"grave", "grave", "~">>, <<"\\", "\\", "|">>, <<",", ",", "<">>,
   <<".", ".", ">">>, <<"/", "/", "?">>}

\* Every other character, the space among them, becomes 0.
CalcASCIICode(c, shift) ==
  IF c \in Letters THEN (IF shift THEN Upper[c] ELSE c)
  ELSE IF \E s \in Symbols : s[1] = c
       THEN LET s == CHOOSE t \in Symbols : t[1] = c IN IF shift THEN s[3] ELSE s[2]
       ELSE "NUL"

\* Mutant: the break code of a shift key is taken for its make code.
ShiftAfterIgnoresBreak(byte) == isShift \/ byte.key \in Shifts

\* The shift state once a byte has been handled.
ShiftAfter(byte) == IF byte.key \in Shifts THEN ~byte.isBrake ELSE isShift

\* What doKBCInterrupt prints for a byte.
Printed(byte) ==
  IF byte.key \in Modifiers \/ byte.isBrake THEN <<>>
  ELSE LET c == CalcASCIICode(scanCode[byte.key + 1], isShift)
       IN  IF c = "\n" THEN <<"\r", "\n">> ELSE <<c>>

\* doKBCInterrupt up to its end of interrupt: the byte is taken out of the
\* output buffer, if there is one.
HandleByte ==
  /\ isShift' = IF outputBuffer = Empty THEN isShift ELSE ShiftAfter(outputBuffer)
  /\ outputBuffer' = Empty
  /\ UNCHANGED <<fifo, held>>

-----------------------------------------------------------------------------
(***************************************************************************)
(* The keyboard: a key goes down, again and again while it is held, or up. *)
(* Both shift keys are not held at once here: isShift follows the last of  *)
(* their bytes, so that letting go of one would end the shift.             *)
(***************************************************************************)
KeyDown(k) ==
  /\ Len(fifo) < FifoSize
  /\ held' = held \cup {k}
  /\ Cardinality(held') <= Fingers
  /\ ~(Shifts \subseteq held')
  /\ fifo' = Append(fifo, Byte(k, FALSE))
  /\ UNCHANGED <<outputBuffer, isShift>>

KeyUp(k) ==
  /\ k \in held
  /\ Len(fifo) < FifoSize
  /\ held' = held \ {k}
  /\ fifo' = Append(fifo, Byte(k, TRUE))
  /\ UNCHANGED <<outputBuffer, isShift>>

\* The controller takes the next byte once the last one has been read.
ControllerLoads ==
  /\ outputBuffer = Empty
  /\ fifo # <<>>
  /\ outputBuffer' = Head(fifo)
  /\ fifo' = Tail(fifo)
  /\ UNCHANGED <<held, isShift>>

\* The character a key stands for while the keys in "down" are held.
LegendOf(k, down) == Legend[k][IF down \cap Shifts = {} THEN 1 ELSE 2]

KeyboardInit ==
  /\ outputBuffer = Empty
  /\ fifo = <<>>
  /\ held = {}
  /\ isShift = FALSE

Bytes == [key : Keys, isBrake : BOOLEAN]

KeyboardTypeOK ==
  /\ outputBuffer \in Bytes \cup {Empty}
  /\ fifo \in Seq(Bytes) /\ Len(fifo) <= FifoSize
  /\ held \subseteq Keys
  /\ isShift \in BOOLEAN
=============================================================================
