------------------------------ MODULE Console ------------------------------
(***************************************************************************)
(* The text console of graphic.c on the frame buffer of fb.c: a cursor in  *)
(* pixels and the pixels themselves, which putc draws without looking at   *)
(* the limits of the screen.  A console is a record of the cursor and of   *)
(* what every address of the frame buffer holds; an address is counted in  *)
(* pixels from fb.Base.                                                    *)
(*                                                                         *)
(* A pixel of a glyph is named by its character and its place in the       *)
(* glyph: which of them are lit is the data of font.c.                     *)
(***************************************************************************)
EXTENDS Integers, Sequences, FiniteSets, SequencesExt

CONSTANTS FONT_WIDTH, FONT_HEIGHT,
          HorizontalResolution, VerticalResolution

ASSUME ConsoleAssumption ==
  /\ FONT_WIDTH \in Nat \ {0} /\ FONT_HEIGHT \in Nat \ {0}
  /\ HorizontalResolution \in Nat \ {0} /\ VerticalResolution \in Nat \ {0}

BG   == <<"BG", 0, 0>> \* the background colour
Logo == <<"Logo", 0, 0>> \* what the boot loader left

\* Characters with no glyph: the space, and those the table of font.c leaves out.
Blank == {" ", "\r", "NUL"}

fontBitMap(c, y, x) == IF c \in Blank THEN BG ELSE <<c, y, x>>

Address(x, y) == HorizontalResolution * y + x

Cell == {<<x, y>> : x \in 0 .. FONT_WIDTH - 1, y \in 0 .. FONT_HEIGHT - 1}

\* The screen s with character c drawn at (left, top): the pixels that fall
\* behind the right edge are those at the start of the next row.
DrawGlyph(s, c, left, top) ==
  LET at == [q \in Cell |-> Address(left + q[1], top + q[2])]
  IN  [a \in DOMAIN s \cup {at[q] : q \in Cell} |->
         IF \E q \in Cell : at[q] = a
         THEN LET q == CHOOSE r \in Cell : at[r] = a IN fontBitMap(c, q[2], q[1])
         ELSE s[a]]

NewLine(con)     == [con EXCEPT !.cursorX = 0, !.cursorY = @ + FONT_HEIGHT]
DrawChar(con, c) == [con EXCEPT !.cursorX = @ + FONT_WIDTH,
                                !.screen = DrawGlyph(@, c, con.cursorX, con.cursorY)]

\* Mutant: a new line leaves the cursor in its column.
putcNoReturn(con, c) ==
  IF c = "\n" THEN [con EXCEPT !.cursorY = @ + FONT_HEIGHT] ELSE DrawChar(con, c)

\* The console after putc(c): a '\r' is a character like any other.
putc(con, c) == IF c = "\n" THEN NewLine(con) ELSE DrawChar(con, c)

puts(con, str) == FoldLeft(putc, con, str)

\* SetBackGround, as GraphicInit calls it.
SetBackGround(con) ==
  [con EXCEPT !.screen =
     [a \in DOMAIN con.screen |->
        IF \E x \in 0 .. HorizontalResolution - 1, y \in 0 .. VerticalResolution - 1 :
             Address(x, y) = a
        THEN BG ELSE con.screen[a]]]

GraphicInit(con) == [SetBackGround(con) EXCEPT !.cursorX = 0, !.cursorY = 0]

\* The frame buffer as the boot loader leaves it: with a picture of its own.
FrameBuffer == 0 .. HorizontalResolution * VerticalResolution - 1
PowerOn     == [cursorX |-> 0, cursorY |-> 0, screen |-> [a \in FrameBuffer |-> Logo]]

-----------------------------------------------------------------------------
(***************************************************************************)
(* What should be on the screen, from the text alone: line after line, a   *)
(* cell for each character.                                                *)
(***************************************************************************)
Columns == HorizontalResolution \div FONT_WIDTH
Rows    == VerticalResolution \div FONT_HEIGHT

\* The line of the i-th character of a text, from 0, and its column in it.
LineAt(text, i)   == Cardinality({j \in 1 .. i - 1 : text[j] = "\n"})
ColumnAt(text, i) == Cardinality({j \in 1 .. i - 1 : LineAt(text, j) = LineAt(text, i)
                                                      /\ text[j] # "\n"})

\* The text leaves the last column of each line free (Enter blanks a cell at the
\* end of its line) and stays on the screen.
Fits(text) ==
  \A i \in DOMAIN text :
    LineAt(text, i) < Rows /\ (text[i] = "\n" \/ ColumnAt(text, i) < Columns - 1)

\* What the pixel (x, y) of a screen with the text on it shows.
PixelOf(text, x, y) ==
  LET here == {i \in DOMAIN text : /\ text[i] # "\n"
                                   /\ LineAt(text, i) = y \div FONT_HEIGHT
                                   /\ ColumnAt(text, i) = x \div FONT_WIDTH}
  IN  IF here = {} THEN BG
      ELSE fontBitMap(text[CHOOSE i \in here : TRUE], y % FONT_HEIGHT, x % FONT_WIDTH)

Shows(con, text) ==
  \A x \in 0 .. HorizontalResolution - 1, y \in 0 .. VerticalResolution - 1 :
    con.screen[HorizontalResolution * y + x] = PixelOf(text, x, y)
=============================================================================
