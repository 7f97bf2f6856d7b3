------------------------------ MODULE Terminal ------------------------------
(***************************************************************************)
(* The text screen, os/device/vga.cpp: a cursor that wraps, scrolls and    *)
(* goes back over a buffer of Height rows of Width cells.  The cursor's    *)
(* row and column and the index of a cell are unsigned integers that wrap  *)
(* around.                                                                 *)
(*                                                                         *)
(* What should be on the screen is kept beside it, as the last lines of    *)
(* what was printed.                                                       *)
(***************************************************************************)
EXTENDS Integers, SequencesExt

CONSTANTS
  Width,     \* VGA_WIDTH: 80
  Height,    \* VGA_HEIGHT: 24
  UInt,      \* the number of values of an unsigned int: 2^32
  Colors,    \* the attributes, DefaultColor among them
  Chars,     \* the characters, Space and the negative ones among them
  Negative,  \* the characters above 127, as chars are signed
  Strings,   \* what callers print
  Numbers,   \* what callers print in hexadecimal
  NumberSize \* the bytes of a number

Newline == "\n"
Space   == " "
DefaultColor == "light grey"
AllColors    == "white on white"

ASSUME SizeAssumption ==
  /\ Width \in Nat /\ Width > 1
  /\ Height \in Nat /\ Height > 1
  /\ UInt \in Nat /\ UInt > (Width * Height) + Height

ASSUME TextAssumption ==
  /\ {DefaultColor, AllColors} \subseteq Colors
  /\ Space \in Chars \ Negative /\ Newline \notin Chars
  /\ Strings \subseteq Seq(Chars \union {Newline})

VARIABLES
  terminal_row,
  terminal_column,
  terminal_color,
  terminal_buffer, \* the cells, by their index
  todo,            \* what the call has yet to print
  wrapped,         \* ghost: a backspace was asked for at the start of a line
  lines,           \* ghost: until then, the last lines printed, at most Height
  outside          \* ghost: a cell beyond the buffer was written

cursor == <<terminal_row, terminal_column>>
ghosts == <<lines, wrapped, outside>>
vars == <<terminal_row, terminal_column, terminal_color, terminal_buffer, todo, lines, wrapped, outside>>

-----------------------------------------------------------------------------
Cells == 0..((Width * Height) - 1)

\* make_vgaentry(): the sign of a character overwrites the color.
Entry(c, color) == [char |-> c, color |-> IF c \in Negative THEN AllColors ELSE color]

Blank == Entry(Space, DefaultColor)

\* y * VGA_WIDTH + x, in an unsigned int.
Index(x, y) == ((y * Width) + x) % UInt

\* terminal_initialize()
Init ==
  /\ terminal_row = 0 /\ terminal_column = 0
  /\ terminal_color = DefaultColor
  /\ terminal_buffer = [k \in Cells |-> Blank]
  /\ todo = <<>>
  /\ lines = << <<>> >> /\ wrapped = FALSE /\ outside = FALSE

\* terminal_scroll(1) and terminal_scroll(-1).
\* (Mutant: a row too few is moved.)
ScrolledShort(b) ==
  [k \in Cells |-> IF k < Width * (Height - 2) THEN b[k + Width]
                   ELSE IF k >= Width * (Height - 1) THEN Blank ELSE b[k]]
ScrolledDown(b) == [k \in Cells |-> IF k < Width * (Height - 1) THEN b[k + Width] ELSE Blank]
ScrolledUp(b)   == [k \in Cells |-> IF k >= Width THEN b[k - Width] ELSE Blank]

\* terminal_putentryat(): an index beyond the buffer is another address, and
\* memory there is mapped when it is touched.
Put(b, c, color, k) == IF k \in Cells THEN [b EXCEPT ![k] = Entry(c, color)] ELSE b
Out(k) == outside' = (outside \/ k \notin Cells)

-----------------------------------------------------------------------------
(* What the screen is to show.                                             *)

LastLines(s) == IF Len(s) > Height THEN Tail(s) ELSE s

WithNewline == LastLines(Append(lines, <<>>))
WithChar(c) ==
  LET line == Append(Last(lines), [char |-> c, color |-> terminal_color])
      all  == Append(Front(lines), line)
  IN  IF Len(line) = Width THEN LastLines(Append(all, <<>>)) ELSE all
Shortened == Append(Front(lines), Front(Last(lines)))

Shows(s) == lines' = IF wrapped' THEN <<>> ELSE s

-----------------------------------------------------------------------------
\* ++terminal_row, from a buffer as it is then.
\* (Mutant: the screen is scrolled a row late.)
NextRowLate(b) ==
  IF terminal_row = Height
  THEN terminal_row' = Height - 1 /\ terminal_buffer' = ScrolledDown(b)
  ELSE terminal_row' = (terminal_row + 1) % UInt /\ terminal_buffer' = b
NextRow(b) ==
  IF terminal_row + 1 = Height
  THEN terminal_row' = Height - 1 /\ terminal_buffer' = ScrolledDown(b)
  ELSE terminal_row' = (terminal_row + 1) % UInt /\ terminal_buffer' = b

\* terminal_putchar(Head(todo))
PutNewline ==
  /\ todo # <<>> /\ Head(todo) = Newline
  /\ terminal_column' = 0
  /\ NextRow(terminal_buffer)
  /\ todo' = Tail(todo)
  /\ UNCHANGED <<terminal_color, wrapped, outside>>
  /\ Shows(WithNewline)

\* (Mutant: the line is one character longer.)
LineEndsLate == Width + 1
LineEnds     == Width

PutChar ==
  /\ todo # <<>> /\ Head(todo) # Newline
  /\ LET k == Index(terminal_column, terminal_row)
         b == Put(terminal_buffer, Head(todo), terminal_color, k)
         x == (terminal_column + 1) % UInt
     IN  /\ Out(k)
         /\ IF x = LineEnds
            THEN terminal_column' = 0 /\ NextRow(b)
            ELSE terminal_column' = x /\ terminal_buffer' = b /\ UNCHANGED terminal_row
  /\ todo' = Tail(todo)
  /\ UNCHANGED <<terminal_color, wrapped>>
  /\ Shows(WithChar(Head(todo)))

\* terminal_backspace(): the column is left where it wrapped to.
terminal_backspace ==
  /\ todo = <<>>
  /\ LET x == (terminal_column - 1) % UInt
         y == (terminal_row - 1) % UInt
         up == x > Width
         top == up /\ y > Height
         row == IF top THEN 0 ELSE IF up THEN y ELSE terminal_row
         b == IF top THEN ScrolledUp(terminal_buffer) ELSE terminal_buffer
     IN  /\ terminal_column' = x
         /\ terminal_row' = row
         /\ terminal_buffer' = Put(b, Space, terminal_color, Index(x, row))
         /\ Out(Index(x, row))
         /\ wrapped' = (wrapped \/ up)
  /\ Shows(Shortened)
  /\ UNCHANGED <<terminal_color, todo>>

terminal_setcolor(color) ==
  /\ todo = <<>>
  /\ terminal_color' = color
  /\ UNCHANGED <<cursor, terminal_buffer, todo, ghosts>>

terminal_writestring(s) ==
  /\ todo = <<>>
  /\ todo' = s
  /\ UNCHANGED <<cursor, terminal_color, terminal_buffer, ghosts>>

\* terminal_writehex(): two digits for every byte, the first one first.
alphanumeric == <<"0", "1", "2", "3", "4", "5", "6", "7", "8", "9", "A", "B", "C", "D", "E", "F">>
HexDigits(n) == [i \in 1..(2 * NumberSize) |-> alphanumeric[1 + ((n \div 16^((2 * NumberSize) - i)) % 16)]]

ASSUME NumberAssumption == \A n \in Numbers : HexDigits(n) \in Seq(Chars)

terminal_writehex(n) == terminal_writestring(HexDigits(n))

Next ==
  \/ PutNewline
  \/ PutChar
  \/ terminal_backspace
  \/ \E color \in Colors : terminal_setcolor(color)
  \/ \E s \in Strings : terminal_writestring(s)
  \/ \E n \in Numbers : terminal_writehex(n)

Spec == Init /\ [][Next]_vars

-----------------------------------------------------------------------------
(* Properties.                                                             *)

Cell == [char : Chars, color : Colors]

\* The variables keep their types: the row is on the screen whatever happens.
TypeOK ==
  /\ terminal_row \in 0..(Height - 1)
  /\ terminal_column \in 0..(UInt - 1)
  /\ terminal_color \in Colors
  /\ terminal_buffer \in [Cells -> Cell]
  /\ todo \in Seq(Chars \union {Newline})
  /\ lines \in Seq(Seq(Cell))
  /\ wrapped \in BOOLEAN
  /\ outside \in BOOLEAN

\* As long as no backspace was asked for at the start of a line, the cursor is
\* on the screen, behind the last character of the last line, and no write
\* misses the buffer: neither a full line nor a full screen leads past it.
CursorKept ==
  ~wrapped => /\ terminal_column < Width
              /\ ~outside
              /\ terminal_row = Len(lines) - 1
              /\ terminal_column = Len(Last(lines))

\* Buffer b shows the lines s, each character with its color, and nothing else.
Displays(b, s) ==
  \A y \in 0..(Height - 1), x \in 0..(Width - 1) :
    LET cell == b[(y * Width) + x]
    IN  IF y < Len(s) /\ x < Len(s[y + 1])
        THEN cell = Entry(s[y + 1][x + 1].char, s[y + 1][x + 1].color)
        ELSE cell.char = Space

\* ... and the screen shows the last lines that were printed: characters,
\* newlines and backspaces in any order, over any number of scrolls.
ScreenShows == ~wrapped => Displays(terminal_buffer, lines)
=============================================================================
