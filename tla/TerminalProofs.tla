--------------------------- MODULE TerminalProofs ---------------------------
(***************************************************************************)
(* For screens of every size: the cursor stays on the screen and the       *)
(* screen shows the last lines printed, as long as no backspace is asked   *)
(* for at the start of a line.  The three invariants together are          *)
(* inductive: a write lands behind the last character of the last line     *)
(* because the cursor is kept there, and the cursor is kept there because  *)
(* the types bound the row.                                                *)
(***************************************************************************)
EXTENDS Terminal, SequenceTheorems, TLAPS

(***************************************************************************)
(* Arithmetic of cells.                                                    *)
(***************************************************************************)

\* An unsigned int in range is itself (the increments of terminal_putchar).
LEMMA ModuloSmall ==
  ASSUME NEW n \in Nat, NEW a \in Nat, a < n
  PROVE  (a % n) = a
OBVIOUS

\* Decrementing 0 gives the largest unsigned int (terminal_backspace).
LEMMA ModuloMinusOne ==
  ASSUME NEW n \in Nat, n > 0, NEW a \in Nat, a = 0
  PROVE  ((a - 1) % n) = n - 1
OBVIOUS

\* An unsigned int counts beyond the rows and the columns, also from the end.
LEMMA UIntLarge == UInt \in Nat /\ UInt > Height + 1 /\ UInt > Width + 1
<1>1. PICK P \in Int : P = Width * Height
  BY SizeAssumption
<1>2. (Width - 2) * (Height - 2) \in Int /\ (Width - 2) * (Height - 2) >= 0
  BY SizeAssumption
<1>3. (Width - 2) * (Height - 2) = P - (2 * Width) - (2 * Height) + 4
  BY <1>1, SizeAssumption
<1>4. P >= (2 * Width) + (2 * Height) - 4
  BY <1>1, <1>2, <1>3, SizeAssumption
<1>5. UInt \in Nat /\ UInt > P + Height
  BY <1>1, SizeAssumption
<1>6. Width \in Nat /\ Width > 1 /\ Height \in Nat /\ Height > 1
  BY SizeAssumption
<1> QED BY <1>4, <1>5, <1>6

\* Two cells with one index have one row and one column.
LEMMA IndexUnique ==
  ASSUME NEW x1 \in 0..(Width - 1), NEW x2 \in 0..(Width - 1), NEW y1 \in Nat, NEW y2 \in Nat,
         (y1 * Width) + x1 = (y2 * Width) + x2
  PROVE  y1 = y2 /\ x1 = x2
<1> USE SizeAssumption
<1>1. ~(y1 < y2)
  <2> SUFFICES ASSUME y1 < y2 PROVE FALSE
    OBVIOUS
  <2>1. (y2 - y1) * Width >= Width
    OBVIOUS
  <2>2. (y2 - y1) * Width = (y2 * Width) - (y1 * Width)
    OBVIOUS
  <2> QED BY <2>1, <2>2
<1>2. ~(y2 < y1)
  <2> SUFFICES ASSUME y2 < y1 PROVE FALSE
    OBVIOUS
  <2>1. (y1 - y2) * Width >= Width
    OBVIOUS
  <2>2. (y1 - y2) * Width = (y1 * Width) - (y2 * Width)
    OBVIOUS
  <2> QED BY <2>1, <2>2
<1> QED BY <1>1, <1>2

\* ... so that cells of the screen have indices of their own.
LEMMA CellsApart ==
  \A y1, y2 \in 0..(Height - 1), x1, x2 \in 0..(Width - 1) :
    (y1 * Width) + x1 = (y2 * Width) + x2 => y1 = y2 /\ x1 = x2
BY IndexUnique, SizeAssumption

\* The index of a cell of the screen is in the buffer, as it is computed.
LEMMA IndexInside ==
  ASSUME NEW x \in 0..(Width - 1), NEW y \in 0..(Height - 1)
  PROVE  /\ (y * Width) + x \in Cells
         /\ Index(x, y) = (y * Width) + x
<1> USE SizeAssumption
<1>1. y * Width \in Nat /\ Width * Height \in Nat
  OBVIOUS
<1>2. (Height - 1 - y) * Width >= 0
  OBVIOUS
<1>3. (Height - 1 - y) * Width = (Width * Height) - Width - (y * Width)
  OBVIOUS
<1>4. (y * Width) + x \in Nat /\ (y * Width) + x < Width * Height
  BY <1>1, <1>2, <1>3
<1>5. (y * Width) + x < UInt
  BY <1>1, <1>4
<1>6. (((y * Width) + x) % UInt) = (y * Width) + x
  BY <1>4, <1>5, ModuloSmall
<1> QED BY <1>1, <1>4, <1>6 DEF Cells, Index

\* Which cells move when the screen is scrolled, and from where.
LEMMA IndexScrolled ==
  ASSUME NEW x \in 0..(Width - 1), NEW y \in 0..(Height - 1)
  PROVE  /\ (y * Width) + x < Width * (Height - 1) <=> y < Height - 1
         /\ ((y * Width) + x) + Width = ((y + 1) * Width) + x
<1> USE SizeAssumption
<1>1. ((y + 1) * Width) = (y * Width) + Width
  OBVIOUS
<1>2. CASE y < Height - 1
  <2>1. (Height - 1 - (y + 1)) * Width >= 0
    BY <1>2
  <2>2. (Height - 1 - (y + 1)) * Width = (Width * (Height - 1)) - ((y + 1) * Width)
    OBVIOUS
  <2> QED BY <1>1, <1>2, <2>1, <2>2
<1>3. CASE y = Height - 1
  <2>1. y * Width = Width * (Height - 1)
    BY <1>3
  <2> QED BY <1>1, <1>3, <2>1
<1> QED BY <1>2, <1>3

(***************************************************************************)
(* Lines and cells.                                                        *)
(***************************************************************************)

\* Scrolling a full screen by a row shows the lines without the first one,
\* and an empty line below them.
LEMMA ScrollDisplays ==
  ASSUME NEW b \in [Cells -> Cell], NEW s \in Seq(Seq(Cell)), Len(s) = Height, Displays(b, s)
  PROVE  Displays(ScrolledDown(b), Tail(Append(s, <<>>)))
<1> USE SizeAssumption
<1> DEFINE t == Tail(Append(s, <<>>))
<1>1. Len(t) = Height /\ \A j \in 1..(Height - 1) : t[j] = s[j + 1]
  OBVIOUS
<1>2. t[Height] = <<>>
  OBVIOUS
<1> SUFFICES ASSUME NEW y \in 0..(Height - 1), NEW x \in 0..(Width - 1)
             PROVE  LET cell == ScrolledDown(b)[(y * Width) + x]
                    IN  IF y < Len(t) /\ x < Len(t[y + 1])
                        THEN cell = Entry(t[y + 1][x + 1].char, t[y + 1][x + 1].color)
                        ELSE cell.char = Space
  BY DEF Displays
<1>3. (y * Width) + x \in Cells
  BY IndexInside
<1> HIDE DEF t
<1>4. CASE y < Height - 1
  <2>1. ScrolledDown(b)[(y * Width) + x] = b[((y + 1) * Width) + x]
    BY <1>3, <1>4, IndexScrolled DEF ScrolledDown
  <2> DEFINE z == y + 1
  <2>2. z \in 1..(Height - 1) /\ z \in 0..(Height - 1)
    BY <1>4
  <2>3. t[z] = s[z + 1]
    BY <1>1, <2>2
  <2>4. ScrolledDown(b)[(y * Width) + x] = b[(z * Width) + x]
    BY <2>1
  <2>6. y + 1 = z /\ y < Len(t)
    BY <1>1, <1>4
  <2> DEFINE cell == ScrolledDown(b)[(y * Width) + x]
  <2> HIDE DEF z
  <2>5. IF x < Len(s[z + 1])
        THEN b[(z * Width) + x] = Entry(s[z + 1][x + 1].char, s[z + 1][x + 1].color)
        ELSE b[(z * Width) + x].char = Space
    BY <2>2 DEF Displays
  <2>7. cell = b[(z * Width) + x]
    BY <2>4
  <2> HIDE DEF cell
  <2>8. IF x < Len(t[z]) THEN cell = Entry(t[z][x + 1].char, t[z][x + 1].color) ELSE cell.char = Space
    BY <2>3, <2>5, <2>7
  <2>9. IF y < Len(t) /\ x < Len(t[y + 1])
        THEN cell = Entry(t[y + 1][x + 1].char, t[y + 1][x + 1].color)
        ELSE cell.char = Space
    BY <2>6, <2>8
  <2> QED BY <2>9 DEF cell
<1>5. CASE y = Height - 1
  <2>1. ScrolledDown(b)[(y * Width) + x] = Blank
    BY <1>3, <1>5, IndexScrolled DEF ScrolledDown
  <2>2. ~(x < Len(t[y + 1]))
    BY <1>2, <1>5
  <2> QED BY <2>1, <2>2 DEF Blank, Entry
<1> QED BY <1>4, <1>5

\* A line more is shown by the buffer of NextRow.
LEMMA NextRowDisplays ==
  ASSUME NEW b \in [Cells -> Cell], NEW s \in Seq(Seq(Cell)),
         TypeOK, Len(s) = terminal_row + 1, NextRow(b),
         Displays(b, s)
  PROVE  /\ Displays(terminal_buffer', LastLines(Append(s, <<>>)))
         /\ terminal_row' = Len(LastLines(Append(s, <<>>))) - 1
         /\ Last(LastLines(Append(s, <<>>))) = <<>>
<1> USE SizeAssumption
<1>1. terminal_row \in 0..(Height - 1)
  BY DEF TypeOK
<1>2. CASE terminal_row + 1 = Height
  <2>1. terminal_row' = Height - 1 /\ terminal_buffer' = ScrolledDown(b)
    BY <1>2 DEF NextRow
  <2>2. LastLines(Append(s, <<>>)) = Tail(Append(s, <<>>))
    BY <1>2 DEF LastLines
  <2>3. Len(Tail(Append(s, <<>>))) = Height /\ Tail(Append(s, <<>>))[Height] = <<>>
    BY <1>2
  <2> QED BY <1>2, <2>1, <2>2, <2>3, ScrollDisplays DEF Last
<1>3. CASE terminal_row + 1 # Height
  <2>0. UInt \in Nat /\ UInt > Height
    BY UIntLarge
  <2> DEFINE r == terminal_row + 1
  <2>5. r \in Nat /\ r < UInt
    BY <1>1, <2>0
  <2>6. (r % UInt) = r
    BY <2>5, ModuloSmall
  <2>1. terminal_row' = terminal_row + 1 /\ terminal_buffer' = b
    BY <1>3, <2>6 DEF NextRow
  <2>2. LastLines(Append(s, <<>>)) = Append(s, <<>>)
    BY <1>1, <1>3 DEF LastLines
  <2> DEFINE t == Append(s, <<>>)
             n == Len(s)
  <2>3. Displays(b, t)
    <3>1. n \in Nat /\ Len(t) = n + 1 /\ t[n + 1] = <<>> /\ \A j \in 1..n : t[j] = s[j]
      OBVIOUS
    <3> SUFFICES ASSUME NEW y \in 0..(Height - 1), NEW x \in 0..(Width - 1)
                 PROVE  LET cell == b[(y * Width) + x]
                        IN  IF y < Len(t) /\ x < Len(t[y + 1])
                            THEN cell = Entry(t[y + 1][x + 1].char, t[y + 1][x + 1].color)
                            ELSE cell.char = Space
      BY DEF Displays
    <3> DEFINE cell == b[(y * Width) + x]
    <3>2. IF y < n /\ x < Len(s[y + 1])
          THEN cell = Entry(s[y + 1][x + 1].char, s[y + 1][x + 1].color)
          ELSE cell.char = Space
      BY DEF Displays
    <3> HIDE DEF t, n, cell
    <3>3. CASE y < n
      <4>1. t[y + 1] = s[y + 1] /\ y < Len(t)
        BY <3>1, <3>3
      <4> QED BY <3>2, <3>3, <4>1 DEF cell
    <3>4. CASE y = n
      <4>1. Len(t[y + 1]) = 0
        BY <3>1, <3>4
      <4>2. ~(x < Len(t[y + 1]))
        BY <4>1
      <4>3. cell.char = Space
        BY <3>1, <3>2, <3>4
      <4> QED BY <4>2, <4>3 DEF cell
    <3>5. CASE y > n
      <4>1. ~(y < Len(t))
        BY <3>1, <3>5
      <4>2. cell.char = Space
        BY <3>1, <3>2, <3>5
      <4> QED BY <4>1, <4>2 DEF cell
    <3> QED BY <3>1, <3>3, <3>4, <3>5
  <2>4. Len(Append(s, <<>>)) = Len(s) + 1 /\ Append(s, <<>>)[Len(s) + 1] = <<>>
    OBVIOUS
  <2>7. terminal_row' = Len(Append(s, <<>>)) - 1
    BY <1>1, <2>1, <2>4
  <2> QED BY <2>1, <2>2, <2>3, <2>4, <2>7 DEF Last
<1> QED BY <1>2, <1>3

\* A sequence is its front and its last element.
LEMMA FrontLast ==
  ASSUME NEW S, NEW s \in Seq(S), s # <<>>
  PROVE  /\ Len(s) \in Nat /\ Len(s) > 0
         /\ Front(s) \in Seq(S)
         /\ Len(Front(s)) = Len(s) - 1
         /\ \A j \in 1..(Len(s) - 1) : Front(s)[j] = s[j]
         /\ Last(s) \in S /\ Last(s) = s[Len(s)]
<1>1. Len(s) \in Nat /\ Len(s) > 0
  OBVIOUS
<1>2. \A j \in 1..Len(s) : s[j] \in S
  OBVIOUS
<1> DEFINE n == Len(s) - 1
<1>3. n \in Nat /\ \A j \in 1..n : s[j] \in S
  BY <1>1, <1>2
<1> HIDE DEF n
<1>4. /\ SubSeq(s, 1, n) \in Seq(S)
      /\ Len(SubSeq(s, 1, n)) = IF 1 <= n THEN n - 1 + 1 ELSE 0
      /\ \A j \in 1..(n - 1 + 1) : SubSeq(s, 1, n)[j] = s[1 + j - 1]
  BY <1>3, SubSeqProperties
<1>5. Len(SubSeq(s, 1, n)) = n /\ \A j \in 1..n : SubSeq(s, 1, n)[j] = s[j]
  BY <1>3, <1>4
<1>6. Front(s) = SubSeq(s, 1, n)
  BY DEF Front, n
<1> QED BY <1>1, <1>2, <1>4, <1>5, <1>6 DEF Last, n

\* A sequence with an element more.
LEMMA AppendLast ==
  ASSUME NEW S, NEW s \in Seq(S), NEW e \in S
  PROVE  /\ Append(s, e) \in Seq(S)
         /\ Len(Append(s, e)) = Len(s) + 1
         /\ Append(s, e)[Len(s) + 1] = e
         /\ \A j \in 1..Len(s) : Append(s, e)[j] = s[j]
OBVIOUS

\* What replacing the last line of s changes (WithChar and Shortened).
LEMMA ReplaceLast ==
  ASSUME NEW s \in Seq(Seq(Cell)), s # <<>>, NEW line \in Seq(Cell)
  PROVE  /\ Append(Front(s), line) \in Seq(Seq(Cell))
         /\ Len(Append(Front(s), line)) = Len(s)
         /\ \A j \in 1..(Len(s) - 1) : Append(Front(s), line)[j] = s[j]
         /\ Append(Front(s), line)[Len(s)] = line
         /\ Last(s) \in Seq(Cell) /\ Last(s) = s[Len(s)]
<1>1. /\ Len(s) \in Nat /\ Len(s) > 0
      /\ Front(s) \in Seq(Seq(Cell))
      /\ Len(Front(s)) = Len(s) - 1
      /\ \A j \in 1..(Len(s) - 1) : Front(s)[j] = s[j]
      /\ Last(s) \in Seq(Cell) /\ Last(s) = s[Len(s)]
  BY FrontLast
<1> DEFINE f == Front(s)
<1> HIDE DEF f
<1>2. f \in Seq(Seq(Cell)) /\ Len(f) = Len(s) - 1
  BY <1>1 DEF f
<1>3. /\ Append(f, line) \in Seq(Seq(Cell))
      /\ Len(Append(f, line)) = Len(f) + 1
      /\ \A j \in 1..Len(f) : Append(f, line)[j] = f[j]
      /\ Append(f, line)[Len(f) + 1] = line
  BY <1>2
<1> QED BY <1>1, <1>2, <1>3 DEF f

\* The cells other than (col, row) are left alone when e is written there.
OthersKept(b, e, row, col) ==
  \A y \in 0..(Height - 1), x \in 0..(Width - 1) :
    y # row \/ x # col =>
      [b EXCEPT ![Index(col, row)] = e][(y * Width) + x] = b[(y * Width) + x]

\* A write to a cell of the screen is to no other one.
LEMMA WriteElsewhere ==
  ASSUME NEW b \in [Cells -> Cell], NEW e \in Cell,
         NEW row \in 0..(Height - 1), NEW col \in 0..(Width - 1)
  PROVE  OthersKept(b, e, row, col)
<1> SUFFICES ASSUME NEW y \in 0..(Height - 1), NEW x \in 0..(Width - 1), y # row \/ x # col
             PROVE  [b EXCEPT ![Index(col, row)] = e][(y * Width) + x] = b[(y * Width) + x]
  BY DEF OthersKept
<1>1. Index(col, row) = (row * Width) + col
  BY IndexInside
<1>2. (y * Width) + x \in Cells
  BY IndexInside
<1>3. (y * Width) + x # (row * Width) + col
  BY CellsApart
<1> QED BY <1>1, <1>2, <1>3

\* Writing one cell of the last line, and replacing that line by one that
\* differs in this cell only, go together.
LEMMA LineDisplays ==
  ASSUME NEW b \in [Cells -> Cell], NEW s \in Seq(Seq(Cell)), s # <<>>, NEW line \in Seq(Cell),
         NEW row \in 0..(Height - 1), NEW col \in 0..(Width - 1), NEW e \in Cell,
         row = Len(s) - 1,
         \A u \in (0..(Width - 1)) \ {col} :
           /\ u < Len(line) <=> u < Len(Last(s))
           /\ u < Len(line) => line[u + 1] = Last(s)[u + 1],
         IF col < Len(line) THEN e = Entry(line[col + 1].char, line[col + 1].color) ELSE e.char = Space,
         Displays(b, s)
  PROVE  Displays([b EXCEPT ![Index(col, row)] = e], Append(Front(s), line))
<1> USE SizeAssumption
<1>0. OthersKept(b, e, row, col)
  BY WriteElsewhere
<1> DEFINE t == Append(Front(s), line)
           c == [b EXCEPT ![Index(col, row)] = e]
<1>1. /\ Len(t) = row + 1
      /\ \A j \in 1..row : t[j] = s[j]
      /\ t[row + 1] = line
      /\ Last(s) = s[row + 1]
  <2>1. row = Len(s) - 1 /\ Len(s) \in Nat /\ row \in Nat
    BY FrontLast
  <2>2. Len(s) = row + 1
    BY <2>1
  <2> DEFINE n == Len(s)
  <2>3. n \in Nat /\ n - 1 = row /\ n = row + 1
    BY <2>1, <2>2
  <2>4. Len(t) = n /\ (\A j \in 1..(n - 1) : t[j] = s[j]) /\ t[n] = line /\ Last(s) = s[n]
    BY ReplaceLast
  <2> HIDE DEF n, t
  <2> QED BY <2>3, <2>4
<1>3. Len(s) = row + 1
  BY FrontLast
<1>2. Index(col, row) = (row * Width) + col /\ Index(col, row) \in Cells
  BY IndexInside
<1> SUFFICES ASSUME NEW y \in 0..(Height - 1), NEW x \in 0..(Width - 1)
             PROVE  IF y < Len(t) /\ x < Len(t[y + 1])
                    THEN c[(y * Width) + x] = Entry(t[y + 1][x + 1].char, t[y + 1][x + 1].color)
                    ELSE c[(y * Width) + x].char = Space
  BY DEF Displays
<1> DEFINE k == (y * Width) + x
<1>4. k \in Cells
  BY IndexInside
<1>5. IF y < Len(s) /\ x < Len(s[y + 1])
      THEN b[k] = Entry(s[y + 1][x + 1].char, s[y + 1][x + 1].color)
      ELSE b[k].char = Space
  BY DEF Displays
<1>6. y # row \/ x # col => c[k] = b[k]
  BY <1>0 DEF OthersKept
<1>7. y = row /\ x = col => c[k] = e
  BY <1>2
<1>12. y \in Nat /\ row \in Nat /\ x \in Nat
  OBVIOUS
<1> SUFFICES IF y < Len(t) /\ x < Len(t[y + 1])
             THEN c[k] = Entry(t[y + 1][x + 1].char, t[y + 1][x + 1].color)
             ELSE c[k].char = Space
  OBVIOUS
<1> HIDE DEF t, c, k
<1>8. CASE y < row
  <2>1. y + 1 \in 1..row
    BY <1>8, <1>12
  <2>2. t[y + 1] = s[y + 1]
    BY <1>1, <2>1
  <2>3. c[k] = b[k] /\ y < Len(s) /\ y < Len(t)
    BY <1>1, <1>3, <1>6, <1>8, <1>12
  <2> QED BY <1>5, <2>2, <2>3
<1>9. CASE y > row
  BY <1>1, <1>3, <1>5, <1>6, <1>9, <1>12
<1>10. CASE y = row /\ x # col
  <2>1. /\ x < Len(line) <=> x < Len(s[y + 1])
        /\ x < Len(line) => line[x + 1] = s[y + 1][x + 1]
    BY <1>1, <1>10
  <2>2. c[k] = b[k] /\ y < Len(s) /\ y < Len(t) /\ t[y + 1] = line
    BY <1>1, <1>3, <1>6, <1>10, <1>12
  <2> QED BY <1>5, <2>1, <2>2
<1>11. CASE y = row /\ x = col
  <2>1. c[k] = e /\ y < Len(t) /\ t[y + 1] = line
    BY <1>1, <1>7, <1>11, <1>12
  <2> QED BY <1>11, <2>1
<1>13. y < row \/ y > row \/ y = row
  BY <1>12
<1> QED BY <1>8, <1>9, <1>10, <1>11, <1>13

(***************************************************************************)
(* Types.                                                                  *)
(***************************************************************************)

\* make_vgaentry() makes a cell.
LEMMA EntryTyped ==
  ASSUME NEW c \in Chars, NEW color \in Colors
  PROVE  Entry(c, color) \in Cell
BY TextAssumption DEF Entry, Cell

LEMMA BlankTyped == Blank \in Cell
BY EntryTyped, TextAssumption DEF Blank

\* terminal_putentryat() keeps the buffer a buffer, whatever the index.
LEMMA PutTyped ==
  ASSUME NEW b \in [Cells -> Cell], NEW c \in Chars, NEW color \in Colors, NEW k
  PROVE  Put(b, c, color, k) \in [Cells -> Cell]
BY EntryTyped DEF Put

\* So does terminal_scroll(), in both directions.
LEMMA ScrollTyped ==
  ASSUME NEW b \in [Cells -> Cell]
  PROVE  ScrolledDown(b) \in [Cells -> Cell] /\ ScrolledUp(b) \in [Cells -> Cell]
<1>1. PICK P \in Int : P = Width * Height
  BY SizeAssumption
<1>2. Width * (Height - 1) = P - Width /\ Width \in Nat
  BY <1>1, SizeAssumption
<1>3. Cells = 0..(P - 1)
  BY <1>1 DEF Cells
<1>4. \A k \in Cells : k < Width * (Height - 1) => k + Width \in Cells
  BY <1>2, <1>3
<1>5. \A k \in Cells : k >= Width => k - Width \in Cells
  BY <1>2, <1>3
<1> QED BY <1>4, <1>5, BlankTyped DEF ScrolledDown, ScrolledUp

\* NextRow leaves a row of the screen and a buffer.
LEMMA NextRowTyped ==
  ASSUME NEW b \in [Cells -> Cell], TypeOK, NextRow(b)
  PROVE  terminal_row' \in 0..(Height - 1) /\ terminal_buffer' \in [Cells -> Cell]
<1>1. terminal_row \in 0..(Height - 1)
  BY DEF TypeOK
<1>2. CASE terminal_row + 1 = Height
  BY <1>1, <1>2, ScrollTyped, SizeAssumption DEF NextRow
<1>3. CASE terminal_row + 1 # Height
  <2> DEFINE r == terminal_row + 1
  <2>1. r \in Nat /\ r < UInt
    BY <1>1, UIntLarge, SizeAssumption
  <2>2. (r % UInt) = r
    BY <2>1, UIntLarge, ModuloSmall
  <2> QED BY <1>1, <1>3, <2>2, SizeAssumption DEF NextRow
<1> QED BY <1>2, <1>3

\* Dropping the first line of too many.
LEMMA LastLinesTyped ==
  ASSUME NEW s \in Seq(Seq(Cell))
  PROVE  LastLines(s) \in Seq(Seq(Cell))
BY SizeAssumption DEF LastLines

\* The line put in the place of the last one.
LEMMA ReplaceTyped ==
  ASSUME NEW s \in Seq(Seq(Cell)), s # <<>>, NEW line \in Seq(Cell)
  PROVE  Append(Front(s), line) \in Seq(Seq(Cell))
BY ReplaceLast

(***************************************************************************)
(* The inductive invariant.                                                *)
(***************************************************************************)

IInv == TypeOK /\ CursorKept /\ ScreenShows

LEMMA InitHolds == Init => IInv
<1> SUFFICES ASSUME Init PROVE IInv
  OBVIOUS
<1>1. lines = << <<>> >> /\ lines \in Seq(Seq(Cell)) /\ Len(lines) = 1 /\ Last(lines) = <<>>
  BY DEF Init, Last
<1>2. TypeOK
  <2>1. terminal_buffer \in [Cells -> Cell]
    BY BlankTyped DEF Init
  <2>2. terminal_row \in 0..(Height - 1) /\ terminal_column \in 0..(UInt - 1)
    BY UIntLarge, SizeAssumption DEF Init
  <2>3. terminal_color \in Colors /\ todo \in Seq(Chars \union {Newline})
    BY TextAssumption DEF Init
  <2> QED BY <1>1, <2>1, <2>2, <2>3 DEF Init, TypeOK
<1>3. CursorKept
  BY <1>1, SizeAssumption DEF Init, CursorKept
<1>4. Displays(terminal_buffer, lines)
  <2> SUFFICES ASSUME NEW y \in 0..(Height - 1), NEW x \in 0..(Width - 1)
               PROVE  /\ ~(y < Len(lines) /\ x < Len(lines[y + 1]))
                      /\ terminal_buffer[(y * Width) + x].char = Space
    BY DEF Displays
  <2>1. (y * Width) + x \in Cells
    BY IndexInside
  <2>2. y < Len(lines) => y = 0 /\ lines[y + 1] = <<>>
    BY <1>1, SizeAssumption
  <2> QED BY <2>1, <2>2, SizeAssumption DEF Init, Blank, Entry
<1> QED BY <1>2, <1>3, <1>4 DEF IInv, ScreenShows

\* Until the cursor is lost there is a last line, of the row it is in.
LEMMA LinesThere ==
  ASSUME IInv, ~wrapped
  PROVE  /\ lines \in Seq(Seq(Cell)) /\ lines # <<>>
         /\ Len(lines) \in Nat /\ terminal_row = Len(lines) - 1 /\ Len(lines) = terminal_row + 1
         /\ Last(lines) \in Seq(Cell) /\ Len(Last(lines)) = terminal_column
         /\ terminal_column \in 0..(Width - 1) /\ terminal_row \in 0..(Height - 1)
         /\ ~outside /\ Displays(terminal_buffer, lines)
<1>1. /\ lines \in Seq(Seq(Cell)) /\ terminal_row = Len(lines) - 1
      /\ terminal_column \in Nat /\ terminal_column < Width
      /\ terminal_row \in 0..(Height - 1) /\ ~outside
      /\ Len(Last(lines)) = terminal_column
      /\ Displays(terminal_buffer, lines)
  BY UIntLarge DEF IInv, TypeOK, CursorKept, ScreenShows
<1>2. Len(lines) \in Nat /\ Len(lines) = terminal_row + 1 /\ lines # <<>>
  BY <1>1, SizeAssumption
<1>3. Last(lines) \in Seq(Cell)
  BY <1>1, <1>2, FrontLast
<1> QED BY <1>1, <1>2, <1>3, SizeAssumption

LEMMA PutNewlineHolds == IInv /\ PutNewline => IInv'
<1> SUFFICES ASSUME IInv, PutNewline PROVE IInv'
  OBVIOUS
<1>1. TypeOK /\ terminal_buffer \in [Cells -> Cell]
  BY DEF IInv, TypeOK
<1>2. /\ terminal_column' = 0 /\ NextRow(terminal_buffer)
      /\ wrapped' = wrapped /\ outside' = outside /\ terminal_color' = terminal_color
      /\ todo # <<>> /\ todo' = Tail(todo)
      /\ lines' = IF wrapped THEN <<>> ELSE LastLines(Append(lines, <<>>))
  BY DEF PutNewline, Shows, WithNewline
<1>3. TypeOK'
  <2>1. terminal_row' \in 0..(Height - 1) /\ terminal_buffer' \in [Cells -> Cell]
    BY <1>1, <1>2, NextRowTyped
  <2>2. todo' \in Seq(Chars \union {Newline})
    BY <1>1, <1>2 DEF TypeOK
  <2>3. Append(lines, <<>>) \in Seq(Seq(Cell))
    BY <1>1 DEF TypeOK
  <2>4. LastLines(Append(lines, <<>>)) \in Seq(Seq(Cell))
    BY <2>3, LastLinesTyped
  <2>5. lines' \in Seq(Seq(Cell))
    BY <1>2, <2>4
  <2> QED BY <1>1, <1>2, <2>1, <2>2, <2>5, UIntLarge DEF TypeOK
<1>4. ASSUME ~wrapped
      PROVE  /\ Displays(terminal_buffer', lines') /\ ~outside
             /\ terminal_row' = Len(lines') - 1 /\ Last(lines') = <<>>
  BY <1>1, <1>2, <1>4, LinesThere, NextRowDisplays
<1> QED BY <1>2, <1>3, <1>4, SizeAssumption DEF IInv, CursorKept, ScreenShows

LEMMA PutCharHolds == IInv /\ PutChar => IInv'
<1> SUFFICES ASSUME IInv, PutChar PROVE IInv'
  OBVIOUS
<1> DEFINE c == Head(todo)
           e == Entry(c, terminal_color)
           k == Index(terminal_column, terminal_row)
           b == Put(terminal_buffer, c, terminal_color, k)
           x == (terminal_column + 1) % UInt
           line == Append(Last(lines), [char |-> c, color |-> terminal_color])
           all == Append(Front(lines), line)
<1>1. /\ TypeOK /\ terminal_buffer \in [Cells -> Cell] /\ terminal_color \in Colors
      /\ todo \in Seq(Chars \union {Newline}) /\ terminal_column \in 0..(UInt - 1)
  BY DEF IInv, TypeOK
<1>2. /\ wrapped' = wrapped /\ outside' = (outside \/ k \notin Cells)
      /\ terminal_color' = terminal_color
      /\ todo # <<>> /\ c # Newline /\ todo' = Tail(todo)
      /\ lines' = IF wrapped THEN <<>>
                  ELSE IF Len(line) = Width THEN LastLines(Append(all, <<>>)) ELSE all
  BY DEF PutChar, Shows, WithChar, Out
<1>3. \/ x = Width /\ terminal_column' = 0 /\ NextRow(b)
      \/ /\ x # Width /\ terminal_column' = x
         /\ terminal_buffer' = b /\ terminal_row' = terminal_row
  BY DEF PutChar, LineEnds
<1>4. c \in Chars
  BY <1>1, <1>2
<1>5. e \in Cell /\ b \in [Cells -> Cell]
  BY <1>1, <1>4, EntryTyped, PutTyped
<1>6. x \in 0..(UInt - 1)
  BY <1>1, UIntLarge
<1>7. [char |-> c, color |-> terminal_color] \in Cell
  BY <1>1, <1>4 DEF Cell
<1> HIDE DEF c
<1>8. ASSUME ~wrapped
      PROVE  /\ line \in Seq(Cell) /\ all \in Seq(Seq(Cell)) /\ all # <<>>
             /\ Len(line) = terminal_column + 1 /\ x = terminal_column + 1
             /\ Len(all) = terminal_row + 1 /\ Last(all) = line
             /\ k \in Cells /\ Displays(b, all)
  <2>1. /\ lines \in Seq(Seq(Cell)) /\ lines # <<>>
        /\ Len(lines) \in Nat /\ terminal_row = Len(lines) - 1 /\ Len(lines) = terminal_row + 1
        /\ Last(lines) \in Seq(Cell) /\ Len(Last(lines)) = terminal_column
        /\ terminal_column \in 0..(Width - 1) /\ terminal_row \in 0..(Height - 1)
        /\ Displays(terminal_buffer, lines)
    BY <1>8, LinesThere
  <2> DEFINE last == Last(lines)
  <2>2. /\ line \in Seq(Cell) /\ Len(line) = terminal_column + 1
        /\ line[terminal_column + 1] = [char |-> c, color |-> terminal_color]
        /\ \A j \in 1..terminal_column : line[j] = last[j]
    <3> HIDE DEF last
    <3>1. last \in Seq(Cell) /\ Len(last) = terminal_column
      BY <2>1 DEF last
    <3> DEFINE new == [char |-> c, color |-> terminal_color]
    <3>2. line = Append(last, new) /\ new \in Cell
      BY <1>7 DEF last
    <3> HIDE DEF new, line
    <3>3. /\ Append(last, new) \in Seq(Cell)
          /\ Len(Append(last, new)) = Len(last) + 1
          /\ Append(last, new)[Len(last) + 1] = new
          /\ \A j \in 1..Len(last) : Append(last, new)[j] = last[j]
      BY <3>1, <3>2, AppendLast
    <3> QED BY <3>1, <3>2, <3>3 DEF new
  <2> HIDE DEF last, line
  <2>3. \A u \in (0..(Width - 1)) \ {terminal_column} :
          /\ u < Len(line) <=> u < Len(Last(lines))
          /\ u < Len(line) => line[u + 1] = Last(lines)[u + 1]
    <3> SUFFICES ASSUME NEW u \in (0..(Width - 1)) \ {terminal_column}
                 PROVE  /\ u < Len(line) <=> u < terminal_column
                        /\ u < terminal_column => line[u + 1] = last[u + 1]
      BY <2>1, <2>2 DEF last
    <3>1. u < terminal_column => u + 1 \in 1..terminal_column
      BY <2>1, SizeAssumption
    <3> QED BY <2>1, <2>2, <3>1, SizeAssumption
  <2>4. IF terminal_column < Len(line)
        THEN e = Entry(line[terminal_column + 1].char, line[terminal_column + 1].color)
        ELSE e.char = Space
    BY <2>1, <2>2, SizeAssumption
  <2>5. k \in Cells
    BY <2>1, IndexInside
  <2>6. b = [terminal_buffer EXCEPT ![Index(terminal_column, terminal_row)] = e]
    BY <2>5 DEF Put
  <2> HIDE DEF e, k, b
  <2>7. Displays([terminal_buffer EXCEPT ![Index(terminal_column, terminal_row)] = e], all)
    BY <1>1, <1>5, <2>1, <2>2, <2>3, <2>4, LineDisplays
  <2>8. /\ all \in Seq(Seq(Cell)) /\ Len(all) = Len(lines) /\ all[Len(lines)] = line
    BY <2>1, <2>2, ReplaceLast
  <2>9. x = terminal_column + 1
    <3> DEFINE n == terminal_column + 1
    <3>1. n \in Nat /\ n < UInt
      BY <2>1, UIntLarge, SizeAssumption
    <3>2. (n % UInt) = n
      BY <3>1, UIntLarge, ModuloSmall
    <3> QED BY <3>2
  <2> HIDE DEF all, x
  <2>10. all # <<>> /\ Last(all) = line
    BY <2>1, <2>8 DEF Last
  <2> QED BY <2>1, <2>2, <2>5, <2>6, <2>7, <2>8, <2>9, <2>10
<1> HIDE DEF e, k, b, x, line, all
<1>9. TypeOK'
  <2>1. terminal_row' \in 0..(Height - 1) /\ terminal_buffer' \in [Cells -> Cell]
    BY <1>1, <1>3, <1>5, NextRowTyped DEF TypeOK
  <2>2. terminal_column' \in 0..(UInt - 1)
    BY <1>3, <1>6, UIntLarge
  <2>3. todo' \in Seq(Chars \union {Newline})
    BY <1>1, <1>2
  <2>4. ASSUME ~wrapped PROVE LastLines(Append(all, <<>>)) \in Seq(Seq(Cell))
    <3>1. Append(all, <<>>) \in Seq(Seq(Cell))
      BY <1>8, <2>4
    <3> QED BY <3>1, LastLinesTyped
  <2>5. lines' \in Seq(Seq(Cell))
    BY <1>2, <1>8, <2>4
  <2> QED BY <1>1, <1>2, <2>1, <2>2, <2>3, <2>5 DEF TypeOK
<1>10. ASSUME ~wrapped, x = Width, terminal_column' = 0, NextRow(b)
       PROVE  /\ Displays(terminal_buffer', lines')
              /\ terminal_row' = Len(lines') - 1 /\ Last(lines') = <<>>
  <2>1. lines' = LastLines(Append(all, <<>>))
    BY <1>2, <1>8, <1>10
  <2>2. all \in Seq(Seq(Cell)) /\ Len(all) = terminal_row + 1 /\ Displays(b, all)
    BY <1>8, <1>10
  <2> QED BY <1>1, <1>5, <1>10, <2>1, <2>2, NextRowDisplays
<1>11. ASSUME ~wrapped, x # Width, terminal_column' = x,
              terminal_buffer' = b, terminal_row' = terminal_row
       PROVE  /\ Displays(terminal_buffer', lines') /\ terminal_column' < Width
              /\ terminal_row' = Len(lines') - 1 /\ Len(Last(lines')) = terminal_column'
  <2>1. lines' = all
    BY <1>2, <1>8, <1>11
  <2>2. /\ Len(all) = terminal_row + 1 /\ Len(Last(all)) = terminal_column + 1
        /\ x = terminal_column + 1 /\ Displays(b, all)
    BY <1>8, <1>11
  <2>3. terminal_column \in 0..(Width - 1) /\ terminal_row \in 0..(Height - 1)
    BY <1>11, LinesThere
  <2> QED BY <1>11, <2>1, <2>2, <2>3, SizeAssumption
<1>12. ~wrapped => ~outside'
  BY <1>2, <1>8, LinesThere
<1>13. CursorKept' /\ ScreenShows'
  BY <1>2, <1>3, <1>10, <1>11, <1>12, SizeAssumption DEF CursorKept, ScreenShows
<1> QED BY <1>9, <1>13 DEF IInv

LEMMA BackspaceHolds == IInv /\ terminal_backspace => IInv'
<1> SUFFICES ASSUME IInv, terminal_backspace PROVE IInv'
  OBVIOUS
<1> DEFINE x == (terminal_column - 1) % UInt
           y == (terminal_row - 1) % UInt
           up == x > Width
           top == up /\ y > Height
           row == IF top THEN 0 ELSE IF up THEN y ELSE terminal_row
           b == IF top THEN ScrolledUp(terminal_buffer) ELSE terminal_buffer
           short == Append(Front(lines), Front(Last(lines)))
<1>1. /\ TypeOK /\ terminal_buffer \in [Cells -> Cell] /\ terminal_color \in Colors
      /\ terminal_column \in 0..(UInt - 1) /\ terminal_row \in 0..(Height - 1)
  BY DEF IInv, TypeOK
<1>2. /\ terminal_column' = x /\ terminal_row' = row
      /\ terminal_buffer' = Put(b, Space, terminal_color, Index(x, row))
      /\ outside' = (outside \/ Index(x, row) \notin Cells)
      /\ wrapped' = (wrapped \/ up)
      /\ lines' = IF wrapped' THEN <<>> ELSE short
      /\ terminal_color' = terminal_color /\ todo' = todo
  BY DEF terminal_backspace, Out, Shows, Shortened
<1>3. x \in 0..(UInt - 1)
  BY <1>1, UIntLarge
<1>4. row \in 0..(Height - 1)
  <2>1. CASE terminal_row = 0
    <3>1. y = UInt - 1
      BY <1>1, <2>1, UIntLarge, ModuloMinusOne
    <3> QED BY <1>1, <3>1, UIntLarge, SizeAssumption
  <2>2. CASE terminal_row # 0
    <3> DEFINE n == terminal_row - 1
    <3>1. n \in Nat /\ n < UInt
      BY <1>1, <2>2, UIntLarge, SizeAssumption
    <3>2. (n % UInt) = n
      BY <3>1, UIntLarge, ModuloSmall
    <3>3. y = terminal_row - 1
      BY <3>2
    <3> QED BY <1>1, <2>2, <3>3, SizeAssumption
  <2> QED BY <2>1, <2>2
<1>5. b \in [Cells -> Cell]
  BY <1>1, ScrollTyped
<1>6. Space \in Chars
  BY TextAssumption
<1>7. ASSUME ~wrapped, ~up
      PROVE  /\ terminal_column \in 1..(Width - 1) /\ x = terminal_column - 1
             /\ row = terminal_row /\ b = terminal_buffer
  <2>1. terminal_column \in 0..(Width - 1)
    BY <1>7, LinesThere
  <2>2. terminal_column # 0
    <3> SUFFICES ASSUME terminal_column = 0 PROVE FALSE
      OBVIOUS
    <3>1. x = UInt - 1
      BY <1>1, UIntLarge, ModuloMinusOne
    <3> QED BY <1>7, <3>1, UIntLarge, SizeAssumption
  <2> DEFINE n == terminal_column - 1
  <2>3. n \in Nat /\ n < UInt
    BY <2>1, <2>2, UIntLarge, SizeAssumption
  <2>4. (n % UInt) = n
    BY <2>3, UIntLarge, ModuloSmall
  <2>5. x = n
    BY <2>4
  <2> QED BY <1>7, <2>1, <2>2, <2>5, SizeAssumption
<1> HIDE DEF y, top, b, row
<1>8. ASSUME ~wrapped, ~up
      PROVE  /\ short \in Seq(Seq(Cell)) /\ Len(short) = terminal_row + 1
             /\ Len(Last(short)) = terminal_column - 1
             /\ Index(x, row) \in Cells
             /\ Displays(terminal_buffer', short)
  <2>1. /\ lines \in Seq(Seq(Cell)) /\ lines # <<>>
        /\ Len(lines) \in Nat /\ terminal_row = Len(lines) - 1 /\ Len(lines) = terminal_row + 1
        /\ Last(lines) \in Seq(Cell) /\ Len(Last(lines)) = terminal_column
        /\ Displays(terminal_buffer, lines)
    BY <1>8, LinesThere
  <2>2. terminal_column \in 1..(Width - 1) /\ x = terminal_column - 1
        /\ row = terminal_row /\ b = terminal_buffer
    BY <1>7, <1>8
  <2> DEFINE last == Last(lines)
             line == Front(last)
             e == Entry(Space, terminal_color)
             col == terminal_column - 1
  <2>3. /\ line \in Seq(Cell) /\ Len(line) = col
        /\ \A j \in 1..col : line[j] = last[j]
    <3> HIDE DEF last
    <3>1. last \in Seq(Cell) /\ Len(last) = terminal_column /\ last # <<>>
      BY <2>1, <2>2, SizeAssumption DEF last
    <3> QED BY <3>1, FrontLast
  <2>4. e \in Cell /\ e.char = Space
    BY <1>1, <1>6, EntryTyped DEF Entry
  <2>5. col \in 0..(Width - 1) /\ col \in Nat /\ terminal_column = col + 1 /\ x = col
    BY <2>2, SizeAssumption
  <2> HIDE DEF last, line, col, x
  <2>6. \A u \in (0..(Width - 1)) \ {col} :
          /\ u < Len(line) <=> u < Len(Last(lines))
          /\ u < Len(line) => line[u + 1] = Last(lines)[u + 1]
    <3> SUFFICES ASSUME NEW u \in (0..(Width - 1)) \ {col}
                 PROVE  /\ u < col <=> u < terminal_column
                        /\ u < col => line[u + 1] = last[u + 1]
      BY <2>1, <2>3 DEF last
    <3>1. u < col => u + 1 \in 1..col
      BY <2>5, SizeAssumption
    <3> QED BY <2>3, <2>5, <3>1, SizeAssumption
  <2>7. IF col < Len(line) THEN e = Entry(line[col + 1].char, line[col + 1].color) ELSE e.char = Space
    BY <2>3, <2>4, <2>5
  <2>8. Index(x, row) \in Cells
    BY <1>1, <2>2, <2>5, IndexInside
  <2>9. terminal_buffer' = [terminal_buffer EXCEPT ![Index(col, terminal_row)] = e]
    BY <1>2, <2>2, <2>5, <2>8 DEF Put
  <2> HIDE DEF e
  <2>10. Displays([terminal_buffer EXCEPT ![Index(col, terminal_row)] = e], Append(Front(lines), line))
    BY <1>1, <2>1, <2>3, <2>4, <2>5, <2>6, <2>7, LineDisplays
  <2>11. short = Append(Front(lines), line)
    BY DEF line, last
  <2> HIDE DEF short
  <2>12. short \in Seq(Seq(Cell)) /\ Len(short) = Len(lines) /\ short[Len(lines)] = line
    BY <2>1, <2>3, <2>11, ReplaceLast
  <2>13. Last(short) = line
    BY <2>12 DEF Last
  <2> QED BY <2>1, <2>3, <2>8, <2>9, <2>10, <2>11, <2>12, <2>13 DEF col
<1> HIDE DEF x, short
<1>9. TypeOK'
  <2>1. terminal_buffer' \in [Cells -> Cell]
    BY <1>1, <1>2, <1>5, <1>6, PutTyped
  <2>2. lines' \in Seq(Seq(Cell))
    <3>1. ~wrapped /\ ~up => short \in Seq(Seq(Cell))
      BY <1>8
    <3>2. \/ lines' = <<>>
          \/ ~wrapped /\ ~up /\ lines' = short
      BY <1>2
    <3>3. <<>> \in Seq(Seq(Cell))
      OBVIOUS
    <3> QED BY <3>1, <3>2, <3>3, Zenon
  <2> QED BY <1>1, <1>2, <1>3, <1>4, <2>1, <2>2 DEF TypeOK
<1>10. ASSUME ~wrapped'
       PROVE  /\ terminal_column' < Width /\ ~outside' /\ terminal_row' = Len(lines') - 1
              /\ terminal_column' = Len(Last(lines')) /\ Displays(terminal_buffer', lines')
  <2>1. ~wrapped /\ ~up /\ lines' = short
    BY <1>2, <1>10
  <2>2. ~outside
    BY <2>1, LinesThere
  <2>3. /\ terminal_column \in 1..(Width - 1) /\ x = terminal_column - 1 /\ row = terminal_row
    BY <1>7, <2>1
  <2>4. /\ Len(short) = terminal_row + 1 /\ Len(Last(short)) = terminal_column - 1
        /\ Index(x, row) \in Cells /\ Displays(terminal_buffer', short)
    BY <1>8, <2>1
  <2>5. ~outside'
    BY <1>2, <2>2, <2>4
  <2> QED BY <1>1, <1>2, <2>1, <2>3, <2>4, <2>5, SizeAssumption
<1> QED BY <1>9, <1>10 DEF IInv, CursorKept, ScreenShows

\* One step per action.
LEMMA StepHolds == IInv /\ [Next]_vars => IInv'
<1> SUFFICES ASSUME IInv, [Next]_vars PROVE IInv'
  OBVIOUS
<1>1. CASE PutNewline
  BY <1>1, PutNewlineHolds
<1>2. CASE PutChar
  BY <1>2, PutCharHolds
<1>3. CASE terminal_backspace
  BY <1>3, BackspaceHolds
<1>4. ASSUME NEW color \in Colors, terminal_setcolor(color) PROVE IInv'
  BY <1>4 DEF terminal_setcolor, IInv, TypeOK, CursorKept, ScreenShows, cursor, ghosts, Displays
<1>5. ASSUME NEW s \in Seq(Chars \union {Newline}), terminal_writestring(s) PROVE IInv'
  BY <1>5 DEF terminal_writestring, IInv, TypeOK, CursorKept, ScreenShows, cursor, ghosts, Displays
<1>6. ASSUME NEW s \in Strings, terminal_writestring(s) PROVE IInv'
  BY <1>5, <1>6, TextAssumption
<1>7. ASSUME NEW n \in Numbers, terminal_writehex(n) PROVE IInv'
  <2>1. HexDigits(n) \in Seq(Chars)
    BY NumberAssumption
  <2> DEFINE s == HexDigits(n)
  <2> HIDE DEF s
  <2>2. s \in Seq(Chars \union {Newline})
    BY <2>1 DEF s
  <2> QED BY <1>5, <1>7, <2>2 DEF s, terminal_writehex
<1>8. CASE UNCHANGED vars
  BY <1>8 DEF vars, IInv, TypeOK, CursorKept, ScreenShows, Displays
<1> QED BY <1>1, <1>2, <1>3, <1>4, <1>6, <1>7, <1>8 DEF Next

LEMMA Inductive == Spec => []IInv
<1> QED BY InitHolds, StepHolds, PTL DEF Spec

\* Whatever is printed or taken back, the row stays on the screen and the
\* buffer keeps its shape: vga.cpp never stores into terminal_row anything
\* but a row.
THEOREM TypeCorrect == Spec => []TypeOK
<1>1. IInv => TypeOK
  BY DEF IInv
<1> QED BY Inductive, <1>1, PTL

\* Until a backspace at the start of a line, terminal_putchar() and
\* terminal_backspace() keep the cursor behind the text and write into the
\* buffer only.
THEOREM CursorSafe == Spec => []CursorKept
<1>1. IInv => CursorKept
  BY DEF IInv
<1> QED BY Inductive, <1>1, PTL

\* ... and the screen shows exactly the last lines printed.
THEOREM ScreenExact == Spec => []ScreenShows
<1>1. IInv => ScreenShows
  BY DEF IInv
<1> QED BY Inductive, <1>1, PTL
=============================================================================
