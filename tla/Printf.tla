------------------------------- MODULE Printf -------------------------------
(***************************************************************************)
(* Formatted output, os/core/printf.cpp and include/interface/print.h:     *)
(* kprintf() goes over its format twice, first to count and then to print  *)
(* into a buffer of that size; every conversion builds its text in chunks  *)
(* of the heap.                                                            *)
(*                                                                         *)
(* A step is one turn of the loop of kvsnprintf(): a character, or a       *)
(* directive with all its calls.  The memory of the chunks is modelled     *)
(* byte by byte, as the chunks are not cleared, not as large as what was   *)
(* asked for, and next to each other.                                      *)
(***************************************************************************)
EXTENDS Integers, FiniteSets, SequencesExt

CONSTANTS
  Calls,      \* what callers print, see Call
  MaxCalls,   \* bound: the calls made one after the other
  MinChunk,   \* the bytes of a chunk of order 0: 16
  Chunks,     \* bound: the chunks of orders 0 and 1 that are modelled
  PageRoom,   \* bound: the bytes of a new page, and of a caller's buffer
  Bits,       \* the width of the integers each length modifier stands for
  Unknown,    \* the character in front of alphanumeric[0]
  Garbage     \* what chunks may hold at first

NUL == "NUL"

Lengths == {<<>>, <<"h">>, <<"h", "h">>, <<"l">>, <<"l", "l">>, <<"j">>, <<"z">>, <<"t">>, <<"L">>}

\* A directive of a format, or a character of it (spec is "text").
Item == [spec : STRING, char : STRING, flags : Seq(STRING), width : Seq(STRING),
         precision : Seq(STRING), length : Lengths]

\* bufsz is 0 but for ksnprintf(); args are the numbers and the strings.
Call == [op : {"kprintf", "ksnprintf", "ksprintf"}, bufsz : Nat, items : Seq(Item), args : Seq(Int \union Seq(STRING))]

NoCall == [op |-> "none", bufsz |-> 0, items |-> <<>>, args |-> <<>>]

ASSUME SizeAssumption ==
  /\ MinChunk \in Nat /\ MinChunk > 4
  /\ Chunks \in Nat /\ Chunks > 2   \* a text to print to, one that is built and its replacement
  /\ PageRoom \in Nat /\ PageRoom >= MinChunk
  /\ MaxCalls \in Nat
  /\ Bits \in [Lengths -> Nat \ {0}]

\* An int has no more octal digits than the smallest chunk has bytes, without
\* those of a sign, a prefix and the NUL; and what a power is.
ASSUME IntAssumption ==
  /\ \A s \in Lengths : /\ 2^Bits[s] \in Nat \ {0}
                        /\ Bits[s] <= Bits[<<>>] => 2^Bits[s] <= 8^(MinChunk - 4)
  /\ \A k \in 1..(MinChunk - 4) : 8^(k - 1) \in Nat /\ 8^k = 8 * 8^(k - 1)
  /\ 8^0 = 1

-----------------------------------------------------------------------------
(* The heap, as far as texts are concerned: kmalloc() takes the first      *)
(* chunk that is not in use; what is too large for the chunks of the       *)
(* listed pages gets a new page, which there is only one of.               *)

Order0 == 0
Order1 == Chunks * MinChunk
NewPage == Order1 + (2 * Chunks * MinChunk)
Buffer == NewPage + PageRoom
Memory == 0..(Buffer + PageRoom - 1)

ChunksOf(k) == IF k = 0 THEN {Order0 + (c * MinChunk) : c \in 0..(Chunks - 1)}
                        ELSE {Order1 + (2 * c * MinChunk) : c \in 0..(Chunks - 1)}

Room(a) == IF a < Order1 THEN MinChunk ELSE IF a < NewPage THEN 2 * MinChunk ELSE PageRoom

\* The heap h has the fields mem, used, fresh (the new page is still to be
\* had), stuck (it was wanted once more, a copy does not end, or the size was
\* negative, which as a size_t no page holds) and faults, see Properties.
Alloc(h, bytes) ==
  IF bytes < 0 \/ bytes >= 4 * MinChunk
  THEN [a |-> NewPage,
        h |-> [h EXCEPT !.used = @ \union {NewPage}, !.fresh = FALSE, !.stuck = @ \/ ~h.fresh \/ bytes < 0]]
  ELSE LET a == Min(ChunksOf(IF bytes >= 2 * MinChunk THEN 1 ELSE 0) \ h.used)
       IN  [a |-> a, h |-> [h EXCEPT !.used = @ \union {a}]]

\* kfree(); the chunk of a page that is on no list is not handed out again.
Release(h, a) == [h EXCEPT !.used = @ \ {a}]

Fault(h, what, happened) == IF happened THEN [h EXCEPT !.faults = @ \union {what}] ELSE h

\* Text s goes to offset o of chunk a.
Write(h, a, o, s) ==
  LET bytes == ((a + o)..(a + o + Len(s) - 1)) \intersect Memory
      w == [h EXCEPT !.mem = [b \in bytes |-> s[b - a - o + 1]] @@ @]
  IN  Fault(Fault(w, "beyond chunk", o + Len(s) > Room(a)), "before chunk", o < 0)

\* The page of address a ends where its last byte is followed by a NUL, or by
\* what is not modelled.
End(a) == IF a < Order1 THEN Order1 ELSE IF a < NewPage THEN NewPage
          ELSE IF a < Buffer THEN Buffer ELSE Buffer + PageRoom

strlen(h, a) == Min({n \in 0..(End(a) - a) : a + n = End(a) \/ h.mem[a + n] = NUL})

TextAt(h, a) == [j \in 1..strlen(h, a) |-> h.mem[a + j - 1]]

\* __copy_out(), which copies no NUL. A copy to behind its text's start and not
\* behind its end reads what it has written, and goes on for ever.
CopyOut(h, a, o, from) ==
  LET s == TextAt(h, from)
      chases == from < a + o /\ a + o <= from + Len(s)
  IN  [n |-> Len(s), h |-> [Write(h, a, o, s) EXCEPT !.stuck = @ \/ chases]]

-----------------------------------------------------------------------------
(* Numbers.                                                                *)

alphanumeric == <<"0", "1", "2", "3", "4", "5", "6", "7", "8", "9", "A", "B", "C", "D", "E", "F">>

Wrap(v, w) == v % 2^w
Signed(v, w) == IF Wrap(v, w) >= 2^(w - 1) THEN Wrap(v, w) - 2^w ELSE Wrap(v, w)

NDigits(num, base) ==
  LET n[k \in Nat] == IF k > 0 THEN 1 + n[k \div base] ELSE 0
  IN  IF num > 0 THEN n[num] ELSE 0

\* The digits itoa() writes: of a negative number, which -num may be, it finds
\* one, at or in front of the start of the table.
DigitsIn(base) ==
  LET d[k \in Nat] == (IF k >= base THEN d[k \div base] ELSE <<>>) \o <<alphanumeric[1 + (k % base)]>>
  IN  d
Digits(num, base) ==
  IF num < 0 THEN <<IF (-num) % base = 0 THEN alphanumeric[1] ELSE Unknown>> ELSE DigitsIn(base)[num]

\* (Mutant: the NUL is left out.)
TerminatorLess == <<>>
Terminator     == <<NUL>>

\* itoa(num, base, add_space, add_plus, add_prefix) in integers of w bits.
Itoa(h, num, w, base, flags) ==
  LET neg == num < 0 /\ base = 10
      signs == IF neg THEN <<"-">> ELSE IF " " \in flags THEN <<" ">>
               ELSE IF "+" \in flags THEN <<"+">> ELSE <<>>
      prefix == IF "#" \notin flags THEN <<>> ELSE IF base = 8 THEN <<"0">>
                ELSE IF base = 16 THEN <<"0", "x">> ELSE <<>>
      n == IF neg THEN Signed(-num, w) ELSE num
      text == signs \o prefix \o Digits(n, base) \o Terminator
      new == Alloc(Fault(h, "undefined", n < 0),
                   NDigits(num, base) + 1 + Len(prefix) + Len(signs))
  IN  [a |-> new.a,
       h |-> Fault(Write(new.h, new.a, 0, text), "int beyond chunk",
                   w <= Bits[<<>>] /\ Len(text) > Room(new.a))]

Filled(c, n) == IF n <= 0 THEN <<>> ELSE [j \in 1..n |-> c]

\* The text at a has a NUL where the code takes it to end.
Ended(h, a, n) == Fault(h, "unterminated", strlen(h, a) # n)

\* The text at a is replaced by a longer one.
\* (Mutant: the old one is not freed.)
ReplacedKept(h, a) == h
Replaced(h, a)     == Release(h, a)

\* __kvsprintf_intprecision(): no NUL is written.
IntPrecision(s, precision) ==
  LET len == strlen(s.h, s.a)
      new == Alloc(s.h, precision + 1)
      c == CopyOut(Write(new.h, new.a, 0, Filled("0", precision - len)), new.a, precision - len, s.a)
  IN  IF precision < len THEN s
      ELSE [a |-> new.a, h |-> Replaced(Ended(c.h, new.a, precision), s.a)]

\* __kvsprintf_justify(): the length has no sign and the width has one, so that
\* no text is as long as a negative width, and it is put in front of the chunk.
Justify(s, width, flags) ==
  LET len == strlen(s.h, s.a)
      new == Alloc(s.h, width + 1)
      pad == Filled(IF "0" \in flags THEN "0" ELSE " ", width - len)
      left == "-" \in flags
      c == CopyOut(new.h, new.a, IF left THEN 0 ELSE width - len, s.a)
  IN  IF width >= 0 /\ len >= width THEN s
      ELSE [a |-> new.a,
            h |-> Replaced(Write(Write(c.h, new.a, IF left THEN len ELSE 0, pad), new.a, width, <<NUL>>), s.a)]

-----------------------------------------------------------------------------
(* Directives.                                                             *)

Flags == {"-", "+", " ", "#", "0"}

\* The first position of f, from p on, that holds none of S.
After(f, p, S) == Min({q \in p..(Len(f) + 1) : q = Len(f) + 1 \/ f[q] \notin S})

At(f, p) == IF p <= Len(f) THEN f[p] ELSE NUL

DigitChars == Range(SubSeq(alphanumeric, 1, 10))
digit_to_int(c) == CHOOSE d \in 0..9 : alphanumeric[d + 1] = c
Value(s) == FoldLeft(LAMBDA n, c : (10 * n) + digit_to_int(c), 0, s)

\* The position behind that of the specifier.
\* (Mutant: one more.)
PastTwo(p) == p + 2
Past(p)    == p + 1

\* What the directive at position p, behind its "%", asks for: a "*" is read
\* past as a width and not as a precision, which makes it the specifier. The
\* arguments xs are taken from number x on.
Directive(f, p, xs, x) ==
  LET w == After(f, p, Flags)
      wEnd == After(f, w, DigitChars)
      wStar == At(f, wEnd) = "*"
      x1 == IF wStar THEN x + 1 ELSE x
      dot == IF wStar THEN wEnd + 1 ELSE wEnd
      pEnd == After(f, dot + 1, DigitChars)
      pStar == At(f, dot) = "." /\ At(f, pEnd) = "*"
      l == IF At(f, dot) = "." THEN pEnd ELSE dot
      n == CASE At(f, l) \in {"h", "l"} -> IF At(f, l + 1) = At(f, l) THEN 2 ELSE 1
             [] At(f, l) \in {"j", "z", "t", "L"} -> 1
             [] OTHER -> 0
  IN  [flags      |-> {f[q] : q \in p..(w - 1)},
       width      |-> IF wStar THEN xs[x] ELSE Value(SubSeq(f, w, wEnd - 1)),
       wide       |-> wStar \/ wEnd > w,
       precision  |-> IF pStar THEN xs[x1] ELSE IF l > dot THEN Value(SubSeq(f, dot + 1, l - 1)) ELSE 0,
       precise    |-> pStar \/ l > dot + 1,
       length     |-> SubSeq(f, l, l + n - 1),
       spec       |-> At(f, l + n),
       pos        |-> Past(l + n),
       x          |-> IF pStar THEN x1 + 1 ELSE x1]

Signeds   == {"d", "i"}
Unsigneds == {"u", "o", "x", "X"}
Base(spec) == CASE spec = "o" -> 8 [] spec \in {"x", "X", "p"} -> 16 [] OTHER -> 10

\* The argument as the type its length and specifier stand for: size_t has no
\* sign, ptrdiff_t has one. A pointer is an unsigned long.
IsSigned(d) == IF d.spec \in Signeds THEN d.length # <<"z">> ELSE d.spec # "p" /\ d.length = <<"t">>
Width(d) == Bits[IF d.spec = "p" THEN <<"l">> ELSE d.length]
\* (Mutant: the cast to the type is left out.)
NumberUncast(d, v) == IF IsSigned(d) THEN Signed(v, Bits[<<"l">>]) ELSE Wrap(v, Bits[<<"l">>])
Number(d, v) == IF IsSigned(d) THEN Signed(v, Width(d)) ELSE Wrap(v, Width(d))

\* The text of the directive, in a chunk.
NumberText(h, d, v) ==
  LET s0 == Itoa(h, Number(d, v), Width(d), Base(d.spec),
                 IF d.spec = "p" THEN d.flags \intersect {"#"} ELSE d.flags)
      s1 == IF d.precise /\ d.spec # "p" THEN IntPrecision(s0, d.precision) ELSE s0
  IN  IF d.wide THEN Justify(s1, d.width, d.flags) ELSE s1

\* The caller's string is copied without its NUL; a precision of 0 copies all.
StringText(h, d, str) ==
  LET n == IF d.precise /\ d.precision > 0 /\ d.precision < Len(str) THEN d.precision ELSE Len(str)
      new == Alloc(h, IF d.precise THEN d.precision + 1 ELSE Len(str) + 1)
      s0 == [a |-> new.a, h |-> Ended(Write(new.h, new.a, 0, SubSeq(str, 1, n)), new.a, n)]
  IN  IF d.wide THEN Justify(s0, d.width, d.flags) ELSE s0

-----------------------------------------------------------------------------
VARIABLES
  phase,      \* "idle", a pass ("count", "print" or, of ksnprintf(), "fill"), or how it stopped
  call,       \* what is being printed
  calls,      \* how many were made
  heap,       \* see Alloc
  pos,        \* of the format
  x,          \* the next argument
  start,      \* where the pass prints to
  out,        \* and how far it is
  n_printed,
  bufsz,
  discard,
  counted,    \* what the first pass of kvprintf() has returned
  stored,     \* what the last %n has stored
  shown       \* what was printed

pass_vars == <<pos, x, start, out, n_printed, bufsz, discard>>
vars == <<phase, call, calls, heap, pass_vars, counted, stored, shown>>

Passes == {"count", "print", "fill"}

CharsOf(i) == IF i.spec = "text" THEN <<i.char>>
              ELSE <<"%">> \o i.flags \o i.width \o i.precision \o i.length
                   \o (IF i.spec = "end" THEN <<>> ELSE <<i.spec>>)
Format(c) == FlattenSeq([j \in DOMAIN c.items |-> CharsOf(c.items[j])])
Formats == [c \in Calls |-> Format(c)]
ASSUME FormatAssumption == Formats \in [Calls -> Seq(STRING)]
fmt == IF call = NoCall THEN <<>> ELSE Formats[call]

Init ==
  /\ phase = "idle"
  /\ call = NoCall
  /\ calls = 0
  /\ \E g \in Garbage :
       heap = [mem |-> [b \in Memory |-> g], used |-> {}, fresh |-> TRUE, stuck |-> FALSE, faults |-> {}]
  /\ pos = 1 /\ x = 1 /\ start = Buffer /\ out = 0 /\ n_printed = 0 /\ bufsz = 0
  /\ discard = FALSE
  /\ counted = 0 /\ stored = 0
  /\ shown = <<>>

\* kvsnprintf() is called: to = 0 is NULL, which stands for no place to print.
Begin(p, c, to, size) ==
  /\ phase' = p
  /\ call' = c
  /\ pos' = 1 /\ x' = 1
  /\ start' = to /\ out' = 0
  /\ n_printed' = 0
  /\ bufsz' = size
  /\ discard' = (p = "count")

kprintf(c) ==
  /\ phase = "idle" /\ calls < MaxCalls
  /\ c.op = "kprintf"
  /\ Begin("count", c, Buffer, 0)
  /\ calls' = calls + 1
  /\ UNCHANGED <<heap, counted, stored, shown>>

\* ksnprintf() and ksprintf(), which print for a caller.
ksnprintf(c) ==
  /\ phase = "idle" /\ calls < MaxCalls
  /\ c.op # "kprintf"
  /\ Begin("fill", c, Buffer, c.bufsz)
  /\ calls' = calls + 1
  /\ UNCHANGED <<heap, counted, stored, shown>>

-----------------------------------------------------------------------------
(* One turn of the loop.                                                   *)

Cur == At(fmt, pos)
Here == Directive(fmt, pos + 1, call.args, x)

\* The buffer is full: what follows is only counted.
\* (Mutants: a character early, and late.)
FullEarly(n) == bufsz > 0 /\ n >= bufsz - 2
FullLate(n)  == bufsz > 0 /\ n >= bufsz
Full(n)      == bufsz > 0 /\ n >= bufsz - 1

\* The turn ends at position p with heap h, having printed n characters.
Turn(h, p, y, n) ==
  /\ pos' = p
  /\ x' = y
  /\ heap' = h
  /\ n_printed' = n_printed + n
  /\ discard' = (discard \/ Full(n_printed + n))
  /\ out' = IF discard THEN out ELSE out + n
  /\ phase' = IF h.stuck THEN "stuck" ELSE phase
  /\ UNCHANGED <<call, calls, start, bufsz, counted, shown>>

\* A character is printed, by the way of the buffer.
Put(c) == IF discard THEN heap ELSE Write(heap, start, out, <<c>>)

Character ==
  /\ phase \in Passes
  /\ Cur \notin {"%", NUL}
  /\ Turn(Put(Cur), pos + 1, x, 1)
  /\ UNCHANGED stored

\* "%%" is printed whatever the pass, through NULL in the first one, and is not
\* counted.
PercentSign ==
  /\ phase \in Passes
  /\ Cur = "%" /\ At(fmt, pos + 1) = "%"
  /\ IF phase = "count"
     THEN /\ phase' = "halted"
          /\ UNCHANGED <<call, calls, heap, pass_vars, counted, shown>>
     ELSE /\ pos' = pos + 2
          /\ heap' = Write(heap, start, out, <<"%">>)
          /\ out' = out + 1
          /\ discard' = (discard \/ Full(n_printed))
          /\ UNCHANGED <<phase, call, calls, x, start, n_printed, bufsz, counted, shown>>
  /\ UNCHANGED stored

InDirective(S) ==
  /\ phase \in Passes
  /\ Cur = "%" /\ At(fmt, pos + 1) # "%"
  /\ Here.spec \in S

\* (Mutant: the text is not freed.)
DoneKept(h, a) == h
Done(h, a)     == Release(h, a)

\* The text s is printed and freed.
Emit(s) ==
  LET n == strlen(s.h, s.a)
  IN  IF discard THEN Turn(Done(s.h, s.a), Here.pos, Here.x + 1, n)
      ELSE LET c == CopyOut(s.h, start, out, s.a)
           IN  Turn(Done(c.h, s.a), Here.pos, Here.x + 1, c.n)

PrintNumber ==
  /\ InDirective(Signeds \union Unsigneds \union {"p"})
  /\ Emit(NumberText(heap, Here, call.args[Here.x]))
  /\ UNCHANGED stored

PrintString ==
  /\ InDirective({"s"}) /\ Here.length # <<"l">>
  /\ Emit(StringText(heap, Here, call.args[Here.x]))
  /\ UNCHANGED stored

PrintChar ==
  /\ InDirective({"c"}) /\ Here.length # <<"l">>
  /\ Turn(Put(call.args[Here.x][1]), Here.pos, Here.x + 1, 1)
  /\ UNCHANGED stored

\* Wide characters and strings are taken and not printed.
PrintWide ==
  /\ InDirective({"c", "s"}) /\ Here.length = <<"l">>
  /\ Turn(heap, Here.pos, Here.x + 1, 0)
  /\ UNCHANGED stored

\* As the type that the length stands for.
StoreCount ==
  /\ InDirective({"n"})
  /\ stored' = Signed(n_printed, Bits[Here.length])
  /\ Turn(heap, Here.pos, Here.x + 1, 0)

\* Unknown specifiers are ignored.
PrintNothing ==
  /\ phase \in Passes
  /\ Cur = "%" /\ At(fmt, pos + 1) # "%"
  /\ Here.spec \notin {"c", "s", "n", "p", NUL} \union Signeds \union Unsigneds
  /\ Turn(heap, Here.pos, Here.x, 0)
  /\ UNCHANGED stored

\* A directive that the format ends in: the NUL is read past.
Astray ==
  /\ InDirective({NUL})
  /\ phase' = "astray"
  /\ UNCHANGED <<call, calls, heap, pass_vars, counted, stored, shown>>

-----------------------------------------------------------------------------
(* The end of a pass.                                                      *)

\* kvprintf(): the buffer of the second pass.
CountDone ==
  /\ phase = "count" /\ Cur = NUL
  /\ LET t == Alloc(heap, n_printed + 1)
     IN  /\ Begin(IF t.h.stuck THEN "stuck" ELSE "print", call, t.a, n_printed + 1)
         /\ heap' = t.h
  /\ counted' = n_printed
  /\ UNCHANGED <<calls, stored, shown>>

PrintDone ==
  /\ phase = "print" /\ Cur = NUL
  /\ LET h == Write(heap, start, out, <<NUL>>)
     IN  /\ shown' = TextAt(h, start)
         /\ heap' = Done(Fault(h, "beyond text", out > counted), start)
  /\ phase' = "idle"
  /\ UNCHANGED <<call, calls, pass_vars, counted, stored>>

FillDone ==
  /\ phase = "fill" /\ Cur = NUL
  /\ heap' = Write(heap, start, out, <<NUL>>)
  /\ shown' = TextAt(heap', start)
  /\ phase' = "idle"
  /\ UNCHANGED <<call, calls, pass_vars, counted, stored>>

Stopped == phase \in {"halted", "astray", "stuck"} /\ UNCHANGED vars

Step == \/ Character \/ PercentSign
        \/ PrintNumber \/ PrintString \/ PrintChar \/ PrintWide
        \/ StoreCount \/ PrintNothing \/ Astray
        \/ CountDone \/ PrintDone \/ FillDone

AllMade == phase = "idle" /\ calls = MaxCalls /\ UNCHANGED vars

Next == (\E c \in Calls : kprintf(c) \/ ksnprintf(c)) \/ Step \/ Stopped \/ AllMade

Spec == Init /\ [][Next]_vars

-----------------------------------------------------------------------------
(* What printing comes to, directive by directive, without a memory.       *)

ArgsOf(i) == (IF i.width = <<"*">> THEN 1 ELSE 0)
             + (IF i.spec \in {"c", "s", "n", "p", "*"} \union Signeds \union Unsigneds THEN 1 ELSE 0)

\* The digits of v, each by its place.
Numeral(v, base) ==
  LET n == Cardinality({k \in 1..8 : k = 1 \/ base^(k - 1) <= v})
  IN  [j \in 1..n |-> alphanumeric[1 + ((v \div base^(n - j)) % base)]]

NumberMeant(i, v) ==
  LET d == [spec |-> i.spec, length |-> i.length]
      num == Number(d, v)
      neg == num < 0
      signs == IF neg THEN <<"-">> ELSE IF i.spec = "p" THEN <<>>
               ELSE IF " " \in Range(i.flags) THEN <<" ">> ELSE IF "+" \in Range(i.flags) THEN <<"+">> ELSE <<>>
      prefix == CASE "#" \notin Range(i.flags) -> <<>>
                  [] i.spec = "o" -> <<"0">>
                  [] i.spec \in {"x", "X", "p"} -> <<"0", "x">>
                  [] OTHER -> <<>>
      text == signs \o prefix \o Numeral(IF neg THEN -num ELSE num, Base(i.spec))
  IN  IF i.spec = "p" \/ Len(i.precision) < 2 THEN text
      ELSE Filled("0", Value(Tail(i.precision)) - Len(text)) \o text

StringMeant(i, str) ==
  LET n == IF i.precision = <<>> THEN 0 ELSE Value(Tail(i.precision))
  IN  IF n = 0 THEN str ELSE SubSeq(str, 1, IF n < Len(str) THEN n ELSE Len(str))

Padded(i, width, text) ==
  LET pad == Filled(IF "0" \in Range(i.flags) THEN "0" ELSE " ", width - Len(text))
  IN  IF "-" \in Range(i.flags) THEN text \o pad ELSE pad \o text

\* The text of item i, whose arguments are from number y on.
Meant(i, xs, y) ==
  LET width == IF i.width = <<"*">> THEN xs[y] ELSE Value(i.width)
      arg == xs[y + ArgsOf(i) - 1]
  IN  CASE i.spec = "text" -> <<i.char>>
        [] i.spec = "%" -> <<"%">>
        [] i.spec \in {"c", "s"} /\ i.length = <<"l">> -> <<>>
        [] i.spec = "c" -> arg
        [] i.spec = "s" -> Padded(i, width, StringMeant(i, arg))
        [] i.spec \in Signeds \union Unsigneds \union {"p"} -> Padded(i, width, NumberMeant(i, arg))
        [] OTHER -> <<>>

\* The text of the first n items of c, the count of its characters ("%%" is
\* left out), and what %n is given.
Outcome(c, n) ==
  FoldLeft(LAMBDA r, i :
             LET s == Meant(i, c.args, r.x)
             IN  [text   |-> r.text \o s,
                  x      |-> r.x + ArgsOf(i),
                  count  |-> r.count + (IF i.spec = "%" THEN 0 ELSE Len(s)),
                  stored |-> IF i.spec = "n" THEN <<Signed(r.count, Bits[i.length])>> ELSE r.stored],
           [text |-> <<>>, x |-> 1, count |-> 0, stored |-> <<>>],
           SubSeq(c.items, 1, n))

-----------------------------------------------------------------------------
(* Properties.                                                             *)

Faults == {"unterminated",     \* a text is read whose NUL was never written
           "beyond chunk",     \* a text is longer than the chunk it got
           "before chunk",     \* ... or begins in front of it
           "int beyond chunk", \* ... being that of a number no wider than an int
           "undefined",        \* the negative of a number overflows
           "beyond text"}      \* the second pass prints more than the first one counted

\* For the directive of a number there is one among the arguments.
NumberPassed ==
  InDirective(Signeds \union Unsigneds \union {"p"}) => call.args[Here.x] \in Int

\* The variables keep their types; chunks in use are chunks.
TypeOK ==
  /\ NumberPassed
  /\ phase \in Passes \union {"idle", "halted", "astray", "stuck"}
  /\ call \in Calls \union {NoCall} /\ calls \in 0..MaxCalls
  /\ DOMAIN heap.mem = Memory
  /\ heap.used \subseteq ChunksOf(0) \union ChunksOf(1) \union {NewPage}
  /\ heap.faults \subseteq Faults
  /\ pos \in 1..(Len(fmt) + 1) /\ x \in 1..(Len(call.args) + 1)
  /\ out \in Nat /\ n_printed \in Nat /\ counted \in Nat /\ stored \in Int

Printed == phase = "idle" /\ calls > 0

\* kprintf() shows what its format and arguments mean, and counts it, as long
\* as no text was read unterminated or left its chunk: the passes, the buffers
\* that conversions replace and the chunks they share do not show.
KprintfExact ==
  Printed /\ call.op = "kprintf" /\ heap.faults = {} =>
    LET r == Outcome(call, Len(call.items))
    IN  /\ shown = r.text
        /\ counted = r.count /\ n_printed = r.count
        /\ r.stored # <<>> => stored = r.stored[1]

\* ksnprintf() prints up to the end of the first directive or character that
\* reaches the last byte but one of its buffer. Of what follows it counts all and
\* prints the "%" of every "%%", whether there is room or not, before the NUL:
\* the text may end beyond the buffer. ksprintf() has no limit.
KsnprintfExact ==
  Printed /\ call.op # "kprintf" /\ heap.faults = {} =>
    LET len == Len(call.items)
        n == Min({k \in 0..len : k = len \/ (bufsz > 0 /\ k > 0 /\ Outcome(call, k).count >= bufsz - 1)})
        late == Cardinality({k \in (n + 1)..len : call.items[k].spec = "%"})
    IN  /\ shown = Outcome(call, n).text \o Filled("%", late)
        /\ n_printed = Outcome(call, len).count

\* The two passes of kvprintf() agree, and the second one stays in the buffer
\* that the first one counted, as long as no text was read that was not written
\* to its end: although the chunks hold other bytes in the second pass, and the
\* buffer has taken one of them. Of a text without its NUL it says nothing.
PassesAgree ==
  Printed /\ call.op = "kprintf" /\ heap.faults \intersect {"unterminated", "before chunk"} = {} =>
    n_printed = counted /\ "beyond text" \notin heap.faults

\* itoa() counts no digits in 0 and in a negative number, and yet its text fits
\* the chunk it gets if the number is no wider than an int.
IntsFit == "int beyond chunk" \notin heap.faults

\* Every chunk that a call takes for a text is freed when it returns, whatever
\* replaced it in between.
HeapRestored == phase = "idle" => heap.used = {}
=============================================================================
