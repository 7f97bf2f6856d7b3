---------------------------- MODULE PrintfProofs ----------------------------
(***************************************************************************)
(* Printing leaves no chunk behind: for every format, every argument,      *)
(* every size of the chunks and whatever they hold, a call of kprintf(),   *)
(* ksnprintf() or ksprintf() frees each chunk that it takes, through both  *)
(* passes and through every text that another one replaces.  And no text   *)
(* of an int is larger than its chunk, although itoa() asks for less than  *)
(* it writes.                                                              *)
(***************************************************************************)
EXTENDS Printf, SequenceTheorems, WellFoundedInduction, TLAPS

(***************************************************************************)
(* Which chunk kmalloc() takes.                                            *)
(***************************************************************************)

\* The least of some natural numbers is one of them, and not above any.
LEMMA LeastElement ==
  ASSUME NEW T \in SUBSET Nat, T # {}
  PROVE  Min(T) \in T /\ \A y \in T : Min(T) <= y
<1> DEFINE R == OpToRel(<, Nat)
<1>1. IsWellFoundedOn(R, Nat)
  BY NatLessThanWellFounded
<1>2. \A m, n \in Nat : m < n => <<m, n>> \in R
  BY DEF OpToRel
<1> HIDE DEF R
<1>3. PICK least \in T : \A y \in T : ~(<<y, least>> \in R)
  BY <1>1, WFMin
<1>4. \A y \in T : ~(y < least)
  BY <1>2, <1>3
<1>5. least \in T /\ \A y \in T : least \in Nat /\ y \in Nat /\ ~(y < least)
  BY <1>4
<1>6. \A y \in T : least <= y
  BY <1>5
<1> QED BY <1>5, <1>6 DEF Min

\* The chunks of the listed pages come before the new page, and there are
\* three of each order at least.
LEMMA Places ==
  ASSUME NEW k \in {0, 1}
  PROVE  /\ ChunksOf(k) \subseteq Nat
         /\ NewPage \notin ChunksOf(k)
         /\ \E a, b, c \in ChunksOf(k) : a # b /\ b # c /\ a # c
<1> DEFINE M == MinChunk
           base == IF k = 0 THEN Order0 ELSE Order1
           step == IF k = 0 THEN M ELSE 2 * M
<1>1. M \in Nat /\ M > 1 /\ Chunks \in Nat /\ Chunks > 2
  BY SizeAssumption
<1>2. \A c \in 0..(Chunks - 1) : c * M \in Nat /\ c * M < Chunks * M
  <2> TAKE c \in 0..(Chunks - 1)
  <2>1. PICK d \in Nat : d > 0 /\ Chunks = c + d
    BY <1>1
  <2>2. d * M > 0 /\ Chunks * M = (c * M) + (d * M) /\ c * M \in Nat /\ d * M \in Nat
    BY <1>1, <2>1
  <2> QED BY <2>2
<1>3. PICK top \in Nat : top = Chunks * M
  BY <1>1
<1>4. NewPage = 3 * top /\ Order0 = 0 /\ Order1 = top
  <2>1. 2 * Chunks * M = 2 * (Chunks * M)
    BY <1>1
  <2>2. Order0 = 0 /\ Order1 = top
    BY <1>3 DEF Order0, Order1
  <2>3. NewPage = top + (2 * top)
    BY <1>3, <2>1, <2>2 DEF NewPage
  <2> QED BY <2>2, <2>3
<1>5. \A a \in ChunksOf(k) : \E c \in 0..(Chunks - 1) :
        IF k = 0 THEN a = c * M ELSE a = top + (2 * (c * M))
  <2>1. \A c \in 0..(Chunks - 1) : 2 * c * M = 2 * (c * M) /\ c * M \in Nat
    BY <1>1, <1>2
  <2>2. CASE k = 0
    BY <1>4, <2>1, <2>2 DEF ChunksOf
  <2>3. CASE k # 0
    BY <1>4, <2>1, <2>3 DEF ChunksOf
  <2> QED BY <2>2, <2>3
<1>6. ChunksOf(k) \subseteq Nat
  BY <1>2, <1>3, <1>5
<1>7. NewPage \notin ChunksOf(k)
  BY <1>2, <1>3, <1>4, <1>5
<1>8. {0, 1, 2} \subseteq 0..(Chunks - 1)
  BY <1>1
<1>9. base + (0 * step) \in ChunksOf(k) /\ base + (1 * step) \in ChunksOf(k) /\ base + (2 * step) \in ChunksOf(k)
  <2>1. CASE k = 0
    BY <1>8, <2>1 DEF ChunksOf
  <2>2. CASE k = 1
    <3>1. ChunksOf(k) = {Order1 + (2 * c * MinChunk) : c \in 0..(Chunks - 1)}
      BY <2>2 DEF ChunksOf
    <3>2. 2 * 0 * M = 0 * step /\ 2 * 1 * M = 1 * step /\ 2 * 2 * M = 2 * step
      BY <1>1, <2>2
    <3> QED BY <1>8, <2>2, <3>1, <3>2
  <2> QED BY <2>1, <2>2
<1>10. base \in Nat /\ step \in Nat /\ step > 0
  BY <1>1, <1>3, <1>4
<1> HIDE DEF base, step
<1>11. base + (0 * step) # base + (1 * step) /\ base + (1 * step) # base + (2 * step)
       /\ base + (0 * step) # base + (2 * step)
  BY <1>10
<1> QED BY <1>6, <1>7, <1>9, <1>11

\* With two chunks in use there is one more to take, and it is another one.
LEMMA ChunkLeft ==
  ASSUME NEW k \in {0, 1}, NEW u, NEW v, NEW U, U \subseteq {u, v}
  PROVE  LET a == Min(ChunksOf(k) \ U)
         IN  a \in ChunksOf(k) /\ a \notin U /\ a # NewPage
<1>1. ChunksOf(k) \ U # {}
  BY Places
<1>2. ChunksOf(k) \ U \in SUBSET Nat
  BY Places
<1>3. Min(ChunksOf(k) \ U) \in ChunksOf(k) \ U
  BY <1>1, <1>2, LeastElement
<1> QED BY <1>3, Places

(***************************************************************************)
(* Heaps that hold given chunks.                                           *)
(***************************************************************************)

HeapRecord(h) ==
  /\ h = [mem |-> h.mem, used |-> h.used, fresh |-> h.fresh, stuck |-> h.stuck, faults |-> h.faults]
  /\ h.fresh \in BOOLEAN /\ h.stuck \in BOOLEAN

\* A heap with one field changed.
LEMMA HeapChange ==
  ASSUME NEW h, HeapRecord(h), NEW v
  PROVE  /\ [h EXCEPT !.mem = v] =
              [mem |-> v, used |-> h.used, fresh |-> h.fresh, stuck |-> h.stuck, faults |-> h.faults]
         /\ [h EXCEPT !.used = v] =
              [mem |-> h.mem, used |-> v, fresh |-> h.fresh, stuck |-> h.stuck, faults |-> h.faults]
         /\ [h EXCEPT !.stuck = v] =
              [mem |-> h.mem, used |-> h.used, fresh |-> h.fresh, stuck |-> v, faults |-> h.faults]
         /\ [h EXCEPT !.faults = v] =
              [mem |-> h.mem, used |-> h.used, fresh |-> h.fresh, stuck |-> h.stuck, faults |-> v]
BY DEF HeapRecord

\* In h the chunks U are in use, unless h is stuck.
Holds(h, U) ==
  /\ HeapRecord(h)
  /\ ~h.stuck => h.used = U /\ (NewPage \in U => ~h.fresh)

\* Text s has a chunk of its own, besides U.
IsText(s, U) ==
  /\ Holds(s.h, U \union {s.a})
  /\ ~s.h.stuck => s.a \notin U

\* kmalloc() gives a chunk that is not in use.
LEMMA AllocHolds ==
  ASSUME NEW h, NEW bytes, NEW u, NEW v, NEW U, Holds(h, U), U \subseteq {u, v}
  PROVE  IsText(Alloc(h, bytes), U) /\ (h.stuck => Alloc(h, bytes).h.stuck)
<1> DEFINE r == Alloc(h, bytes)
<1>1. CASE bytes < 0 \/ bytes >= 4 * MinChunk
  <2>1. r = [a |-> NewPage,
             h |-> [h EXCEPT !.used = @ \union {NewPage}, !.fresh = FALSE, !.stuck = @ \/ ~h.fresh \/ bytes < 0]]
    BY <1>1 DEF Alloc
  <2> HIDE DEF r
  <2>2. /\ r.a = NewPage
        /\ r.h = [mem |-> h.mem, used |-> h.used \union {NewPage}, fresh |-> FALSE,
                  stuck |-> h.stuck \/ ~h.fresh \/ bytes < 0, faults |-> h.faults]
    BY <2>1 DEF Holds, HeapRecord
  <2> DEFINE stuck == h.stuck \/ ~h.fresh \/ bytes < 0
  <2>0. stuck \in BOOLEAN /\ (stuck <=> h.stuck \/ ~h.fresh \/ bytes < 0)
    BY DEF Holds, HeapRecord
  <2> HIDE DEF stuck
  <2>3. HeapRecord(r.h) /\ r.h.stuck = stuck /\ r.h.used = h.used \union {NewPage} /\ r.h.fresh = FALSE
    BY <2>0, <2>2 DEF HeapRecord, stuck
  <2>4. IsText(r, U) /\ (h.stuck => r.h.stuck)
    BY <2>0, <2>2, <2>3 DEF IsText, Holds
  <2> QED BY <2>4 DEF r
<1>2. CASE ~(bytes < 0 \/ bytes >= 4 * MinChunk)
  <2>1. PICK k \in {0, 1} : k = (IF bytes >= 2 * MinChunk THEN 1 ELSE 0)
    OBVIOUS
  <2>2. PICK a : a = Min(ChunksOf(k) \ h.used)
    OBVIOUS
  <2>3. r = [a |-> a, h |-> [h EXCEPT !.used = @ \union {a}]]
    BY <1>2, <2>1, <2>2 DEF Alloc
  <2> HIDE DEF r
  <2>4. /\ r.a = a
        /\ r.h = [mem |-> h.mem, used |-> h.used \union {a}, fresh |-> h.fresh,
                  stuck |-> h.stuck, faults |-> h.faults]
    BY <2>3 DEF Holds, HeapRecord
  <2>5. HeapRecord(r.h) /\ (r.h.stuck <=> h.stuck) /\ r.h.used = h.used \union {a} /\ r.h.fresh = h.fresh
    BY <2>4 DEF Holds, HeapRecord
  <2>6. ~h.stuck => a \notin U /\ a # NewPage
    BY <2>2, ChunkLeft DEF Holds
  <2>7. IsText(r, U) /\ (h.stuck => r.h.stuck)
    BY <2>4, <2>5, <2>6 DEF IsText, Holds
  <2> QED BY <2>7 DEF r
<1> QED BY <1>1, <1>2

\* kfree() takes one back.
LEMMA ReleaseHolds ==
  ASSUME NEW h, NEW U, NEW a, Holds(h, U)
  PROVE  Holds(Release(h, a), U \ {a}) /\ Release(h, a).stuck = h.stuck
<1> DEFINE r == Release(h, a)
<1>1. r = [mem |-> h.mem, used |-> h.used \ {a}, fresh |-> h.fresh, stuck |-> h.stuck, faults |-> h.faults]
  BY DEF Release, Holds, HeapRecord
<1> HIDE DEF r
<1>2. HeapRecord(r) /\ r.stuck = h.stuck /\ r.used = h.used \ {a} /\ r.fresh = h.fresh
  BY <1>1 DEF Holds, HeapRecord
<1>3. Holds(r, U \ {a}) /\ r.stuck = h.stuck
  BY <1>2 DEF Holds
<1> QED BY <1>3 DEF r

\* Nothing that reads or writes a text takes a chunk or frees one.
LEMMA FaultHolds ==
  ASSUME NEW h, NEW U, NEW what, NEW happened \in BOOLEAN, Holds(h, U)
  PROVE  Holds(Fault(h, what, happened), U) /\ Fault(h, what, happened).stuck = h.stuck
<1>1. CASE happened
  <2> DEFINE r == Fault(h, what, happened)
  <2>1. r = [mem |-> h.mem, used |-> h.used, fresh |-> h.fresh, stuck |-> h.stuck, faults |-> h.faults \union {what}]
    BY <1>1 DEF Fault, Holds, HeapRecord
  <2> HIDE DEF r
  <2>2. HeapRecord(r) /\ r.stuck = h.stuck /\ r.used = h.used /\ r.fresh = h.fresh
    BY <2>1 DEF Holds, HeapRecord
  <2>3. Holds(r, U) /\ r.stuck = h.stuck
    BY <2>2 DEF Holds
  <2> QED BY <2>3 DEF r
<1>2. CASE ~happened
  BY <1>2 DEF Fault
<1> QED BY <1>1, <1>2

LEMMA WriteHolds ==
  ASSUME NEW h, NEW U, NEW a, NEW o, NEW s, Holds(h, U)
  PROVE  Holds(Write(h, a, o, s), U) /\ Write(h, a, o, s).stuck = h.stuck
<1> DEFINE bytes == ((a + o)..(a + o + Len(s) - 1)) \intersect Memory
           m == [b \in bytes |-> s[b - a - o + 1]] @@ h.mem
           r == [h EXCEPT !.mem = m]
           longer == o + Len(s) > Room(a)
           before == o < 0
           f == Fault(r, "beyond chunk", longer)
<1>0. Write(h, a, o, s) = Fault(f, "before chunk", before) /\ longer \in BOOLEAN /\ before \in BOOLEAN
  BY DEF Write
<1> HIDE DEF m, longer, before
<1>1. r = [mem |-> m, used |-> h.used, fresh |-> h.fresh, stuck |-> h.stuck, faults |-> h.faults]
  BY DEF Holds, HeapRecord
<1> HIDE DEF r
<1>2. HeapRecord(r) /\ r.stuck = h.stuck /\ r.used = h.used /\ r.fresh = h.fresh
  BY <1>1 DEF Holds, HeapRecord
<1>3. Holds(r, U)
  BY <1>2 DEF Holds
<1>4. Holds(f, U) /\ f.stuck = r.stuck
  BY <1>0, <1>3, FaultHolds
<1> HIDE DEF f
<1>5. Holds(Fault(f, "before chunk", before), U) /\ Fault(f, "before chunk", before).stuck = f.stuck
  BY <1>0, <1>4, FaultHolds
<1> QED BY <1>0, <1>2, <1>4, <1>5

\* A copy that does not end makes the heap stuck.
LEMMA CopyHolds ==
  ASSUME NEW h, NEW U, NEW a, NEW o, NEW from, Holds(h, U)
  PROVE  Holds(CopyOut(h, a, o, from).h, U) /\ (h.stuck => CopyOut(h, a, o, from).h.stuck)
<1> DEFINE s == TextAt(h, from)
           chases == from < a + o /\ a + o <= from + Len(s)
           w == Write(h, a, o, s)
           r == [w EXCEPT !.stuck = @ \/ chases]
<1>1. CopyOut(h, a, o, from).h = r
  BY DEF CopyOut
<1>2. Holds(w, U) /\ w.stuck = h.stuck
  BY WriteHolds
<1>3. chases \in BOOLEAN
  OBVIOUS
<1> HIDE DEF w, chases
<1>4. r = [mem |-> w.mem, used |-> w.used, fresh |-> w.fresh, stuck |-> w.stuck \/ chases, faults |-> w.faults]
  BY <1>2 DEF Holds, HeapRecord
<1> HIDE DEF r
<1>5. HeapRecord(r) /\ (w.stuck => r.stuck) /\ r.used = w.used /\ r.fresh = w.fresh
  BY <1>2, <1>3, <1>4 DEF Holds, HeapRecord
<1>6. Holds(r, U)
  BY <1>2, <1>5 DEF Holds
<1> QED BY <1>1, <1>2, <1>5, <1>6

(***************************************************************************)
(* The texts of a directive.                                               *)
(***************************************************************************)

\* itoa() builds its text in a chunk of its own.
LEMMA ItoaText ==
  ASSUME NEW h, NEW U, NEW u, Holds(h, U), U \subseteq {u},
         NEW num, NEW w, NEW base, NEW flags
  PROVE  IsText(Itoa(h, num, w, base, flags), U)
<1> DEFINE neg == num < 0 /\ base = 10
           signs == IF neg THEN <<"-">> ELSE IF " " \in flags THEN <<" ">>
                    ELSE IF "+" \in flags THEN <<"+">> ELSE <<>>
           prefix == IF "#" \notin flags THEN <<>> ELSE IF base = 8 THEN <<"0">>
                     ELSE IF base = 16 THEN <<"0", "x">> ELSE <<>>
           n == IF neg THEN Signed(-num, w) ELSE num
           text == signs \o prefix \o Digits(n, base) \o Terminator
           bytes == NDigits(num, base) + 1 + Len(prefix) + Len(signs)
           f == Fault(h, "undefined", n < 0)
           new == Alloc(f, bytes)
           wr == Write(new.h, new.a, 0, text)
           longer == w <= Bits[<<>>] /\ Len(text) > Room(new.a)
           r == [a |-> new.a, h |-> Fault(wr, "int beyond chunk", longer)]
<1>1. Itoa(h, num, w, base, flags) = r /\ longer \in BOOLEAN
  BY DEF Itoa
<1>2. Holds(f, U)
  <2> DEFINE overflows == n < 0
  <2>1. f = Fault(h, "undefined", overflows) /\ overflows \in BOOLEAN
    OBVIOUS
  <2> HIDE DEF overflows, f
  <2> QED BY <2>1, FaultHolds
<1> HIDE DEF f, bytes, longer
<1>3. IsText(new, U)
  BY <1>2, AllocHolds
<1> HIDE DEF new, text
<1>4. Holds(wr, U \union {new.a}) /\ wr.stuck = new.h.stuck
  BY <1>3, WriteHolds DEF IsText
<1> HIDE DEF wr
<1>5. Holds(r.h, U \union {new.a}) /\ r.h.stuck = wr.stuck /\ r.a = new.a
  BY <1>1, <1>4, FaultHolds
<1> HIDE DEF r
<1> QED BY <1>1, <1>3, <1>4, <1>5 DEF IsText

\* A text that another one replaces is freed.
LEMMA ReplacedText ==
  ASSUME NEW s, NEW U, NEW new, NEW h,
         IsText(s, U), IsText(new, U \union {s.a}),
         s.h.stuck => new.h.stuck, new.h.stuck => h.stuck,
         Holds(h, (U \union {s.a}) \union {new.a})
  PROVE  IsText([a |-> new.a, h |-> Replaced(h, s.a)], U)
<1> DEFINE g == Release(h, s.a)
<1>1. Holds(g, ((U \union {s.a}) \union {new.a}) \ {s.a}) /\ g.stuck = h.stuck
  BY ReleaseHolds
<1>2. ~h.stuck => s.a \notin U /\ new.a \notin U /\ new.a # s.a
  BY DEF IsText
<1>3. ~h.stuck => ((U \union {s.a}) \union {new.a}) \ {s.a} = U \union {new.a}
  BY <1>2
<1> HIDE DEF g
<1>4. Holds(g, U \union {new.a})
  BY <1>1, <1>3 DEF Holds
<1>5. IsText([a |-> new.a, h |-> g], U)
  BY <1>1, <1>2, <1>4 DEF IsText
<1> QED BY <1>5 DEF Replaced, g

\* __kvsprintf_intprecision() and __kvsprintf_justify() may replace it.
LEMMA IntPrecisionText ==
  ASSUME NEW s, NEW U, NEW u, IsText(s, U), U \subseteq {u}, NEW precision
  PROVE  IsText(IntPrecision(s, precision), U)
<1> DEFINE len == strlen(s.h, s.a)
           new == Alloc(s.h, precision + 1)
           w == Write(new.h, new.a, 0, Filled("0", precision - len))
           c == CopyOut(w, new.a, precision - len, s.a)
           e == Ended(c.h, new.a, precision)
           r == [a |-> new.a, h |-> Replaced(e, s.a)]
<1>1. IntPrecision(s, precision) = (IF precision < len THEN s ELSE r)
  BY DEF IntPrecision
<1>2. IsText(new, U \union {s.a}) /\ (s.h.stuck => new.h.stuck)
  <2>1. U \union {s.a} \subseteq {u, s.a}
    OBVIOUS
  <2> QED BY <2>1, AllocHolds DEF IsText
<1> HIDE DEF new, len
<1>3. Holds(w, (U \union {s.a}) \union {new.a}) /\ w.stuck = new.h.stuck
  BY <1>2, WriteHolds DEF IsText
<1> HIDE DEF w
<1>4. Holds(c.h, (U \union {s.a}) \union {new.a}) /\ (w.stuck => c.h.stuck)
  BY <1>3, CopyHolds
<1> HIDE DEF c
<1>5. Holds(e, (U \union {s.a}) \union {new.a}) /\ e.stuck = c.h.stuck
  BY <1>4, FaultHolds DEF Ended
<1> HIDE DEF e
<1>6. IsText(r, U)
  BY <1>2, <1>3, <1>4, <1>5, ReplacedText
<1> HIDE DEF r
<1> QED BY <1>1, <1>6

\* So does a width, on either side.
LEMMA JustifyText ==
  ASSUME NEW s, NEW U, NEW u, IsText(s, U), U \subseteq {u}, NEW width, NEW flags
  PROVE  IsText(Justify(s, width, flags), U)
<1> DEFINE len == strlen(s.h, s.a)
           new == Alloc(s.h, width + 1)
           pad == Filled(IF "0" \in flags THEN "0" ELSE " ", width - len)
           left == "-" \in flags
           c == CopyOut(new.h, new.a, IF left THEN 0 ELSE width - len, s.a)
           w == Write(c.h, new.a, IF left THEN len ELSE 0, pad)
           e == Write(w, new.a, width, <<NUL>>)
           r == [a |-> new.a, h |-> Replaced(e, s.a)]
<1>1. Justify(s, width, flags) = (IF width >= 0 /\ len >= width THEN s ELSE r)
  BY DEF Justify
<1>2. IsText(new, U \union {s.a}) /\ (s.h.stuck => new.h.stuck)
  <2>1. U \union {s.a} \subseteq {u, s.a}
    OBVIOUS
  <2> QED BY <2>1, AllocHolds DEF IsText
<1> HIDE DEF new, len, left, pad
<1>3. Holds(c.h, (U \union {s.a}) \union {new.a}) /\ (new.h.stuck => c.h.stuck)
  BY <1>2, CopyHolds DEF IsText
<1> HIDE DEF c
<1>4. Holds(w, (U \union {s.a}) \union {new.a}) /\ w.stuck = c.h.stuck
  BY <1>3, WriteHolds
<1> HIDE DEF w
<1>5. Holds(e, (U \union {s.a}) \union {new.a}) /\ e.stuck = w.stuck
  BY <1>4, WriteHolds
<1> HIDE DEF e
<1>6. IsText(r, U)
  BY <1>2, <1>3, <1>4, <1>5, ReplacedText
<1> HIDE DEF r
<1> QED BY <1>1, <1>6

\* The text of a number, and that of a string.
LEMMA NumberTextHeld ==
  ASSUME NEW h, NEW U, NEW u, Holds(h, U), U \subseteq {u}, NEW d, NEW v
  PROVE  IsText(NumberText(h, d, v), U)
<1> DEFINE s0 == Itoa(h, Number(d, v), Width(d), Base(d.spec),
                      IF d.spec = "p" THEN d.flags \intersect {"#"} ELSE d.flags)
           s1 == IF d.precise /\ d.spec # "p" THEN IntPrecision(s0, d.precision) ELSE s0
<1>1. NumberText(h, d, v) = IF d.wide THEN Justify(s1, d.width, d.flags) ELSE s1
  BY DEF NumberText
<1>2. IsText(s0, U)
  BY ItoaText
<1> HIDE DEF s0
<1>3. IsText(s1, U)
  BY <1>2, IntPrecisionText
<1> HIDE DEF s1
<1>4. IsText(Justify(s1, d.width, d.flags), U)
  BY <1>3, JustifyText
<1> QED BY <1>1, <1>3, <1>4

\* That of a string is copied before it is justified.
LEMMA StringTextHeld ==
  ASSUME NEW h, NEW U, NEW u, Holds(h, U), U \subseteq {u}, NEW d, NEW str
  PROVE  IsText(StringText(h, d, str), U)
<1> DEFINE n == IF d.precise /\ d.precision > 0 /\ d.precision < Len(str) THEN d.precision ELSE Len(str)
           new == Alloc(h, IF d.precise THEN d.precision + 1 ELSE Len(str) + 1)
           w == Write(new.h, new.a, 0, SubSeq(str, 1, n))
           s0 == [a |-> new.a, h |-> Ended(w, new.a, n)]
<1>1. StringText(h, d, str) = IF d.wide THEN Justify(s0, d.width, d.flags) ELSE s0
  BY DEF StringText
<1>2. IsText(new, U)
  BY AllocHolds
<1> HIDE DEF new, n
<1>3. Holds(w, U \union {new.a}) /\ w.stuck = new.h.stuck
  BY <1>2, WriteHolds DEF IsText
<1> HIDE DEF w
<1>4. Holds(s0.h, U \union {new.a}) /\ s0.h.stuck = w.stuck /\ s0.a = new.a
  BY <1>3, FaultHolds DEF Ended
<1> HIDE DEF s0
<1>5. IsText(s0, U)
  BY <1>2, <1>3, <1>4 DEF IsText
<1>6. IsText(Justify(s0, d.width, d.flags), U)
  BY <1>5, JustifyText
<1> QED BY <1>1, <1>5, <1>6

(***************************************************************************)
(* The digits of a number.                                                 *)
(***************************************************************************)

\* What the texts of numbers are made of.
Chars == {alphanumeric[1 + m] : m \in Nat} \union {Unknown, NUL, "-", " ", "+", "0", "x"}

LEMMA DigitChar == \A m \in Nat : alphanumeric[1 + m] \in Chars
BY DEF Chars

\* Texts of one or two characters, and texts that follow each other.
LEMMA CharText ==
  /\ \A c \in Chars : <<c>> \in Seq(Chars) /\ Len(<<c>>) = 1
  /\ \A c, d \in Chars : <<c, d>> \in Seq(Chars) /\ Len(<<c, d>>) = 2
  /\ <<>> \in Seq(Chars) /\ Len(<<>>) = 0
  /\ {NUL, "-", " ", "+", "0", "x"} \subseteq Chars
<1>1. {NUL, "-", " ", "+", "0", "x"} \subseteq Chars
  BY DEF Chars
<1>2. \A S : (\A c \in S : <<c>> \in Seq(S)) /\ (\A c, d \in S : <<c, d>> \in Seq(S)) /\ <<>> \in Seq(S)
  OBVIOUS
<1>3. \A c : Len(<<c>>) = 1
  OBVIOUS
<1>4. \A c, d : Len(<<c, d>>) = 2
  OBVIOUS
<1>5. Len(<<>>) = 0
  OBVIOUS
<1> QED BY <1>1, <1>2, <1>3, <1>4, <1>5, Zenon

LEMMA ConcatLength ==
  ASSUME NEW S, NEW s \in Seq(S), NEW t \in Seq(S)
  PROVE  s \o t \in Seq(S) /\ Len(s \o t) = Len(s) + Len(t)
OBVIOUS

Bases == {8, 10, 16}

\* What the digits of k are, if those of smaller numbers are what g says.
DigitStep(g, base, k) ==
  (IF k >= base THEN g[k \div base] ELSE <<>>) \o <<alphanumeric[1 + (k % base)]>>

\* A function that is right about the numbers up to n.
RightTo(g, base, n) == g = [k \in 0..n |-> DigitStep(g, base, k)]

\* Division by the base makes a number smaller, eight times at least.
LEMMA DivisionLess ==
  ASSUME NEW base \in Bases, NEW k \in Nat
  PROVE  /\ k \div base \in Nat /\ 8 * (k \div base) <= k
         /\ k >= base => k \div base < k
         /\ k % base \in 0..15
<1>1. CASE base = 8
  BY <1>1
<1>2. CASE base = 10
  BY <1>2
<1>3. CASE base = 16
  BY <1>3
<1> QED BY <1>1, <1>2, <1>3 DEF Bases

\* Digits are looked up at smaller numbers only.
LEMMA StepLooksBelow ==
  ASSUME NEW base \in Bases, NEW k \in Nat, NEW g, NEW h,
         \A j \in Nat : j < k => g[j] = h[j]
  PROVE  DigitStep(g, base, k) = DigitStep(h, base, k)
<1>1. k >= base => g[k \div base] = h[k \div base]
  BY DivisionLess
<1> QED BY <1>1 DEF DigitStep

\* There is such a function for each n.
LEMMA RightExists ==
  ASSUME NEW base \in Bases
  PROVE  \A n \in Nat : \E g : RightTo(g, base, n)
<1> DEFINE T == {n \in Nat : ~\E g : RightTo(g, base, n)}
<1> SUFFICES ASSUME T # {} PROVE FALSE
  OBVIOUS
<1>1. PICK n \in Nat : n \in T /\ \A y \in T : n <= y
  BY LeastElement
<1>2. CASE n = 0
  <2> DEFINE g == [k \in 0..0 |-> DigitStep(<<>>, base, k)]
  <2>1. \A k \in 0..0 : DigitStep(<<>>, base, k) = DigitStep(g, base, k)
    BY StepLooksBelow
  <2>2. RightTo(g, base, n)
    BY <1>2, <2>1 DEF RightTo
  <2> QED BY <1>1, <2>2
<1>3. CASE n # 0
  <2>1. PICK m \in Nat : n = m + 1
    BY <1>3
  <2>2. PICK g : RightTo(g, base, m)
    BY <1>1, <2>1
  <2> DEFINE h == [k \in 0..n |-> IF k <= m THEN g[k] ELSE DigitStep(g, base, n)]
  <2>3. \A k \in 0..m : g[k] = DigitStep(g, base, k)
    BY <2>2 DEF RightTo
  <2>4. \A k \in 0..n : h[k] = DigitStep(g, base, k)
    BY <2>1, <2>3
  <2>5. \A k \in 0..n, j \in Nat : j < k => h[j] = g[j]
    BY <2>1
  <2>6. h = [k \in 0..n |-> h[k]]
    OBVIOUS
  <2> HIDE DEF h
  <2>7. \A k \in 0..n : DigitStep(g, base, k) = DigitStep(h, base, k)
    BY <2>5, StepLooksBelow
  <2>8. RightTo(h, base, n)
    BY <2>4, <2>6, <2>7 DEF RightTo
  <2> QED BY <1>1, <2>8
<1> QED BY <1>2, <1>3

\* Two of them are right about the same numbers alike.
LEMMA RightAgree ==
  ASSUME NEW base \in Bases, NEW m \in Nat, NEW n \in Nat, NEW g, NEW h,
         RightTo(g, base, m), RightTo(h, base, n)
  PROVE  \A k \in Nat : k <= m /\ k <= n => g[k] = h[k]
<1> DEFINE T == {k \in Nat : k <= m /\ k <= n /\ g[k] # h[k]}
<1> SUFFICES ASSUME T # {} PROVE FALSE
  OBVIOUS
<1>1. PICK k \in Nat : k \in T /\ \A y \in T : k <= y
  BY LeastElement
<1>2. \A j \in Nat : j < k => g[j] = h[j]
  BY <1>1
<1>3. DigitStep(g, base, k) = DigitStep(h, base, k)
  BY <1>2, StepLooksBelow
<1>4. k \in 0..m /\ k \in 0..n /\ g[k] # h[k]
  BY <1>1
<1>5. g[k] = DigitStep(g, base, k)
  BY <1>4 DEF RightTo
<1>6. h[k] = DigitStep(h, base, k)
  BY <1>4 DEF RightTo
<1> QED BY <1>3, <1>4, <1>5, <1>6

\* So the recursion of itoa() is well founded, and its digits are what it says.
LEMMA DigitsUnfold ==
  ASSUME NEW base \in Bases, NEW n \in Nat
  PROVE  DigitsIn(base)[n] = DigitStep(DigitsIn(base), base, n)
<1> DEFINE Right(h) == h = [k \in Nat |-> (IF k >= base THEN h[k \div base] ELSE <<>>)
                                          \o <<alphanumeric[1 + (k % base)]>>]
           G(k) == CHOOSE g : RightTo(g, base, k)
           f == [k \in Nat |-> G(k)[k]]
<1>1. \A k \in Nat : RightTo(G(k), base, k)
  BY RightExists
<1> HIDE DEF G
<1>2. \A k \in Nat, j \in Nat : j <= k => G(j)[j] = G(k)[j]
  BY <1>1, RightAgree
<1>3. \A k \in Nat : f[k] = DigitStep(f, base, k)
  <2> TAKE k \in Nat
  <2>1. \A j \in Nat : j < k => G(k)[j] = f[j]
    BY <1>2
  <2>2. G(k)[k] = DigitStep(G(k), base, k)
    BY <1>1 DEF RightTo
  <2> HIDE DEF f
  <2>3. DigitStep(G(k), base, k) = DigitStep(f, base, k)
    BY <2>1, StepLooksBelow
  <2> QED BY <2>2, <2>3 DEF f
<1>4. f = [k \in Nat |-> f[k]]
  OBVIOUS
<1> HIDE DEF f
<1>5. Right(f)
  BY <1>3, <1>4 DEF DigitStep
<1>6. DigitsIn(base) = CHOOSE h : Right(h)
  BY DEF DigitsIn
<1> HIDE DEF Right
<1>7. Right(DigitsIn(base))
  BY <1>5, <1>6, Zenon
<1> QED BY <1>7 DEF Right, DigitStep

\* Every digit but the first stands for a division by eight or more.
LEMMA DigitsLength ==
  ASSUME NEW base \in Bases, NEW j \in 1..(MinChunk - 4), NEW n \in Nat, n < 8^j
  PROVE  DigitsIn(base)[n] \in Seq(Chars) /\ Len(DigitsIn(base)[n]) <= j
<1> DEFINE Short(i, k) == DigitsIn(base)[k] \in Seq(Chars) /\ Len(DigitsIn(base)[k]) <= i
           T == {i \in 1..(MinChunk - 4) : ~\A k \in Nat : k < 8^i => Short(i, k)}
<1> SUFFICES ASSUME T # {} PROVE FALSE
  OBVIOUS
<1>0. MinChunk - 4 \in Nat
  BY SizeAssumption
<1>t. T \in SUBSET Nat
  BY <1>0
<1> HIDE DEF T
<1>1. PICK i \in Nat : i \in T /\ \A y \in T : i <= y
  BY <1>t, LeastElement
<1> USE DEF T
<1>i. i \in 1..(MinChunk - 4)
  BY <1>1
<1>2. PICK k \in Nat : k < 8^i /\ ~Short(i, k)
  BY <1>1
<1>3. PICK P \in Nat : P = 8^(i - 1) /\ 8^i = 8 * P /\ (i = 1 => P = 1)
  <2>1. 8^(i - 1) \in Nat /\ 8^i = 8 * 8^(i - 1)
    BY <1>i, IntAssumption
  <2>2. ASSUME i = 1 PROVE 8^(i - 1) = 1
    <3>1. i - 1 = 0
      BY <2>2
    <3> QED BY <3>1, IntAssumption
  <2> HIDE DEF T, Short
  <2> QED BY <2>1, <2>2
<1>4. k < 8 * P
  BY <1>2, <1>3
<1> DEFINE q == k \div base
           c == <<alphanumeric[1 + (k % base)]>>
<1>5. c \in Seq(Chars) /\ Len(c) = 1
  <2>1. k % base \in 0..15
    BY DivisionLess
  <2>2. PICK m \in Nat : m = k % base
    BY <2>1
  <2>3. alphanumeric[1 + m] \in Chars
    BY DigitChar
  <2> QED BY <2>2, <2>3, CharText
<1>6. DigitsIn(base)[k] = (IF k >= base THEN DigitsIn(base)[q] ELSE <<>>) \o c
  BY DigitsUnfold DEF DigitStep
<1>7. q \in Nat /\ 8 * q <= k
  BY DivisionLess
<1>8. q < P
  BY <1>4, <1>7
<1> HIDE DEF q, c
<1>9. CASE k >= base
  <2>1. i # 1
    BY <1>3, <1>4, <1>9 DEF Bases
  <2>2. i - 1 \in 1..(MinChunk - 4) /\ i - 1 \notin T
    BY <1>0, <1>1, <2>1
  <2>3. Short(i - 1, q)
    BY <1>3, <1>7, <1>8, <2>2
  <2>4. DigitsIn(base)[k] = DigitsIn(base)[q] \o c
    BY <1>6, <1>9
  <2>5. DigitsIn(base)[q] \in Seq(Chars) /\ Len(DigitsIn(base)[q]) <= i - 1
    BY <2>3
  <2>6. DigitsIn(base)[q] \o c \in Seq(Chars) /\ Len(DigitsIn(base)[q] \o c) = Len(DigitsIn(base)[q]) + 1
    BY <1>5, <2>5, ConcatLength
  <2>7. Len(DigitsIn(base)[q]) \in Nat
    BY <2>5
  <2> QED BY <1>i, <1>2, <2>4, <2>5, <2>6, <2>7
<1>10. CASE ~(k >= base)
  <2>1. DigitsIn(base)[k] = <<>> \o c
    BY <1>6, <1>10
  <2>2. DigitsIn(base)[k] \in Seq(Chars) /\ Len(DigitsIn(base)[k]) = 1
    BY <1>5, <2>1
  <2> QED BY <1>i, <1>2, <2>2
<1> QED BY <1>9, <1>10

(***************************************************************************)
(* Texts of numbers that are no wider than an int.                         *)
(***************************************************************************)

\* A number that is made w bits wide is below 2^w.
LEMMA NumberBelow ==
  ASSUME NEW v \in Int, NEW w, 2^w \in Nat \ {0}
  PROVE  /\ Wrap(v, w) \in Int /\ Wrap(v, w) < 2^w
         /\ Signed(v, w) \in Int /\ Signed(v, w) < 2^w
<1>1. PICK W \in Nat \ {0} : W = 2^w
  OBVIOUS
<1>2. v % W \in 0..(W - 1)
  OBVIOUS
<1>3. Wrap(v, w) = v % W
  BY <1>1 DEF Wrap
<1>4. Signed(v, w) = v % W \/ Signed(v, w) = (v % W) - W
  BY <1>1, <1>3 DEF Signed
<1> QED BY <1>1, <1>2, <1>3, <1>4

\* What itoa() writes of a number below 8^(MinChunk - 4) fits any chunk: its
\* digits, a sign, a prefix of two and the NUL.
LEMMA TextFits ==
  ASSUME NEW base \in Bases, NEW n \in Int, n < 8^(MinChunk - 4),
         NEW signs \in Seq(Chars), Len(signs) <= 1,
         NEW prefix \in Seq(Chars), Len(prefix) <= 2, NEW a
  PROVE  ~(Len(signs \o prefix \o Digits(n, base) \o Terminator) > Room(a))
<1>1. MinChunk - 4 \in Nat /\ MinChunk - 4 > 0 /\ MinChunk \in Nat
  BY SizeAssumption
<1>2. Digits(n, base) \in Seq(Chars) /\ Len(Digits(n, base)) <= MinChunk - 4
  <2>1. CASE n < 0
    <3> DEFINE c == IF (-n) % base = 0 THEN alphanumeric[1] ELSE Unknown
    <3>1. Digits(n, base) = <<c>>
      BY <2>1 DEF Digits
    <3>2. alphanumeric[1 + 0] \in Chars /\ 1 + 0 = 1
      BY DigitChar
    <3>3. c \in Chars
      BY <3>2 DEF Chars
    <3> HIDE DEF c
    <3>4. <<c>> \in Seq(Chars) /\ Len(<<c>>) = 1
      BY <3>3, CharText
    <3> QED BY <1>1, <3>1, <3>4
  <2>2. CASE ~(n < 0)
    <3>1. Digits(n, base) = DigitsIn(base)[n]
      BY <2>2 DEF Digits
    <3>2. n \in Nat /\ MinChunk - 4 \in 1..(MinChunk - 4)
      BY <1>1, <2>2
    <3> QED BY <3>1, <3>2, DigitsLength
  <2> QED BY <2>1, <2>2
<1>3. Terminator \in Seq(Chars) /\ Len(Terminator) = 1
  BY CharText DEF Terminator
<1> DEFINE s1 == signs \o prefix
           s2 == s1 \o Digits(n, base)
           s3 == s2 \o Terminator
<1>4. s1 \in Seq(Chars) /\ Len(s1) = Len(signs) + Len(prefix)
  BY ConcatLength
<1> HIDE DEF s1
<1>5. s2 \in Seq(Chars) /\ Len(s2) = Len(s1) + Len(Digits(n, base))
  BY <1>2, <1>4, ConcatLength
<1> HIDE DEF s2
<1>6. Len(s3) = Len(s2) + Len(Terminator)
  BY <1>3, <1>5, ConcatLength
<1>7. Len(signs) \in Nat /\ Len(prefix) \in Nat /\ Len(Digits(n, base)) \in Nat
  BY <1>2
<1>8. Len(s3) <= MinChunk /\ Len(s3) \in Int
  BY <1>1, <1>2, <1>3, <1>4, <1>5, <1>6, <1>7
<1>9. Room(a) \in Nat /\ Room(a) >= MinChunk
  BY SizeAssumption DEF Room
<1>10. ~(Len(s3) > Room(a))
  BY <1>1, <1>8, <1>9
<1> QED BY <1>10 DEF s1, s2

\* In heap h no text of an int is longer than its chunk.
Fits(h) == HeapRecord(h) /\ "int beyond chunk" \notin h.faults

\* Only itoa() makes such a text.
LEMMA AllocFits ==
  ASSUME NEW h, Fits(h), NEW bytes
  PROVE  Fits(Alloc(h, bytes).h)
<1>1. CASE bytes < 0 \/ bytes >= 4 * MinChunk
  <2> DEFINE stuck == h.stuck \/ ~h.fresh \/ bytes < 0
             r == [mem |-> h.mem, used |-> h.used \union {NewPage}, fresh |-> FALSE,
                   stuck |-> stuck, faults |-> h.faults]
  <2>1. Alloc(h, bytes).h = r
    BY <1>1 DEF Alloc, Fits, HeapRecord
  <2>2. stuck \in BOOLEAN
    BY DEF Fits, HeapRecord
  <2> HIDE DEF stuck
  <2>3. HeapRecord(r) /\ r.faults = h.faults
    BY <2>2 DEF HeapRecord
  <2> HIDE DEF r
  <2> QED BY <2>1, <2>3 DEF Fits
<1>2. CASE ~(bytes < 0 \/ bytes >= 4 * MinChunk)
  <2>1. PICK a : Alloc(h, bytes).h = [h EXCEPT !.used = @ \union {a}]
    BY <1>2 DEF Alloc
  <2> DEFINE r == [mem |-> h.mem, used |-> h.used \union {a}, fresh |-> h.fresh,
                   stuck |-> h.stuck, faults |-> h.faults]
  <2>2. Alloc(h, bytes).h = r
    BY <2>1 DEF Fits, HeapRecord
  <2>3. HeapRecord(r) /\ r.faults = h.faults
    BY DEF Fits, HeapRecord
  <2> HIDE DEF r
  <2> QED BY <2>2, <2>3 DEF Fits
<1> QED BY <1>1, <1>2

LEMMA ReleaseFits ==
  ASSUME NEW h, Fits(h), NEW a
  PROVE  Fits(Release(h, a))
<1> DEFINE r == [mem |-> h.mem, used |-> h.used \ {a}, fresh |-> h.fresh, stuck |-> h.stuck, faults |-> h.faults]
<1>1. Release(h, a) = r
  BY HeapChange DEF Release, Fits
<1>2. HeapRecord(r) /\ r.faults = h.faults
  BY DEF Fits, HeapRecord
<1> HIDE DEF r
<1> QED BY <1>1, <1>2 DEF Fits

LEMMA FaultFits ==
  ASSUME NEW h, Fits(h), NEW what, NEW happened \in BOOLEAN,
         happened => what # "int beyond chunk"
  PROVE  Fits(Fault(h, what, happened))
<1>1. CASE happened
  <2> DEFINE r == [mem |-> h.mem, used |-> h.used, fresh |-> h.fresh, stuck |-> h.stuck, faults |-> h.faults \union {what}]
  <2>1. Fault(h, what, happened) = r
    BY <1>1 DEF Fault, Fits, HeapRecord
  <2>2. HeapRecord(r) /\ r.faults = h.faults \union {what}
    BY DEF Fits, HeapRecord
  <2> HIDE DEF r
  <2> QED BY <1>1, <2>1, <2>2 DEF Fits
<1>2. CASE ~happened
  BY <1>2 DEF Fault
<1> QED BY <1>1, <1>2

LEMMA WriteFits ==
  ASSUME NEW h, Fits(h), NEW a, NEW o, NEW s
  PROVE  Fits(Write(h, a, o, s))
<1> DEFINE bytes == ((a + o)..(a + o + Len(s) - 1)) \intersect Memory
           m == [b \in bytes |-> s[b - a - o + 1]] @@ h.mem
           r == [mem |-> m, used |-> h.used, fresh |-> h.fresh, stuck |-> h.stuck, faults |-> h.faults]
           longer == o + Len(s) > Room(a)
           before == o < 0
           f == Fault(r, "beyond chunk", longer)
<1>1. longer \in BOOLEAN /\ before \in BOOLEAN
  OBVIOUS
<1>2. Write(h, a, o, s) = Fault(Fault([h EXCEPT !.mem = m], "beyond chunk", longer), "before chunk", before)
  BY DEF Write
<1> HIDE DEF m, longer, before
<1>3. [h EXCEPT !.mem = m] = r
  BY HeapChange DEF Fits
<1>4. HeapRecord(r) /\ r.faults = h.faults
  BY DEF Fits, HeapRecord
<1> HIDE DEF r
<1>5. Fits(r)
  BY <1>4 DEF Fits
<1>6. Fits(f)
  BY <1>1, <1>5, FaultFits
<1>7. Fits(Fault(f, "before chunk", before))
  BY <1>1, <1>6, FaultFits
<1> QED BY <1>2, <1>3, <1>7

LEMMA CopyFits ==
  ASSUME NEW h, Fits(h), NEW a, NEW o, NEW from
  PROVE  Fits(CopyOut(h, a, o, from).h)
<1> DEFINE s == TextAt(h, from)
           chases == from < a + o /\ a + o <= from + Len(s)
           w == Write(h, a, o, s)
           stuck == w.stuck \/ chases
           r == [mem |-> w.mem, used |-> w.used, fresh |-> w.fresh, stuck |-> stuck, faults |-> w.faults]
<1>1. CopyOut(h, a, o, from).h = [w EXCEPT !.stuck = stuck]
  BY DEF CopyOut
<1>2. Fits(w)
  BY WriteFits
<1>3. chases \in BOOLEAN
  OBVIOUS
<1> HIDE DEF w, chases
<1>4. stuck \in BOOLEAN
  BY <1>2, <1>3 DEF Fits, HeapRecord
<1> HIDE DEF stuck
<1>5. HeapRecord(r) /\ r.faults = w.faults
  BY <1>2, <1>4 DEF Fits, HeapRecord
<1>6. [w EXCEPT !.stuck = stuck] = r
  BY <1>2, HeapChange DEF Fits
<1> HIDE DEF r
<1> QED BY <1>1, <1>2, <1>5, <1>6 DEF Fits

\* itoa() counts no digits in a negative number and none in 0, and adds the
\* NUL; still what it writes of an int is no longer than the smallest chunk.
LEMMA ItoaFits ==
  ASSUME NEW h, Fits(h), NEW num, NEW w, NEW base \in Bases, NEW flags,
         w <= Bits[<<>>] => /\ num \in Int /\ num < 2^w /\ 2^w \in Nat \ {0}
                            /\ 2^w <= 8^(MinChunk - 4)
  PROVE  Fits(Itoa(h, num, w, base, flags).h)
<1> DEFINE neg == num < 0 /\ base = 10
           signs == IF neg THEN <<"-">> ELSE IF " " \in flags THEN <<" ">>
                    ELSE IF "+" \in flags THEN <<"+">> ELSE <<>>
           prefix == IF "#" \notin flags THEN <<>> ELSE IF base = 8 THEN <<"0">>
                     ELSE IF base = 16 THEN <<"0", "x">> ELSE <<>>
           n == IF neg THEN Signed(-num, w) ELSE num
           text == signs \o prefix \o Digits(n, base) \o Terminator
           bytes == NDigits(num, base) + 1 + Len(prefix) + Len(signs)
           overflows == n < 0
           f == Fault(h, "undefined", overflows)
           new == Alloc(f, bytes)
           wr == Write(new.h, new.a, 0, text)
           longer == w <= Bits[<<>>] /\ Len(text) > Room(new.a)
           r == Fault(wr, "int beyond chunk", longer)
<1>1. Itoa(h, num, w, base, flags).h = r /\ longer \in BOOLEAN /\ overflows \in BOOLEAN
  BY DEF Itoa
<1>s. signs \in {<<"-">>, <<" ">>, <<"+">>, <<>>} /\ prefix \in {<<"0">>, <<"0", "x">>, <<>>}
  OBVIOUS
<1> HIDE DEF signs, prefix
<1>2. signs \in Seq(Chars) /\ Len(signs) <= 1
  <2>1. "-" \in Chars /\ " " \in Chars /\ "+" \in Chars
    BY CharText
  <2>2. signs \in Seq(Chars)
    BY <1>s, <2>1, CharText
  <2>3. Len(signs) = 1 \/ Len(signs) = 0
    BY <1>s, <2>1, CharText
  <2>4. CASE Len(signs) = 1
    BY <2>2, <2>4
  <2>5. CASE Len(signs) = 0
    BY <2>2, <2>5
  <2> QED BY <2>3, <2>4, <2>5
<1>3. prefix \in Seq(Chars) /\ Len(prefix) <= 2
  <2>1. "0" \in Chars /\ "x" \in Chars
    BY CharText
  <2>2. prefix \in Seq(Chars)
    BY <1>s, <2>1, CharText
  <2>3. Len(prefix) = 2 \/ Len(prefix) = 1 \/ Len(prefix) = 0
    BY <1>s, <2>1, CharText
  <2>4. CASE Len(prefix) = 2
    BY <2>2, <2>4
  <2>5. CASE Len(prefix) = 1
    BY <2>2, <2>5
  <2>6. CASE Len(prefix) = 0
    BY <2>2, <2>6
  <2> QED BY <2>3, <2>4, <2>5, <2>6
<1>4. ASSUME w <= Bits[<<>>] PROVE n \in Int /\ n < 8^(MinChunk - 4)
  <2>1. num \in Int /\ num < 2^w /\ 2^w \in Nat \ {0} /\ 2^w <= 8^(MinChunk - 4)
    BY <1>4
  <2>2. -num \in Int /\ 8^(MinChunk - 4) \in Int
    <3>1. MinChunk - 4 \in 1..(MinChunk - 4)
      BY SizeAssumption
    <3>2. 8^(MinChunk - 4) = 8 * 8^(MinChunk - 4 - 1) /\ 8^(MinChunk - 4 - 1) \in Nat
      BY <3>1, IntAssumption
    <3> QED BY <2>1, <3>2
  <2>3. Signed(-num, w) \in Int /\ Signed(-num, w) < 2^w
    BY <2>1, <2>2, NumberBelow
  <2> QED BY <2>1, <2>2, <2>3
<1> HIDE DEF n, bytes
<1>5. ASSUME w <= Bits[<<>>] PROVE ~(Len(text) > Room(new.a))
  BY <1>2, <1>3, <1>4, <1>5, TextFits
<1>6. ~longer
  BY <1>5
<1> HIDE DEF text, longer, overflows
<1>7. Fits(f)
  BY <1>1, FaultFits
<1> HIDE DEF f
<1>8. Fits(new.h)
  BY <1>7, AllocFits
<1> HIDE DEF new
<1>9. Fits(wr)
  BY <1>8, WriteFits
<1> HIDE DEF wr
<1>10. Fits(r)
  BY <1>1, <1>6, <1>9, FaultFits
<1> QED BY <1>1, <1>10

LEMMA EndedFits ==
  ASSUME NEW h, Fits(h), NEW a, NEW n
  PROVE  Fits(Ended(h, a, n))
<1> DEFINE unended == strlen(h, a) # n
<1>1. unended \in BOOLEAN /\ Ended(h, a, n) = Fault(h, "unterminated", unended)
  BY DEF Ended
<1> HIDE DEF unended
<1> QED BY <1>1, FaultFits

LEMMA IntPrecisionFits ==
  ASSUME NEW s, Fits(s.h), NEW precision
  PROVE  Fits(IntPrecision(s, precision).h)
<1> DEFINE len == strlen(s.h, s.a)
           new == Alloc(s.h, precision + 1)
           w == Write(new.h, new.a, 0, Filled("0", precision - len))
           c == CopyOut(w, new.a, precision - len, s.a)
           r == [a |-> new.a, h |-> Replaced(Ended(c.h, new.a, precision), s.a)]
<1>1. IntPrecision(s, precision) = (IF precision < len THEN s ELSE r)
  BY DEF IntPrecision
<1>2. Fits(r.h)
  BY AllocFits, WriteFits, CopyFits, EndedFits, ReleaseFits DEF Replaced
<1> HIDE DEF r
<1> QED BY <1>1, <1>2

LEMMA JustifyFits ==
  ASSUME NEW s, Fits(s.h), NEW width, NEW flags
  PROVE  Fits(Justify(s, width, flags).h)
<1> DEFINE len == strlen(s.h, s.a)
           new == Alloc(s.h, width + 1)
           pad == Filled(IF "0" \in flags THEN "0" ELSE " ", width - len)
           left == "-" \in flags
           c == CopyOut(new.h, new.a, IF left THEN 0 ELSE width - len, s.a)
           w == Write(c.h, new.a, IF left THEN len ELSE 0, pad)
           r == [a |-> new.a, h |-> Replaced(Write(w, new.a, width, <<NUL>>), s.a)]
<1>1. Justify(s, width, flags) = (IF width >= 0 /\ len >= width THEN s ELSE r)
  BY DEF Justify
<1>2. Fits(r.h)
  BY AllocFits, WriteFits, CopyFits, ReleaseFits DEF Replaced
<1> HIDE DEF r
<1> QED BY <1>1, <1>2

\* Which of the lengths it is decides whether the number is an int.
LEMMA NumberTextFits ==
  ASSUME NEW h, Fits(h), NEW d, d.length \in Lengths, NEW v \in Int
  PROVE  Fits(NumberText(h, d, v).h)
<1> DEFINE num == Number(d, v)
           flags == IF d.spec = "p" THEN d.flags \intersect {"#"} ELSE d.flags
           s0 == Itoa(h, num, Width(d), Base(d.spec), flags)
           s1 == IF d.precise /\ d.spec # "p" THEN IntPrecision(s0, d.precision) ELSE s0
<1>1. NumberText(h, d, v) = IF d.wide THEN Justify(s1, d.width, d.flags) ELSE s1
  BY DEF NumberText
<1>2. PICK s \in Lengths : Width(d) = Bits[s]
  BY DEF Width, Lengths
<1>3. num \in Int /\ num < 2^Width(d)
  <2>1. 2^Width(d) \in Nat \ {0}
    BY <1>2, IntAssumption
  <2> QED BY <2>1, NumberBelow DEF Number
<1>4. Base(d.spec) \in Bases
  BY DEF Base, Bases
<1>5. Width(d) <= Bits[<<>>] => 2^Width(d) \in Nat \ {0} /\ 2^Width(d) <= 8^(MinChunk - 4)
  BY <1>2, IntAssumption
<1> HIDE DEF num, flags
<1>6. Fits(s0.h)
  BY <1>3, <1>4, <1>5, ItoaFits
<1> HIDE DEF s0
<1>7. Fits(s1.h)
  BY <1>6, IntPrecisionFits
<1> HIDE DEF s1
<1>8. Fits(Justify(s1, d.width, d.flags).h)
  BY <1>7, JustifyFits
<1> QED BY <1>1, <1>7, <1>8

LEMMA StringTextFits ==
  ASSUME NEW h, Fits(h), NEW d, NEW str
  PROVE  Fits(StringText(h, d, str).h)
<1> DEFINE n == IF d.precise /\ d.precision > 0 /\ d.precision < Len(str) THEN d.precision ELSE Len(str)
           new == Alloc(h, IF d.precise THEN d.precision + 1 ELSE Len(str) + 1)
           s0 == [a |-> new.a, h |-> Ended(Write(new.h, new.a, 0, SubSeq(str, 1, n)), new.a, n)]
<1>1. StringText(h, d, str) = IF d.wide THEN Justify(s0, d.width, d.flags) ELSE s0
  BY DEF StringText
<1>2. Fits(s0.h)
  BY AllocFits, WriteFits, EndedFits
<1> HIDE DEF s0
<1>3. Fits(Justify(s0, d.width, d.flags).h)
  BY <1>2, JustifyFits
<1> QED BY <1>1, <1>2, <1>3

(***************************************************************************)
(* Directives.                                                             *)
(***************************************************************************)

\* A search in a format ends in it or right behind it.
LEMMA AfterWithin ==
  ASSUME NEW f, Len(f) \in Nat, NEW p \in 1..(Len(f) + 1), NEW S
  PROVE  After(f, p, S) \in p..(Len(f) + 1)
<1> DEFINE T == {q \in p..(Len(f) + 1) : q = Len(f) + 1 \/ f[q] \notin S}
<1>1. T \in SUBSET Nat /\ Len(f) + 1 \in T
  OBVIOUS
<1>2. T \subseteq p..(Len(f) + 1) /\ After(f, p, S) = Min(T)
  BY DEF After
<1> HIDE DEF T
<1>3. Min(T) \in T
  BY <1>1, LeastElement
<1> QED BY <1>2, <1>3

\* One or two characters of a format.
LEMMA ShortSubSeq ==
  ASSUME NEW f \in Seq(STRING), NEW l \in 1..Len(f)
  PROVE  /\ SubSeq(f, l, l) = <<f[l]>>
         /\ l < Len(f) => SubSeq(f, l, l + 1) = <<f[l], f[l + 1]>>
<1>1. f[l] \in STRING /\ (l < Len(f) => f[l + 1] \in STRING)
  OBVIOUS
<1>2. SubSeq(f, l, l) = <<f[l]>>
  <2> DEFINE s == SubSeq(f, l, l)
             t == <<f[l]>>
  <2>1. \A i \in l..l : f[i] \in STRING
    OBVIOUS
  <2>2. s \in Seq(STRING) /\ Len(s) = 1 /\ s[1] = f[l]
    BY <2>1, SubSeqProperties
  <2>3. t \in Seq(STRING) /\ Len(t) = 1 /\ t[1] = f[l]
    BY <1>1
  <2> HIDE DEF s, t
  <2>4. s = t
    BY <2>2, <2>3, SeqEqual
  <2> QED BY <2>4 DEF s, t
<1>3. ASSUME l < Len(f) PROVE SubSeq(f, l, l + 1) = <<f[l], f[l + 1]>>
  <2> DEFINE s == SubSeq(f, l, l + 1)
             t == <<f[l], f[l + 1]>>
  <2>1. \A i \in l..(l + 1) : f[i] \in STRING
    BY <1>3
  <2>2. s \in Seq(STRING) /\ Len(s) = 2 /\ s[1] = f[l] /\ s[2] = f[l + 1]
    BY <2>1, SubSeqProperties
  <2>3. t \in Seq(STRING) /\ Len(t) = 2 /\ t[1] = f[l] /\ t[2] = f[l + 1]
    BY <1>1, <1>3
  <2> HIDE DEF s, t
  <2>4. \A i \in 1..2 : s[i] = t[i]
    <3>1. \A i \in 1..2 : i = 1 \/ i = 2
      OBVIOUS
    <3> QED BY <2>2, <2>3, <3>1
  <2>5. s = t
    BY <2>2, <2>3, <2>4, SeqEqual
  <2> QED BY <2>5 DEF s, t
<1> QED BY <1>2, <1>3

\* What a directive asks for has one of the lengths there are, and unless the
\* format ends in it, it ends where the next turn goes on.
LEMMA DirectiveWithin ==
  ASSUME NEW f \in Seq(STRING), NEW p \in 1..(Len(f) + 1), NEW xs, NEW y
  PROVE  LET d == Directive(f, p, xs, y)
         IN  /\ d.length \in Lengths
             /\ d.spec # NUL => d.pos \in 1..(Len(f) + 1)
<1> DEFINE w == After(f, p, Flags)
           wEnd == After(f, w, DigitChars)
           wStar == At(f, wEnd) = "*"
           dot == IF wStar THEN wEnd + 1 ELSE wEnd
           pEnd == After(f, dot + 1, DigitChars)
           l == IF At(f, dot) = "." THEN pEnd ELSE dot
           n == CASE At(f, l) \in {"h", "l"} -> IF At(f, l + 1) = At(f, l) THEN 2 ELSE 1
                  [] At(f, l) \in {"j", "z", "t", "L"} -> 1
                  [] OTHER -> 0
           d == Directive(f, p, xs, y)
<1>1. d.length = SubSeq(f, l, l + n - 1) /\ d.spec = At(f, l + n) /\ d.pos = l + n + 1
  BY DEF Directive, Past
<1> HIDE DEF d
<1>2. Len(f) \in Nat
  OBVIOUS
<1>3. \A q \in Nat : At(f, q) # NUL => q <= Len(f)
  BY DEF At
<1>4. w \in 1..(Len(f) + 1)
  BY <1>2, AfterWithin
<1> HIDE DEF w
<1>5. wEnd \in 1..(Len(f) + 1)
  BY <1>2, <1>4, AfterWithin
<1> HIDE DEF wEnd
<1>6. dot \in 1..(Len(f) + 1)
  <2>1. wStar => At(f, wEnd) # NUL
    BY DEF NUL
  <2> QED BY <1>2, <1>3, <1>5, <2>1
<1> HIDE DEF dot
<1>7. l \in 1..(Len(f) + 1)
  <2>1. CASE At(f, dot) = "."
    <3>1. dot + 1 \in 1..(Len(f) + 1)
      <4>1. At(f, dot) # NUL
        BY <2>1 DEF NUL
      <4> QED BY <1>2, <1>3, <1>6, <4>1
    <3> QED BY <1>2, <2>1, <3>1, AfterWithin
  <2>2. CASE At(f, dot) # "."
    BY <1>6, <2>2
  <2> QED BY <2>1, <2>2
<1> HIDE DEF l
<1>8. n \in 0..2
  OBVIOUS
<1>9. d.spec # NUL => d.pos \in 1..(Len(f) + 1)
  BY <1>1, <1>2, <1>3, <1>7, <1>8
<1>10. d.length \in Lengths
  <2>1. CASE n = 0
    <3>1. SubSeq(f, l, l - 1) = <<>>
      BY <1>7
    <3> QED BY <1>1, <1>7, <2>1, <3>1 DEF Lengths
  <2>2. CASE n = 1
    <3>1. At(f, l) \in {"h", "l", "j", "z", "t", "L"}
      BY <2>2
    <3>2. l \in 1..Len(f) /\ f[l] = At(f, l)
      BY <1>2, <1>3, <1>7, <3>1 DEF At, NUL
    <3>3. d.length = <<f[l]>>
      BY <1>1, <1>7, <2>2, <3>2, ShortSubSeq
    <3> QED BY <3>1, <3>2, <3>3 DEF Lengths
  <2>3. CASE n = 2
    <3>1. At(f, l) \in {"h", "l"} /\ At(f, l + 1) = At(f, l)
      BY <2>3
    <3>2. l + 1 \in 1..Len(f) /\ f[l] = At(f, l) /\ f[l + 1] = At(f, l)
      BY <1>2, <1>3, <1>7, <3>1 DEF At, NUL
    <3>3. d.length = <<f[l], f[l + 1]>>
      <4>1. l + 2 - 1 = l + 1 /\ l \in 1..Len(f) /\ l < Len(f)
        BY <1>2, <1>7, <3>2
      <4> QED BY <1>1, <2>3, <4>1, ShortSubSeq
    <3> QED BY <3>1, <3>2, <3>3 DEF Lengths
  <2> QED BY <1>8, <2>1, <2>2, <2>3
<1> QED BY <1>9, <1>10 DEF d

(***************************************************************************)
(* The chunks that a pass goes on with.                                    *)
(***************************************************************************)

\* What is in use between two turns: in the second pass of kvprintf() the
\* buffer that it prints to.
InUse == IF phase = "print" THEN {start} ELSE {}

\* HeapRestored, for the middle of a call as well. That the new page is in use
\* only once it was taken is what keeps it from being the text twice.
IInv ==
  /\ phase \in Passes \union {"idle", "halted", "astray", "stuck"}
  /\ phase \in Passes \union {"idle"} => Holds(heap, InUse) /\ ~heap.stuck

\* A turn that gives its texts back keeps the invariant.
LEMMA TurnKeeps ==
  ASSUME IInv, phase \in Passes,
         NEW h, NEW p, NEW y, NEW n, Turn(h, p, y, n), Holds(h, InUse)
  PROVE  IInv'
<1>1. phase' = (IF h.stuck THEN "stuck" ELSE phase) /\ heap' = h /\ start' = start
  BY DEF Turn
<1>2. CASE h.stuck
  BY <1>1, <1>2 DEF IInv, Passes
<1>3. CASE ~h.stuck
  <2>1. InUse' = InUse /\ phase' = phase
    BY <1>1, <1>3 DEF InUse
  <2> QED BY <1>1, <1>3, <2>1 DEF IInv
<1> QED BY <1>2, <1>3

\* Emit frees the text.
LEMMA EmitKeeps ==
  ASSUME IInv, phase \in Passes, NEW s, Emit(s), IsText(s, InUse)
  PROVE  IInv'
<1> DEFINE n == strlen(s.h, s.a)
           c == CopyOut(s.h, start, out, s.a)
<1>1. ASSUME NEW g, Holds(g, InUse \union {s.a}), s.h.stuck => g.stuck
      PROVE  Holds(Done(g, s.a), InUse)
  <2>1. Holds(Release(g, s.a), (InUse \union {s.a}) \ {s.a}) /\ Release(g, s.a).stuck = g.stuck
    BY <1>1, ReleaseHolds
  <2>2. ~g.stuck => (InUse \union {s.a}) \ {s.a} = InUse
    BY <1>1 DEF IsText
  <2>3. Holds(Release(g, s.a), InUse)
    BY <2>1, <2>2 DEF Holds
  <2> QED BY <2>3 DEF Done
<1>2. Holds(c.h, InUse \union {s.a}) /\ (s.h.stuck => c.h.stuck)
  BY CopyHolds DEF IsText
<1>3. Holds(Done(s.h, s.a), InUse) /\ Holds(Done(c.h, s.a), InUse)
  BY <1>1, <1>2 DEF IsText
<1>4. CASE discard
  <2>1. Turn(Done(s.h, s.a), Here.pos, Here.x + 1, n)
    BY <1>4 DEF Emit
  <2> QED BY <1>3, <2>1, TurnKeeps
<1>5. CASE ~discard
  <2>1. Turn(Done(c.h, s.a), Here.pos, Here.x + 1, c.n)
    BY <1>5 DEF Emit
  <2> QED BY <1>3, <2>1, TurnKeeps
<1> QED BY <1>4, <1>5

\* A new call, or a new pass, begins with what is in use.
LEMMA BeginKeeps ==
  ASSUME NEW p, NEW c, NEW to, NEW size, Begin(p, c, to, size),
         p \in Passes \union {"stuck"},
         p # "stuck" => Holds(heap', IF p = "print" THEN {to} ELSE {}) /\ ~heap'.stuck
  PROVE  IInv'
BY DEF Begin, IInv, InUse, Passes

\* Every step keeps it: each turn frees what it took.
LEMMA StepIInv == IInv /\ [Next]_vars => IInv'
<1> SUFFICES ASSUME IInv, [Next]_vars PROVE IInv'
  OBVIOUS
<1>1. ASSUME NEW c \in Calls, kprintf(c) \/ ksnprintf(c) PROVE IInv'
  <2>1. Holds(heap, {}) /\ ~heap.stuck /\ heap' = heap
    BY <1>1 DEF kprintf, ksnprintf, IInv, InUse
  <2>2. Begin("count", c, Buffer, 0) \/ Begin("fill", c, Buffer, c.bufsz)
    BY <1>1 DEF kprintf, ksnprintf
  <2>3. "count" \in Passes /\ "fill" \in Passes
    BY DEF Passes
  <2> QED BY <2>1, <2>2, <2>3, BeginKeeps
<1>2. ASSUME NEW ch PROVE phase \in Passes => Holds(Put(ch), InUse)
  BY WriteHolds DEF Put, IInv
<1>3. CASE Character
  BY <1>2, <1>3, TurnKeeps DEF Character
<1>4. CASE PercentSign
  <2>1. CASE phase = "count"
    BY <1>4, <2>1 DEF PercentSign, IInv, Passes
  <2>2. CASE phase # "count"
    <3>1. phase \in Passes /\ heap' = Write(heap, start, out, <<"%">>) /\ phase' = phase /\ start' = start
      BY <1>4, <2>2 DEF PercentSign
    <3>2. InUse' = InUse
      BY <3>1 DEF InUse
    <3>3. Holds(heap', InUse) /\ heap'.stuck = heap.stuck
      BY <3>1, WriteHolds DEF IInv
    <3> QED BY <3>1, <3>2, <3>3 DEF IInv
  <2> QED BY <2>1, <2>2
<1>5. ASSUME phase \in Passes
      PROVE  Holds(heap, InUse) /\ InUse \subseteq {start}
  BY <1>5 DEF IInv, InUse
<1>6. CASE PrintNumber
  BY <1>5, <1>6, NumberTextHeld, EmitKeeps DEF PrintNumber, InDirective
<1>7. CASE PrintString
  BY <1>5, <1>7, StringTextHeld, EmitKeeps DEF PrintString, InDirective
<1>8. CASE PrintChar
  BY <1>2, <1>8, TurnKeeps DEF PrintChar, InDirective
<1>9. CASE PrintWide \/ StoreCount \/ PrintNothing
  BY <1>5, <1>9, TurnKeeps DEF PrintWide, StoreCount, PrintNothing, InDirective
<1>10. CASE Astray
  BY <1>10 DEF Astray, IInv, Passes
<1>11. CASE CountDone
  <2> DEFINE t == Alloc(heap, n_printed + 1)
  <2>1. /\ Begin(IF t.h.stuck THEN "stuck" ELSE "print", call, t.a, n_printed + 1)
        /\ heap' = t.h
        /\ phase = "count"
    BY <1>11 DEF CountDone
  <2>2. Holds(heap, {}) /\ ~heap.stuck
    BY <2>1 DEF IInv, InUse, Passes
  <2>3. IsText(t, {})
    <3>1. {} \subseteq {0, 0}
      OBVIOUS
    <3> QED BY <2>2, <3>1, AllocHolds
  <2> HIDE DEF t
  <2>4. Holds(t.h, {t.a})
    BY <2>3 DEF IsText, Holds
  <2> QED BY <2>1, <2>4, BeginKeeps DEF Passes
<1>12. CASE PrintDone
  <2> DEFINE h == Write(heap, start, out, <<NUL>>)
             more == out > counted
             f == Fault(h, "beyond text", more)
  <2>0. more \in BOOLEAN
    OBVIOUS
  <2>1. phase = "print" /\ heap' = Done(f, start) /\ phase' = "idle"
    BY <1>12 DEF PrintDone
  <2>2. Holds(heap, {start}) /\ ~heap.stuck
    BY <2>1 DEF IInv, InUse, Passes
  <2>3. Holds(h, {start}) /\ h.stuck = heap.stuck
    BY <2>2, WriteHolds
  <2> HIDE DEF h, more
  <2>4. Holds(f, {start}) /\ f.stuck = h.stuck
    BY <2>0, <2>3, FaultHolds
  <2> HIDE DEF f
  <2>5. Holds(heap', {start} \ {start}) /\ heap'.stuck = f.stuck
    BY <2>1, <2>4, ReleaseHolds DEF Done
  <2>6. {start} \ {start} = {} /\ InUse' = {}
    BY <2>1 DEF InUse
  <2> QED BY <2>1, <2>2, <2>3, <2>4, <2>5, <2>6 DEF IInv
<1>13. CASE FillDone
  <2>1. phase = "fill" /\ heap' = Write(heap, start, out, <<NUL>>) /\ phase' = "idle"
    BY <1>13 DEF FillDone
  <2>2. Holds(heap, {}) /\ ~heap.stuck
    BY <2>1 DEF IInv, InUse, Passes
  <2>3. Holds(heap', {}) /\ heap'.stuck = heap.stuck
    BY <2>1, <2>2, WriteHolds
  <2> QED BY <2>1, <2>2, <2>3 DEF IInv, InUse
<1>14. CASE Stopped \/ AllMade \/ UNCHANGED vars
  BY <1>14 DEF Stopped, AllMade, vars, pass_vars, IInv, InUse
<1> QED
  BY <1>1, <1>3, <1>4, <1>6, <1>7, <1>8, <1>9, <1>10, <1>11, <1>12, <1>13, <1>14 DEF Next, Step

\* The heap is the invariant's in every state.
LEMMA Invariant == Spec => []IInv
<1>1. Init => IInv
  <2> SUFFICES ASSUME Init PROVE IInv
    OBVIOUS
  <2>1. PICK g \in Garbage :
          heap = [mem |-> [b \in Memory |-> g], used |-> {}, fresh |-> TRUE, stuck |-> FALSE, faults |-> {}]
    BY DEF Init
  <2>2. HeapRecord(heap) /\ heap.used = {} /\ ~heap.stuck
    BY <2>1 DEF HeapRecord
  <2> QED BY <2>2 DEF Init, IInv, InUse, Holds
<1> QED BY <1>1, StepIInv, PTL DEF Spec

\* Whatever a call prints, and however its conversions replace each other's
\* texts, every chunk that it took is freed when it returns: kmalloc() and
\* kfree() are called in pairs on every path of kvprintf() and kvsnprintf().
THEOREM EveryChunkFreed == Spec => []HeapRestored
<1>1. IInv => HeapRestored
  BY DEF IInv, HeapRestored, Holds, InUse
<1> QED BY <1>1, Invariant, PTL

(***************************************************************************)
(* That texts of ints fit.                                                 *)
(***************************************************************************)

\* A pass never leaves the format.
Position ==
  /\ call \in Calls \union {NoCall}
  /\ pos \in 1..(Len(fmt) + 1)

\* IntsFit, with where the directives are read.
IntInv == Position /\ Fits(heap)

\* A call's format is a text.
LEMMA FormatText ==
  ASSUME Position
  PROVE  fmt \in Seq(STRING) /\ Len(fmt) \in Nat
<1>1. CASE call = NoCall
  BY <1>1 DEF fmt
<1>2. CASE call # NoCall
  BY <1>2, FormatAssumption DEF Position, fmt
<1> QED BY <1>1, <1>2

\* A directive that the format does not end in ends within it.
LEMMA HereWithin ==
  ASSUME Position, Cur = "%"
  PROVE  Here.length \in Lengths /\ (Here.spec # NUL => Here.pos \in 1..(Len(fmt) + 1))
<1>1. pos <= Len(fmt)
  BY DEF Cur, At, NUL
<1>2. pos + 1 \in 1..(Len(fmt) + 1)
  BY <1>1, FormatText DEF Position
<1> QED BY <1>2, FormatText, DirectiveWithin DEF Here

\* A turn that makes no such text, and goes on within the format.
LEMMA TurnFits ==
  ASSUME IntInv, NEW h, NEW p \in 1..(Len(fmt) + 1), NEW y, NEW n, Turn(h, p, y, n), Fits(h)
  PROVE  IntInv'
BY DEF Turn, IntInv, Position, fmt

LEMMA EmitFits ==
  ASSUME IntInv, NEW s, Emit(s), Fits(s.h), Here.pos \in 1..(Len(fmt) + 1)
  PROVE  IntInv'
<1> DEFINE n == strlen(s.h, s.a)
           c == CopyOut(s.h, start, out, s.a)
<1>1. Fits(Done(s.h, s.a)) /\ Fits(Done(c.h, s.a))
  BY CopyFits, ReleaseFits DEF Done
<1>2. CASE discard
  <2>1. Turn(Done(s.h, s.a), Here.pos, Here.x + 1, n)
    BY <1>2 DEF Emit
  <2> QED BY <1>1, <2>1, TurnFits
<1>3. CASE ~discard
  <2>1. Turn(Done(c.h, s.a), Here.pos, Here.x + 1, c.n)
    BY <1>3 DEF Emit
  <2> QED BY <1>1, <2>1, TurnFits
<1> QED BY <1>2, <1>3

\* Every step keeps it, as long as numbers are passed for numbers.
LEMMA StepFits == IntInv /\ NumberPassed /\ [Next]_vars => IntInv'
<1> SUFFICES ASSUME IntInv, NumberPassed, [Next]_vars PROVE IntInv'
  OBVIOUS
<1>0. Position /\ Fits(heap) /\ Len(fmt) \in Nat
  BY FormatText DEF IntInv
<1>1. ASSUME NEW c \in Calls, kprintf(c) \/ ksnprintf(c) PROVE IntInv'
  <2>1. pos' = 1 /\ call' = c /\ heap' = heap
    BY <1>1 DEF kprintf, ksnprintf, Begin
  <2>2. fmt' = (IF c = NoCall THEN <<>> ELSE Formats[c])
    BY <2>1 DEF fmt
  <2>3. Formats[c] \in Seq(STRING)
    BY FormatAssumption
  <2>4. fmt' \in Seq(STRING)
    <3>1. CASE c = NoCall
      BY <2>2, <3>1
    <3>2. CASE c # NoCall
      BY <2>2, <2>3, <3>2
    <3> QED BY <3>1, <3>2
  <2> QED BY <1>0, <2>1, <2>4 DEF IntInv, Position
<1>2. ASSUME NEW ch PROVE Fits(Put(ch))
  BY <1>0, WriteFits DEF Put
<1>3. CASE Character
  <2>1. pos + 1 \in 1..(Len(fmt) + 1)
    BY <1>0, <1>3 DEF Character, Cur, At, Position
  <2> QED BY <1>2, <1>3, <2>1, TurnFits DEF Character
<1>4. CASE PercentSign
  <2>1. CASE phase = "count"
    BY <1>0, <1>4, <2>1 DEF PercentSign, IntInv, Position, fmt, pass_vars
  <2>2. CASE phase # "count"
    <3>1. heap' = Write(heap, start, out, <<"%">>) /\ pos' = pos + 2 /\ call' = call
      BY <1>4, <2>2 DEF PercentSign
    <3>2. pos + 1 <= Len(fmt)
      BY <1>4 DEF PercentSign, At, NUL
    <3>3. pos + 2 \in 1..(Len(fmt) + 1)
      BY <1>0, <3>2 DEF Position
    <3>4. fmt' = fmt
      BY <3>1 DEF fmt
    <3> QED BY <1>0, <3>1, <3>3, <3>4, WriteFits DEF IntInv, Position
  <2> QED BY <2>1, <2>2
<1>5. ASSUME NEW S, InDirective(S), NUL \notin S
      PROVE  Here.length \in Lengths /\ Here.pos \in 1..(Len(fmt) + 1)
  BY <1>0, <1>5, HereWithin DEF InDirective
<1>6. CASE PrintNumber
  <2>1. InDirective(Signeds \union Unsigneds \union {"p"}) /\ NUL \notin Signeds \union Unsigneds \union {"p"}
    BY <1>6 DEF PrintNumber, Signeds, Unsigneds, NUL
  <2>2. call.args[Here.x] \in Int
    BY <2>1 DEF NumberPassed
  <2>3. Fits(NumberText(heap, Here, call.args[Here.x]).h)
    BY <1>0, <1>5, <2>1, <2>2, NumberTextFits
  <2> QED BY <1>5, <1>6, <2>1, <2>3, EmitFits DEF PrintNumber
<1>7. CASE PrintString
  <2>1. Fits(StringText(heap, Here, call.args[Here.x]).h)
    BY <1>0, StringTextFits
  <2>2. InDirective({"s"}) /\ NUL \notin {"s"}
    BY <1>7 DEF PrintString, NUL
  <2> QED BY <1>5, <1>7, <2>1, <2>2, EmitFits DEF PrintString
<1>8. CASE PrintChar
  <2>1. InDirective({"c"}) /\ NUL \notin {"c"}
    BY <1>8 DEF PrintChar, NUL
  <2> QED BY <1>2, <1>5, <1>8, <2>1, TurnFits DEF PrintChar
<1>9. CASE PrintWide
  <2>1. InDirective({"c", "s"}) /\ NUL \notin {"c", "s"}
    BY <1>9 DEF PrintWide, NUL
  <2> QED BY <1>0, <1>5, <1>9, <2>1, TurnFits DEF PrintWide
<1>10. CASE StoreCount
  <2>1. InDirective({"n"}) /\ NUL \notin {"n"}
    BY <1>10 DEF StoreCount, NUL
  <2> QED BY <1>0, <1>5, <1>10, <2>1, TurnFits DEF StoreCount
<1>11. CASE PrintNothing
  <2>1. Cur = "%" /\ Here.spec # NUL
    BY <1>11 DEF PrintNothing
  <2>2. Here.pos \in 1..(Len(fmt) + 1)
    BY <1>0, <2>1, HereWithin
  <2> QED BY <1>0, <1>11, <2>2, TurnFits DEF PrintNothing
<1>12. CASE CountDone
  <2>1. Fits(Alloc(heap, n_printed + 1).h)
    BY <1>0, AllocFits
  <2>2. heap' = Alloc(heap, n_printed + 1).h /\ call' = call /\ pos' = 1
    BY <1>12 DEF CountDone, Begin
  <2>3. fmt' = fmt
    BY <2>2 DEF fmt
  <2> QED BY <1>0, <2>1, <2>2, <2>3 DEF IntInv, Position
<1>13. CASE PrintDone
  <2> DEFINE h == Write(heap, start, out, <<NUL>>)
             more == out > counted
  <2>1. heap' = Done(Fault(h, "beyond text", more), start) /\ call' = call /\ pos' = pos
    BY <1>13 DEF PrintDone, pass_vars
  <2>0. more \in BOOLEAN
    OBVIOUS
  <2>2. Fits(h)
    BY <1>0, WriteFits
  <2> HIDE DEF h, more
  <2>3. Fits(Fault(h, "beyond text", more))
    BY <2>0, <2>2, FaultFits
  <2>4. Fits(heap')
    BY <2>1, <2>3, ReleaseFits DEF Done
  <2>5. fmt' = fmt
    BY <2>1 DEF fmt
  <2> QED BY <1>0, <2>1, <2>4, <2>5 DEF IntInv, Position
<1>14. CASE FillDone
  <2>1. heap' = Write(heap, start, out, <<NUL>>) /\ call' = call /\ pos' = pos
    BY <1>14 DEF FillDone, pass_vars
  <2>2. fmt' = fmt
    BY <2>1 DEF fmt
  <2> QED BY <1>0, <2>1, <2>2, WriteFits DEF IntInv, Position
<1>15. CASE Astray \/ Stopped \/ AllMade \/ UNCHANGED vars
  BY <1>0, <1>15 DEF Astray, Stopped, AllMade, vars, pass_vars, IntInv, Position, fmt
<1> QED
  BY <1>1, <1>3, <1>4, <1>6, <1>7, <1>8, <1>9, <1>10, <1>11, <1>12, <1>13, <1>14, <1>15 DEF Next, Step

\* itoa() asks for fewer bytes than it writes, and kmalloc() gives fewer than
\* asked for; yet no number that is no wider than an int outgrows its chunk, in
\* any base, with any flags, for the least int too, as long as callers pass a
\* number where the format has one.
THEOREM IntsAlwaysFit == Spec /\ []NumberPassed => []IntsFit
<1>1. Init => IntInv
  <2> SUFFICES ASSUME Init PROVE IntInv
    OBVIOUS
  <2>1. PICK g \in Garbage :
          heap = [mem |-> [b \in Memory |-> g], used |-> {}, fresh |-> TRUE, stuck |-> FALSE, faults |-> {}]
    BY DEF Init
  <2>2. Fits(heap)
    BY <2>1 DEF Fits, HeapRecord
  <2>3. call = NoCall /\ pos = 1 /\ fmt = <<>>
    BY DEF Init, fmt
  <2> QED BY <2>2, <2>3 DEF IntInv, Position
<1>2. IntInv => IntsFit
  BY DEF IntInv, Fits, IntsFit
<1> QED BY <1>1, <1>2, StepFits, PTL DEF Spec
=============================================================================
