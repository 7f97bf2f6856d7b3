------------------------------ MODULE MCPrintf ------------------------------
(***************************************************************************)
(* Formats and arguments for Printf. Chunks are half as large as the       *)
(* kernel's, and integers narrower in proportion: an int's text fits the   *)
(* smallest chunk and a long's need not.                                   *)
(***************************************************************************)
EXTENDS Printf

MCBits == [s \in Lengths |-> CASE s = <<"h", "h">> -> 4 [] s = <<"h">> -> 5
                               [] s \in {<<>>, <<"L">>} -> 7 [] OTHER -> 24]

Plain == [spec |-> "text", char |-> " ", flags |-> <<>>, width |-> <<>>, precision |-> <<>>, length |-> <<>>]
Text(s) == [j \in DOMAIN s |-> [Plain EXCEPT !.char = s[j]]]
D(spec) == [Plain EXCEPT !.spec = spec]
Abc == <<"a", "b", "c">>

C(op, size, items, args) == [op |-> op, bufsz |-> size, items |-> items, args |-> args]
P(items, args) == C("kprintf", 0, items, args)

MCCalls == {
  P(Text(Abc), <<>>),
  P(<<D("d"), [D("d") EXCEPT !.flags = <<"+">>, !.length = <<"h", "h">>]>>, <<0, 5>>),
  P(<<[D("d") EXCEPT !.width = <<"5">>, !.flags = <<"-">>], D("n")>>, <<-7, 0>>),
  P(<<D("d"), [D("i") EXCEPT !.length = <<"l">>]>>, <<-64, -8000000>>),
  P(<<[D("x") EXCEPT !.flags = <<"#", "0">>, !.width = <<"5">>], [D("u") EXCEPT !.length = <<"h", "h">>]>>, <<-1, -1>>),
  P(<<[D("o") EXCEPT !.flags = <<"#", " ">>], [D("p") EXCEPT !.width = <<"*">>]>>, <<9, 7, 200>>),
  P(<<[D("d") EXCEPT !.length = <<"h">>], [D("o") EXCEPT !.length = <<"l", "l">>], [D("i") EXCEPT !.length = <<"L">>]>>,
    <<40, 9, -5>>),
  P(<<[D("d") EXCEPT !.length = <<"t">>], [D("x") EXCEPT !.length = <<"t">>]>>, <<-3, -32>>),
  P(<<[D("d") EXCEPT !.precision = <<".", "4">>, !.width = <<"6">>]>>, <<42>>),
  P(<<D("s")>> \o Text(<<"-">>) \o <<D("c")>>, <<Abc, <<"y">>>>),
  P(<<[D("s") EXCEPT !.precision = <<".", "2">>, !.width = <<"4">>]>>, <<Abc>>),
  P(<<[D("s") EXCEPT !.length = <<"l">>], D("?"), [D("*") EXCEPT !.precision = <<".">>], D("d")>>, <<Abc, 1, 2>>),
  P(Text(Abc \o Abc \o Abc) \o <<D("d")>>, <<1>>),
  P(Text(Abc \o Abc \o Abc \o Abc \o Abc \o Abc \o Abc \o Abc \o Abc \o Abc) \o <<D("d")>>, <<12>>),
  P(Text(Abc \o Abc \o Abc \o Abc \o Abc \o Abc \o Abc \o Abc \o Abc \o Abc \o Abc) \o <<[D("n") EXCEPT !.length = <<"h", "h">>]>>, <<0>>),
  P(<<[D("d") EXCEPT !.width = <<"*">>]>>, <<-1, 5>>),
  P(Text(Abc) \o <<D("%")>>, <<>>),
  P(<<D("d"), D("end")>>, <<1>>),
  C("ksnprintf", 1, Text(Abc), <<>>),
  C("ksnprintf", 5, Text(<<"a">>) \o <<D("d")>> \o Text(Abc), <<-12>>),
  C("ksnprintf", 3, Text(Abc) \o <<D("%"), D("%")>> \o Text(<<"a">>), <<>>),
  C("ksnprintf", 4, <<D("%")>> \o Text(Abc) \o <<D("d")>>, <<1>>),
  C("ksnprintf", 9, <<D("n")>> \o Text(Abc) \o <<[D("X") EXCEPT !.length = <<"j">>]>>, <<0, 255>>),
  C("ksprintf", 0, Text(Abc) \o <<D("%"), [D("d") EXCEPT !.length = <<"z">>]>>, <<-1>>)}

\* A format without strings, whose text is longer than the smallest chunk.
LongCalls == {P(Text(Abc \o Abc \o Abc) \o <<D("d")>>, <<1>>)}

-----------------------------------------------------------------------------
(* What a comment in the source says of the program, and it does not do.   *)

\* "Print something to screen." (printf.cpp:972): kprintf() of characters and
\* numbers shows them and returns, whatever the length of the text.
PrintsToScreen ==
  /\ phase # "stuck"
  /\ Printed => shown = Outcome(call, Len(call.items)).text
=============================================================================
