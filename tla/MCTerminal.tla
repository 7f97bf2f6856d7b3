----------------------------- MODULE MCTerminal -----------------------------
(***************************************************************************)
(* Three rows of two cells.                                                *)
(***************************************************************************)
EXTENDS Terminal

MCChars   == {Space, "0", "e"}
MCStrings == {<<"0">>, <<Newline>>, <<"e", Newline, "0">>}
=============================================================================
