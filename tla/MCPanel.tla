------------------------------- MODULE MCPanel -------------------------------
(***************************************************************************)
(* Panel with two digits: a typed text that is shorter than the row, an    *)
(* item with a character that has no glyph and one more than fits.         *)
(***************************************************************************)
EXTENDS Panel

SomeTyped == {<<"a">>}
SomeItems == {<<"b", "x", "b", "b">>}
=============================================================================
