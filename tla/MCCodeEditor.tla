---------------------------- MODULE MCCodeEditor ----------------------------
(***************************************************************************)
(* Small instances of CodeEditor for TLC.                                  *)
(***************************************************************************)
EXTENDS CodeEditor

\* A character of two bytes, and an indented line.
MCAtStart == [f |-> <<"L", "C", "n", "s">>]
MCBursts == {<<"a">>, <<"L", "C">>}
=============================================================================
