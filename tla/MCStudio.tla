------------------------------ MODULE MCStudio ------------------------------
(***************************************************************************)
(* Small instances of Studio for TLC.                                      *)
(***************************************************************************)
EXTENDS Studio

MCWritten == {[kind |-> "cube", scr |-> TRUE, sim |-> FALSE]}
=============================================================================
