------------------------------- MODULE MCPage -------------------------------
(***************************************************************************)
(* A small instance of Page for TLC.                                       *)
(***************************************************************************)
EXTENDS Page

MCFlags == <<"neon", "fill">>
\* Version 2, quality 1, all flags.
MCOtherBuild == 2 * 2^24 + 2^16 + 511
MCDeltas == {1, 3}
MCHands == [b \in BOOLEAN |->
    IF b THEN {"Escape", "W"} ELSE {"Escape", "S", "Space", "Tab", "mouse", "lock", "reload"}]
MCMaxInputs == [b \in BOOLEAN |-> IF b THEN 2 ELSE 5]
=============================================================================
