------------------------------- MODULE Ledger -------------------------------
(***************************************************************************)
(* What the catalog promises, without locks, files, requests or crashes:   *)
(* each game is a list of bundles that only ever grows at its end, until   *)
(* the game is deleted as a whole and for ever.                            *)
(***************************************************************************)
EXTENDS Sequences

CONSTANTS Games, Bundles

VARIABLES
    worlds,  \* the published bundles of each game, oldest first
    gone     \* games that were deleted

Init == worlds = [g \in Games |-> <<>>] /\ gone = {}

Publish(g, b) ==
    /\ g \notin gone
    /\ worlds' = [worlds EXCEPT ![g] = Append(@, b)]
    /\ UNCHANGED gone

Delete(g) ==
    /\ gone' = gone \union {g}
    /\ worlds' = [worlds EXCEPT ![g] = <<>>]

Next == \E g \in Games : Delete(g) \/ \E b \in Bundles : Publish(g, b)

Spec == Init /\ [][Next]_<<worlds, gone>>
=============================================================================
