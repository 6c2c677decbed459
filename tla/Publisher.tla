------------------------------ MODULE Publisher ------------------------------
(***************************************************************************)
(* Publishing from the editor (app/GameBuilder.cpp, EditorUI's modal),     *)
(* composed with the catalog it publishes to.                              *)
(*                                                                         *)
(* Tabs of one browser share its local storage, which holds the keys of    *)
(* the games they published: a key is the only way to update a game.  A    *)
(* click sends the live scene to the server as a request of Catalog; the   *)
(* answer waits in the page until a frame draws the modal, which is the    *)
(* only thing that polls.  The connection may break before the answer, the *)
(* server may be killed, and the page may be loaded again.  Other people's *)
(* requests come in between.  Titles, the invite key and the log are left  *)
(* out; a request is at the server as soon as it is sent.                  *)
(* Operators whose name ends in Fault are seeded bugs.                     *)
(***************************************************************************)
EXTENDS Catalog

CONSTANT Tabs  \* tabs of the editor

ASSUME TabsAssumption == IsFiniteSet(Tabs)

VARIABLES
    store,   \* local storage: the last game, and the games whose keys are held
    fetch,   \* window.__cowPublish of each tab; g_publish is Pending while there is one
    broken,  \* reloads and lost connections that the server noticed nothing of
    mine     \* history: games that requests of the tabs created

client == <<store, fetch>>
pvars == <<vars, client, broken, mine>>

\* state 0: nothing was sent; 1: no answer yet; 2: an answer; 3: no connection.
NoFetch == [state |-> 0, request |-> Free, ok |-> FALSE, game |-> NoGame, key |-> FALSE]

PInit ==
    /\ Init
    /\ store = [last |-> NoGame, keys |-> {}]
    /\ fetch = [t \in Tabs |-> NoFetch]
    /\ broken = 0
    /\ mine = {}

-----------------------------------------------------------------------------
(* The page. *)

\* publishStart: the last game of this browser is updated when its key is held.
Updates == store.last \in store.keys

Sent(t, u, r) ==
    /\ IF Updates THEN RepublishArrives(r, store.last, u) ELSE PublishArrives(r, u)
    /\ fetch' = [fetch EXCEPT ![t] = [NoFetch EXCEPT !.state = 1, !.request = r]]

\* The server refuses at once: the bundle is not valid, or the game is gone.
SentInVain(t, u) ==
    /\ u \notin Valid \/ (Updates /\ ~Exists(store.last))
    /\ fetch' = [fetch EXCEPT ![t] = [NoFetch EXCEPT !.state = 2]]
    /\ UNCHANGED vars

PublishStart(t) ==
    /\ fetch[t].state = 0
    /\ \E u \in Uploads : SentInVain(t, u) \/ \E r \in Requests : Sent(t, u, r)
    /\ UNCHANGED <<store, broken, mine>>

\* rememberPublish: an update's answer has no key, and the one that is held stays.
RememberedFault(answer) ==
    [last |-> answer.game, keys |-> IF answer.key THEN {answer.game} ELSE {}]
Remembered(answer) ==
    [last |-> answer.game, keys |-> IF answer.key THEN store.keys \union {answer.game} ELSE store.keys]

\* publishPoll and applyPublishResult: in the next frame that draws the modal, if any.
PublishPoll(t) ==
    /\ fetch[t].state \in {2, 3}
    /\ store' = IF fetch[t].ok THEN Remembered(fetch[t]) ELSE store
    /\ fetch' = [fetch EXCEPT ![t] = NoFetch]
    /\ UNCHANGED <<vars, broken, mine>>

WaitsFor(t, r) == fetch[t].request = r

\* The server notices that the browser has hung up, or the handler goes on.
Mishap(t, left) ==
    /\ fetch' = [fetch EXCEPT ![t] = left]
    /\ \/ broken' = broken + 1 /\ UNCHANGED vars
       \/ UNCHANGED broken /\ \E r \in Requests : WaitsFor(t, r) /\ HungUp(r)
    /\ UNCHANGED <<store, mine>>

\* The page is loaded again: what it was waiting for is gone.
Reload(t) == fetch[t].state # 0 /\ Mishap(t, NoFetch)

\* The connection breaks before the answer.
AnswerLost(t) == fetch[t].state = 1 /\ Mishap(t, [NoFetch EXCEPT !.state = 3])

-----------------------------------------------------------------------------
(* The server. *)

\* What the handler's last step answers: the key goes with a new game.
Answer(r) ==
    IF versions' = versions THEN [NoFetch EXCEPT !.state = 2]
    ELSE [NoFetch EXCEPT !.state = 2, !.ok = TRUE, !.game = job[r].game, !.key = job[r].new]

\* A step of the handler of request r.
Handles(r) ==
    /\ Store(r) \/ Rows(r) \/ Serve(r)
    /\ fetch' = [t \in Tabs |->
           IF WaitsFor(t, r) /\ job'[r] = Idle THEN Answer(r) ELSE fetch[t]]
    /\ issued' # issued => public' # public  \* the envelope names no visibility
    /\ mine' = IF \E t \in Tabs : WaitsFor(t, r) THEN mine \union (issued' \ issued) ELSE mine
    /\ UNCHANGED <<store, broken>>

\* Players, the holder of a key with a tool of its own, and rooms that end.
Others ==
    /\ \/ RoomEnds
       \/ \E r \in Requests, g \in GameIds :
              \/ ChangeArrives(r, g, "patch") \/ ChangeArrives(r, g, "delete")
              \/ ReadCurrent(r, g, "disk") \/ ReadCurrent(r, g, "load")
       \/ \E r \in Requests : HungUp(r) /\ \A t \in Tabs : ~WaitsFor(t, r)
    /\ UNCHANGED <<client, broken, mine>>

ServerDies ==
    /\ Crash
    /\ fetch' = [t \in Tabs |->
           IF fetch[t].state = 1 THEN [NoFetch EXCEPT !.state = 3] ELSE fetch[t]]
    /\ UNCHANGED <<store, broken, mine>>

\* MaxMishaps bounds the mishaps of both sides.
PNext ==
    /\ \/ \E t \in Tabs : PublishStart(t) \/ PublishPoll(t) \/ Reload(t) \/ AnswerLost(t)
       \/ \E r \in Requests : Handles(r)
       \/ Others \/ ServerDies
    /\ mishaps' + broken' <= MaxMishaps

PSpec == PInit /\ [][PNext]_pvars

-----------------------------------------------------------------------------
(* Properties. *)

\* A game of this browser whose key is not held while its answer is still to come, or
\* waits for the modal to be opened.
Awaited == {t \in Tabs : fetch[t].state = 1 \/ fetch[t].key}

\* Losing a key means the game can never be updated again (GameBuilder.cpp:704): the
\* browser holds the key of every game it published but for those whose answers are
\* awaited, and one for every crash, broken connection or reload; and it makes a new game
\* only as often as that, however clicks, answers and closed modals interleave.
KeysAreKept ==
    /\ Cardinality(mine \ store.keys) <= Cardinality(Awaited) + mishaps + broken
    /\ Cardinality(mine) <= Cardinality(Tabs) + mishaps + broken
=============================================================================
