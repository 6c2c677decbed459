---------------------------- MODULE RoomManager ----------------------------
(***************************************************************************)
(* The control plane's room orchestration (control/src/rooms.rs): join     *)
(* requests that find or start a room process, the pool of UDP ports, and  *)
(* the reaper that probes, stops and releases rooms every five seconds.    *)
(*                                                                         *)
(* Requests and the reaper are tasks of one async runtime.  They share two *)
(* maps, each behind a lock that is held for a single step and never over  *)
(* an await, so an action below is what happens between two awaits.  A     *)
(* request whose browser hangs up is dropped at its current await.         *)
(*                                                                         *)
(* A room token is random and used once: it is identified with the request *)
(* that creates it.  Time is abstracted to its outcomes: a start may time  *)
(* out, a probe may go unanswered, the idle window of an empty or mute     *)
(* room may pass, a cooling port may become free.                          *)
(* Operators whose name ends in Fault are seeded bugs, as in GameServer.   *)
(***************************************************************************)
EXTENDS Integers, FiniteSets

CONSTANTS
    Joins,         \* join requests, and the tokens of the rooms they may start
    Games,         \* game and version pairs
    PortMin,       \* RoomConfig::port_min
    PortMax,       \* RoomConfig::port_max
    MaxRooms,      \* RoomConfig::max_rooms
    MaxPlayers,    \* max_players of every room
    MaxOccupants   \* bound: sessions in one room

ASSUME RoomConfigAssumption ==
    /\ PortMin \in Nat /\ PortMax \in Nat
    /\ MaxRooms \in Nat /\ MaxPlayers \in Nat /\ MaxOccupants \in Nat

VARIABLES
    step,       \* where a join request stands
    game,       \* the game and version it asks for
    claimed,    \* the port it claimed, NoPort before that
    answer,     \* the token it was answered with, NoToken if none
    rooms,      \* keys of RoomManager::rooms
    players,    \* Room::players, as last reported
    windowOver, \* Room::last_occupied lies idle_secs back
    ports,      \* RoomManager::ports
    process,    \* the child process of a token
    occupants,  \* sessions inside that process
    reaper,     \* where reap_once stands
    toProbe,    \* rooms it has yet to ask for their status
    report,     \* what they answered
    dead        \* its list of rooms to stop

joinVars == <<step, game, claimed, answer>>
roomVars == <<rooms, players, windowOver>>
reaperVars == <<reaper, toProbe, report, dead>>
vars == <<joinVars, roomVars, ports, process, occupants, reaperVars>>

NoPort == -1
NoToken == "none"
Ports == PortMin..PortMax
Steps == {"idle", "count", "claim", "await", "insert", "giveUp", "answered", "refused", "failed",
          "dropped"}

\* Status replies: the number of sessions, or nothing.
Silent == -1
Unasked == -2

\* A killed process is dying until it is waited for: it still holds its socket.
Running(t) == process[t] \in {"booting", "up"}
Bound(t) == Running(t) \/ process[t] = "dying"
Token(t) == answer' = [answer EXCEPT ![t] = t]

----------------------------------------------------------------------------

Init ==
    /\ step = [j \in Joins |-> "idle"]
    /\ game \in [Joins -> Games]
    /\ claimed = [j \in Joins |-> NoPort]
    /\ answer = [j \in Joins |-> NoToken]
    /\ rooms = {}
    /\ players = [j \in Joins |-> 0]
    /\ windowOver = [j \in Joins |-> FALSE]
    /\ ports = [p \in Ports |-> "free"]
    /\ process = [j \in Joins |-> "none"]
    /\ occupants = [j \in Joins |-> 0]
    /\ reaper = "asleep" /\ toProbe = {} /\ dead = {}
    /\ report = [j \in Joins |-> Unasked]

----------------------------------------------------------------------------
(* join(): one action per await                                            *)

Goes(j, to) == step' = [step EXCEPT ![j] = to]

\* find_joinable: any room of that game and version with space, else go on.
Joinable(j) == {t \in rooms : game[t] = game[j] /\ players[t] < MaxPlayers}

FindRoom(j) ==
    /\ step[j] = "idle"
    /\ \/ \E t \in Joinable(j) :
             answer' = [answer EXCEPT ![j] = t] /\ Goes(j, "answered")
       \/ Joinable(j) = {} /\ Goes(j, "count") /\ UNCHANGED answer
    /\ UNCHANGED <<game, claimed, roomVars, ports, process, occupants, reaperVars>>

CountRooms(j) ==
    /\ step[j] = "count"
    /\ Goes(j, IF Cardinality(rooms) >= MaxRooms THEN "refused" ELSE "claim")
    /\ UNCHANGED <<game, claimed, answer, roomVars, ports, process, occupants, reaperVars>>

FreePorts == {p \in Ports : ports[p] = "free"}

\* The lowest free port is marked as in use, and the process is started with it;
\* nothing is awaited in between.  Starting the binary may fail.
ClaimPort(p) == ports' = [ports EXCEPT ![p] = "used"]

ClaimAndSpawn(j) ==
    /\ step[j] = "claim"
    /\ \E p \in FreePorts :
          /\ \A q \in FreePorts : p <= q
          /\ ClaimPort(p)
          /\ claimed' = [claimed EXCEPT ![j] = p]
    /\ \/ Goes(j, "await") /\ process' = [process EXCEPT ![j] = "booting"]
       \/ Goes(j, "giveUp") /\ UNCHANGED process
    /\ UNCHANGED <<game, answer, roomVars, occupants, reaperVars>>

NoPortLeft(j) ==
    /\ step[j] = "claim"
    /\ FreePorts = {}
    /\ Goes(j, "refused")
    /\ UNCHANGED <<game, claimed, answer, roomVars, ports, process, occupants, reaperVars>>

\* await_ready: the room answered its status frame.
RoomReady(j) ==
    /\ step[j] = "await"
    /\ process[j] = "up"
    /\ Goes(j, "insert")
    /\ UNCHANGED <<game, claimed, answer, roomVars, ports, process, occupants, reaperVars>>

\* await_ready gives up: the process exited, or the start timeout is over, be it
\* that the room is slow or that its answers are lost.  It is killed ...
GivesUpFault(j) == process[j] = "exited"
GivesUp(j) == process[j] \in {"exited", "booting", "up"}

Killed(t) == IF Running(t) THEN [process EXCEPT ![t] = "dying"] ELSE process

StartFails(j) ==
    /\ step[j] = "await"
    /\ GivesUp(j)
    /\ Goes(j, "giveUp")
    /\ process' = Killed(j)
    /\ UNCHANGED <<game, claimed, answer, roomVars, ports, occupants, reaperVars>>

Insert(j) ==
    /\ step[j] = "insert"
    /\ rooms' = rooms \cup {j}
    /\ players' = [players EXCEPT ![j] = 0]
    /\ windowOver' = [windowOver EXCEPT ![j] = FALSE]
    /\ Token(j) /\ Goes(j, "answered")
    /\ UNCHANGED <<game, claimed, ports, process, occupants, reaperVars>>

\* release_port: the port cools down before it is handed out again.
ReleasePortFault(p) == [ports EXCEPT ![p] = "used"]
ReleasePort(p) == [ports EXCEPT ![p] = "cooling"]

\* ... waited for, and its port released.
WaitedForFault(t) == TRUE
WaitedFor(t) == ~Bound(t)

GiveUp(j) ==
    /\ step[j] = "giveUp"
    /\ WaitedFor(j)
    /\ ports' = ReleasePort(claimed[j])
    /\ Goes(j, "failed")
    /\ UNCHANGED <<game, claimed, answer, roomVars, process, occupants, reaperVars>>

\* The browser hangs up and the request is dropped at its await.  The child is
\* killed with it (kill_on_drop); nothing releases the port.
DroppedChildFault(j) == process
DroppedChild(j) == Killed(j)

HangUp(j) ==
    /\ step[j] \in {"count", "claim", "await", "insert", "giveUp"}
    /\ Goes(j, "dropped")
    /\ process' = DroppedChild(j)
    /\ UNCHANGED <<game, claimed, answer, roomVars, ports, occupants, reaperVars>>

----------------------------------------------------------------------------
(* Room processes, their players, and time                                 *)

\* The socket is bound and the scene loaded: the room answers status frames.
BootDone(t) ==
    /\ process[t] = "booting"
    /\ process' = [process EXCEPT ![t] = "up"]
    /\ UNCHANGED <<joinVars, roomVars, ports, occupants, reaperVars>>

\* A crash, the room's own --idle-exit, or the end of a killed process.
ProcessExits(t) ==
    /\ Bound(t)
    /\ process' = [process EXCEPT ![t] = "exited"]
    /\ occupants' = [occupants EXCEPT ![t] = 0]
    /\ UNCHANGED <<joinVars, roomVars, ports, reaperVars>>

\* A browser that was given the token gets in through the sidecar's port_of.
Enter(t) ==
    /\ t \in rooms
    /\ process[t] = "up"
    /\ occupants[t] < MaxOccupants
    /\ occupants' = [occupants EXCEPT ![t] = @ + 1]
    /\ UNCHANGED <<joinVars, roomVars, ports, process, reaperVars>>

Leave(t) ==
    /\ occupants[t] > 0
    /\ occupants' = [occupants EXCEPT ![t] = @ - 1]
    /\ UNCHANGED <<joinVars, roomVars, ports, process, reaperVars>>

\* idle_secs pass without a report of sessions: the room is empty, or it is mute.
WindowPasses(t) ==
    /\ t \in rooms
    /\ ~windowOver[t]
    /\ windowOver' = [windowOver EXCEPT ![t] = TRUE]
    /\ UNCHANGED <<joinVars, rooms, players, ports, process, occupants, reaperVars>>

CoolDown(p) ==
    /\ ports[p] = "cooling"
    /\ ports' = [ports EXCEPT ![p] = "free"]
    /\ UNCHANGED <<joinVars, roomVars, process, occupants, reaperVars>>

----------------------------------------------------------------------------
(* reap_once()                                                             *)

ListRooms ==
    /\ reaper = "asleep"
    /\ reaper' = "probing"
    /\ toProbe' = rooms
    /\ report' = [t \in Joins |-> Unasked]
    /\ UNCHANGED <<joinVars, roomVars, ports, process, occupants, dead>>

\* One status round trip; the answer may be lost or late.
Probe(t) ==
    /\ reaper = "probing"
    /\ t \in toProbe
    /\ toProbe' = toProbe \ {t}
    /\ \E r \in {Silent} \cup (IF process[t] = "up" THEN {occupants[t]} ELSE {}) :
          report' = [report EXCEPT ![t] = r]
    /\ UNCHANGED <<joinVars, roomVars, ports, process, occupants, reaper, dead>>

\* Rooms to stop: the child is gone, or the room is reported empty, or is mute,
\* and its idle window is over.
DoomedFault == {t \in rooms : report[t] # Unasked /\ report[t] <= 0 /\ windowOver[t] /\ Running(t)}
Doomed == {t \in rooms : report[t] # Unasked /\ (~Running(t) \/ (report[t] <= 0 /\ windowOver[t]))}

\* The player counts a room may have after the second pass: of the sessions it
\* reported any number are players; a mute or dead room keeps its count.
Refreshed(t) ==
    IF t \in rooms /\ Running(t) /\ report[t] >= 0 THEN 0..report[t] ELSE {players[t]}

Judge ==
    /\ reaper = "probing"
    /\ toProbe = {}
    /\ reaper' = "stopping"
    /\ dead' = Doomed
    /\ \E n \in [Joins -> UNION {Refreshed(t) : t \in Joins}] :
          (\A t \in Joins : n[t] \in Refreshed(t)) /\ players' = n
    /\ windowOver' = [t \in Joins |->
                        windowOver[t] /\ ~(t \in rooms /\ Running(t) /\ report[t] > 0)]
    /\ report' = [t \in Joins |-> Unasked]
    /\ UNCHANGED <<joinVars, rooms, ports, process, occupants, toProbe>>

\* stop: the room leaves the map and its process is killed, ...
StopRoom(t) ==
    /\ reaper = "stopping"
    /\ t \in dead
    /\ t \in rooms
    /\ rooms' = rooms \ {t}
    /\ process' = Killed(t)
    /\ occupants' = [occupants EXCEPT ![t] = 0]
    /\ reaper' = "releasing"
    /\ UNCHANGED <<joinVars, players, windowOver, ports, toProbe, report, dead>>

\* ... waited for, and its port released.
ReleaseStopped(t) ==
    /\ reaper = "releasing"
    /\ t \in dead \ rooms
    /\ WaitedFor(t)
    /\ ports' = ReleasePort(claimed[t])
    /\ dead' = dead \ {t}
    /\ reaper' = "stopping"
    /\ UNCHANGED <<joinVars, roomVars, process, occupants, toProbe, report>>

ReaperSleeps ==
    /\ reaper = "stopping"
    /\ dead = {}
    /\ reaper' = "asleep"
    /\ UNCHANGED <<joinVars, roomVars, ports, process, occupants, toProbe, report, dead>>

----------------------------------------------------------------------------

JoinStep(j) ==
    \/ FindRoom(j) \/ CountRooms(j) \/ ClaimAndSpawn(j) \/ NoPortLeft(j)
    \/ RoomReady(j) \/ StartFails(j) \/ Insert(j) \/ GiveUp(j)

Environment(t) ==
    \/ HangUp(t) \/ BootDone(t) \/ ProcessExits(t) \/ Enter(t) \/ Leave(t) \/ WindowPasses(t)

Reaper ==
    \/ ListRooms \/ Judge \/ ReaperSleeps
    \/ \E t \in Joins : Probe(t) \/ StopRoom(t) \/ ReleaseStopped(t)

Next ==
    \/ \E j \in Joins : JoinStep(j) \/ Environment(j)
    \/ \E p \in Ports : CoolDown(p)
    \/ Reaper

Spec == Init /\ [][Next]_vars

\* The runtime polls every task that is ready, await_ready has a deadline, the
\* reaper's timer ticks, time passes, and a killed process ends.
Fairness ==
    /\ WF_vars(Reaper)
    /\ \A j \in Joins : WF_vars(JoinStep(j)) /\ WF_vars(WindowPasses(j))
    /\ \A t \in Joins : WF_vars(process[t] = "dying" /\ ProcessExits(t))

FairSpec == Spec /\ Fairness

----------------------------------------------------------------------------
(* Properties                                                              *)

\* Every variable stays in its range.
RoomsTypeOK ==
    /\ step \in [Joins -> Steps]
    /\ game \in [Joins -> Games]
    /\ claimed \in [Joins -> Ports \cup {NoPort}]
    /\ answer \in [Joins -> Joins \cup {NoToken}]
    /\ rooms \subseteq Joins
    /\ players \in [Joins -> 0..MaxOccupants]
    /\ windowOver \in [Joins -> BOOLEAN]
    /\ ports \in [Ports -> {"free", "used", "cooling"}]
    /\ process \in [Joins -> {"none", "booting", "up", "dying", "exited"}]
    /\ occupants \in [Joins -> 0..MaxOccupants]
    /\ reaper \in {"asleep", "probing", "stopping", "releasing"}
    /\ toProbe \subseteq Joins
    /\ report \in [Joins -> Unasked..MaxOccupants]
    /\ dead \subseteq Joins

\* No two room processes have the same port at once, a killed one counting until
\* it is gone, and the port of such a process is not up for the next join: the
\* packets of one world cannot land in another (claim_port, release_port, stop).
\* A process nobody waits for, its request dropped, keeps its port for itself.
PortsExclusive ==
    /\ \A t \in Joins : Bound(t) => claimed[t] \in Ports /\ ports[claimed[t]] = "used"
    /\ \A t, u \in Joins : t # u /\ Bound(t) /\ Bound(u) => claimed[t] # claimed[u]

\* A running process is known to someone who will stop it: it is in the map the
\* reaper walks, or its join is still in progress (kill_on_drop, stop).
NoOrphan ==
    \A t \in Joins : Running(t) => t \in rooms \/ step[t] \in {"await", "insert"}

\* A port stays marked as in use only while a room, a join in progress or the
\* reaper accounts for it; the one way to lose a port is a request that is
\* dropped after it claimed one.
PortsAccounted ==
    \A p \in Ports : ports[p] = "used" =>
        \E t \in Joins :
            /\ claimed[t] = p
            /\ t \in rooms \cup dead \/ step[t] \in {"await", "insert", "giveUp", "dropped"}

\* A room that stays empty does not stay: again and again each room is gone or
\* occupied, though probes may be lost and its process may crash (reap_once).
EmptyRoomStops ==
    \A t \in Joins : []<>(t \notin rooms \/ occupants[t] > 0)

\* Every request ends, whatever becomes of the process it waits for.
JoinIsAnswered ==
    \A j \in Joins : <>(step[j] \in {"answered", "refused", "failed", "dropped"})

----------------------------------------------------------------------------
(* The inductive invariant behind PortsExclusive, NoOrphan, PortsAccounted *)

\* Tokens whose port is theirs: from the claim to the release, and for ever if
\* the request was dropped in between.
Holders ==
    {t \in Joins : \/ t \in rooms \cup dead \/ step[t] \in {"await", "insert", "giveUp"}
                   \/ step[t] = "dropped" /\ claimed[t] # NoPort}

\* Every holder has a port of its own, marked as in use, and every process that
\* may still have its socket is a holder's.
HoldersInv ==
    /\ \A t \in Holders : claimed[t] \in Ports /\ ports[claimed[t]] = "used"
    /\ \A t, u \in Holders : t # u => claimed[t] # claimed[u]
    /\ \A t \in Joins : Bound(t) => t \in Holders

\* Where a request stands, against the map and the reaper's list: the reaper has
\* at most one room out of the map whose port is not released yet.
StageInv ==
    /\ \A t \in rooms \cup dead : step[t] = "answered"
    /\ \A t \in Joins : step[t] \in {"idle", "count", "claim"} => claimed[t] = NoPort
    /\ reaper \in {"asleep", "probing"} => dead = {}
    /\ reaper = "stopping" => dead \subseteq rooms
    /\ \A t, u \in dead \ rooms : t = u

RoomsInv == RoomsTypeOK /\ HoldersInv /\ StageInv /\ NoOrphan /\ PortsAccounted

----------------------------------------------------------------------------
(* What the code documents of the cap                                      *)

\* "COW_MAX_ROOMS concurrent world cap" (control/src/main.rs 17): no more rooms
\* than that run at once.  Two joins count the rooms before either inserts one.
RoomCap == Cardinality(rooms) <= MaxRooms

\* "Ports currently in use or cooling down" (control/src/rooms.rs 84): a port in the
\* map without an expiry is the port of a room, of a start in progress or of a
\* stop in progress.  The port of a dropped request stays there for ever.
PortsInUse ==
    \A p \in Ports : ports[p] = "used" =>
        \E t \in Joins :
            claimed[t] = p /\ (t \in rooms \cup dead \/ step[t] \in {"await", "insert", "giveUp"} \/ Bound(t))
=============================================================================
