------------------------------- MODULE Relay -------------------------------
(***************************************************************************)
(* The sidecar (sidecar/src/main.rs, webtransport.rs): it admits browser   *)
(* connections, bridges each to the UDP port of the room its token named,  *)
(* and drops those whose room has fallen silent.  The rooms and the ports  *)
(* they come and go on are the environment: RoomManager has the detail.    *)
(*                                                                         *)
(* Every connection is a task; the tasks share the session table and the   *)
(* per-address counts, each behind a lock held for one step.  Time counts  *)
(* in seconds, the period of sweep_upstreams.  The sweep wakes only a      *)
(* bridge that waits in its select!; one that is in the middle of a frame, *)
(* or takes a frame that is ready at the same moment, misses the signal,   *)
(* which the next sweep repeats.                                           *)
(*                                                                         *)
(* The Origin and key checks are part of the refusals of Arrive; what is   *)
(* in a frame is left out.  A restart of the sidecar forgets everything it *)
(* holds, while the rooms run on.  The cap is on (max_conn_per_ip > 0) and *)
(* so is the sweep (upstream_timeout is set).  Nothing bounds a handshake  *)
(* or the signals that a bridge misses, so a connection may outlive its    *)
(* room's port; the history variables took and signals count how it came   *)
(* to that.                                                                *)
(* Operators whose name ends in Fault are seeded bugs, as in GameServer.   *)
(***************************************************************************)
EXTENDS Integers, FiniteSets

CONSTANTS
    Conns,         \* browser connections
    WebTransport,  \* those that come over WebTransport; the others over WebSocket
    Addresses,     \* client addresses the cap is counted against
    Worlds,        \* room processes; each is named by its token
    Ports,         \* their UDP ports
    MaxPerIp,      \* GateConfig::max_conn_per_ip
    Timeout,       \* Relay::upstream_timeout
    Grace,         \* UPSTREAM_FIRST_REPLY_GRACE
    Cooldown,      \* RoomConfig::port_cooldown; seconds and signals are counted up to it
    MaxRestarts    \* bound: restarts of the sidecar

ASSUME ConnsAssumption == IsFiniteSet(Conns) /\ WebTransport \subseteq Conns

ASSUME CapAssumption == MaxPerIp \in Nat \ {0} /\ MaxRestarts \in Nat

\* In seconds: COW_UPSTREAM_TIMEOUT is 3, the grace 10, the cooldown 60.
ASSUME TimesAssumption ==
    /\ Timeout \in Nat \ {0} /\ Grace \in Nat /\ Timeout <= Grace
    /\ Cooldown \in Nat /\ Grace < Cooldown

NoPort == "no port"
ASSUME PortsAssumption == NoPort \notin Ports

VARIABLES
    address,     \* the address a connection is charged to
    wanted,      \* the room whose token its browser holds
    stage,       \* where its task stands
    charged,     \* connections that hold a slot of their address
    connsPerIp,  \* conns_per_ip
    upstream,    \* what its token was resolved to
    session,     \* its session id, 0 before register
    nextId,      \* next_id
    sessions,    \* the session table: the connections registered in it
    heard,       \* those whose Session::last_inbound is set
    quiet,       \* seconds since the lookup, register or last_inbound, whichever is latest
    killed,      \* bridges whose notified() has fired
    took,        \* history: seconds from the lookup to register
    signals,     \* history: sweeps that found it overdue; both since it last heard its room
    world,       \* a room process: "unborn", "up", "exited" or "gone"
    place,       \* the port it was given
    cooling,     \* seconds a port still cools down
    known,       \* <<w, c>>: an entry in the session table of w that stands for c
    restarts     \* restarts of the sidecar so far

connVars == <<address, wanted, stage, charged, connsPerIp, upstream>>
tableVars == <<session, nextId, sessions, heard, quiet, killed, took, signals>>
worldVars == <<world, place, cooling, known>>
vars == <<connVars, tableVars, worldVars, restarts>>

Stages == {"new", "handshake", "bridging", "midframe", "closing", "closed"}

\* Rooms the control plane has listed: their tokens resolve, their ports are taken.
Listed == {w \in Worlds : world[w] \in {"up", "exited"}}

----------------------------------------------------------------------------

Init ==
    /\ address \in [Conns -> Addresses]
    /\ wanted \in [Conns -> Worlds]
    /\ stage = [c \in Conns |-> "new"]
    /\ charged = {} /\ connsPerIp = [a \in Addresses |-> 0]
    /\ upstream = [c \in Conns |-> NoPort]
    /\ session = [c \in Conns |-> 0] /\ nextId = 1
    /\ sessions = {} /\ heard = {} /\ killed = {}
    /\ quiet = [c \in Conns |-> 0]
    /\ took = [c \in Conns |-> 0] /\ signals = [c \in Conns |-> 0]
    /\ world = [w \in Worlds |-> "unborn"]
    /\ place = [w \in Worlds |-> NoPort]
    /\ cooling = [p \in Ports |-> 0]
    /\ known = {} /\ restarts = 0

----------------------------------------------------------------------------
(* Admission: bridge_ws charges before the room lookup, webtransport.rs    *)
(* looks the room up first                                                 *)

Goes(c, to) == stage' = [stage EXCEPT ![c] = to]

\* A task that ends drops what it knew of its room, and the times that were kept.
Forgets(c) ==
    /\ Goes(c, "closing")
    /\ upstream' = [upstream EXCEPT ![c] = NoPort]
    /\ heard' = heard \ {c}
    /\ quiet' = [quiet EXCEPT ![c] = 0]
    /\ took' = [took EXCEPT ![c] = 0]
    /\ signals' = [signals EXCEPT ![c] = 0]

\* A browser connects; the Origin or key check may refuse it.
Arrive(c) ==
    /\ stage[c] = "new"
    /\ Goes(c, "handshake") \/ Goes(c, "closed")
    /\ UNCHANGED <<address, wanted, charged, connsPerIp, upstream, tableVars, worldVars, restarts>>

Resolved(c) == upstream[c] # NoPort
ChargeDue(c) == c \notin charged /\ (c \in WebTransport => Resolved(c))
LookupDue(c) == ~Resolved(c) /\ (c \notin WebTransport => c \in charged)

\* acquire_ip, or 429.
AcquireIpFault(a) == connsPerIp[a] <= MaxPerIp
AcquireIp(a) == connsPerIp[a] < MaxPerIp

Charge(c) ==
    /\ stage[c] = "handshake"
    /\ ChargeDue(c)
    /\ IF AcquireIp(address[c])
       THEN /\ charged' = charged \cup {c}
            /\ connsPerIp' = [connsPerIp EXCEPT ![address[c]] = @ + 1]
            /\ UNCHANGED stage
            /\ UNCHANGED <<upstream, tableVars>>
       ELSE /\ Forgets(c)
            /\ UNCHANGED <<charged, connsPerIp, session, nextId, sessions, killed>>
    /\ UNCHANGED <<address, wanted, worldVars, restarts>>

\* RoomResolver::resolve, or 403: the token is unknown, or the lookup failed.
Lookup(c) ==
    /\ stage[c] = "handshake"
    /\ LookupDue(c)
    /\ \/ /\ wanted[c] \in Listed
          /\ upstream' = [upstream EXCEPT ![c] = place[wanted[c]]]
          /\ quiet' = [quiet EXCEPT ![c] = 0]
          /\ UNCHANGED <<stage, heard, took, signals>>
       \/ Forgets(c)
    /\ UNCHANGED <<address, wanted, charged, connsPerIp, session, nextId, sessions,
                   killed, worldVars, restarts>>

\* The browser goes away, the upgrade fails or no stream is opened.
HandshakeFails(c) ==
    /\ stage[c] = "handshake"
    /\ Forgets(c)
    /\ UNCHANGED <<address, wanted, charged, connsPerIp, session, nextId, sessions, killed,
                   worldVars, restarts>>

\* release_ip, if the address was charged.
ReleaseIp(c) == c \in charged

Release(c) ==
    /\ stage[c] = "closing"
    /\ Goes(c, "closed")
    /\ charged' = charged \ {c}
    /\ connsPerIp' = IF ReleaseIp(c) THEN [connsPerIp EXCEPT ![address[c]] = @ - 1] ELSE connsPerIp
    /\ UNCHANGED <<address, wanted, upstream, tableVars, worldVars, restarts>>

----------------------------------------------------------------------------
(* The bridge                                                              *)

\* The room that receives what is sent to the connection's upstream address.
Hosts(c) == {w \in Worlds : world[w] = "up" /\ place[w] = upstream[c]}

\* The entry a room has under a session id, and what a frame that registers the
\* id (GameServer::onConnect, try_emplace) makes of its table.
Entries(w, id) == {e \in known : e[1] = w /\ session[e[2]] = id}
WithEntry(w, c, id) == IF Entries(w, id) = {} THEN known \cup {<<w, c>>} ELSE known

\* register and the CONNECT frame, which may be lost.
Register(c) ==
    /\ stage[c] = "handshake"
    /\ c \in charged /\ Resolved(c)
    /\ Goes(c, "bridging")
    /\ session' = [session EXCEPT ![c] = nextId]
    /\ nextId' = nextId + 1
    /\ sessions' = sessions \cup {c}
    /\ quiet' = [quiet EXCEPT ![c] = 0]
    /\ took' = [took EXCEPT ![c] = quiet[c]]
    /\ known' \in {known} \cup {WithEntry(w, c, nextId) : w \in Hosts(c)}
    /\ UNCHANGED <<address, wanted, charged, connsPerIp, upstream, heard, killed, signals,
                   world, place, cooling, restarts>>

\* The bridge takes a frame of the browser, though a signal may be ready too.
TakeFrame(c) ==
    /\ stage[c] = "bridging"
    /\ Goes(c, "midframe")
    /\ killed' = killed \ {c}
    /\ UNCHANGED <<address, wanted, charged, connsPerIp, upstream, session, nextId,
                   sessions, heard, quiet, took, signals, worldVars, restarts>>

\* It is forwarded, once all of it is there: a message of WebTransport is read to
\* its end within the branch that took it.  A hello puts the session in the room's
\* table.
Forward(c) ==
    /\ stage[c] = "midframe"
    /\ Goes(c, "bridging")
    /\ known' \in {known} \cup {WithEntry(w, c, session[c]) : w \in Hosts(c)}
    /\ UNCHANGED <<address, wanted, charged, connsPerIp, upstream, tableVars,
                   world, place, cooling, restarts>>

\* run_udp_reader: a datagram for the session from its upstream address, where a
\* room sends to those it has an entry for.
UpstreamHeard(c) ==
    /\ c \in sessions
    /\ \E w \in Hosts(c) :
          /\ Entries(w, session[c]) # {}
          /\ took' = [took EXCEPT ![c] = IF w = wanted[c] THEN 0 ELSE @]
          /\ signals' = [signals EXCEPT ![c] = IF w = wanted[c] THEN 0 ELSE @]
    /\ heard' = heard \cup {c}
    /\ quiet' = [quiet EXCEPT ![c] = 0]
    /\ UNCHANGED <<connVars, session, nextId, sessions, killed, worldVars, restarts>>

\* The end of a bridge: a DISCONNECT frame, which may be lost, and deregister.
Unbridge(c) ==
    /\ Forgets(c)
    /\ sessions' = sessions \ {c}
    /\ killed' = killed \ {c}
    /\ known' \in {known} \cup {known \ Entries(w, session[c]) : w \in Hosts(c)}
    /\ UNCHANGED <<address, wanted, charged, connsPerIp, session, nextId,
                   world, place, cooling, restarts>>

\* The browser closes or is lost; over WebTransport perhaps within a frame.
BrowserLeaves(c) ==
    /\ stage[c] = "bridging" \/ (stage[c] = "midframe" /\ c \in WebTransport)
    /\ Unbridge(c)

\* A signal of the sweep ends it.
KillTakenFault(c) == stage[c] = "bridging" /\ c \in killed \cap WebTransport /\ Unbridge(c)
KillTaken(c) == stage[c] = "bridging" /\ c \in killed /\ Unbridge(c)

----------------------------------------------------------------------------
(* Time and sweep_upstreams                                                *)

\* Silence after which a session is given up.
Limit(c) == IF c \in heard THEN Timeout ELSE Grace

Older(n) == IF n < Cooldown THEN n + 1 ELSE n
Overdue == {c \in sessions : Older(quiet[c]) >= Limit(c)}

\* A second passes and the sweep signals every overdue session; notify_waiters
\* wakes those that wait in their select!, however long it takes them to run.
Second ==
    /\ quiet' = [c \in Conns |-> IF stage[c] \in {"handshake", "bridging", "midframe"} /\ Resolved(c)
                                 THEN Older(quiet[c]) ELSE quiet[c]]
    /\ killed' = killed \cup {c \in Overdue : stage[c] = "bridging"}
    /\ signals' = [c \in Conns |-> IF c \in Overdue THEN Older(signals[c]) ELSE signals[c]]
    /\ cooling' = [p \in Ports |-> IF cooling[p] > 0 THEN cooling[p] - 1 ELSE 0]
    /\ UNCHANGED <<connVars, session, nextId, sessions, heard, took, world, place, known, restarts>>

----------------------------------------------------------------------------
(* The rooms, as the control plane runs them, and the sidecar's end        *)

\* A room answers on a port that is neither taken nor cooling down; it is listed.
RoomStarts(w) ==
    /\ world[w] = "unborn"
    /\ \E p \in Ports :
          /\ cooling[p] = 0
          /\ \A v \in Listed : place[v] # p
          /\ place' = [place EXCEPT ![w] = p]
    /\ world' = [world EXCEPT ![w] = "up"]
    /\ UNCHANGED <<connVars, tableVars, cooling, known, restarts>>

\* It crashes or takes its own idle exit; the control plane has yet to notice.
RoomExits(w) ==
    /\ world[w] = "up"
    /\ world' = [world EXCEPT ![w] = "exited"]
    /\ known' = {e \in known : e[1] # w}
    /\ UNCHANGED <<connVars, tableVars, place, cooling, restarts>>

\* stop and release_port: the token is forgotten, the port cools down.
ReleasedForFault == 0
ReleasedFor == Cooldown
RoomStopped(w) ==
    /\ w \in Listed
    /\ world' = [world EXCEPT ![w] = "gone"]
    /\ cooling' = [cooling EXCEPT ![place[w]] = ReleasedFor]
    /\ known' = {e \in known : e[1] # w}
    /\ UNCHANGED <<connVars, tableVars, place, restarts>>

\* GameServer::sweepIdleSessions.
RoomForgets(w, c) ==
    /\ <<w, c>> \in known
    /\ known' = known \ {<<w, c>>}
    /\ UNCHANGED <<connVars, tableVars, world, place, cooling, restarts>>

\* The sidecar restarts (for a new certificate, or after a crash): it says goodbye
\* to nobody, and counts its sessions from 1 again.
Restart ==
    /\ restarts < MaxRestarts
    /\ restarts' = restarts + 1
    /\ stage' = [c \in Conns |-> IF stage[c] = "new" THEN "new" ELSE "closed"]
    /\ charged' = {} /\ connsPerIp' = [a \in Addresses |-> 0]
    /\ upstream' = [c \in Conns |-> NoPort]
    /\ nextId' = 1
    /\ sessions' = {} /\ heard' = {} /\ killed' = {}
    /\ quiet' = [c \in Conns |-> 0]
    /\ took' = [c \in Conns |-> 0] /\ signals' = [c \in Conns |-> 0]
    /\ UNCHANGED <<address, wanted, session, worldVars>>

----------------------------------------------------------------------------

Next ==
    \/ \E c \in Conns :
          \/ Arrive(c) \/ Charge(c) \/ Lookup(c) \/ HandshakeFails(c) \/ Register(c) \/ Release(c)
          \/ TakeFrame(c) \/ Forward(c) \/ BrowserLeaves(c) \/ KillTaken(c) \/ UpstreamHeard(c)
    \/ \E w \in Worlds :
          \/ RoomStarts(w) \/ RoomExits(w) \/ RoomStopped(w)
          \/ \E c \in Conns : RoomForgets(w, c)
    \/ Second
    \/ Restart

Spec == Init /\ [][Next]_vars

\* Seconds pass, and none of the ticks is tied to the frames of a browser: a bridge
\* that waits again and again is met waiting.  select! chooses among the branches
\* that are ready at random, so it does not for ever prefer a frame to a signal that
\* is ready again and again.  A message of a WebSocket has been read when it is
\* taken and is forwarded; one of WebTransport may never come to its end.
Fairness ==
    /\ WF_vars(Second)
    /\ \A c \in Conns : SF_vars(stage[c] = "bridging" /\ Second) /\ SF_vars(KillTaken(c))
    /\ \A c \in Conns \ WebTransport : WF_vars(Forward(c))

FairSpec == Spec /\ Fairness

----------------------------------------------------------------------------
(* Properties                                                              *)

\* Every variable stays in its range.
RelayTypeOK ==
    /\ address \in [Conns -> Addresses] /\ wanted \in [Conns -> Worlds]
    /\ stage \in [Conns -> Stages]
    /\ charged \subseteq Conns /\ connsPerIp \in [Addresses -> Nat]
    /\ upstream \in [Conns -> Ports \cup {NoPort}]
    /\ session \in [Conns -> Nat] /\ nextId \in Nat
    /\ sessions \subseteq Conns /\ heard \subseteq Conns /\ killed \subseteq Conns
    /\ quiet \in [Conns -> 0..Cooldown]
    /\ took \in [Conns -> 0..Cooldown] /\ signals \in [Conns -> 0..Cooldown]
    /\ world \in [Worlds -> {"unborn", "up", "exited", "gone"}]
    /\ place \in [Worlds -> Ports \cup {NoPort}]
    /\ cooling \in [Ports -> 0..Cooldown]
    /\ known \subseteq Worlds \X Conns
    /\ restarts \in 0..MaxRestarts

\* An address is charged for exactly its connections that were admitted and have
\* not ended, whichever way and at whatever step they end, so that the cap holds
\* and no slot is ever lost (acquire_ip, release_ip, handle_ws, handle).
ChargedTo(a) == {c \in charged : address[c] = a}
SlotsMatch ==
    /\ \A a \in Addresses : connsPerIp[a] = Cardinality(ChargedTo(a)) /\ connsPerIp[a] <= MaxPerIp
    /\ \A c \in charged : stage[c] \in {"handshake", "bridging", "midframe", "closing"}
    /\ sessions \subseteq charged

\* Another room than the one its token named has the port a browser is bridged to.
Strayed(c) == \E w \in Listed : place[w] = upstream[c] /\ w # wanted[c]

\* What a browser may make of its room's port is bounded by what its own connection
\* took: its packets land in another world only if the handshake, the silence that
\* the sweep grants and the signals its bridge did not act on add up to the port's
\* cooldown (rooms.rs 37-39, sweep_upstreams).  A bridge that ends within a second of
\* its first signal and whose handshake took less than what is left stays out.
Outlived(c) == Cooldown < took[c] + Grace + signals[c]
PacketsStayOut == \A c \in sessions : Strayed(c) => Outlived(c)

\* A browser whose room is gone is let go, though the relay's socket never learns
\* that nobody receives its frames, and though a signal to a bridge that is not
\* waiting for it is lost (sweep_upstreams), unless a message it began to send over
\* WebTransport never ends, or another room takes over the port first.
DeadRoomLetsGo ==
    \A c \in Conns :
        []<>(stage[c] # "midframe") =>
            ((c \in sessions /\ world[wanted[c]] # "up") ~> (c \notin sessions \/ Strayed(c)))

----------------------------------------------------------------------------
(* The inductive invariant behind SlotsMatch and PacketsStayOut            *)

\* Which connections the session table and the sweep know.
TableInv ==
    /\ \A c \in Conns : c \in sessions <=> stage[c] \in {"bridging", "midframe"}
    /\ \A c \in killed : stage[c] = "bridging"
    /\ \A c \in sessions : Resolved(c)
    /\ \A c \in Conns : stage[c] = "new" => ~Resolved(c)
    /\ \A w \in Worlds : world[w] # "unborn" <=> place[w] # NoPort
    /\ \A v, w \in Listed : v # w => place[v] # place[w]
    /\ \A w \in Listed : cooling[place[w]] = 0

\* How long a connection may have been without a word from its upstream address.
QuietInv ==
    /\ \A c \in Conns : stage[c] = "new" => quiet[c] = 0
    /\ \A c \in sessions : quiet[c] < Grace + signals[c]

\* A connection that still means to use a port was resolved to it when it was the
\* room's, and if the room is gone, either not longer ago than the port has cooled,
\* or the connection has outlived the cooldown.
StaleInv ==
    \A c \in Conns :
        stage[c] \in {"handshake", "bridging", "midframe"} /\ Resolved(c) =>
            /\ world[wanted[c]] # "unborn" /\ upstream[c] = place[wanted[c]]
            /\ world[wanted[c]] = "gone" =>
                  \/ c \in sessions /\ Outlived(c)
                  \/ Cooldown <= cooling[upstream[c]] + quiet[c] + (IF c \in sessions THEN took[c] ELSE 0)

RelayInv == RelayTypeOK /\ SlotsMatch /\ TableInv /\ QuietInv /\ StaleInv

----------------------------------------------------------------------------
(* What the documents promise of session ids                               *)

\* "multiplexed by a per-connection session id" (sidecar/README.md 5): the session a
\* room keeps under an id is not that of another connection than the one that has
\* the id now.
OneConnectionPerSession ==
    \A c \in sessions : \A d \in Conns :
        c # d /\ <<wanted[c], d>> \in known => session[c] # session[d]
=============================================================================
