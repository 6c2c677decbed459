---------------------------- MODULE Replication ----------------------------
(***************************************************************************)
(* GameServer together with its clients: the messages on their way to each *)
(* browser and the NetClient that applies them (src/net/NetClient.cpp).    *)
(*                                                                         *)
(* Reliable messages travel on one ordered stream per session.  Snapshots  *)
(* share that stream over WebSocket; to the sessions in Datagrams, which   *)
(* came over WebTransport, they are datagrams, which may be lost, or       *)
(* overtake, or lag behind both the stream and each other.                 *)
(*                                                                         *)
(* A step of the server composes an action of GameServer with what it      *)
(* sends.  The sidecar hands frames on in order; a session id is used for  *)
(* one connection only.  Poses, names, interpolation and blasts are left   *)
(* out: a client is the set of netIds it has a representation for.         *)
(* Operators whose name ends in Fault are seeded bugs, as in GameServer.   *)
(***************************************************************************)
EXTENDS GameServer, SequencesExt

CONSTANTS
    Datagrams,     \* sessions whose snapshots travel apart from the reliable stream
    MaxSnapshots,  \* bound: snapshot broadcasts that are modelled
    MaxInFlight    \* bound: snapshot datagrams on their way to one client

ASSUME ChannelAssumption == Datagrams \subseteq Sessions /\ MaxSnapshots \in Nat /\ MaxInFlight \in Nat

VARIABLES
    link,       \* the browser's transport: "new", "open" or "closed"
    hello,      \* the client's one ClientHello: "unsent", "flying" or "arrived"
    client,     \* NetClient: joined_, myNetId_, keys of reps_
    wire,       \* messages on the ordered stream to the client
    datagrams,  \* snapshots on their way to the client as datagrams
    broadcasts  \* snapshots broadcast so far; stands for Snapshot::serverTick

clientVars == <<link, hello, client, wire, datagrams, broadcasts>>
systemVars == <<vars, clientVars>>

----------------------------------------------------------------------------
(* Messages and what NetClient::processIncoming makes of them              *)

Lifecycle(type, n) == [type |-> type, id |-> n]
SnapshotMessage(ids, tick) == [type |-> "Snapshot", ids |-> ids, tick |-> tick]

\* The constructor: claimSceneObjects takes over the bodies of the scene file.
NewClient == [joined |-> FALSE, me |-> 0, reps |-> FileIds]

\* Entities of a snapshot that get a sample: an unknown one only if it is a
\* player's, whose avatar is then created on the spot; never the own player.
SampledFault(c, ids) == ids \ {c.me}
Sampled(c, ids) == {n \in ids \ {c.me} : IsPlayerId(n)}

ApplySnapshot(c, m) ==
    IF c.joined THEN [c EXCEPT !.reps = @ \cup Sampled(c, m.ids)] ELSE c

\* removeRep: a claimed scene body is torn down like a proxy.
WithoutRep(c, n) == [c EXCEPT !.reps = @ \ {n}]

Applied(c, m) ==
    CASE m.type = "Welcome" -> [c EXCEPT !.joined = TRUE, !.me = m.id]
      [] m.type = "Join" -> IF m.id = c.me THEN c ELSE [c EXCEPT !.reps = @ \cup {m.id}]
      [] m.type = "Spawn" -> [c EXCEPT !.reps = @ \cup {m.id}]
      [] m.type \in {"Leave", "Despawn"} -> WithoutRep(c, m.id)
      [] m.type = "Snapshot" -> ApplySnapshot(c, m)

\* What applying the messages of a stream, one after the other, makes of a client.
AfterAll(c, stream) ==
    LET after[i \in 0..Len(stream)] ==
            IF i = 0 THEN c ELSE Applied(after[i - 1], stream[i])
    IN  after[Len(stream)]

\* The client once everything that is on the stream now has been applied.
Settled(s) == AfterAll(client[s], wire[s])

----------------------------------------------------------------------------
(* Sending                                                                 *)

Messages(type, ids) == [i \in 1..Cardinality(ids) |-> Lifecycle(type, SetToSeq(ids)[i])]

\* send_ appends to the stream of a session whose browser is still there.
Sent(to, msgs) == [t \in Sessions |-> IF t \in to /\ link[t] = "open" THEN wire[t] \o msgs ELSE wire[t]]

\* PlayerLeave for the players of the sessions in gone, to all that remain.
FarewellsFault(gone) == Sent(registered \ gone, Messages("Leave", {0 : t \in gone \cap spawned}))
Farewells(gone) == Sent(registered \ gone, Messages("Leave", {netId[t] : t \in gone \cap spawned}))

\* What an accepted newcomer is sent, in the order of the code.
WelcomePackageFault ==
    <<Lifecycle("Welcome", NewPlayerId)>> \o Messages("Spawn", spawnedObjects)
WelcomePackage ==
    <<Lifecycle("Welcome", NewPlayerId)>> \o Messages("Join", PlayerIds)
        \o Messages("Spawn", spawnedObjects)

----------------------------------------------------------------------------
(* The browsers                                                            *)

\* CowNet connects and the sidecar announces the session to the server.
Open(s) ==
    /\ link[s] = "new"
    /\ OnConnect(s)
    /\ link' = [link EXCEPT ![s] = "open"]
    /\ UNCHANGED <<hello, client, wire, datagrams, broadcasts>>

\* sendHelloIfNeeded: once, as soon as the transport is connected.
SendHello(s) ==
    /\ link[s] = "open"
    /\ hello[s] = "unsent"
    /\ hello' = [hello EXCEPT ![s] = "flying"]
    /\ UNCHANGED <<vars, link, client, wire, datagrams, broadcasts>>

\* sendInput, every tick once joined; a server without the session ignores it.
SendInput(s) ==
    /\ link[s] = "open"
    /\ client[s].joined
    /\ OnOtherMessage(s) \/ \E seq \in 1..MaxSeq : OnInput(s, seq)
    /\ UNCHANGED clientVars

\* The page goes away.  Whatever was on its way to it is lost.
Gone(s) ==
    /\ link[s] = "open"
    /\ link' = [link EXCEPT ![s] = "closed"]
    /\ hello' = [hello EXCEPT ![s] = "arrived"]
    /\ client' = [client EXCEPT ![s] = NewClient]
    /\ datagrams' = [datagrams EXCEPT ![s] = {}]
    /\ UNCHANGED broadcasts

\* Cleanly: the sidecar sends a DISCONNECT frame.
Close(s) ==
    /\ Gone(s)
    /\ OnDisconnect(s)
    /\ wire' = [Farewells({s}) EXCEPT ![s] = <<>>]

\* Without notice, or when the server has dropped the session already.
CloseUnnoticed(s) ==
    /\ Gone(s)
    /\ wire' = [wire EXCEPT ![s] = <<>>]
    /\ UNCHANGED vars

\* processIncoming, one message of the stream.
Receive(s) ==
    /\ wire[s] # <<>>
    /\ client' = [client EXCEPT ![s] = Applied(@, Head(wire[s]))]
    /\ wire' = [wire EXCEPT ![s] = Tail(@)]
    /\ UNCHANGED <<vars, link, hello, datagrams, broadcasts>>

\* processIncoming, one datagram, in any order; or the network loses it.
ReceiveDatagram(s) ==
    \E m \in datagrams[s] :
        /\ client' = [client EXCEPT ![s] = ApplySnapshot(@, m)]
        /\ datagrams' = [datagrams EXCEPT ![s] = @ \ {m}]
        /\ UNCHANGED <<vars, link, hello, wire, broadcasts>>

LoseDatagram(s) ==
    \E m \in datagrams[s] :
        /\ datagrams' = [datagrams EXCEPT ![s] = @ \ {m}]
        /\ UNCHANGED <<vars, link, hello, client, wire, broadcasts>>

----------------------------------------------------------------------------
(* The server                                                              *)

HelloArrives(s) ==
    /\ hello[s] = "flying"
    /\ hello' = [hello EXCEPT ![s] = "arrived"]
    /\ \/ /\ HelloAccepted(s)
          /\ wire' = [Sent(registered, Messages("Join", {NewPlayerId}))
                        EXCEPT ![s] = wire[s] \o WelcomePackage]
       \/ /\ HelloRefused(s)
          /\ UNCHANGED wire
    /\ UNCHANGED <<link, client, datagrams, broadcasts>>

BeginTickAndReap ==
    /\ BeginTick
    /\ wire' = Farewells(Dead)
    /\ UNCHANGED <<link, hello, client, datagrams, broadcasts>>

BroadcastSpawn(h) ==
    /\ AnnounceSpawn(h)
    /\ wire' = Sent(spawned, Messages("Spawn", {NewSpawnId}))
    /\ UNCHANGED <<link, hello, client, datagrams, broadcasts>>

BroadcastDespawns ==
    /\ FlushDespawns
    /\ wire' = Sent(spawned, Messages("Despawn", pendingDespawns))
    /\ UNCHANGED <<link, hello, client, datagrams, broadcasts>>

\* Snapshots beyond MaxSnapshots, or beyond MaxInFlight datagrams, are as good
\* as lost.
BroadcastSnapshots ==
    /\ SendSnapshots
    /\ IF SnapshotDue /\ broadcasts < MaxSnapshots
       THEN LET m == SnapshotMessage(SnapshotIds, broadcasts + 1)
                roomy(t) == Cardinality(datagrams[t]) < MaxInFlight
            IN  /\ broadcasts' = broadcasts + 1
                /\ wire' = Sent(spawned \ Datagrams, <<m>>)
                /\ datagrams' = [t \in Sessions |->
                                   IF t \in spawned \cap Datagrams /\ link[t] = "open" /\ roomy(t)
                                   THEN datagrams[t] \cup {m} ELSE datagrams[t]]
       ELSE UNCHANGED <<broadcasts, wire, datagrams>>
    /\ UNCHANGED <<link, hello, client>>

\* The steps of a tick that send nothing a client keeps.
QuietServerStep ==
    /\ Scripts \/ ApplyReset \/ EndScripts \/ EndAnnounce \/ FlushExplosions
    /\ UNCHANGED clientVars

----------------------------------------------------------------------------

SystemInit ==
    /\ Init
    /\ link = [s \in Sessions |-> "new"]
    /\ hello = [s \in Sessions |-> "unsent"]
    /\ client = [s \in Sessions |-> NewClient]
    /\ wire = [s \in Sessions |-> <<>>]
    /\ datagrams = [s \in Sessions |-> {}]
    /\ broadcasts = 0

Browsers ==
    \E s \in Sessions :
        \/ Open(s) \/ SendHello(s) \/ SendInput(s)
        \/ Close(s) \/ CloseUnnoticed(s)
        \/ Receive(s) \/ ReceiveDatagram(s) \/ LoseDatagram(s)

ServerTick ==
    \/ BeginTickAndReap
    \/ \E h \in Handles : BroadcastSpawn(h)
    \/ BroadcastDespawns
    \/ BroadcastSnapshots
    \/ QuietServerStep

SystemNext == Browsers \/ (\E s \in Sessions : HelloArrives(s)) \/ ServerTick

SystemSpec == SystemInit /\ [][SystemNext]_systemVars

\* The main loop keeps ticking; a page runs its client every frame, and the stream
\* delivers as long as the page is open.
SystemFairness ==
    /\ WF_systemVars(ServerTick /\ ~Scripts)
    /\ \A s \in Sessions : WF_systemVars(Receive(s))

FairSystemSpec == SystemSpec /\ SystemFairness

----------------------------------------------------------------------------
(* Properties                                                              *)

\* Every variable stays in its range.
SystemTypeOK ==
    /\ TypeOK
    /\ link \in [Sessions -> {"new", "open", "closed"}]
    /\ hello \in [Sessions -> {"unsent", "flying", "arrived"}]
    /\ client \in [Sessions -> [joined : BOOLEAN, me : Nat, reps : SUBSET Nat]]
    /\ \A s \in Sessions : link[s] # "open" => wire[s] = <<>> /\ datagrams[s] = {}
    /\ broadcasts \in 0..MaxSnapshots

\* The stream, message by message, amounts to what the server believes it has
\* told the client: no representation is missing, whatever joins, leaves, spawns
\* and resets crossed on the way (onMessage 343-364, flushDespawns, sweep;
\* NetClient::processIncoming).
NothingMissing ==
    \A s \in Sessions : link[s] = "open" => told[s] \subseteq Settled(s).reps

\* On one ordered stream, snapshots included, a client that has caught up between
\* ticks shows exactly the other players and the spawned objects of the room: no
\* ghost of a player or an object that left (unless it was swept before its hello).
CaughtUpClientIsRight ==
    phase = "net" =>
        \A s \in spawned \ (lapsed \cup Datagrams) : link[s] = "open" =>
            {n \in Settled(s).reps : ~IsSceneId(n)} = {n \in LiveIds \ {netId[s]} : ~IsSceneId(n)}

\* Whatever order snapshots arrive in, the only representation they can leave
\* behind is another player's avatar: a spawned object never returns after its despawn
\* (NetClient.cpp 206-212), and a client never draws an avatar of its own player, though
\* snapshots with its id may overtake the welcome that tells it the id (190-202).
OnlyAvatarsLinger ==
    SystemTypeOK /\ \A s \in Sessions :
        /\ link[s] = "open" => \A n \in Settled(s).reps \ told[s] : IsPlayerId(n)
        /\ client[s].joined => client[s].me \notin client[s].reps

\* The avatar of a player who left does not stay on the screen of a client that
\* is still served.
LeaverFades ==
    \A s \in Sessions : \A n \in PlayerBase..(PlayerBase + MaxJoins - 1) :
        (n \in client[s].reps /\ n \notin PlayerIds)
            ~> (n \notin client[s].reps \/ s \notin registered \ lapsed)
=============================================================================
