----------------------------- MODULE GameServer -----------------------------
(***************************************************************************)
(* The authoritative room server of CowEngine (src/server/GameServer.cpp): *)
(* the session table, the replicated bodies of the world, and the fixed    *)
(* order of calls inside one tick.  The process is single threaded:        *)
(* datagrams are drained between ticks (phase "net") and one tick is the   *)
(* sequence of phases scripts, [start], announce, explode, despawn,        *)
(* snapshot.  Scripts are the environment: in the script phases they may   *)
(* spawn and destroy bodies, set off blasts and ask for a scene reset, in  *)
(* any number and order.                                                   *)
(*                                                                         *)
(* Physics, poses, names, colours and log lines are abstracted away.  The  *)
(* reliable messages of a session are represented by what they leave       *)
(* behind: told[s] is the set of netIds for which a client that applies    *)
(* every reliable message sent to s, in order, holds a representation.     *)
(* lapsed remembers the sessions that were swept as idle and may still     *)
(* have a page open.  Module Replication carries the messages themselves.  *)
(*                                                                         *)
(* An operator whose name ends in Fault is a seeded bug: the definition    *)
(* after it, changed the way a slip in the code would change it.  No       *)
(* action uses it; it shows which property notices the slip.               *)
(***************************************************************************)
EXTENDS Integers, FiniteSets, Sequences

CONSTANTS
    Sessions,      \* session ids the sidecar may use
    SceneSize,     \* dynamic bodies in the scene file; their ids are 1..SceneSize
    BootSpawns,    \* bodies that on-start scripts spawn while the scene first loads
    PlayerBase,    \* net::kPlayerNetIdBase
    SpawnBase,     \* net::kSpawnNetIdBase
    MaxPlayers,    \* maxPlayers_
    IdleTimeout,   \* idleTimeout_, in ticks
    BodyCap,       \* host_.setMaxSpawnedEntities
    SnapDivisor,   \* tickRate_ / snapshotHz_
    MaxJoins,      \* bound: players ever spawned
    MaxSpawns,     \* bound: script spawns ever announced
    MaxBlasts,     \* bound: blasts per tick
    MaxSeq         \* bound: input sequence numbers

ASSUME BasesAssumption ==
    /\ PlayerBase \in Nat /\ SpawnBase \in Nat
    /\ SceneSize \in Nat /\ BootSpawns \in Nat
    /\ SceneSize + BootSpawns < PlayerBase
    /\ MaxJoins \in Nat /\ PlayerBase + MaxJoins <= SpawnBase

ASSUME LimitsAssumption ==
    /\ MaxPlayers \in Nat /\ IdleTimeout \in Nat /\ SnapDivisor \in Nat \ {0}
    /\ BodyCap \in Nat /\ SceneSize + BootSpawns <= BodyCap
    /\ MaxSpawns \in Nat /\ MaxBlasts \in Nat /\ MaxSeq \in Nat

ASSUME SessionsAssumption == IsFiniteSet(Sessions)

VARIABLES
    phase,             \* where the main loop is: draining datagrams, or inside tick()
    registered,        \* keys of sessions_
    spawned,           \* sessions with Session::spawned
    netId,             \* Session::netId, 0 until the player spawns
    idle,              \* serverTime_ - Session::lastActive, in ticks, saturated
    lastSeq,           \* Session::lastSeq
    applied,           \* PlayerInput::sequence of the session's player
    clock,             \* serverTime_ in ticks, saturated
    nextPlayerIdx,     \* nextPlayerIdx_
    nextSpawnNetId,    \* nextSpawnNetId_
    body,              \* dynamic bodies: handle -> NoBody, Unnamed or its NetId
    sceneNetIds,       \* sceneNetIds_
    spawnedObjects,    \* netIds in spawnedObjects_, the late-join replay list
    pendingDespawns,   \* pendingDespawns_
    pendingExplosions, \* length of pendingExplosions_
    resetRequested,    \* Scene's reset request flag
    serverTick,        \* serverTick_ modulo SnapDivisor
    told,              \* history: what the reliable stream of a session amounts to
    lapsed             \* history: sessions reaped as idle that have not connected anew

sessionVars == <<registered, spawned, netId, idle, lastSeq, applied, nextPlayerIdx>>
worldVars == <<nextSpawnNetId, body, spawnedObjects, pendingDespawns,
               pendingExplosions, resetRequested>>
audienceVars == <<told, lapsed>>
vars == <<phase, sessionVars, worldVars, clock, sceneNetIds, serverTick, audienceVars>>

----------------------------------------------------------------------------
(* Net ids and bodies                                                      *)

NoBody == -1
Unnamed == 0     \* a dynamic body without a NetId component

IsSceneId(n) == n > 0 /\ n < PlayerBase
IsPlayerId(n) == n >= PlayerBase /\ n < SpawnBase
IsSpawnId(n) == n >= SpawnBase

Handles == 1..BodyCap
Live == {h \in Handles : body[h] # NoBody}
BodyIds == {body[h] : h \in {g \in Handles : body[g] > 0}}
PlayerIds == {netId[s] : s \in spawned}
LiveIds == BodyIds \cup PlayerIds

\* What a client claims by itself when it loads the scene file.
FileIds == 1..SceneSize

Phases == {"net", "scripts", "start", "announce", "explode", "despawn", "snapshot"}
ScriptPhases == {"scripts", "start"}

----------------------------------------------------------------------------
(* Init: GameServer::init().  On-start scripts run before the first        *)
(* assignSceneNetIds, so what they spawn is recorded with the scene; they  *)
(* may also have set off blasts or asked for a reset.                      *)

Init ==
    /\ phase = "net"
    /\ registered = {} /\ spawned = {}
    /\ netId = [s \in Sessions |-> 0]
    /\ idle = [s \in Sessions |-> 0]
    /\ lastSeq = [s \in Sessions |-> 0]
    /\ applied = [s \in Sessions |-> 0]
    /\ clock = 0
    /\ nextPlayerIdx = 0 /\ nextSpawnNetId = 0
    /\ sceneNetIds = [i \in 1..(SceneSize + BootSpawns) |-> i]
    /\ body = [h \in Handles |-> IF h <= SceneSize + BootSpawns THEN h ELSE NoBody]
    /\ spawnedObjects = {} /\ pendingDespawns = {}
    /\ pendingExplosions \in 0..MaxBlasts
    /\ resetRequested \in BOOLEAN
    /\ serverTick = 0
    /\ told = [s \in Sessions |-> FileIds] /\ lapsed = {}

----------------------------------------------------------------------------
(* Between ticks: the frames main.cpp hands to the server                  *)

\* Any message refreshes lastActive, but only of a session already in the table.
Refreshed(s) == IF s \in registered THEN 0 ELSE idle[s]

\* onConnect: try_emplace, so an existing session keeps its player and lastSeq.
OnConnect(s) ==
    /\ phase = "net"
    /\ registered' = registered \cup {s}
    /\ idle' = [idle EXCEPT ![s] = 0]
    /\ IF s \in registered
       THEN UNCHANGED audienceVars
       ELSE told' = [told EXCEPT ![s] = FileIds] /\ lapsed' = lapsed \ {s}
    /\ UNCHANGED <<phase, spawned, netId, lastSeq, applied, nextPlayerIdx,
                   worldVars, clock, sceneNetIds, serverTick>>

\* What PlayerLeave for each netId in gone leaves of told: it is sent to every
\* session that stays in the table, spawned or not, and to no other.
AfterLeaveFault(stay, gone) ==
    [t \in Sessions |-> IF t \in stay \cap spawned THEN told[t] \ gone ELSE told[t]]
AfterLeave(stay, gone) ==
    [t \in Sessions |-> IF t \in stay THEN told[t] \ gone ELSE told[t]]

\* sessions_.erase for every session in gone, with the players they own.
Erase(gone) ==
    /\ registered' = registered \ gone
    /\ spawned' = spawned \ gone
    /\ netId' = [s \in Sessions |-> IF s \in gone THEN 0 ELSE netId[s]]
    /\ lastSeq' = [s \in Sessions |-> IF s \in gone THEN 0 ELSE lastSeq[s]]
    /\ UNCHANGED nextPlayerIdx

\* The ids that die with the sessions in gone.
Leavers(gone) == {netId[s] : s \in gone}

OnDisconnect(s) ==
    /\ phase = "net"
    /\ s \in registered
    /\ Erase({s})
    /\ told' = [AfterLeave(registered \ {s}, Leavers({s})) EXCEPT ![s] = FileIds]
    /\ lapsed' = lapsed \ {s}
    /\ idle' = [idle EXCEPT ![s] = 0]
    /\ applied' = [applied EXCEPT ![s] = 0]
    /\ UNCHANGED <<phase, worldVars, clock, sceneNetIds, serverTick>>

\* The replay a newcomer gets: PlayerJoin for every spawned player, SpawnEntity
\* for every object on the replay list.
Replay == PlayerIds \cup spawnedObjects

RoomFull == Cardinality(spawned) >= MaxPlayers

NewPlayerIdFault == PlayerBase + Cardinality(registered)
NewPlayerId == PlayerBase + nextPlayerIdx

\* A compatible ClientHello from a session without a player.  Without a CONNECT
\* frame before it, sessions_[session] makes an entry whose lastActive is 0.0.
HelloEntryFault(s) ==
    /\ registered' = registered
    /\ idle' = [idle EXCEPT ![s] = Refreshed(s)]
HelloEntry(s) ==
    /\ registered' = registered \cup {s}
    /\ idle' = [idle EXCEPT ![s] = IF s \in registered THEN 0 ELSE clock]

HelloAccepted(s) ==
    /\ phase = "net"
    /\ s \notin spawned
    /\ ~RoomFull
    /\ nextPlayerIdx < MaxJoins
    /\ HelloEntry(s)
    /\ spawned' = spawned \cup {s}
    /\ netId' = [netId EXCEPT ![s] = NewPlayerId]
    /\ nextPlayerIdx' = nextPlayerIdx + 1
    /\ told' = [t \in Sessions |-> IF t = s THEN told[s] \cup Replay
                                   ELSE IF t \in registered THEN told[t] \cup {NewPlayerId}
                                   ELSE told[t]]
    /\ UNCHANGED <<lapsed, phase, lastSeq, applied, worldVars, clock, sceneNetIds, serverTick>>

\* The room is full: no welcome, but the session is (or becomes) registered.
HelloRefused(s) ==
    /\ phase = "net"
    /\ s \notin spawned
    /\ RoomFull
    /\ HelloEntry(s)
    /\ UNCHANGED <<phase, spawned, netId, lastSeq, applied, nextPlayerIdx,
                   worldVars, clock, sceneNetIds, serverTick, audienceVars>>

StaleFault(s, seq) == FALSE
Stale(s, seq) == seq < lastSeq[s]

\* InputCommand; accepted before the session has a player, too.
OnInput(s, seq) ==
    /\ phase = "net"
    /\ s \in registered
    /\ ~Stale(s, seq)
    /\ lastSeq' = [lastSeq EXCEPT ![s] = seq]
    /\ idle' = [idle EXCEPT ![s] = 0]
    /\ UNCHANGED <<phase, registered, spawned, netId, applied, nextPlayerIdx,
                   worldVars, clock, sceneNetIds, serverTick, audienceVars>>

\* Everything that only refreshes lastActive: a stale input, a hello of another
\* protocol version or of a session that plays already, a server-authored type.
OnOtherMessage(s) ==
    /\ phase = "net"
    /\ idle' = [idle EXCEPT ![s] = Refreshed(s)]
    /\ UNCHANGED <<phase, registered, spawned, netId, lastSeq, applied, nextPlayerIdx,
                   worldVars, clock, sceneNetIds, serverTick, audienceVars>>

----------------------------------------------------------------------------
(* tick(): sweep, fold inputs, step physics                                *)

Aged(n) == IF n > IdleTimeout THEN n ELSE n + 1

\* Sessions whose silence exceeds the timeout once this tick's dt is added.
DeadFault == {s \in spawned : Aged(idle[s]) > IdleTimeout}
Dead == {s \in registered : Aged(idle[s]) > IdleTimeout}

\* The input sequence each surviving player is driven by in this tick.
Folded(s) == lastSeq[s]

BeginTick ==
    /\ phase = "net"
    /\ phase' = "scripts"
    /\ clock' = Aged(clock)
    /\ Erase(Dead)
    /\ told' = AfterLeave(registered \ Dead, Leavers(Dead))
    /\ lapsed' = lapsed \cup Dead
    /\ idle' = [s \in Sessions |-> IF s \in registered \ Dead THEN Aged(idle[s]) ELSE 0]
    /\ applied' = [s \in Sessions |-> IF s \in spawned \ Dead THEN Folded(s) ELSE 0]
    /\ UNCHANGED <<worldVars, sceneNetIds, serverTick>>

----------------------------------------------------------------------------
(* tick(): what scripts may do while they run                              *)

\* Bodies the population cap counts: players and dynamic bodies.
Population == Cardinality(Live) + Cardinality(spawned)

UnnamedBodies == {h \in Handles : body[h] = Unnamed}

\* ScriptHost::builtinSpawn; refused at the cap.
ScriptSpawn(h) ==
    /\ phase \in ScriptPhases
    /\ Population < BodyCap
    /\ nextSpawnNetId + Cardinality(UnnamedBodies) < MaxSpawns
    /\ h \notin Live /\ \A g \in Handles \ Live : h <= g
    /\ body' = [body EXCEPT ![h] = Unnamed]
    /\ UNCHANGED <<phase, sessionVars, clock, sceneNetIds, serverTick, audienceVars, nextSpawnNetId,
                   spawnedObjects, pendingDespawns, pendingExplosions, resetRequested>>

\* onNetIdDestroyed: ids the observer queues when a body dies outside a reset
\* (a body without a NetId is not observed, a player is left to PlayerLeave).
Observed(n) == IsSceneId(n) \/ IsSpawnId(n)

\* ScriptHost::builtinDestroy of a body that is not a player.
ScriptDestroy(h) ==
    /\ phase \in ScriptPhases
    /\ h \in Live
    /\ body' = [body EXCEPT ![h] = NoBody]
    /\ pendingDespawns' = IF Observed(body[h]) THEN pendingDespawns \cup {body[h]}
                          ELSE pendingDespawns
    /\ UNCHANGED <<phase, sessionVars, clock, sceneNetIds, serverTick, audienceVars, nextSpawnNetId,
                   spawnedObjects, pendingExplosions, resetRequested>>

\* self_explode(): the explosion observer queues the blast.
ScriptExplode ==
    /\ phase \in ScriptPhases
    /\ pendingExplosions < MaxBlasts
    /\ pendingExplosions' = pendingExplosions + 1
    /\ UNCHANGED <<phase, sessionVars, clock, sceneNetIds, serverTick, audienceVars, nextSpawnNetId,
                   body, spawnedObjects, pendingDespawns, resetRequested>>

\* reset_scene(): acted on once the scripts of this tick have run.
ScriptRequestReset ==
    /\ phase \in ScriptPhases
    /\ resetRequested' = TRUE
    /\ UNCHANGED <<phase, sessionVars, clock, sceneNetIds, serverTick, audienceVars, nextSpawnNetId,
                   body, spawnedObjects, pendingDespawns, pendingExplosions>>

----------------------------------------------------------------------------
(* tick(): applyPendingReset                                               *)

\* assignSceneNetIds(false): the reloaded bodies in load order (the order of
\* their climbing Identity.id) get the recorded ids in that order.
RebuiltBody(h) ==
    IF h > SceneSize THEN NoBody
    ELSE IF h <= Len(sceneNetIds) THEN sceneNetIds[h] ELSE Unnamed

\* Inside the reset window a scene body's destruction is not announced.
ObservedInReset(n) == ~IsSceneId(n) /\ Observed(n)

SpawnCounterAfterResetFault == 0
SpawnCounterAfterReset == nextSpawnNetId

ApplyReset ==
    /\ phase = "scripts"
    /\ resetRequested
    /\ resetRequested' = FALSE
    /\ body' = [h \in Handles |-> RebuiltBody(h)]
    /\ pendingDespawns' = pendingDespawns \cup {n \in BodyIds : ObservedInReset(n)}
    /\ nextSpawnNetId' = SpawnCounterAfterReset
    /\ phase' = "start"
    /\ UNCHANGED <<sessionVars, clock, sceneNetIds, serverTick, audienceVars,
                   spawnedObjects, pendingExplosions>>

\* No reset was asked for, or the on-start scripts of a reset have run.
EndScripts ==
    /\ \/ phase = "scripts" /\ ~resetRequested
       \/ phase = "start"
    /\ phase' = "announce"
    /\ UNCHANGED <<sessionVars, worldVars, clock, sceneNetIds, serverTick, audienceVars>>

----------------------------------------------------------------------------
(* tick(): announce spawns, then blasts, then despawns                     *)

NewSpawnId == SpawnBase + nextSpawnNetId

\* One turn of the loop in detectAndAnnounceSpawns.
AnnounceSpawn(h) ==
    /\ phase = "announce"
    /\ body[h] = Unnamed
    /\ body' = [body EXCEPT ![h] = NewSpawnId]
    /\ nextSpawnNetId' = nextSpawnNetId + 1
    /\ spawnedObjects' = spawnedObjects \cup {NewSpawnId}
    /\ told' = [t \in Sessions |-> IF t \in spawned THEN told[t] \cup {NewSpawnId} ELSE told[t]]
    /\ UNCHANGED <<lapsed, phase, sessionVars, clock, sceneNetIds, serverTick,
                   pendingDespawns, pendingExplosions, resetRequested>>

EndAnnounce ==
    /\ phase = "announce"
    /\ UnnamedBodies = {}
    /\ phase' = "explode"
    /\ UNCHANGED <<sessionVars, worldVars, clock, sceneNetIds, serverTick, audienceVars>>

FlushExplosions ==
    /\ phase = "explode"
    /\ phase' = "despawn"
    /\ pendingExplosions' = 0
    /\ UNCHANGED <<sessionVars, clock, sceneNetIds, serverTick, audienceVars, nextSpawnNetId, body,
                   spawnedObjects, pendingDespawns, resetRequested>>

\* What stays on the replay list once the queued despawns are sent.
StillReplayedFault == spawnedObjects
StillReplayed == spawnedObjects \ pendingDespawns

FlushDespawns ==
    /\ phase = "despawn"
    /\ phase' = "snapshot"
    /\ spawnedObjects' = StillReplayed
    /\ told' = [t \in Sessions |-> IF t \in spawned THEN told[t] \ pendingDespawns ELSE told[t]]
    /\ pendingDespawns' = {}
    /\ UNCHANGED <<lapsed, sessionVars, clock, sceneNetIds, serverTick, nextSpawnNetId, body,
                   pendingExplosions, resetRequested>>

\* buildSnapshot and the broadcast every SnapDivisor ticks: to each spawned
\* session the ids in SnapshotIds, acknowledging lastSeq.
SnapshotIds == LiveIds
SnapshotDue == (serverTick + 1) % SnapDivisor = 0

SendSnapshots ==
    /\ phase = "snapshot"
    /\ phase' = "net"
    /\ serverTick' = (serverTick + 1) % SnapDivisor
    /\ UNCHANGED <<sessionVars, worldVars, clock, sceneNetIds, audienceVars>>

----------------------------------------------------------------------------

Net ==
    \E s \in Sessions :
        \/ OnConnect(s)
        \/ OnDisconnect(s)
        \/ HelloAccepted(s)
        \/ HelloRefused(s)
        \/ \E seq \in 1..MaxSeq : OnInput(s, seq)
        \/ OnOtherMessage(s)

Scripts ==
    \/ \E h \in Handles : ScriptSpawn(h) \/ ScriptDestroy(h)
    \/ ScriptExplode
    \/ ScriptRequestReset

\* The steps tick() takes by itself, whatever scripts and clients do.
Tick ==
    \/ BeginTick
    \/ ApplyReset
    \/ EndScripts
    \/ \E h \in Handles : AnnounceSpawn(h)
    \/ EndAnnounce
    \/ FlushExplosions
    \/ FlushDespawns
    \/ SendSnapshots

Next == Net \/ Scripts \/ Tick

Spec == Init /\ [][Next]_vars

\* The main loop drains what has arrived and then always runs the due ticks, and
\* a script call is cut off by the interpreter's step and time budget, so a tick
\* that is due is never put off for ever.
Fairness == WF_vars(Tick)
FairSpec == Spec /\ Fairness

----------------------------------------------------------------------------
(* Properties                                                              *)

\* Every variable stays in its range.
TypeOK ==
    /\ phase \in Phases
    /\ registered \subseteq Sessions /\ spawned \subseteq registered
    /\ netId \in [Sessions -> Nat]
    /\ idle \in [Sessions -> 0..(IdleTimeout + 1)]
    /\ lastSeq \in [Sessions -> 0..MaxSeq]
    /\ applied \in [Sessions -> 0..MaxSeq]
    /\ clock \in 0..(IdleTimeout + 1)
    /\ nextPlayerIdx \in 0..MaxJoins
    /\ nextSpawnNetId \in Nat
    /\ body \in [Handles -> Nat \cup {NoBody}]
    /\ sceneNetIds \in Seq(Nat)
    /\ spawnedObjects \subseteq Nat
    /\ pendingDespawns \subseteq Nat
    /\ pendingExplosions \in 0..MaxBlasts
    /\ resetRequested \in BOOLEAN
    /\ serverTick \in 0..(SnapDivisor - 1)
    /\ told \in [Sessions -> SUBSET Nat] /\ lapsed \subseteq Sessions

\* No two live entities ever carry the same NetId, whatever scripts spawn,
\* destroy and reset: a snapshot entry names one body (GameServer.cpp 185-222,
\* 340, 439).
NetIdsUnique ==
    /\ \A g, h \in Handles : g # h /\ body[g] > 0 => body[g] # body[h]
    /\ \A s, t \in spawned : s # t => netId[s] # netId[t]
    /\ BodyIds \cap PlayerIds = {}

\* The roster a client was told of is the roster of the room: a player knows all
\* the others, and no session knows of anybody who has left (onConnect,
\* onDisconnect, onMessage, sweep) -- unless it was swept before its hello, in
\* which case it missed leaves and keeps what it knew.
RosterAgrees ==
    /\ \A s \in registered \ lapsed : \A n \in told[s] :
          IsPlayerId(n) => \E t \in spawned \ {s} : netId[t] = n
    /\ \A s \in spawned : \A t \in spawned \ {s} : netId[t] \in told[s]

\* Between ticks a player of the room knows every spawned object that lives,
\* whenever it joined, and none that is gone; and the replay list is that same
\* set (broadcast, late-join replay and despawn flush agree).
SpawnsAgree ==
    phase = "net" =>
        /\ spawnedObjects = {n \in BodyIds : IsSpawnId(n)}
        /\ \A s \in spawned : spawnedObjects \subseteq told[s]
        /\ \A s \in spawned \ lapsed : \A n \in told[s] : IsSpawnId(n) => n \in spawnedObjects

\* A player is never driven by an input older than one it was driven by before,
\* though inputs may arrive late or twice (onMessage 376-380).
InputNeverGoesBack ==
    [][\A s \in spawned \cap spawned' :
          netId'[s] = netId[s] => applied'[s] >= applied[s]]_vars

\* An id newly given to a player or a spawned object is one that no client has a
\* representation for, so no client mistakes the newcomer for something that is
\* gone (nextPlayerIdx_, nextSpawnNetId_, across resets).
FreshIdIsUnknown ==
    [][\A n \in LiveIds' \ LiveIds :
          n >= PlayerBase => \A t \in Sessions : n \notin told[t]]_vars

\* A session that falls silent does not stay: again and again each session has
\* either just spoken or is out of the table (sweepIdleSessions 531-556).
SilentSessionLeaves ==
    \A s \in Sessions : []<>(s \notin registered \/ idle[s] = 0)

----------------------------------------------------------------------------
(* The inductive invariant behind NetIdsUnique, RosterAgrees, SpawnsAgree  *)
(* and FreshIdIsUnknown                                                    *)

\* Ids come from the two counters and the scene's list, each in its own range.
AllocationInv ==
    /\ \A s \in Sessions : s \in spawned <=> netId[s] # 0
    /\ \A s \in spawned : PlayerBase <= netId[s] /\ netId[s] < NewPlayerId
    /\ \A s, t \in spawned : s # t => netId[s] # netId[t]
    /\ \A h \in Handles : body[h] > 0 =>
          IsSceneId(body[h]) \/ (IsSpawnId(body[h]) /\ body[h] < NewSpawnId)
    /\ \A g, h \in Handles : g # h /\ body[g] > 0 => body[g] # body[h]
    /\ \A i \in DOMAIN sceneNetIds : IsSceneId(sceneNetIds[i])
    /\ \A i, j \in DOMAIN sceneNetIds : i # j => sceneNetIds[i] # sceneNetIds[j]

\* The replay list holds the announced bodies that live and those whose despawn
\* is queued; nothing is queued between ticks.
ReplayInv ==
    /\ spawnedObjects = {n \in BodyIds \cup pendingDespawns : IsSpawnId(n)}
    /\ \A n \in pendingDespawns : IsSpawnId(n) => n \notin BodyIds /\ n < NewSpawnId
    /\ \A n \in pendingDespawns : IsSceneId(n) \/ IsSpawnId(n)
    /\ phase \in {"net", "snapshot"} => pendingDespawns = {}

\* A client has been told of all of the replay list and, if it never lapsed, of
\* nothing else; whatever it was ever told of came from the two counters.
AudienceInv ==
    /\ \A s \in spawned : spawnedObjects \subseteq told[s]
    /\ \A s \in spawned \ lapsed : \A n \in told[s] : IsSpawnId(n) => n \in spawnedObjects
    /\ \A s \in Sessions \ (spawned \cup lapsed) : \A n \in told[s] : ~IsSpawnId(n)
    /\ \A s \in Sessions \ (registered \cup lapsed) : \A n \in told[s] : ~IsPlayerId(n)
    /\ \A s \in Sessions : \A n \in told[s] : n < NewSpawnId /\ (IsPlayerId(n) => n < NewPlayerId)
    /\ RosterAgrees

IInv == TypeOK /\ AllocationInv /\ ReplayInv /\ AudienceInv

----------------------------------------------------------------------------
(* What comments of the code promise                                       *)

\* "any traffic keeps the session alive" (GameServer.cpp 310): a session whose
\* hello has just been accepted counts as having spoken.
TrafficKeepsAlive ==
    [][\A s \in Sessions : s \in spawned' \ spawned => idle'[s] = 0]_vars

\* "the client's representation stays valid the whole way through" a reset
\* (GameServer.cpp 471-475): a player of the room has a representation for every
\* scene body that lives.
SceneBodiesKnown ==
    phase = "net" => \A s \in spawned : \A n \in BodyIds : IsSceneId(n) => n \in told[s]
=============================================================================
