------------------------- MODULE ReplicationProofs -------------------------
(***************************************************************************)
(* Proofs about GameServer and then Replication, for any number of         *)
(* sessions and clients.  A room with its browsers is a GameServer, so     *)
(* what the first part shows of the server holds of it in the system,      *)
(* whatever the network does; and what a client settles on, once it has    *)
(* applied the messages that are on their way to it, is what the server    *)
(* has told it (SystemInv).                                                *)
(*                                                                         *)
(* AfterAll is recursive.  The facts about it are proved from the least    *)
(* place at which they would fail.                                         *)
(***************************************************************************)
EXTENDS Replication, FiniteSetTheorems, SequenceTheorems, TLAPS

-----------------------------------------------------------------------------
(* The server: type correctness                                            *)

LEMMA InitTypeOK == Init => TypeOK
<1> SUFFICES ASSUME Init PROVE TypeOK
  OBVIOUS
<1> USE BasesAssumption, LimitsAssumption
<1>1. sceneNetIds \in Seq(Nat)
  <2>1. SceneSize + BootSpawns \in Nat
    OBVIOUS
  <2>2. sceneNetIds \in [1..(SceneSize + BootSpawns) -> Nat]
    BY DEF Init
  <2>. QED  BY <2>1, <2>2
<1>2. body \in [Handles -> Nat \cup {NoBody}]
  BY DEF Init, Handles, NoBody
<1>3. FileIds \subseteq Nat
  BY DEF FileIds
<1>. QED  BY <1>1, <1>2, <1>3 DEF Init, TypeOK, Phases

\* The remainder that serverTick is kept as stays below the divisor.
LEMMA TickInRange == \A n \in Nat : (n + 1) % SnapDivisor \in 0..(SnapDivisor - 1)
BY LimitsAssumption

LEMMA EraseType ==
    ASSUME TypeOK, NEW gone \in SUBSET registered, Erase(gone)
    PROVE  /\ registered' \subseteq Sessions /\ spawned' \subseteq registered'
           /\ netId' \in [Sessions -> Nat]
           /\ lastSeq' \in [Sessions -> 0..MaxSeq]
           /\ nextPlayerIdx' \in 0..MaxJoins
BY LimitsAssumption DEF TypeOK, Erase

LEMMA AfterLeaveType ==
    ASSUME TypeOK, NEW stay, NEW gone
    PROVE  AfterLeave(stay, gone) \in [Sessions -> SUBSET Nat]
BY DEF TypeOK, AfterLeave

LEMMA NextTypeOK == TypeOK /\ [Next]_vars => TypeOK'
<1> SUFFICES ASSUME TypeOK, [Next]_vars PROVE TypeOK'
  OBVIOUS
<1> USE BasesAssumption, LimitsAssumption DEF TypeOK
<1>1. ASSUME NEW s \in Sessions, OnConnect(s) PROVE TypeOK'
  <2>1. told' \in [Sessions -> SUBSET Nat] /\ lapsed' \subseteq Sessions
    <3>1. FileIds \subseteq Nat
      BY DEF FileIds
    <3>. QED  BY <1>1, <3>1 DEF OnConnect, audienceVars
  <2>2. /\ registered' = registered \cup {s} /\ idle' = [idle EXCEPT ![s] = 0]
        /\ UNCHANGED <<phase, spawned, netId, lastSeq, applied, nextPlayerIdx,
                       worldVars, clock, sceneNetIds, serverTick>>
    BY <1>1 DEF OnConnect
  <2>. QED  BY <2>1, <2>2 DEF worldVars
<1>2. ASSUME NEW s \in Sessions, OnDisconnect(s) PROVE TypeOK'
  <2>1. {s} \in SUBSET registered
    BY <1>2 DEF OnDisconnect
  <2>2. Erase({s})
    BY <1>2 DEF OnDisconnect
  <2>3. /\ registered' \subseteq Sessions /\ spawned' \subseteq registered'
        /\ netId' \in [Sessions -> Nat]
        /\ lastSeq' \in [Sessions -> 0..MaxSeq]
        /\ nextPlayerIdx' \in 0..MaxJoins
    BY <2>1, <2>2, EraseType
  <2>4. idle' \in [Sessions -> 0..(IdleTimeout + 1)] /\ applied' \in [Sessions -> 0..MaxSeq]
    BY <1>2 DEF OnDisconnect
  <2>5. told' \in [Sessions -> SUBSET Nat] /\ lapsed' \subseteq Sessions
    BY <1>2, AfterLeaveType DEF OnDisconnect, FileIds
  <2>. QED  BY <1>2, <2>3, <2>4, <2>5 DEF OnDisconnect, worldVars
<1>3. ASSUME NEW s \in Sessions, HelloAccepted(s) PROVE TypeOK'
  <2>1. NewPlayerId \in Nat
    BY DEF NewPlayerId
  <2>2. PlayerIds \subseteq Nat
    BY DEF PlayerIds
  <2>3. Replay \in SUBSET Nat
    BY <2>2 DEF Replay
  <2>4. told' \in [Sessions -> SUBSET Nat]
    BY <1>3, <2>1, <2>3 DEF HelloAccepted
  <2>. QED  BY <1>3, <2>1, <2>4 DEF HelloAccepted, HelloEntry, worldVars
<1>4. ASSUME NEW s \in Sessions, HelloRefused(s) PROVE TypeOK'
  BY <1>4 DEF HelloRefused, HelloEntry, worldVars, audienceVars
<1>5. ASSUME NEW s \in Sessions, NEW seq \in 1..MaxSeq, OnInput(s, seq) PROVE TypeOK'
  BY <1>5 DEF OnInput, worldVars, audienceVars
<1>6. ASSUME NEW s \in Sessions, OnOtherMessage(s) PROVE TypeOK'
  BY <1>6 DEF OnOtherMessage, Refreshed, worldVars, audienceVars
<1>7. ASSUME NEW h \in Handles, ScriptSpawn(h) PROVE TypeOK'
  BY <1>7 DEF ScriptSpawn, sessionVars, audienceVars, Unnamed
<1>8. ASSUME NEW h \in Handles, ScriptDestroy(h) PROVE TypeOK'
  BY <1>8 DEF ScriptDestroy, sessionVars, audienceVars, Live, NoBody
<1>9. CASE ScriptExplode
  BY <1>9 DEF ScriptExplode, sessionVars, audienceVars
<1>10. CASE ScriptRequestReset
  BY <1>10 DEF ScriptRequestReset, sessionVars, audienceVars
<1>11. CASE BeginTick
  <2>1. Dead \in SUBSET registered
    BY DEF Dead
  <2>2. \A n \in 0..(IdleTimeout + 1) : Aged(n) \in 0..(IdleTimeout + 1)
    BY DEF Aged
  <2>3. /\ idle' \in [Sessions -> 0..(IdleTimeout + 1)]
        /\ applied' \in [Sessions -> 0..MaxSeq]
        /\ clock' \in 0..(IdleTimeout + 1)
    BY <1>11, <2>2 DEF BeginTick, Folded
  <2>4. told' \in [Sessions -> SUBSET Nat] /\ lapsed' \subseteq Sessions
    BY <1>11, <2>1, AfterLeaveType DEF BeginTick
  <2>. QED  BY <1>11, <2>1, <2>3, <2>4, EraseType DEF BeginTick, worldVars, Phases
<1>12. CASE ApplyReset
  <2>1. body' \in [Handles -> Nat \cup {NoBody}]
    BY <1>12 DEF ApplyReset, RebuiltBody, Handles, NoBody, Unnamed
  <2>2. BodyIds \subseteq Nat
    BY DEF BodyIds, NoBody
  <2>. QED  BY <1>12, <2>1, <2>2 DEF ApplyReset, SpawnCounterAfterReset, sessionVars, audienceVars, Phases
<1>13. CASE EndScripts
  BY <1>13 DEF EndScripts, sessionVars, audienceVars, worldVars, Phases
<1>14. ASSUME NEW h \in Handles, AnnounceSpawn(h) PROVE TypeOK'
  <2>1. NewSpawnId \in Nat
    BY DEF NewSpawnId
  <2>. QED  BY <1>14, <2>1 DEF AnnounceSpawn, sessionVars, audienceVars
<1>15. CASE EndAnnounce
  BY <1>15 DEF EndAnnounce, sessionVars, audienceVars, worldVars, Phases
<1>16. CASE FlushExplosions
  BY <1>16 DEF FlushExplosions, sessionVars, audienceVars, Phases
<1>17. CASE FlushDespawns
  BY <1>17 DEF FlushDespawns, StillReplayed, sessionVars, audienceVars, Phases
<1>18. CASE SendSnapshots
  <2>1. serverTick' \in 0..(SnapDivisor - 1)
    BY <1>18, TickInRange DEF SendSnapshots
  <2>. QED  BY <1>18, <2>1 DEF SendSnapshots, sessionVars, audienceVars, worldVars, Phases
<1>19. CASE UNCHANGED vars
  BY <1>19 DEF vars, sessionVars, audienceVars, worldVars
<1>. QED
  BY <1>1, <1>2, <1>3, <1>4, <1>5, <1>6, <1>7, <1>8, <1>9, <1>10, <1>11, <1>12, <1>13,
     <1>14, <1>15, <1>16, <1>17, <1>18, <1>19 DEF Next, Net, Scripts, Tick

\* In every reachable state each variable is in the range TypeOK gives it.
THEOREM TypeCorrect == Spec => []TypeOK
BY InitTypeOK, NextTypeOK, PTL DEF Spec

----------------------------------------------------------------------------
(* Allocation of net ids                                                   *)

LEMMA InitAllocation == Init => AllocationInv
<1> SUFFICES ASSUME Init PROVE AllocationInv
  OBVIOUS
<1>1. DOMAIN sceneNetIds = 1..(SceneSize + BootSpawns)
  BY DEF Init
<1>2. \A i \in DOMAIN sceneNetIds : sceneNetIds[i] = i /\ IsSceneId(i)
  BY <1>1, BasesAssumption DEF Init, IsSceneId
<1>3. \A h \in Handles : body[h] > 0 => body[h] = h /\ IsSceneId(body[h])
  BY BasesAssumption, LimitsAssumption DEF Init, Handles, NoBody, IsSceneId
<1>4. /\ \A s \in Sessions : s \in spawned <=> netId[s] # 0
      /\ spawned = {}
  BY DEF Init
<1>5. \A g, h \in Handles : g # h /\ body[g] > 0 => body[g] # body[h]
  BY BasesAssumption, LimitsAssumption DEF Init, Handles, NoBody
<1>. QED  BY <1>2, <1>3, <1>4, <1>5 DEF AllocationInv

\* A step that leaves the session table and the bodies alone keeps AllocationInv.
LEMMA AllocationFrame ==
    AllocationInv /\ UNCHANGED <<spawned, netId, nextPlayerIdx, body, sceneNetIds, nextSpawnNetId>>
        => AllocationInv'
BY DEF AllocationInv, NewPlayerId, NewSpawnId

LEMMA AllocationErase ==
    ASSUME TypeOK, AllocationInv, NEW gone \in SUBSET registered, Erase(gone),
           UNCHANGED <<body, sceneNetIds, nextSpawnNetId>>
    PROVE  AllocationInv'
<1>1. \A s \in Sessions : s \in spawned' <=> netId'[s] # 0
  BY DEF TypeOK, AllocationInv, Erase
<1>2. \A s \in spawned' : s \in spawned /\ netId'[s] = netId[s]
  BY DEF TypeOK, Erase
<1>. QED  BY <1>1, <1>2 DEF AllocationInv, Erase, NewPlayerId, NewSpawnId

LEMMA NextAllocation == TypeOK /\ AllocationInv /\ [Next]_vars => AllocationInv'
<1> SUFFICES ASSUME TypeOK, AllocationInv, [Next]_vars PROVE AllocationInv'
  OBVIOUS
<1> USE BasesAssumption, LimitsAssumption
<1>1. ASSUME NEW s \in Sessions,
             OnConnect(s) \/ HelloRefused(s) \/ OnOtherMessage(s) PROVE AllocationInv'
  BY <1>1, AllocationFrame DEF OnConnect, HelloRefused, OnOtherMessage, worldVars
<1>2. ASSUME NEW s \in Sessions, NEW seq \in 1..MaxSeq, OnInput(s, seq) PROVE AllocationInv'
  BY <1>2, AllocationFrame DEF OnInput, worldVars
<1>3. ASSUME NEW s \in Sessions, OnDisconnect(s) PROVE AllocationInv'
  BY <1>3, AllocationErase DEF OnDisconnect, worldVars
<1>4. ASSUME NEW s \in Sessions, HelloAccepted(s) PROVE AllocationInv'
  <2>1. /\ nextPlayerIdx \in Nat /\ NewPlayerId \in Nat /\ NewPlayerId > 0
        /\ NewPlayerId' = NewPlayerId + 1
    BY <1>4 DEF TypeOK, NewPlayerId, HelloAccepted
  <2>2. /\ spawned' = spawned \cup {s} /\ s \notin spawned
        /\ netId'[s] = NewPlayerId
        /\ \A t \in Sessions \ {s} : netId'[t] = netId[t]
    BY <1>4 DEF TypeOK, HelloAccepted
  <2>3. \A t \in Sessions : t \in spawned' <=> netId'[t] # 0
    BY <2>1, <2>2 DEF AllocationInv
  <2>4. \A t \in spawned : t \in Sessions \ {s} /\ netId[t] \in Nat
                           /\ PlayerBase <= netId[t] /\ netId[t] < NewPlayerId
    BY <2>2 DEF AllocationInv, TypeOK
  <2>5. PlayerBase <= NewPlayerId
    BY <2>1 DEF NewPlayerId
  <2>6. \A t \in spawned' : PlayerBase <= netId'[t] /\ netId'[t] < NewPlayerId'
    BY <2>1, <2>2, <2>4, <2>5
  <2>7. \A t, u \in spawned' : t # u => netId'[t] # netId'[u]
    BY <2>1, <2>2, <2>4 DEF AllocationInv
  <2>8. UNCHANGED <<body, sceneNetIds, nextSpawnNetId>>
    BY <1>4 DEF HelloAccepted, worldVars
  <2>. QED  BY <2>3, <2>6, <2>7, <2>8 DEF AllocationInv, NewSpawnId
<1>5. CASE BeginTick
  <2>1. Dead \in SUBSET registered
    BY DEF Dead
  <2>. QED  BY <1>5, <2>1, AllocationErase DEF BeginTick, worldVars
<1>6. ASSUME NEW h \in Handles, NEW n \in {Unnamed, NoBody},
             body' = [body EXCEPT ![h] = n],
             UNCHANGED <<spawned, netId, nextPlayerIdx, sceneNetIds, nextSpawnNetId>>
      PROVE  AllocationInv'
  <2>1. \A g \in Handles : body'[g] > 0 => g # h /\ body'[g] = body[g]
    BY <1>6 DEF TypeOK, Unnamed, NoBody
  <2>2. \A f, g \in Handles : f # g /\ body'[f] > 0 => body'[f] # body'[g]
    <3> SUFFICES ASSUME NEW f \in Handles, NEW g \in Handles, f # g, body'[f] > 0
                 PROVE  body'[f] # body'[g]
      OBVIOUS
    <3>1. CASE g = h
      BY <1>6, <2>1, <3>1 DEF TypeOK, Unnamed, NoBody
    <3>2. CASE g # h
      BY <1>6, <2>1, <3>2 DEF TypeOK, AllocationInv
    <3>. QED  BY <3>1, <3>2
  <2>. QED  BY <1>6, <2>1, <2>2 DEF AllocationInv, NewPlayerId, NewSpawnId
<1>7. ASSUME NEW h \in Handles, ScriptSpawn(h) \/ ScriptDestroy(h) PROVE AllocationInv'
  BY <1>6, <1>7 DEF ScriptSpawn, ScriptDestroy, sessionVars
<1>8. CASE ScriptExplode \/ ScriptRequestReset \/ EndScripts
  BY <1>8, AllocationFrame DEF ScriptExplode, ScriptRequestReset, EndScripts, sessionVars, worldVars
<1>9. CASE ApplyReset
  <2>1. \A h \in Handles : body'[h] > 0 =>
            h \in DOMAIN sceneNetIds /\ body'[h] = sceneNetIds[h]
    <3>1. /\ DOMAIN sceneNetIds = 1..Len(sceneNetIds) /\ Len(sceneNetIds) \in Nat
          /\ \A h \in Handles : h \in Nat /\ h >= 1
      BY DEF Handles, TypeOK
    <3>2. \A h \in Handles : body'[h] = RebuiltBody(h)
      BY <1>9 DEF ApplyReset
    <3>. QED  BY <3>1, <3>2 DEF RebuiltBody, NoBody, Unnamed
  <2>2. /\ \A g, h \in Handles : g # h /\ body'[g] > 0 => body'[g] # body'[h]
        /\ \A h \in Handles : body'[h] > 0 => IsSceneId(body'[h])
    <3>1. \A g, h \in Handles : body'[g] = body'[h] /\ body'[g] > 0 => body'[h] > 0
      OBVIOUS
    <3>. QED  BY <2>1, <3>1 DEF AllocationInv
  <2>3. UNCHANGED <<spawned, netId, nextPlayerIdx, sceneNetIds, nextSpawnNetId>>
    BY <1>9 DEF ApplyReset, SpawnCounterAfterReset, sessionVars
  <2>. QED  BY <2>2, <2>3 DEF AllocationInv, NewPlayerId
<1>10. ASSUME NEW h \in Handles, AnnounceSpawn(h) PROVE AllocationInv'
  <2>1. NewSpawnId \in Nat /\ NewSpawnId' = NewSpawnId + 1 /\ IsSpawnId(NewSpawnId)
    BY <1>10 DEF AnnounceSpawn, NewSpawnId, IsSpawnId, TypeOK
  <2>2. /\ body'[h] = NewSpawnId
        /\ \A g \in Handles \ {h} : body'[g] = body[g]
    BY <1>10 DEF AnnounceSpawn, TypeOK
  <2>3. \A g \in Handles : body[g] > 0 => body[g] # NewSpawnId
    <3> SUFFICES ASSUME NEW g \in Handles, body[g] > 0 PROVE body[g] # NewSpawnId
      OBVIOUS
    <3>1. body[g] \in Nat
      BY DEF TypeOK, NoBody
    <3>2. IsSceneId(body[g]) \/ body[g] < NewSpawnId
      BY DEF AllocationInv
    <3>3. NewSpawnId >= SpawnBase /\ PlayerBase <= SpawnBase
      BY <2>1 DEF IsSpawnId
    <3>. QED  BY <2>1, <3>1, <3>2, <3>3 DEF IsSceneId
  <2>4. \A f, g \in Handles : f # g /\ body'[f] > 0 => body'[f] # body'[g]
    <3> SUFFICES ASSUME NEW f \in Handles, NEW g \in Handles, f # g, body'[f] > 0
                 PROVE  body'[f] # body'[g]
      OBVIOUS
    <3>1. CASE f = h
      BY <2>1, <2>2, <2>3, <3>1 DEF TypeOK, NoBody
    <3>2. CASE g = h
      BY <2>1, <2>2, <2>3, <3>2 DEF TypeOK, NoBody
    <3>3. CASE f # h /\ g # h
      BY <2>2, <3>3 DEF AllocationInv
    <3>. QED  BY <3>1, <3>2, <3>3
  <2>5. \A g \in Handles : body'[g] > 0 =>
            IsSceneId(body'[g]) \/ (IsSpawnId(body'[g]) /\ body'[g] < NewSpawnId')
    <3> SUFFICES ASSUME NEW g \in Handles, body'[g] > 0
                 PROVE  \/ IsSceneId(body'[g])
                        \/ IsSpawnId(body'[g]) /\ body'[g] < NewSpawnId'
      OBVIOUS
    <3>1. CASE g = h
      BY <2>1, <2>2, <3>1
    <3>2. CASE g # h
      <4>1. body'[g] = body[g] /\ body[g] \in Nat
        BY <2>2, <3>2 DEF TypeOK, NoBody
      <4>2. IsSceneId(body[g]) \/ (IsSpawnId(body[g]) /\ body[g] < NewSpawnId)
        BY <4>1 DEF AllocationInv
      <4>. QED  BY <2>1, <4>1, <4>2
    <3>. QED  BY <3>1, <3>2
  <2>6. UNCHANGED <<spawned, netId, nextPlayerIdx, sceneNetIds>>
    BY <1>10 DEF AnnounceSpawn, sessionVars
  <2>. QED  BY <2>4, <2>5, <2>6 DEF AllocationInv, NewPlayerId
<1>11. CASE EndAnnounce \/ FlushExplosions \/ FlushDespawns \/ SendSnapshots
  BY <1>11, AllocationFrame
     DEF EndAnnounce, FlushExplosions, FlushDespawns, SendSnapshots, sessionVars, worldVars
<1>12. CASE UNCHANGED vars
  BY <1>12, AllocationFrame DEF vars, sessionVars, worldVars
<1>. QED
  BY <1>1, <1>2, <1>3, <1>4, <1>5, <1>7, <1>8, <1>9, <1>10, <1>11, <1>12
     DEF Next, Net, Scripts, Tick
----------------------------------------------------------------------------
(* The late-join replay list                                               *)

\* The three ranges of ids do not meet.
LEMMA RangesDisjoint ==
    \A n \in Nat : /\ ~(IsSceneId(n) /\ IsPlayerId(n))
                   /\ ~(IsSceneId(n) /\ IsSpawnId(n))
                   /\ ~(IsPlayerId(n) /\ IsSpawnId(n))
BY BasesAssumption DEF IsSceneId, IsPlayerId, IsSpawnId

LEMMA InitReplay == Init => ReplayInv
<1> SUFFICES ASSUME Init PROVE ReplayInv
  OBVIOUS
<1>1. \A n \in BodyIds : ~IsSpawnId(n)
  BY BasesAssumption, LimitsAssumption DEF Init, BodyIds, Handles, NoBody, IsSpawnId
<1>. QED  BY <1>1 DEF Init, ReplayInv

\* A step that leaves the bodies and the lists alone keeps ReplayInv.
LEMMA ReplayFrame ==
    /\ ReplayInv
    /\ UNCHANGED <<body, spawnedObjects, pendingDespawns, nextSpawnNetId>>
    /\ phase' \in {"net", "snapshot"} => phase \in {"net", "snapshot"}
    => ReplayInv'
BY DEF ReplayInv, BodyIds, NewSpawnId

LEMMA NextReplay == TypeOK /\ AllocationInv /\ ReplayInv /\ [Next]_vars => ReplayInv'
<1> SUFFICES ASSUME TypeOK, AllocationInv, ReplayInv, [Next]_vars PROVE ReplayInv'
  OBVIOUS
<1> USE BasesAssumption, LimitsAssumption
<1>1. CASE Net
  <2>1. UNCHANGED <<phase, worldVars>>
    BY <1>1 DEF Net, OnConnect, OnDisconnect, HelloAccepted, HelloRefused, OnInput, OnOtherMessage
  <2>. QED  BY <2>1, ReplayFrame DEF worldVars
<1>2. CASE \/ BeginTick \/ EndScripts \/ EndAnnounce \/ FlushExplosions \/ SendSnapshots
           \/ ScriptExplode \/ ScriptRequestReset \/ UNCHANGED vars
  BY <1>2, ReplayFrame
     DEF BeginTick, EndScripts, EndAnnounce, FlushExplosions, SendSnapshots, ScriptExplode,
         ScriptRequestReset, vars, worldVars
<1>3. ASSUME NEW h \in Handles, ScriptSpawn(h) PROVE ReplayInv'
  <2>1. body[h] = NoBody /\ body' = [body EXCEPT ![h] = Unnamed]
    BY <1>3 DEF ScriptSpawn, Live
  <2>2. BodyIds' = BodyIds
    BY <2>1 DEF BodyIds, TypeOK, NoBody, Unnamed
  <2>3. /\ UNCHANGED <<spawnedObjects, pendingDespawns, nextSpawnNetId, phase>>
    BY <1>3 DEF ScriptSpawn
  <2>. QED  BY <2>2, <2>3 DEF ReplayInv, NewSpawnId
<1>4. ASSUME NEW h \in Handles, ScriptDestroy(h) PROVE ReplayInv'
  <2>1. /\ body' = [body EXCEPT ![h] = NoBody]
        /\ UNCHANGED <<spawnedObjects, nextSpawnNetId, phase>>
        /\ phase \in ScriptPhases
    BY <1>4 DEF ScriptDestroy
  <2>2. BodyIds' = BodyIds \ {body[h]}
    <3>1. \A g \in Handles : body'[g] > 0 <=> g # h /\ body[g] > 0
      BY <2>1 DEF TypeOK, NoBody
    <3>2. \A g \in Handles \ {h} : body'[g] = body[g]
      BY <2>1 DEF TypeOK
    <3>3. \A g \in Handles \ {h} : body[g] > 0 => body[g] # body[h]
      BY DEF AllocationInv
    <3>. QED  BY <3>1, <3>2, <3>3 DEF BodyIds
  <2>3. CASE body[h] > 0
    <3>1. body[h] \in BodyIds /\ body[h] \in Nat
      BY <2>3 DEF BodyIds, TypeOK, NoBody
    <3>2. IsSceneId(body[h]) \/ (IsSpawnId(body[h]) /\ body[h] < NewSpawnId)
      BY <2>3 DEF AllocationInv
    <3>3. pendingDespawns' = pendingDespawns \cup {body[h]}
      BY <1>4, <3>2 DEF ScriptDestroy, Observed
    <3>4. phase' \notin {"net", "snapshot"} /\ NewSpawnId' = NewSpawnId
      BY <2>1 DEF ScriptPhases, NewSpawnId
    <3>5. spawnedObjects' = {n \in BodyIds' \cup pendingDespawns' : IsSpawnId(n)}
      BY <2>1, <2>2, <3>1, <3>3 DEF ReplayInv
    <3>6. \A n \in pendingDespawns' : IsSpawnId(n) => n \notin BodyIds' /\ n < NewSpawnId'
      <4>1. IsSpawnId(body[h]) => body[h] < NewSpawnId
        BY <3>1, <3>2, RangesDisjoint
      <4>. QED  BY <2>2, <3>3, <3>4, <4>1 DEF ReplayInv
    <3>7. \A n \in pendingDespawns' : IsSceneId(n) \/ IsSpawnId(n)
      BY <3>2, <3>3 DEF ReplayInv
    <3>. QED  BY <3>4, <3>5, <3>6, <3>7 DEF ReplayInv
  <2>4. CASE ~(body[h] > 0)
    <3>1. body[h] \notin BodyIds /\ ~Observed(body[h])
      <4>1. body[h] \notin BodyIds
        BY <2>4 DEF BodyIds
      <4>2. body[h] \in Nat \cup {-1}
        BY DEF TypeOK, NoBody
      <4>. QED  BY <2>4, <4>1, <4>2 DEF Observed, IsSceneId, IsSpawnId
    <3>2. UNCHANGED <<BodyIds, pendingDespawns>>
      BY <1>4, <2>2, <3>1 DEF ScriptDestroy
    <3>. QED  BY <2>1, <3>2 DEF ReplayInv, NewSpawnId
  <2>. QED  BY <2>3, <2>4
<1>5. CASE ApplyReset
  <2>1. \A n \in BodyIds' : ~IsSpawnId(n)
    <3> SUFFICES ASSUME NEW h \in Handles, body'[h] > 0 PROVE ~IsSpawnId(body'[h])
      BY DEF BodyIds
    <3>1. h \in DOMAIN sceneNetIds /\ body'[h] = sceneNetIds[h]
      <4>1. /\ DOMAIN sceneNetIds = 1..Len(sceneNetIds) /\ Len(sceneNetIds) \in Nat
            /\ h \in Nat /\ h >= 1
        BY DEF Handles, TypeOK
      <4>2. body'[h] = RebuiltBody(h)
        BY <1>5 DEF ApplyReset
      <4>. QED  BY <4>1, <4>2 DEF RebuiltBody, NoBody, Unnamed
    <3>2. IsSceneId(sceneNetIds[h]) /\ sceneNetIds[h] \in Nat
      BY <3>1 DEF AllocationInv, TypeOK
    <3>. QED  BY <3>1, <3>2, RangesDisjoint
  <2>2. \A n \in BodyIds : /\ n \in Nat
                           /\ IsSceneId(n) \/ (IsSpawnId(n) /\ n < NewSpawnId)
    BY DEF BodyIds, AllocationInv, TypeOK, NoBody
  <2>3. pendingDespawns' = pendingDespawns \cup {n \in BodyIds : IsSpawnId(n)}
    <3>1. \A n \in BodyIds : ObservedInReset(n) <=> IsSpawnId(n)
      <4> SUFFICES ASSUME NEW n \in BodyIds PROVE ObservedInReset(n) <=> IsSpawnId(n)
        OBVIOUS
      <4>. QED  BY <2>2, RangesDisjoint DEF ObservedInReset, Observed
    <3>. QED  BY <1>5, <3>1 DEF ApplyReset
  <2>4. UNCHANGED <<spawnedObjects, nextSpawnNetId>> /\ phase' = "start"
    BY <1>5 DEF ApplyReset, SpawnCounterAfterReset
  <2>5. spawnedObjects' = {n \in BodyIds' \cup pendingDespawns' : IsSpawnId(n)}
    BY <2>1, <2>3, <2>4 DEF ReplayInv
  <2>6. \A n \in pendingDespawns' : IsSpawnId(n) => n \notin BodyIds' /\ n < NewSpawnId'
    <3> SUFFICES ASSUME NEW n \in pendingDespawns', IsSpawnId(n) PROVE n < NewSpawnId
      BY <2>1, <2>4 DEF NewSpawnId
    <3>1. CASE n \in pendingDespawns
      BY <3>1 DEF ReplayInv
    <3>2. CASE n \in BodyIds
      <4>1. n \in Nat /\ (n < NewSpawnId \/ IsSceneId(n))
        BY <2>2, <3>2
      <4>. QED  BY <4>1, RangesDisjoint
    <3>. QED  BY <2>3, <3>1, <3>2
  <2>7. \A n \in pendingDespawns' : IsSceneId(n) \/ IsSpawnId(n)
    BY <2>3 DEF ReplayInv
  <2>. QED  BY <2>4, <2>5, <2>6, <2>7 DEF ReplayInv
<1>6. ASSUME NEW h \in Handles, AnnounceSpawn(h) PROVE ReplayInv'
  <2>1. /\ NewSpawnId \in Nat /\ NewSpawnId > 0 /\ IsSpawnId(NewSpawnId)
        /\ NewSpawnId' = NewSpawnId + 1
    BY <1>6 DEF AnnounceSpawn, NewSpawnId, IsSpawnId, TypeOK
  <2>2. BodyIds' = BodyIds \cup {NewSpawnId}
    <3>1. body'[h] = NewSpawnId /\ \A g \in Handles \ {h} : body'[g] = body[g]
      BY <1>6 DEF AnnounceSpawn, TypeOK
    <3>2. ~(body[h] > 0)
      BY <1>6 DEF AnnounceSpawn, Unnamed
    <3>. QED  BY <2>1, <3>1, <3>2 DEF BodyIds
  <2>3. /\ spawnedObjects' = spawnedObjects \cup {NewSpawnId}
        /\ pendingDespawns' = pendingDespawns
        /\ phase' = "announce"
    BY <1>6 DEF AnnounceSpawn
  <2>4. spawnedObjects' = {n \in BodyIds' \cup pendingDespawns' : IsSpawnId(n)}
    BY <2>1, <2>2, <2>3 DEF ReplayInv
  <2>5. \A n \in pendingDespawns' : IsSpawnId(n) => n \notin BodyIds' /\ n < NewSpawnId'
    <3> SUFFICES ASSUME NEW n \in pendingDespawns, IsSpawnId(n)
                 PROVE  n \notin BodyIds' /\ n < NewSpawnId'
      BY <2>3
    <3>1. n \in Nat /\ n \notin BodyIds /\ n < NewSpawnId
      BY DEF TypeOK, ReplayInv
    <3>. QED  BY <2>1, <2>2, <3>1
  <2>. QED  BY <2>3, <2>4, <2>5 DEF ReplayInv
<1>7. CASE FlushDespawns
  <2>1. /\ spawnedObjects' = spawnedObjects \ pendingDespawns
        /\ pendingDespawns' = {}
        /\ UNCHANGED <<body, nextSpawnNetId>>
    BY <1>7 DEF FlushDespawns, StillReplayed
  <2>2. BodyIds' = BodyIds
    BY <2>1 DEF BodyIds
  <2>. QED  BY <2>1, <2>2 DEF ReplayInv
<1>. QED  BY <1>1, <1>2, <1>3, <1>4, <1>5, <1>6, <1>7 DEF Next, Scripts, Tick
----------------------------------------------------------------------------
(* What the clients have been told                                         *)

\* The scene file's ids are neither players' nor spawned objects'.
LEMMA FileIdsRange ==
    \A n \in FileIds : n \in Nat /\ ~IsSpawnId(n) /\ ~IsPlayerId(n) /\ n < SpawnBase
BY BasesAssumption DEF FileIds, IsSpawnId, IsPlayerId

LEMMA InitAudience == Init => AudienceInv
<1> SUFFICES ASSUME Init PROVE AudienceInv
  OBVIOUS
<1>1. \A s \in Sessions : told[s] = FileIds
  BY DEF Init
<1>2. NewSpawnId = SpawnBase
  BY BasesAssumption DEF Init, NewSpawnId
<1>3. spawned = {} /\ registered = {}
  BY DEF Init
<1>. QED  BY <1>1, <1>2, <1>3, FileIdsRange DEF AudienceInv, RosterAgrees

\* A step that sends nothing and leaves the session table alone keeps AudienceInv.
LEMMA AudienceFrame ==
    /\ AudienceInv
    /\ UNCHANGED <<told, lapsed, registered, spawned, netId, spawnedObjects,
                   nextSpawnNetId, nextPlayerIdx>>
    => AudienceInv'
BY DEF AudienceInv, RosterAgrees, NewSpawnId, NewPlayerId

\* Ids of players lie in the players' range.
LEMMA PlayerIdsInRange ==
    ASSUME TypeOK, AllocationInv
    PROVE  /\ \A s \in spawned : netId[s] \in Nat /\ IsPlayerId(netId[s])
           /\ \A s \in Sessions \ spawned : netId[s] = 0
           /\ NewPlayerId \in Nat
           /\ nextPlayerIdx < MaxJoins => IsPlayerId(NewPlayerId)
<1> USE BasesAssumption
<1>1. nextPlayerIdx \in Nat /\ nextPlayerIdx <= MaxJoins
  BY DEF TypeOK
<1>2. NewPlayerId \in Nat /\ NewPlayerId <= SpawnBase
  BY <1>1 DEF NewPlayerId
<1>3. nextPlayerIdx < MaxJoins => IsPlayerId(NewPlayerId)
  BY <1>1 DEF NewPlayerId, IsPlayerId
<1>4. ASSUME NEW s \in spawned PROVE netId[s] \in Nat /\ IsPlayerId(netId[s])
  <2>1. netId[s] \in Nat /\ PlayerBase <= netId[s] /\ netId[s] < NewPlayerId
    BY DEF TypeOK, AllocationInv
  <2>. QED  BY <1>2, <2>1 DEF IsPlayerId
<1>5. \A s \in Sessions \ spawned : netId[s] = 0
  BY DEF AllocationInv
<1>. QED  BY <1>2, <1>3, <1>4, <1>5

\* A session that is new to the table: either it knows the scene file only, or it
\* keeps what it knew and is known to have lapsed.
LEMMA AudienceRegister ==
    ASSUME TypeOK, AudienceInv, NEW s \in Sessions,
           registered' = registered \cup {s},
           \A t \in Sessions \ {s} : told'[t] = told[t] /\ (t \in lapsed' <=> t \in lapsed),
           \/ told'[s] = told[s] /\ (s \in lapsed' <=> s \in lapsed)
           \/ told'[s] = FileIds /\ s \notin registered,
           UNCHANGED <<spawned, netId, spawnedObjects, nextSpawnNetId, nextPlayerIdx>>
    PROVE  AudienceInv'
<1>1. spawned \subseteq registered /\ registered \subseteq Sessions
  BY DEF TypeOK
<1>2. NewSpawnId' = NewSpawnId /\ NewPlayerId' = NewPlayerId /\ SpawnBase <= NewSpawnId
      /\ NewSpawnId \in Nat
  BY BasesAssumption DEF NewSpawnId, NewPlayerId, TypeOK
<1>3. \A t \in spawned : told'[t] = told[t] /\ (t \in lapsed' <=> t \in lapsed)
  BY <1>1
<1>4. \A t \in Sessions : \/ told'[t] = told[t] /\ (t \in lapsed' <=> t \in lapsed)
                         \/ told'[t] = FileIds
  OBVIOUS
<1>5. \A n \in FileIds : n < NewSpawnId
  BY <1>2, FileIdsRange, BasesAssumption
<1>6. \A t \in Sessions : \A n \in told'[t] :
          n < NewSpawnId' /\ (IsPlayerId(n) => n < NewPlayerId')
  BY <1>2, <1>4, <1>5, FileIdsRange DEF AudienceInv
<1>7. \A t \in registered' \ lapsed' : \A n \in told'[t] :
          IsPlayerId(n) => \E u \in spawned \ {t} : netId[u] = n
  <2> SUFFICES ASSUME NEW t \in registered' \ lapsed', NEW n \in told'[t], IsPlayerId(n)
               PROVE  \E u \in spawned \ {t} : netId[u] = n
    OBVIOUS
  <2>1. t \in Sessions /\ told'[t] = told[t] /\ t \notin lapsed
    BY <1>1, <1>4, FileIdsRange
  <2>2. t \in registered
    BY <2>1 DEF AudienceInv
  <2>. QED  BY <2>1, <2>2 DEF AudienceInv, RosterAgrees
<1>8. \A t \in spawned : \A u \in spawned \ {t} : netId[u] \in told'[t]
  BY <1>3 DEF AudienceInv, RosterAgrees
<1>9. RosterAgrees'
  BY <1>7, <1>8 DEF RosterAgrees
<1>10. \A t \in Sessions \ (spawned' \cup lapsed') : \A n \in told'[t] : ~IsSpawnId(n)
  BY <1>4, FileIdsRange DEF AudienceInv
<1>11. \A t \in Sessions \ (registered' \cup lapsed') : \A n \in told'[t] : ~IsPlayerId(n)
  BY <1>4, FileIdsRange DEF AudienceInv
<1>. QED  BY <1>3, <1>6, <1>9, <1>10, <1>11 DEF AudienceInv

\* A leave, by disconnect or by idle sweep, keeps AudienceInv: the id that is
\* withdrawn is that of no remaining player and of no spawned object.
LEMMA AudienceErase ==
    ASSUME TypeOK, AllocationInv, ReplayInv, AudienceInv, NEW gone \in SUBSET registered,
           Erase(gone), UNCHANGED <<spawnedObjects, nextSpawnNetId>>,
           \A t \in Sessions \ gone : t \in lapsed' <=> t \in lapsed,
           \A t \in registered \ gone : told'[t] = told[t] \ Leavers(gone),
           \A t \in Sessions \ registered : told'[t] = told[t],
           \A t \in gone : told'[t] = FileIds \/ (t \in lapsed' /\ told'[t] = told[t])
    PROVE  AudienceInv'
<1> DEFINE left == Leavers(gone)
<1>1. /\ registered' = registered \ gone /\ spawned' = spawned \ gone
      /\ \A t \in spawned' : netId'[t] = netId[t]
      /\ registered' \subseteq Sessions /\ spawned' \subseteq registered'
      /\ gone \subseteq Sessions /\ spawned \subseteq registered
  BY DEF Erase, TypeOK
<1>2. NewSpawnId' = NewSpawnId /\ NewPlayerId' = NewPlayerId /\ SpawnBase <= NewSpawnId
      /\ NewSpawnId \in Nat
  BY BasesAssumption DEF Erase, NewSpawnId, NewPlayerId, TypeOK
<1>3. \A n \in left : ~IsSpawnId(n)
  <2> SUFFICES ASSUME NEW g \in gone PROVE ~IsSpawnId(netId[g])
    BY DEF Leavers
  <2>1. g \in Sessions
    BY <1>1
  <2>2. CASE g \in spawned
    <3>1. netId[g] \in Nat /\ IsPlayerId(netId[g])
      BY <2>2, PlayerIdsInRange
    <3>. QED  BY <3>1, RangesDisjoint
  <2>3. CASE g \notin spawned
    <3>1. netId[g] = 0
      BY <2>1, <2>3, PlayerIdsInRange
    <3>. QED  BY <3>1, BasesAssumption DEF IsSpawnId
  <2>. QED  BY <2>2, <2>3
<1>4. \A t \in spawned' : netId[t] \notin left
  <2> SUFFICES ASSUME NEW t \in spawned', NEW g \in gone PROVE netId[t] # netId[g]
    BY DEF Leavers
  <2>1. t \in spawned /\ t # g /\ netId[t] # 0 /\ g \in Sessions
    BY <1>1 DEF AllocationInv, TypeOK
  <2>2. CASE g \in spawned
    BY <2>1, <2>2 DEF AllocationInv
  <2>3. CASE g \notin spawned
    BY <2>1, <2>3 DEF AllocationInv
  <2>. QED  BY <2>2, <2>3
<1>5. \A t \in spawned' : spawnedObjects' \subseteq told'[t]
  <2> SUFFICES ASSUME NEW t \in spawned', NEW n \in spawnedObjects PROVE n \in told'[t]
    OBVIOUS
  <2>1. t \in spawned /\ t \in registered \ gone /\ n \in told[t]
    BY <1>1 DEF AudienceInv
  <2>2. told'[t] = told[t] \ left
    BY <2>1
  <2>3. CASE IsSpawnId(n)
    BY <1>3, <2>1, <2>2, <2>3
  <2>4. CASE ~IsSpawnId(n)
    BY <2>4 DEF ReplayInv
  <2>. QED  BY <2>3, <2>4
<1>6. \A t \in spawned' \ lapsed' : \A n \in told'[t] : IsSpawnId(n) => n \in spawnedObjects'
  BY <1>1 DEF AudienceInv
<1>7. \A t \in Sessions : \A n \in told'[t] : n \in told[t] \/ n \in FileIds
  OBVIOUS
<1>8. \A t \in Sessions \ (spawned' \cup lapsed') : \A n \in told'[t] : ~IsSpawnId(n)
  <2> SUFFICES ASSUME NEW t \in Sessions \ (spawned' \cup lapsed'), NEW n \in told'[t]
               PROVE  ~IsSpawnId(n)
    OBVIOUS
  <2>1. CASE t \in gone
    BY <2>1, FileIdsRange
  <2>2. CASE t \notin gone
    <3>1. t \in Sessions \ (spawned \cup lapsed) /\ n \in told[t]
      BY <1>1, <2>2
    <3>. QED  BY <3>1 DEF AudienceInv
  <2>. QED  BY <2>1, <2>2
<1>9. \A t \in Sessions \ (registered' \cup lapsed') : \A n \in told'[t] : ~IsPlayerId(n)
  <2> SUFFICES ASSUME NEW t \in Sessions \ (registered' \cup lapsed'), NEW n \in told'[t]
               PROVE  ~IsPlayerId(n)
    OBVIOUS
  <2>1. CASE t \in gone
    BY <2>1, FileIdsRange
  <2>2. CASE t \notin gone
    <3>1. t \in Sessions \ (registered \cup lapsed) /\ n \in told[t]
      BY <1>1, <2>2
    <3>. QED  BY <3>1 DEF AudienceInv
  <2>. QED  BY <2>1, <2>2
<1>10. \A t \in Sessions : \A n \in told'[t] :
          n < NewSpawnId' /\ (IsPlayerId(n) => n < NewPlayerId')
  <2>1. \A n \in FileIds : n < NewSpawnId
    BY <1>2, FileIdsRange, BasesAssumption
  <2>. QED  BY <1>2, <1>7, <2>1, FileIdsRange DEF AudienceInv
<1>11. \A s \in registered' \ lapsed' : \A n \in told'[s] :
          IsPlayerId(n) => \E t \in spawned' \ {s} : netId'[t] = n
  <2> SUFFICES ASSUME NEW s \in registered' \ lapsed', NEW n \in told'[s], IsPlayerId(n)
               PROVE  \E t \in spawned' \ {s} : netId'[t] = n
    OBVIOUS
  <2>1. s \in registered \ gone /\ s \notin lapsed /\ n \in told[s] /\ n \notin left
    BY <1>1
  <2>2. PICK t \in spawned \ {s} : netId[t] = n
    BY <2>1 DEF AudienceInv, RosterAgrees
  <2>3. t \notin gone
    BY <2>1, <2>2 DEF Leavers
  <2>. QED  BY <1>1, <2>2, <2>3
<1>12. \A s \in spawned' : \A t \in spawned' \ {s} : netId'[t] \in told'[s]
  BY <1>1, <1>4 DEF AudienceInv, RosterAgrees
<1>13. RosterAgrees'
  BY <1>11, <1>12 DEF RosterAgrees
<1>. QED  BY <1>5, <1>6, <1>8, <1>9, <1>10, <1>13 DEF AudienceInv
\* A join: the newcomer is told of the players and of the replay list, everybody
\* else of the newcomer.
LEMMA AudienceJoin ==
    ASSUME TypeOK, AllocationInv, ReplayInv, AudienceInv,
           NEW s \in Sessions, HelloAccepted(s)
    PROVE  AudienceInv'
<1>1. /\ s \notin spawned /\ spawned' = spawned \cup {s} /\ registered' = registered \cup {s}
      /\ netId'[s] = NewPlayerId /\ \A t \in Sessions \ {s} : netId'[t] = netId[t]
      /\ spawnedObjects' = spawnedObjects /\ lapsed' = lapsed
      /\ spawned \subseteq Sessions /\ registered \subseteq Sessions
      /\ spawned \subseteq registered
      /\ NewPlayerId' = NewPlayerId + 1 /\ NewSpawnId' = NewSpawnId
  BY BasesAssumption DEF HelloAccepted, HelloEntry, TypeOK, worldVars, NewPlayerId, NewSpawnId
<1>2. /\ told'[s] = told[s] \cup PlayerIds \cup spawnedObjects
      /\ \A t \in registered \ {s} : told'[t] = told[t] \cup {NewPlayerId}
      /\ \A t \in (Sessions \ registered) \ {s} : told'[t] = told[t]
  BY DEF HelloAccepted, Replay, TypeOK
<1>3. /\ IsPlayerId(NewPlayerId) /\ ~IsSpawnId(NewPlayerId) /\ NewPlayerId \in Nat
      /\ NewPlayerId < NewSpawnId
  <2>1. IsPlayerId(NewPlayerId) /\ NewPlayerId \in Nat
    BY PlayerIdsInRange DEF HelloAccepted
  <2>2. NewSpawnId \in Nat /\ SpawnBase <= NewSpawnId
    BY BasesAssumption DEF NewSpawnId, TypeOK
  <2>. QED  BY <2>1, <2>2, RangesDisjoint, BasesAssumption DEF IsPlayerId
<1>4. \A n \in PlayerIds : IsPlayerId(n) /\ ~IsSpawnId(n) /\ n < NewPlayerId /\ n \in Nat
  <2> SUFFICES ASSUME NEW t \in spawned
               PROVE  /\ IsPlayerId(netId[t]) /\ ~IsSpawnId(netId[t])
                      /\ netId[t] < NewPlayerId /\ netId[t] \in Nat
    BY DEF PlayerIds
  <2>1. IsPlayerId(netId[t]) /\ netId[t] \in Nat
    BY PlayerIdsInRange
  <2>. QED  BY <2>1, RangesDisjoint DEF AllocationInv
<1>5. \A n \in spawnedObjects : n \in Nat /\ IsSpawnId(n) /\ ~IsPlayerId(n) /\ n < NewSpawnId
  <2> SUFFICES ASSUME NEW n \in spawnedObjects
               PROVE  n \in Nat /\ IsSpawnId(n) /\ ~IsPlayerId(n) /\ n < NewSpawnId
    OBVIOUS
  <2>1. n \in Nat /\ IsSpawnId(n) /\ n \in BodyIds \cup pendingDespawns
    BY DEF ReplayInv, TypeOK
  <2>2. ~IsPlayerId(n) /\ ~IsSceneId(n)
    BY <2>1, RangesDisjoint
  <2>3. n < NewSpawnId
    BY <2>1, <2>2 DEF ReplayInv, AllocationInv, BodyIds
  <2>. QED  BY <2>1, <2>2, <2>3
<1>6. \A t \in spawned' : spawnedObjects' \subseteq told'[t]
  BY <1>1, <1>2 DEF AudienceInv
<1>7. \A t \in spawned' \ lapsed' : \A n \in told'[t] : IsSpawnId(n) => n \in spawnedObjects'
  <2> SUFFICES ASSUME NEW t \in spawned' \ lapsed', NEW n \in told'[t], IsSpawnId(n)
               PROVE  n \in spawnedObjects
    BY <1>1
  <2>1. CASE t = s
    BY <1>1, <1>2, <1>4, <2>1 DEF AudienceInv
  <2>2. CASE t # s
    BY <1>1, <1>2, <1>3, <2>2 DEF AudienceInv
  <2>. QED  BY <2>1, <2>2
<1>8. \A t \in Sessions \ (spawned' \cup lapsed') : \A n \in told'[t] : ~IsSpawnId(n)
  BY <1>1, <1>2, <1>3 DEF AudienceInv
<1>9. \A t \in Sessions \ (registered' \cup lapsed') : \A n \in told'[t] : ~IsPlayerId(n)
  BY <1>1, <1>2 DEF AudienceInv
<1>10. \A t \in Sessions : \A n \in told'[t] :
          n < NewSpawnId' /\ (IsPlayerId(n) => n < NewPlayerId')
  <2> SUFFICES ASSUME NEW t \in Sessions, NEW n \in told'[t]
               PROVE  n < NewSpawnId /\ (IsPlayerId(n) => n < NewPlayerId + 1)
    BY <1>1
  <2>1. CASE n \in told[t]
    <3>1. n \in Nat /\ n < NewSpawnId /\ (IsPlayerId(n) => n < NewPlayerId)
      BY <2>1 DEF AudienceInv, TypeOK
    <3>. QED  BY <1>3, <3>1
  <2>2. CASE n \in PlayerIds
    BY <1>3, <1>4, <2>2, BasesAssumption DEF NewSpawnId, TypeOK
  <2>3. CASE n \in spawnedObjects
    BY <1>5, <2>3
  <2>4. CASE n = NewPlayerId
    BY <1>3, <2>4
  <2>. QED  BY <1>2, <2>1, <2>2, <2>3, <2>4
<1>11. \A t \in registered' \ lapsed' : \A n \in told'[t] :
          IsPlayerId(n) => \E u \in spawned' \ {t} : netId'[u] = n
  <2> SUFFICES ASSUME NEW t \in registered' \ lapsed', NEW n \in told'[t], IsPlayerId(n)
               PROVE  \E u \in spawned' \ {t} : netId'[u] = n
    OBVIOUS
  <2>1. CASE t = s
    <3>1. n \in told[s] \/ n \in PlayerIds
      BY <1>2, <1>5, <2>1
    <3>2. n \in told[s] => s \in registered
      BY <1>1, <2>1 DEF AudienceInv
    <3>3. \E u \in spawned \ {s} : netId[u] = n
      BY <1>1, <2>1, <3>1, <3>2 DEF PlayerIds, AudienceInv, RosterAgrees
    <3>. QED  BY <1>1, <2>1, <3>3
  <2>2. CASE t # s /\ n = NewPlayerId
    BY <1>1, <2>2
  <2>3. CASE t # s /\ n # NewPlayerId
    <3>1. t \in registered \ lapsed /\ n \in told[t]
      BY <1>1, <1>2, <2>3
    <3>2. \E u \in spawned \ {t} : netId[u] = n
      BY <3>1 DEF AudienceInv, RosterAgrees
    <3>. QED  BY <1>1, <3>2
  <2>. QED  BY <2>1, <2>2, <2>3
<1>12. \A t \in spawned' : \A u \in spawned' \ {t} : netId'[u] \in told'[t]
  <2> SUFFICES ASSUME NEW t \in spawned', NEW u \in spawned' \ {t}
               PROVE  netId'[u] \in told'[t]
    OBVIOUS
  <2>1. CASE t = s
    BY <1>1, <1>2, <2>1 DEF PlayerIds
  <2>2. CASE t # s /\ u = s
    BY <1>1, <1>2, <2>2
  <2>3. CASE t # s /\ u # s
    <3>1. netId[u] \in told[t]
      BY <1>1, <2>3 DEF AudienceInv, RosterAgrees
    <3>. QED  BY <1>1, <1>2, <2>3, <3>1
  <2>. QED  BY <2>1, <2>2, <2>3
<1>13. RosterAgrees'
  BY <1>11, <1>12 DEF RosterAgrees
<1>. QED  BY <1>6, <1>7, <1>8, <1>9, <1>10, <1>13 DEF AudienceInv

\* A spawn is announced to every player.
LEMMA AudienceAnnounce ==
    ASSUME TypeOK, AudienceInv, NEW h \in Handles, AnnounceSpawn(h)
    PROVE  AudienceInv'
<1>1. NewSpawnId \in Nat /\ IsSpawnId(NewSpawnId) /\ ~IsPlayerId(NewSpawnId)
  <2>1. NewSpawnId \in Nat /\ IsSpawnId(NewSpawnId)
    BY BasesAssumption DEF NewSpawnId, IsSpawnId, TypeOK
  <2>. QED  BY <2>1, RangesDisjoint
<1>2. /\ UNCHANGED <<registered, spawned, netId, lapsed>>
      /\ spawnedObjects' = spawnedObjects \cup {NewSpawnId}
      /\ spawned \subseteq Sessions /\ spawned \subseteq registered /\ registered \subseteq Sessions
      /\ NewSpawnId' = NewSpawnId + 1 /\ NewPlayerId' = NewPlayerId
  BY BasesAssumption DEF AnnounceSpawn, sessionVars, TypeOK, NewSpawnId, NewPlayerId
<1>3. /\ \A t \in spawned : told'[t] = told[t] \cup {NewSpawnId}
      /\ \A t \in Sessions \ spawned : told'[t] = told[t]
  BY DEF AnnounceSpawn, TypeOK
<1>4. \A t \in Sessions : \A n \in told'[t] :
          n < NewSpawnId' /\ (IsPlayerId(n) => n < NewPlayerId')
  <2> SUFFICES ASSUME NEW t \in Sessions, NEW n \in told'[t]
               PROVE  n < NewSpawnId + 1 /\ (IsPlayerId(n) => n < NewPlayerId)
    BY <1>2
  <2>1. CASE n \in told[t]
    <3>1. n \in Nat /\ n < NewSpawnId /\ (IsPlayerId(n) => n < NewPlayerId)
      BY <2>1 DEF AudienceInv, TypeOK
    <3>. QED  BY <1>1, <3>1
  <2>2. CASE n = NewSpawnId
    BY <1>1, <2>2
  <2>. QED  BY <1>3, <2>1, <2>2
<1>5. RosterAgrees'
  BY <1>1, <1>2, <1>3 DEF AudienceInv, RosterAgrees
<1>. QED  BY <1>2, <1>3, <1>4, <1>5 DEF AudienceInv

\* The despawn flush takes from the replay list what it takes from every player.
LEMMA AudienceFlush ==
    ASSUME TypeOK, AllocationInv, ReplayInv, AudienceInv, FlushDespawns
    PROVE  AudienceInv'
<1>1. /\ UNCHANGED <<registered, spawned, netId, lapsed>>
      /\ spawnedObjects' = spawnedObjects \ pendingDespawns
      /\ spawned \subseteq Sessions /\ spawned \subseteq registered /\ registered \subseteq Sessions
      /\ NewSpawnId' = NewSpawnId /\ NewPlayerId' = NewPlayerId
  BY DEF FlushDespawns, StillReplayed, sessionVars, TypeOK, NewSpawnId, NewPlayerId
<1>2. /\ \A t \in spawned : told'[t] = told[t] \ pendingDespawns
      /\ \A t \in Sessions \ spawned : told'[t] = told[t]
  BY DEF FlushDespawns, TypeOK
<1>3. \A s \in spawned : netId[s] \notin pendingDespawns
  <2> SUFFICES ASSUME NEW s \in spawned PROVE netId[s] \notin pendingDespawns
    OBVIOUS
  <2>1. netId[s] \in Nat /\ IsPlayerId(netId[s])
    BY PlayerIdsInRange
  <2>2. ~IsSceneId(netId[s]) /\ ~IsSpawnId(netId[s])
    BY <2>1, RangesDisjoint
  <2>. QED  BY <2>2 DEF ReplayInv
<1>4. \A t \in Sessions : told'[t] \subseteq told[t]
  BY <1>2
<1>5. RosterAgrees'
  BY <1>1, <1>2, <1>3, <1>4 DEF AudienceInv, RosterAgrees
<1>. QED  BY <1>1, <1>2, <1>4, <1>5 DEF AudienceInv

LEMMA NextAudience ==
    TypeOK /\ AllocationInv /\ ReplayInv /\ AudienceInv /\ [Next]_vars => AudienceInv'
<1> SUFFICES ASSUME TypeOK, AllocationInv, ReplayInv, AudienceInv, [Next]_vars
             PROVE  AudienceInv'
  OBVIOUS
<1>1. ASSUME NEW s \in Sessions, OnConnect(s) PROVE AudienceInv'
  <2>1. /\ registered' = registered \cup {s}
        /\ UNCHANGED <<spawned, netId, spawnedObjects, nextSpawnNetId, nextPlayerIdx>>
    BY <1>1 DEF OnConnect, worldVars
  <2>2. /\ \A t \in Sessions \ {s} : told'[t] = told[t] /\ (t \in lapsed' <=> t \in lapsed)
        /\ \/ told'[s] = told[s] /\ (s \in lapsed' <=> s \in lapsed)
           \/ told'[s] = FileIds /\ s \notin registered
    BY <1>1 DEF OnConnect, audienceVars, TypeOK
  <2>. QED  BY <2>1, <2>2, AudienceRegister
<1>2. ASSUME NEW s \in Sessions, HelloRefused(s) PROVE AudienceInv'
  BY <1>2, AudienceRegister DEF HelloRefused, HelloEntry, audienceVars, worldVars
<1>3. ASSUME NEW s \in Sessions, OnDisconnect(s) PROVE AudienceInv'
  <2>1. /\ {s} \in SUBSET registered /\ Erase({s})
        /\ UNCHANGED <<spawnedObjects, nextSpawnNetId>>
        /\ \A t \in Sessions \ {s} : t \in lapsed' <=> t \in lapsed
    BY <1>3 DEF OnDisconnect, worldVars
  <2>2. /\ \A t \in registered \ {s} : told'[t] = told[t] \ Leavers({s})
        /\ \A t \in Sessions \ registered : told'[t] = told[t]
        /\ told'[s] = FileIds
    BY <1>3 DEF OnDisconnect, AfterLeave, TypeOK
  <2>. QED  BY <2>1, <2>2, AudienceErase
<1>4. ASSUME NEW s \in Sessions, HelloAccepted(s) PROVE AudienceInv'
  BY <1>4, AudienceJoin
<1>5. ASSUME NEW s \in Sessions, NEW seq \in 1..MaxSeq, OnInput(s, seq) PROVE AudienceInv'
  BY <1>5, AudienceFrame DEF OnInput, worldVars, audienceVars
<1>6. ASSUME NEW s \in Sessions, OnOtherMessage(s) PROVE AudienceInv'
  BY <1>6, AudienceFrame DEF OnOtherMessage, worldVars, audienceVars
<1>7. CASE Scripts
  BY <1>7, AudienceFrame
     DEF Scripts, ScriptSpawn, ScriptDestroy, ScriptExplode, ScriptRequestReset, sessionVars,
         audienceVars
<1>8. CASE BeginTick
  <2>1. /\ Dead \in SUBSET registered /\ Erase(Dead)
        /\ UNCHANGED <<spawnedObjects, nextSpawnNetId>>
        /\ lapsed' = lapsed \cup Dead
    BY <1>8 DEF BeginTick, Dead, worldVars
  <2>2. /\ \A t \in registered \ Dead : told'[t] = told[t] \ Leavers(Dead)
        /\ \A t \in Sessions \ (registered \ Dead) : told'[t] = told[t]
    BY <1>8 DEF BeginTick, AfterLeave, TypeOK
  <2>3. Dead \subseteq Sessions
    BY <2>1 DEF TypeOK
  <2>. QED  BY <2>1, <2>2, <2>3, AudienceErase
<1>9. CASE ApplyReset \/ EndScripts \/ EndAnnounce \/ FlushExplosions \/ SendSnapshots
           \/ UNCHANGED vars
  BY <1>9, AudienceFrame
     DEF ApplyReset, SpawnCounterAfterReset, EndScripts, EndAnnounce, FlushExplosions,
         SendSnapshots, vars, sessionVars, worldVars, audienceVars
<1>10. ASSUME NEW h \in Handles, AnnounceSpawn(h) PROVE AudienceInv'
  BY <1>10, AudienceAnnounce
<1>11. CASE FlushDespawns
  BY <1>11, AudienceFlush
<1>. QED
  BY <1>1, <1>2, <1>3, <1>4, <1>5, <1>6, <1>7, <1>8, <1>9, <1>10, <1>11 DEF Next, Net, Tick

----------------------------------------------------------------------------
(* The theorems                                                            *)

\* The inductive invariant: ids stay in their ranges and distinct, the replay
\* list follows the bodies, and every client has been told what it should know.
THEOREM Invariance == Spec => []IInv
<1>1. Init => IInv
  BY InitTypeOK, InitAllocation, InitReplay, InitAudience DEF IInv
<1>2. IInv /\ [Next]_vars => IInv'
  BY NextTypeOK, NextAllocation, NextReplay, NextAudience DEF IInv
<1>. QED  BY <1>1, <1>2, PTL DEF Spec

\* No two live entities carry the same net id (assignSceneNetIds, onMessage,
\* detectAndAnnounceSpawns), however scripts spawn, destroy and reset.
THEOREM UniqueIds == Spec => []NetIdsUnique
<1>1. IInv => NetIdsUnique
  <2> SUFFICES ASSUME IInv PROVE NetIdsUnique
    OBVIOUS
  <2>1. TypeOK /\ AllocationInv
    BY DEF IInv
  <2>2. ASSUME NEW n \in BodyIds PROVE n \notin PlayerIds
    <3>1. n \in Nat /\ (IsSceneId(n) \/ IsSpawnId(n))
      BY <2>1 DEF BodyIds, AllocationInv, TypeOK, NoBody
    <3>2. ~IsPlayerId(n)
      BY <3>1, RangesDisjoint
    <3>3. \A s \in spawned : IsPlayerId(netId[s])
      BY <2>1, PlayerIdsInRange
    <3>. QED  BY <3>2, <3>3 DEF PlayerIds
  <2>. QED  BY <2>1, <2>2 DEF AllocationInv, NetIdsUnique
<1>. QED  BY <1>1, Invariance, PTL

\* Every client's roster is the room's (joins, leaves and the idle sweep).
THEOREM RostersAgree == Spec => []RosterAgrees
<1>1. IInv => RosterAgrees
  BY DEF IInv, AudienceInv
<1>. QED  BY <1>1, Invariance, PTL

\* Between ticks each player knows exactly the spawned objects that live.
THEOREM SpawnsAgreeBetweenTicks == Spec => []SpawnsAgree
<1>1. IInv => SpawnsAgree
  BY DEF IInv, ReplayInv, AudienceInv, SpawnsAgree
<1>. QED  BY <1>1, Invariance, PTL

\* A step changes no player's id, and a new player has the next one.
LEMMA PlayersChange ==
    ASSUME TypeOK, [Next]_vars, NEW s \in spawned'
    PROVE  \/ s \in spawned /\ netId'[s] = netId[s]
           \/ netId'[s] = NewPlayerId /\ nextPlayerIdx < MaxJoins
<1>1. ASSUME NEW t \in Sessions, HelloAccepted(t)
      PROVE  \/ s \in spawned /\ netId'[s] = netId[s]
             \/ netId'[s] = NewPlayerId /\ nextPlayerIdx < MaxJoins
  BY <1>1 DEF HelloAccepted, TypeOK
<1>2. ASSUME NEW gone, Erase(gone) PROVE s \in spawned /\ netId'[s] = netId[s]
  BY <1>2 DEF Erase, TypeOK
<1>3. CASE (\E t \in Sessions : OnDisconnect(t)) \/ BeginTick
  BY <1>2, <1>3 DEF OnDisconnect, BeginTick
<1>4. CASE UNCHANGED <<spawned, netId>>
  BY <1>4
<1>. QED
  BY <1>1, <1>3, <1>4
     DEF Next, Net, Scripts, Tick, OnConnect, HelloRefused, OnInput, OnOtherMessage, ScriptSpawn,
         ScriptDestroy, ScriptExplode, ScriptRequestReset, ApplyReset, EndScripts, AnnounceSpawn,
         EndAnnounce, FlushExplosions, FlushDespawns, SendSnapshots, sessionVars, vars

\* A step gives a body no id but a scene id or the next spawn id.
LEMMA BodiesChange ==
    ASSUME TypeOK, AllocationInv, AllocationInv', [Next]_vars, NEW h \in Handles, body'[h] > 0
    PROVE  body'[h] = body[h] \/ body'[h] = NewSpawnId \/ IsSceneId(body'[h])
<1>1. ASSUME NEW g \in Handles, ScriptSpawn(g) \/ ScriptDestroy(g) PROVE body'[h] = body[h]
  <2>1. \E n \in {Unnamed, NoBody} : body' = [body EXCEPT ![g] = n]
    BY <1>1 DEF ScriptSpawn, ScriptDestroy
  <2>. QED  BY <2>1 DEF TypeOK, Unnamed, NoBody
<1>2. ASSUME NEW g \in Handles, AnnounceSpawn(g)
      PROVE  body'[h] = body[h] \/ body'[h] = NewSpawnId
  BY <1>2 DEF AnnounceSpawn, TypeOK
<1>3. CASE ApplyReset
  <2>1. body'[h] = RebuiltBody(h)
    BY <1>3 DEF ApplyReset
  <2>2. DOMAIN sceneNetIds = 1..Len(sceneNetIds) /\ Len(sceneNetIds) \in Nat
        /\ h \in Nat /\ h >= 1
    BY DEF Handles, TypeOK
  <2>3. h \in DOMAIN sceneNetIds /\ body'[h] = sceneNetIds[h]
    BY <2>1, <2>2 DEF RebuiltBody, NoBody, Unnamed
  <2>. QED  BY <2>3 DEF AllocationInv
<1>4. CASE UNCHANGED body
  BY <1>4
<1>. QED
  BY <1>1, <1>2, <1>3, <1>4
     DEF Next, Net, Scripts, Tick, OnConnect, OnDisconnect, HelloAccepted, HelloRefused, OnInput,
         OnOtherMessage, ScriptExplode, ScriptRequestReset, BeginTick, EndScripts, EndAnnounce,
         FlushExplosions, FlushDespawns, SendSnapshots, worldVars, vars

\* An id given to a new player or a new spawn is one no client knows: both
\* counters are above everything that was ever told.
THEOREM FreshIds == Spec => FreshIdIsUnknown
<1> DEFINE Fresh == \A n \in LiveIds' \ LiveIds :
                        n >= PlayerBase => \A t \in Sessions : n \notin told[t]
<1>1. IInv /\ [Next]_vars => [Fresh]_vars
  <2> SUFFICES ASSUME IInv, [Next]_vars, NEW n \in LiveIds' \ LiveIds, n >= PlayerBase,
                      NEW t \in Sessions, n \in told[t]
               PROVE  FALSE
    OBVIOUS
  <2>1. TypeOK /\ AllocationInv /\ AudienceInv /\ AllocationInv'
    BY NextAllocation DEF IInv
  <2>2. n \in Nat /\ n < NewSpawnId /\ (IsPlayerId(n) => n < NewPlayerId)
    BY <2>1 DEF AudienceInv, TypeOK
  <2>3. CASE n \in PlayerIds'
    <3>1. PICK s \in spawned' : n = netId'[s]
      BY <2>3 DEF PlayerIds
    <3>2. ~(s \in spawned /\ netId'[s] = netId[s])
      BY <3>1 DEF LiveIds, PlayerIds
    <3>3. n = NewPlayerId /\ nextPlayerIdx < MaxJoins
      BY <2>1, <3>1, <3>2, PlayersChange
    <3>4. IsPlayerId(n)
      BY <2>1, <3>3, PlayerIdsInRange
    <3>. QED  BY <2>2, <3>3, <3>4
  <2>4. CASE n \in BodyIds'
    <3>1. PICK h \in Handles : n = body'[h] /\ body'[h] > 0
      BY <2>4 DEF BodyIds
    <3>2. body'[h] # body[h]
      BY <3>1 DEF LiveIds, BodyIds
    <3>3. n = NewSpawnId \/ IsSceneId(n)
      BY <2>1, <3>1, <3>2, BodiesChange
    <3>. QED  BY <2>2, <3>3, BasesAssumption DEF IsSceneId
  <2>. QED  BY <2>3, <2>4 DEF LiveIds
<1>. QED  BY <1>1, Invariance, PTL DEF Spec, FreshIdIsUnknown

----------------------------------------------------------------------------
(* Inputs                                                                  *)

\* A player has been driven by no input that is newer than the last one received,
\* within a tick by exactly that one; a session without a player by none.
InputInv ==
    /\ \A s \in Sessions \ spawned : applied[s] = 0
    /\ \A s \in spawned : applied[s] <= lastSeq[s]
    /\ phase # "net" => \A s \in spawned : applied[s] = lastSeq[s]

LEMMA InitInput == Init => InputInv
BY DEF Init, InputInv

\* A step that leaves sessions and inputs alone and begins no tick keeps InputInv.
LEMMA InputFrame ==
    InputInv /\ UNCHANGED <<spawned, lastSeq, applied>> /\ (phase = "net" => phase' = "net")
        => InputInv'
BY DEF InputInv

LEMMA NextInput == TypeOK /\ InputInv /\ [Next]_vars => InputInv'
<1> SUFFICES ASSUME TypeOK, InputInv, [Next]_vars PROVE InputInv'
  OBVIOUS
<1>1. ASSUME NEW s \in Sessions, OnConnect(s) \/ HelloRefused(s) \/ OnOtherMessage(s)
      PROVE  InputInv'
  BY <1>1, InputFrame DEF OnConnect, HelloRefused, OnOtherMessage
<1>2. ASSUME NEW s \in Sessions, OnDisconnect(s) PROVE InputInv'
  <2>1. /\ phase' = "net" /\ spawned' = spawned \ {s}
        /\ \A t \in Sessions \ {s} : applied'[t] = applied[t] /\ lastSeq'[t] = lastSeq[t]
        /\ applied'[s] = 0
    BY <1>2 DEF OnDisconnect, Erase, TypeOK
  <2>. QED  BY <2>1 DEF InputInv, TypeOK
<1>3. ASSUME NEW s \in Sessions, HelloAccepted(s) PROVE InputInv'
  <2>1. /\ phase' = "net" /\ spawned' = spawned \cup {s}
        /\ UNCHANGED <<lastSeq, applied>> /\ s \notin spawned /\ lastSeq[s] \in 0..MaxSeq
    BY <1>3 DEF HelloAccepted, TypeOK
  <2>. QED  BY <2>1, LimitsAssumption DEF InputInv
<1>4. ASSUME NEW s \in Sessions, NEW seq \in 1..MaxSeq, OnInput(s, seq) PROVE InputInv'
  <2>1. /\ phase' = "net" /\ UNCHANGED <<spawned, applied>> /\ seq >= lastSeq[s]
        /\ lastSeq' = [lastSeq EXCEPT ![s] = seq]
        /\ spawned \subseteq Sessions /\ applied \in [Sessions -> 0..MaxSeq]
        /\ lastSeq \in [Sessions -> 0..MaxSeq]
    BY <1>4, LimitsAssumption DEF OnInput, Stale, TypeOK
  <2>. QED  BY <2>1, LimitsAssumption DEF InputInv
<1>5. CASE BeginTick
  <2>1. /\ spawned' = spawned \ Dead
        /\ \A s \in Sessions : applied'[s] = IF s \in spawned' THEN lastSeq[s] ELSE 0
        /\ \A s \in spawned' : lastSeq'[s] = lastSeq[s] /\ lastSeq[s] \in 0..MaxSeq
        /\ spawned' \subseteq Sessions
    BY <1>5 DEF BeginTick, Erase, Folded, TypeOK
  <2>. QED  BY <2>1, LimitsAssumption DEF InputInv
<1>6. CASE Scripts \/ ApplyReset \/ EndScripts \/ EndAnnounce \/ FlushExplosions \/ FlushDespawns
           \/ (\E h \in Handles : AnnounceSpawn(h)) \/ UNCHANGED vars
  BY <1>6, InputFrame
     DEF Scripts, ScriptSpawn, ScriptDestroy, ScriptExplode, ScriptRequestReset, ScriptPhases,
         ApplyReset, EndScripts, AnnounceSpawn, EndAnnounce, FlushExplosions, FlushDespawns,
         vars, sessionVars
<1>7. CASE SendSnapshots
  BY <1>7 DEF SendSnapshots, sessionVars, InputInv
<1>. QED
  BY <1>1, <1>2, <1>3, <1>4, <1>5, <1>6, <1>7 DEF Next, Net, Tick

\* The strengthening behind InputsGoForward (onMessage, sweep, tick()).
THEOREM InputInvariance == Spec => [](TypeOK /\ InputInv)
BY InitTypeOK, InitInput, NextTypeOK, NextInput, PTL DEF Spec

\* No player is driven by an older input than before (onMessage, tick()), however late and
\* however often inputs arrive and whenever sessions come and go.
THEOREM InputsGoForward == Spec => InputNeverGoesBack
<1> DEFINE Forward == \A s \in spawned \cap spawned' :
                          netId'[s] = netId[s] => applied'[s] >= applied[s]
<1>1. TypeOK /\ InputInv /\ [Next]_vars => [Forward]_vars
  <2> SUFFICES ASSUME TypeOK, InputInv, [Next]_vars, NEW s \in spawned, s \in spawned'
               PROVE  applied'[s] >= applied[s]
    OBVIOUS
  <2>1. s \in Sessions /\ applied[s] \in 0..MaxSeq /\ lastSeq[s] \in 0..MaxSeq
    BY DEF TypeOK
  <2>2. ASSUME NEW t \in Sessions, OnDisconnect(t) PROVE applied'[s] = applied[s]
    BY <2>1, <2>2 DEF OnDisconnect, Erase, TypeOK
  <2>3. CASE BeginTick
    <3>1. applied'[s] = lastSeq[s]
      BY <2>1, <2>3 DEF BeginTick, Erase, Folded
    <3>. QED  BY <2>1, <3>1, LimitsAssumption DEF InputInv
  <2>4. CASE UNCHANGED applied
    BY <2>1, <2>4, LimitsAssumption
  <2>5. \/ UNCHANGED applied \/ BeginTick
        \/ \E t \in Sessions : OnDisconnect(t)
    BY DEF Next, Net, Scripts, Tick, OnConnect, HelloAccepted, HelloRefused, OnInput,
           OnOtherMessage, ScriptSpawn, ScriptDestroy, ScriptExplode, ScriptRequestReset,
           ApplyReset, EndScripts, AnnounceSpawn, EndAnnounce, FlushExplosions, FlushDespawns,
           SendSnapshots, sessionVars, vars
  <2>. QED  BY <2>1, <2>2, <2>3, <2>4, <2>5, LimitsAssumption
<1>. QED  BY <1>1, InputInvariance, PTL DEF Spec, InputNeverGoesBack


-----------------------------------------------------------------------------
(* Runs over a stream                                                      *)

\* A set of numbers that is not empty has a least one: the induction the proofs below use.
LEMMA LeastNumber ==
    ASSUME NEW T \in SUBSET Nat, T # {}
    PROVE  \E n \in T : \A m \in T : n <= m
<1>1. PICK n \in T : \A m \in T : <<m, n>> \notin OpToRel(<, Nat)
  BY WFMin, NatLessThanWellFounded, Zenon
<1>2. \A m \in T : ~(m < n)
  BY <1>1, Zenon DEF OpToRel
<1>. QED  BY <1>2

\* f holds the states of a client c while it applies the first n messages of a stream.
IsRun(f, c, stream, n) ==
    f = [i \in 0..n |-> IF i = 0 THEN c ELSE Applied(f[i - 1], stream[i])]

\* The recursive function in AfterAll has a value at every place.
LEMMA RunExists == ASSUME NEW c, NEW stream, NEW n \in Nat PROVE \E f : IsRun(f, c, stream, n)
<1> DEFINE Bad == {k \in Nat : ~\E f : IsRun(f, c, stream, k)}
<1>1. SUFFICES ASSUME Bad # {} PROVE FALSE
  OBVIOUS
<1>2. PICK k \in Bad : \A m \in Bad : k <= m
  BY <1>1, LeastNumber
<1>3. k \in Nat /\ ~\E f : IsRun(f, c, stream, k)
  OBVIOUS
<1> HIDE DEF Bad
<1>4. CASE k = 0
  <2> DEFINE f == [i \in 0..0 |-> c]
  <2>1. IsRun(f, c, stream, 0)
     BY DEF IsRun
  <2>. QED BY <2>1, <1>3, <1>4
<1>5. CASE k # 0
  <2>1. k - 1 \in Nat /\ k - 1 \notin Bad
    BY <1>2, <1>3, <1>5
  <2>2. PICK g : IsRun(g, c, stream, k - 1)
    BY <2>1 DEF Bad
  <2> DEFINE h == [i \in 0..k |-> IF i = k THEN Applied(g[k - 1], stream[k]) ELSE g[i]]
  <2>3. \A i \in 0..(k - 1) : g[i] = IF i = 0 THEN c ELSE Applied(g[i - 1], stream[i])
    BY <2>2 DEF IsRun
  <2>5. \A i \in 0..k : h[i] = IF i = 0 THEN c ELSE Applied(h[i - 1], stream[i])
    <3> SUFFICES ASSUME NEW i \in 0..k PROVE h[i] = IF i = 0 THEN c ELSE Applied(h[i - 1], stream[i])
      OBVIOUS
    <3>1. CASE i = 0
      BY <3>1, <2>3, <1>3, <1>5
    <3>2. CASE i # 0 /\ i # k
      <4>1. i \in 0..(k-1) /\ i - 1 \in 0..k /\ i - 1 # k
        BY <3>2, <1>3
      <4>2. h[i] = g[i] /\ h[i - 1] = g[i - 1]
        BY <4>1, <3>2
      <4>. QED BY <4>1, <4>2, <2>3, <3>2
    <3>3. CASE i = k
      <4>1. h[k - 1] = g[k - 1]
         BY <1>3, <1>5
      <4>. QED BY <3>3, <1>5, <4>1
    <3>. QED BY <3>1, <3>2, <3>3
  <2>6. IsRun(h, c, stream, k)
    <3>1. h = [i \in 0..k |-> h[i]]
      OBVIOUS
    <3> HIDE DEF h
    <3>. QED  BY <2>5, <3>1 DEF IsRun
  <2>. QED  BY <2>6, <1>3
<1>. QED  BY <1>4, <1>5

\* AfterAll is where the run over its stream ends.
LEMMA AfterAllRun ==
  ASSUME NEW c, NEW stream, Len(stream) \in Nat
  PROVE  \E f : IsRun(f, c, stream, Len(stream)) /\ AfterAll(c, stream) = f[Len(stream)]
<1> DEFINE f == CHOOSE g : IsRun(g, c, stream, Len(stream))
<1>1. IsRun(f, c, stream, Len(stream))
  BY RunExists
<1>2. AfterAll(c, stream) = f[Len(stream)]
  BY DEF AfterAll, IsRun
<1>. QED BY <1>1, <1>2

\* A run that goes on as another one starts goes on as that one does.
GoesOnAs(f, c, v, n, o, g, d, w, m) ==
    /\ n \in Nat /\ m \in Nat /\ o \in Nat /\ o + m <= n
    /\ IsRun(f, c, v, n) /\ IsRun(g, d, w, m) /\ f[o] = d
    /\ \A i \in 1..m : v[o + i] = w[i]

\* ... by induction on how far the other has come.
LEMMA RunsAgree ==
    ASSUME NEW f, NEW g, NEW c, NEW d, NEW v, NEW w, NEW n, NEW m, NEW o,
           GoesOnAs(f, c, v, n, o, g, d, w, m)
    PROVE  f[o + m] = g[m]
<1> USE DEF GoesOnAs
<1> DEFINE Bad == {k \in 0..m : f[o + k] # g[k]}
<1>1. SUFFICES ASSUME Bad # {} PROVE FALSE
  <2>1. m \in 0..m
    OBVIOUS
  <2>. QED  BY <2>1
<1>2. PICK k \in Bad : \A j \in Bad : k <= j
  <2>1. Bad \in SUBSET Nat
    OBVIOUS
  <2>. QED  BY <1>1, <2>1, LeastNumber
<1>3. k \in 0..m /\ f[o + k] # g[k]
  OBVIOUS
<1>4. \A i \in 0..n : f[i] = IF i = 0 THEN c ELSE Applied(f[i - 1], v[i])
  BY DEF IsRun
<1>5. \A i \in 0..m : g[i] = IF i = 0 THEN d ELSE Applied(g[i - 1], w[i])
  BY DEF IsRun
<1>6. k # 0
  BY <1>3, <1>5
<1>7. k - 1 \in 0..m /\ k - 1 \notin Bad
  BY <1>2, <1>3, <1>6
<1>8. f[o + (k - 1)] = g[k - 1]
  BY <1>7
<1> HIDE DEF Bad
<1>9. g[k] = Applied(g[k - 1], w[k])
  BY <1>3, <1>5, <1>6
<1>10. f[o + k] = Applied(f[o + k - 1], v[o + k])
  BY <1>3, <1>4, <1>6
<1>11. o + k - 1 = o + (k - 1) /\ v[o + k] = w[k]
  BY <1>3, <1>6
<1>. QED  BY <1>3, <1>8, <1>9, <1>10, <1>11

-----------------------------------------------------------------------------
(* Streams *)

\* What processIncoming reads and writes.
Client == [joined : BOOLEAN, me : Nat, reps : SUBSET Nat]
Message == [type : {"Welcome", "Join", "Leave", "Spawn", "Despawn"}, id : Nat]
           \cup [type : {"Snapshot"}, ids : SUBSET Nat, tick : Nat]

\* Applying nothing changes nothing.
LEMMA AfterNothing == ASSUME NEW c PROVE AfterAll(c, <<>>) = c
<1>1. Len(<<>>) = 0
  OBVIOUS
<1>2. PICK f : IsRun(f, c, <<>>, 0) /\ AfterAll(c, <<>>) = f[0]
  BY <1>1, AfterAllRun
<1>. QED  BY <1>2 DEF IsRun

\* Applying one message is what processIncoming does with it.
LEMMA AfterOne == ASSUME NEW c, NEW m PROVE AfterAll(c, <<m>>) = Applied(c, m)
<1> DEFINE w == <<m>>
<1>1. Len(w) = 1 /\ w[1] = m
  OBVIOUS
<1> HIDE DEF w
<1>2. PICK f : IsRun(f, c, w, 1) /\ AfterAll(c, w) = f[1]
  <2>1. Len(w) \in Nat
    BY <1>1
  <2>2. \E f : IsRun(f, c, w, Len(w)) /\ AfterAll(c, w) = f[Len(w)]
    BY <2>1, AfterAllRun, Zenon
  <2>. QED  BY <1>1, <2>2, Zenon
<1>3. f[0] = c /\ f[1] = Applied(f[0], w[1])
  BY <1>2 DEF IsRun
<1>. QED  BY <1>1, <1>2, <1>3 DEF w

\* Applying two streams in a row is applying the one that consists of both.
LEMMA AfterBoth ==
    ASSUME NEW S, NEW c, NEW v \in Seq(S), NEW w \in Seq(S)
    PROVE  AfterAll(c, v \o w) = AfterAll(AfterAll(c, v), w)
<1> DEFINE u == v \o w
           p == Len(v)
           q == Len(w)
<1>1. /\ u \in Seq(S) /\ Len(u) = p + q /\ p \in Nat /\ q \in Nat
      /\ \A i \in 1..p : u[0 + i] = v[i]
      /\ \A i \in 1..q : u[p + i] = w[i]
  BY ConcatProperties, LenProperties
<1>2. p \in Nat /\ q \in Nat /\ p + q \in Nat /\ 0 \in Nat /\ 0 + p <= p + q /\ p + q <= p + q
  BY <1>1
<1>3. PICK f : IsRun(f, c, u, p + q) /\ AfterAll(c, u) = f[p + q]
  BY <1>1, <1>2, AfterAllRun
<1>4. PICK g : IsRun(g, c, v, p) /\ AfterAll(c, v) = g[p]
  BY <1>1, AfterAllRun
<1>5. PICK h : IsRun(h, AfterAll(c, v), w, q) /\ AfterAll(AfterAll(c, v), w) = h[q]
  BY <1>1, AfterAllRun
<1>6. f[0] = c
  BY <1>1, <1>3 DEF IsRun
<1>7. \A i \in 1..p : u[0 + i] = v[i]
  BY <1>1
<1>8. \A i \in 1..q : u[p + i] = w[i]
  BY <1>1
<1> HIDE DEF u, p, q
<1>9. f[0 + p] = g[p]
  <2>1. IsRun(f, c, u, p + q) /\ IsRun(g, c, v, p)
    BY <1>3, <1>4
  <2>2. GoesOnAs(f, c, u, p + q, 0, g, c, v, p)
    BY <1>2, <2>1, <1>6, <1>7 DEF GoesOnAs
  <2>. QED  BY <2>2, RunsAgree
<1>10. f[p] = AfterAll(c, v)
  BY <1>2, <1>4, <1>9
<1>12. f[p + q] = h[q]
  <2>1. IsRun(f, c, u, p + q) /\ IsRun(h, AfterAll(c, v), w, q)
    BY <1>3, <1>5
  <2>2. GoesOnAs(f, c, u, p + q, p, h, AfterAll(c, v), w, q)
    BY <1>2, <2>1, <1>8, <1>10 DEF GoesOnAs
  <2>. QED  BY <2>2, RunsAgree
<1>. QED  BY <1>3, <1>5, <1>12 DEF u

\* The first message of a stream may be applied ahead of the rest.
LEMMA AfterHead ==
    ASSUME NEW S, NEW c, NEW w \in Seq(S), w # <<>>
    PROVE  AfterAll(Applied(c, Head(w)), Tail(w)) = AfterAll(c, w)
<1>1. /\ <<Head(w)>> \in Seq(S) /\ Tail(w) \in Seq(S)
      /\ w = <<Head(w)>> \o Tail(w)
  OBVIOUS
<1>2. AfterAll(c, <<Head(w)>>) = Applied(c, Head(w))
  BY AfterOne
<1>3. AfterAll(c, <<Head(w)>> \o Tail(w)) = AfterAll(AfterAll(c, <<Head(w)>>), Tail(w))
  <2> DEFINE h == <<Head(w)>>
             t == Tail(w)
  <2>1. h \in Seq(S) /\ t \in Seq(S)
    BY <1>1
  <2> HIDE DEF h, t
  <2>2. AfterAll(c, h \o t) = AfterAll(AfterAll(c, h), t)
    BY <2>1, AfterBoth
  <2>. QED  BY <2>2 DEF h, t
<1>. QED  BY ONLY <1>1, <1>2, <1>3

\* A message leaves a client a client.
LEMMA AppliedType ==
    ASSUME NEW c \in Client, NEW m \in Message
    PROVE  Applied(c, m) \in Client
BY DEF Client, Message, Applied, WithoutRep, ApplySnapshot, Sampled

\* ... and so does a stream.
LEMMA AfterType ==
    ASSUME NEW c \in Client, NEW w \in Seq(Message)
    PROVE  AfterAll(c, w) \in Client
<1>1. Len(w) \in Nat /\ \A i \in 1..Len(w) : w[i] \in Message
  BY LenProperties, ElementOfSeq
<1>2. PICK f : IsRun(f, c, w, Len(w)) /\ AfterAll(c, w) = f[Len(w)]
  BY <1>1, AfterAllRun
<1>3. \A i \in 0..Len(w) : f[i] = IF i = 0 THEN c ELSE Applied(f[i - 1], w[i])
  BY <1>2 DEF IsRun
<1> DEFINE Bad == {k \in 0..Len(w) : f[k] \notin Client}
<1>4. ASSUME Bad # {} PROVE FALSE
  <2>1. PICK k \in Bad : \A j \in Bad : k <= j
    <3>1. Bad \in SUBSET Nat
      BY <1>1
    <3>. QED  BY <1>4, <3>1, LeastNumber
  <2>2. k \in 0..Len(w) /\ f[k] \notin Client
    OBVIOUS
  <2>3. k # 0
    BY <1>1, <1>3, <2>2
  <2>4. k - 1 \in 0..Len(w) /\ k - 1 \notin Bad
    BY <1>1, <2>1, <2>2, <2>3
  <2>5. f[k - 1] \in Client /\ w[k] \in Message
    BY <1>1, <2>2, <2>3, <2>4
  <2>6. f[k] = Applied(f[k - 1], w[k])
    BY <1>3, <2>2, <2>3
  <2>. QED  BY <2>2, <2>5, <2>6, AppliedType
<1>. QED  BY <1>1, <1>2, <1>4

-----------------------------------------------------------------------------
(* Batches of messages of one type *)

\* The messages that add a representation, and those that remove one.
Adding == {"Join", "Spawn"}
Removing == {"Leave", "Despawn"}

\* What one message about the id n does to a client that is not to ignore it.
LEMMA OneMessage ==
    ASSUME NEW c \in Client, NEW type \in Adding \cup Removing, NEW n, n \in Nat,
           type = "Join" => c.me # n
    PROVE  LET d == Applied(c, Lifecycle(type, n))
           IN  /\ d \in Client /\ d.joined = c.joined /\ d.me = c.me
               /\ d.reps = IF type \in Adding THEN c.reps \cup {n} ELSE c.reps \ {n}
<1> DEFINE m == Lifecycle(type, n)
<1>1. m.type = type /\ m.id = n /\ m \in Message
  BY DEF Lifecycle, Message, Adding, Removing
<1>2. c.joined \in BOOLEAN /\ c.me \in Nat /\ c.reps \in SUBSET Nat
  BY DEF Client
<1> HIDE DEF m
<1>3. Applied(c, m) = IF type \in Adding THEN [c EXCEPT !.reps = @ \cup {n}] ELSE [c EXCEPT !.reps = @ \ {n}]
  BY <1>1 DEF Applied, WithoutRep, Adding, Removing
<1>4. ASSUME NEW r \in SUBSET Nat
      PROVE  LET d == [c EXCEPT !.reps = r]
             IN  d \in Client /\ d.joined = c.joined /\ d.me = c.me /\ d.reps = r
  BY DEF Client
<1>5. c.reps \cup {n} \in SUBSET Nat /\ c.reps \ {n} \in SUBSET Nat
  BY <1>2
<1>. QED  BY <1>3, <1>4, <1>5 DEF m

\* SetToSeq enumerates the set it is given.
LEMMA MessagesEnumerate ==
    ASSUME NEW ids, IsFiniteSet(ids)
    PROVE  LET q == SetToSeq(ids)
               n == Cardinality(ids)
           IN  /\ n \in Nat /\ q \in [1..n -> ids]
               /\ \A x \in ids : \E i \in 1..n : q[i] = x
<1> DEFINE q == SetToSeq(ids)
           n == Cardinality(ids)
<1>1. n \in Nat /\ ExistsBijection(1..n, ids)
  BY FS_CardinalityType
<1>2. \E f : f \in [1..n -> ids] /\ IsInjective(f)
  BY <1>1 DEF ExistsBijection, Bijection, Injection
<1>3. q \in [1..n -> ids] /\ IsInjective(q)
  BY <1>2 DEF SetToSeq
<1>4. Cardinality(1..n) = n
  <2>1. 1 \in Int /\ n \in Int
    BY <1>1
  <2>. QED  BY <1>1, <2>1, FS_Interval
<1> HIDE DEF q, n
<1>5. q \in Injection(1..n, ids)
  BY <1>3 DEF Injection
<1>6. q \in Surjection(1..n, ids)
  BY <1>4, <1>5, FS_Injection DEF n
<1>. QED  BY <1>1, <1>3, <1>6 DEF Surjection, q, n

\* Messages are messages, one for every id.
LEMMA MessagesType ==
    ASSUME NEW ids \in SUBSET Nat, IsFiniteSet(ids),
           NEW type \in Adding \cup Removing \cup {"Welcome"}
    PROVE  /\ Messages(type, ids) \in Seq(Message)
           /\ Len(Messages(type, ids)) = Cardinality(ids)
           /\ \A i \in 1..Len(Messages(type, ids)) :
                 \E x \in ids : Messages(type, ids)[i] = Lifecycle(type, x)
<1> DEFINE q == SetToSeq(ids)
           n == Cardinality(ids)
<1>1. n \in Nat /\ q \in [1..n -> ids]
  BY MessagesEnumerate
<1>2. \A x \in ids : Lifecycle(type, x) \in Message
  BY DEF Lifecycle, Message, Adding, Removing
<1>3. Messages(type, ids) = [i \in 1..n |-> Lifecycle(type, q[i])]
  BY DEF Messages
<1> HIDE DEF q, n
<1>4. Messages(type, ids) \in [1..n -> Message]
  BY <1>1, <1>2, <1>3
<1>5. \A i \in 1..n : \E x \in ids : Messages(type, ids)[i] = Lifecycle(type, x)
  BY <1>1, <1>3
<1>6. Messages(type, ids) \in Seq(Message) /\ Len(Messages(type, ids)) = n
  BY <1>1, <1>4
<1>. QED  BY <1>5, <1>6 DEF n

\* The client c can be told of the ids in one batch of messages of the type.
TakesBatch(c, type, ids) ==
    /\ c \in Client /\ ids \in SUBSET Nat /\ IsFiniteSet(ids)
    /\ type \in Adding \cup Removing
    /\ type = "Join" => c.me \notin ids

\* What is known of the room after the ids have been announced, or taken back.
After(type, known, ids) == IF type \in Adding THEN known \cup ids ELSE known \ ids

\* A batch adds the ids it is about, or takes them away, and does nothing else.
LEMMA AfterBatch ==
    ASSUME NEW c, NEW type, NEW ids, TakesBatch(c, type, ids)
    PROVE  /\ AfterAll(c, Messages(type, ids)) \in Client
           /\ AfterAll(c, Messages(type, ids)).joined = c.joined
           /\ AfterAll(c, Messages(type, ids)).me = c.me
           /\ AfterAll(c, Messages(type, ids)).reps = After(type, c.reps, ids)
<1>0. /\ ids \in SUBSET Nat /\ IsFiniteSet(ids) /\ c \in Client
      /\ type \in Adding \cup Removing /\ (type = "Join" => c.me \notin ids)
  BY DEF TakesBatch
<1> DEFINE q == SetToSeq(ids)
           n == Cardinality(ids)
           w == Messages(type, ids)
<1>1. n \in Nat /\ q \in [1..n -> ids] /\ \A x \in ids : \E i \in 1..n : q[i] = x
  BY <1>0, MessagesEnumerate
<1>2. \A i \in 1..n : w[i] = Lifecycle(type, q[i])
  BY DEF Messages
<1>3. Len(w) = n
  BY <1>0, MessagesType
<1> HIDE DEF q, n, w
<1>4. PICK f : IsRun(f, c, w, n) /\ AfterAll(c, w) = f[n]
  BY <1>1, <1>3, AfterAllRun
<1>5. \A i \in 0..n : f[i] = IF i = 0 THEN c ELSE Applied(f[i - 1], w[i])
  BY <1>4 DEF IsRun
<1> DEFINE Seen(k) == {q[i] : i \in 1..k}
           Reps(k) == IF type \in Adding THEN c.reps \cup Seen(k) ELSE c.reps \ Seen(k)
           Good(k) == /\ f[k] \in Client /\ f[k].joined = c.joined /\ f[k].me = c.me
                      /\ f[k].reps = Reps(k)
           Bad == {k \in 0..n : ~Good(k)}
<1>6. Good(0)
  <2>1. f[0] = c
    BY <1>1, <1>5
  <2>2. Seen(0) = {}
    OBVIOUS
  <2>3. c.reps \in SUBSET Nat
    BY <1>0 DEF Client
  <2>. QED  BY <1>0, <2>1, <2>2, <2>3
<1>7. ASSUME NEW k \in 1..n, Good(k - 1) PROVE Good(k)
  <2>1. q[k] \in ids /\ q[k] \in Nat /\ w[k] = Lifecycle(type, q[k])
    BY <1>0, <1>1, <1>2
  <2>2. f[k] = Applied(f[k - 1], Lifecycle(type, q[k]))
    BY <1>1, <1>5, <2>1
  <2>3. Seen(k) = Seen(k - 1) \cup {q[k]}
    <3>1. 1..k = 1..(k - 1) \cup {k}
      OBVIOUS
    <3>. QED  BY <3>1
  <2>4. type = "Join" => f[k - 1].me # q[k]
    BY <1>0, <1>7, <2>1
  <2> DEFINE a == f[k - 1]
             x == q[k]
             b == Applied(a, Lifecycle(type, x))
  <2>5. a \in Client /\ x \in Nat /\ (type = "Join" => a.me # x)
    BY <1>7, <2>1, <2>4
  <2> HIDE DEF a, x
  <2>6. /\ b \in Client /\ b.joined = a.joined /\ b.me = a.me
        /\ b.reps = IF type \in Adding THEN a.reps \cup {x} ELSE a.reps \ {x}
    BY <1>0, <2>5, OneMessage
  <2>7. b = f[k]
    BY <2>2 DEF a, x
  <2> HIDE DEF b
  <2>. QED  BY <1>7, <2>3, <2>6, <2>7 DEF a, x
<1> HIDE DEF Good
<1>8. ASSUME Bad # {} PROVE FALSE
  <2>1. Bad \in SUBSET Nat
    BY <1>1
  <2>2. PICK k \in Bad : \A j \in Bad : k <= j
    BY <1>8, <2>1, LeastNumber
  <2>3. k \in 0..n /\ ~Good(k) /\ k # 0
    BY <1>6, <2>2
  <2>4. k - 1 \in 0..n /\ k - 1 \notin Bad /\ k \in 1..n
    BY <1>1, <2>2, <2>3
  <2>. QED  BY <1>7, <2>3, <2>4
<1>9. Good(n)
  BY <1>1, <1>8
<1>10. Seen(n) = ids
  BY <1>0, <1>1
<1>. QED  BY <1>4, <1>9, <1>10 DEF Good, w, After

-----------------------------------------------------------------------------
(* Representations a datagram adds to a client while messages are on their way *)

\* d is the client c with more representations, of things in X.
Extends(d, c, X) ==
    d.joined = c.joined /\ d.me = c.me /\ c.reps \subseteq d.reps /\ d.reps \subseteq c.reps \cup X

\* Representations that one client has beside another's stay apart from what is applied.
LEMMA AppliedToMore ==
    ASSUME NEW c \in Client, NEW d \in Client, NEW X, NEW m \in Message, Extends(d, c, X)
    PROVE  Extends(Applied(d, m), Applied(c, m), X)
<1> USE DEF Extends
<1>1. /\ Applied(c, m) \in Client /\ Applied(d, m) \in Client
  BY AppliedType
<1>2. m.type \in {"Welcome", "Join", "Leave", "Spawn", "Despawn", "Snapshot"}
  BY DEF Message
<1>3. CASE m.type = "Welcome"
  BY <1>1, <1>3 DEF Client, Applied
<1>4. CASE m.type \in {"Join", "Spawn"}
  BY <1>1, <1>4 DEF Client, Applied
<1>5. CASE m.type \in {"Leave", "Despawn"}
  BY <1>1, <1>5 DEF Client, Applied, WithoutRep
<1>6. CASE m.type = "Snapshot"
  BY <1>1, <1>6 DEF Client, Applied, ApplySnapshot, Sampled
<1>. QED  BY <1>2, <1>3, <1>4, <1>5, <1>6

\* ... message after message.
LEMMA AfterMore ==
    ASSUME NEW c \in Client, NEW d \in Client, NEW X, NEW w \in Seq(Message), Extends(d, c, X)
    PROVE  Extends(AfterAll(d, w), AfterAll(c, w), X)
<1> DEFINE n == Len(w)
<1>1. n \in Nat /\ \A i \in 1..n : w[i] \in Message
  BY LenProperties, ElementOfSeq
<1>2. PICK f : IsRun(f, c, w, n) /\ AfterAll(c, w) = f[n]
  BY <1>1, AfterAllRun
<1>3. PICK h : IsRun(h, d, w, n) /\ AfterAll(d, w) = h[n]
  BY <1>1, AfterAllRun
<1> HIDE DEF n
<1>4. \A i \in 0..n : f[i] = IF i = 0 THEN c ELSE Applied(f[i - 1], w[i])
  BY <1>2 DEF IsRun
<1>5. \A i \in 0..n : h[i] = IF i = 0 THEN d ELSE Applied(h[i - 1], w[i])
  BY <1>3 DEF IsRun
<1> DEFINE Good(k) == /\ f[k] \in Client /\ h[k] \in Client
                      /\ Extends(h[k], f[k], X)
           Bad == {k \in 0..n : ~Good(k)}
<1>6. Good(0)
  <2>1. f[0] = c /\ h[0] = d
    BY <1>1, <1>4, <1>5
  <2>. QED  BY <2>1
<1>7. ASSUME NEW k \in 1..n, Good(k - 1) PROVE Good(k)
  <2>1. f[k] = Applied(f[k - 1], w[k]) /\ h[k] = Applied(h[k - 1], w[k]) /\ w[k] \in Message
    BY <1>1, <1>4, <1>5
  <2> DEFINE a == f[k - 1]
             b == h[k - 1]
             m == w[k]
  <2>2. /\ a \in Client /\ b \in Client /\ m \in Message /\ Extends(b, a, X)
    BY <1>7, <2>1
  <2>3. f[k] = Applied(a, m) /\ h[k] = Applied(b, m)
    BY <2>1
  <2> HIDE DEF a, b, m
  <2>. QED  BY <2>2, <2>3, AppliedToMore, AppliedType
<1> HIDE DEF Good
<1>8. ASSUME Bad # {} PROVE FALSE
  <2>1. Bad \in SUBSET Nat
    BY <1>1
  <2>2. PICK k \in Bad : \A j \in Bad : k <= j
    BY <1>8, <2>1, LeastNumber
  <2>3. k \in 0..n /\ ~Good(k) /\ k # 0
    BY <1>6, <2>2
  <2>4. k - 1 \in 0..n /\ k - 1 \notin Bad /\ k \in 1..n
    BY <1>1, <2>2, <2>3
  <2>. QED  BY <1>7, <2>3, <2>4
<1>9. Good(n)
  BY <1>1, <1>8
<1>. QED  BY <1>2, <1>3, <1>9 DEF Good

-----------------------------------------------------------------------------
(* The server's part of the system *)

\* A step of the system is a step of the server, or none.
LEMMA SystemStepIsAStep == [SystemNext]_systemVars => [Next]_vars
<1> SUFFICES ASSUME [SystemNext]_systemVars PROVE [Next]_vars
  OBVIOUS
<1>1. ASSUME NEW s \in Sessions,
             Open(s) \/ SendInput(s) \/ Close(s) \/ HelloArrives(s)
      PROVE  [Next]_vars
  BY <1>1 DEF Open, SendInput, Close, HelloArrives, Next, Net
<1>2. ASSUME NEW s \in Sessions,
             \/ SendHello(s) \/ CloseUnnoticed(s)
             \/ Receive(s) \/ ReceiveDatagram(s) \/ LoseDatagram(s)
      PROVE  [Next]_vars
  BY <1>2 DEF SendHello, CloseUnnoticed, Receive, ReceiveDatagram, LoseDatagram
<1>3. CASE ServerTick
  BY <1>3 DEF ServerTick, BeginTickAndReap, BroadcastSpawn, BroadcastDespawns,
              BroadcastSnapshots, QuietServerStep, Next, Tick
<1>4. CASE UNCHANGED systemVars
  BY <1>4 DEF systemVars
<1>. QED  BY <1>1, <1>2, <1>3, <1>4 DEF SystemNext, Browsers

\* Every step of the server keeps its inductive invariant.
LEMMA StepKeepsIInv == IInv /\ [Next]_vars => IInv'
BY NextTypeOK, NextAllocation, NextReplay, NextAudience DEF IInv

\* What is ever announced or taken back in one go is a finite set of ids.
LEMMA FiniteIds ==
    ASSUME IInv
    PROVE  /\ PlayerIds \in SUBSET Nat /\ IsFiniteSet(PlayerIds)
           /\ spawnedObjects \in SUBSET Nat /\ IsFiniteSet(spawnedObjects)
           /\ pendingDespawns \in SUBSET Nat /\ IsFiniteSet(pendingDespawns)
<1>1. TypeOK /\ AllocationInv /\ ReplayInv
  BY DEF IInv
<1>2. NewPlayerId \in Nat /\ NewSpawnId \in Nat /\ PlayerBase <= NewSpawnId
  BY <1>1, BasesAssumption DEF TypeOK, NewPlayerId, NewSpawnId
<1>3. PlayerIds \in SUBSET Nat /\ \A n \in PlayerIds : n <= NewPlayerId
  BY <1>1, <1>2 DEF PlayerIds, TypeOK, AllocationInv
<1>4. pendingDespawns \in SUBSET Nat /\ \A n \in pendingDespawns : n <= NewSpawnId
  BY <1>1, <1>2, BasesAssumption DEF ReplayInv, IsSceneId, TypeOK
<1>5. spawnedObjects \in SUBSET Nat /\ \A n \in spawnedObjects : n <= NewSpawnId
  <2> SUFFICES ASSUME NEW n \in spawnedObjects PROVE n <= NewSpawnId
    BY <1>1 DEF TypeOK
  <2>1. n \in Nat /\ IsSpawnId(n) /\ (n \in BodyIds \/ n \in pendingDespawns)
    BY <1>1 DEF ReplayInv, TypeOK
  <2>2. CASE n \in pendingDespawns
    BY <1>4, <2>2
  <2>3. CASE n \in BodyIds
    <3>1. IsSceneId(n) \/ n < NewSpawnId
      BY <1>1, <2>3 DEF BodyIds, AllocationInv
    <3>. QED  BY <1>2, <2>1, <3>1, BasesAssumption DEF IsSceneId
  <2>. QED  BY <2>1, <2>2, <2>3
<1>6. IsFiniteSet(PlayerIds)
  BY <1>2, <1>3, FS_BoundedSetOfNaturals
<1>7. IsFiniteSet(pendingDespawns)
  BY <1>2, <1>4, FS_BoundedSetOfNaturals
<1>8. IsFiniteSet(spawnedObjects)
  BY <1>2, <1>5, FS_BoundedSetOfNaturals
<1>. QED  BY <1>3, <1>4, <1>5, <1>6, <1>7, <1>8

\* The ids of players that go together.
LeaverIds(gone) == {netId[t] : t \in gone \cap spawned}

\* They are finitely many.
LEMMA LeaverIdsFinite ==
    ASSUME IInv, NEW gone
    PROVE  LeaverIds(gone) \in SUBSET Nat /\ IsFiniteSet(LeaverIds(gone))
<1>1. LeaverIds(gone) \in SUBSET PlayerIds
  BY DEF LeaverIds, PlayerIds
<1>. QED  BY <1>1, FiniteIds, FS_Subset

\* The ids the server gives next.
LEMMA BasicIds ==
    ASSUME TypeOK
    PROVE  /\ NewPlayerId \in Nat /\ NewPlayerId > 0 /\ NewSpawnId \in Nat /\ NewSpawnId > 0
           /\ IsSpawnId(NewSpawnId)
           /\ nextPlayerIdx < MaxJoins => IsPlayerId(NewPlayerId)
BY BasesAssumption DEF TypeOK, NewPlayerId, NewSpawnId, IsSpawnId, IsPlayerId

-----------------------------------------------------------------------------
(* The invariant of the system *)

\* What travels as a datagram.
Snapshots == [type : {"Snapshot"}, ids : SUBSET Nat, tick : Nat]

\* What is on its way to a client is something its NetClient understands.
ChannelsOK ==
    /\ SystemTypeOK
    /\ wire \in [Sessions -> Seq(Message)]
    /\ datagrams \in [Sessions -> SUBSET Snapshots]
    /\ \A s \in Sessions \ Datagrams : datagrams[s] = {}

\* A session says hello once, over an open transport, and is welcomed after that.
HelloInv ==
    \A s \in Sessions :
        /\ link[s] = "new" => s \notin registered /\ hello[s] = "unsent" /\ client[s] = NewClient
        /\ hello[s] = "flying" => link[s] = "open"
        /\ hello[s] # "arrived" =>
              s \notin spawned /\ ~client[s].joined /\ \A i \in 1..Len(wire[s]) : wire[s][i].type # "Welcome"

\* A client with the stream w ahead of it, of a room whose next player gets the id bound:
\* it has no representation of itself, and none that a welcome could turn into one.
OwnAvatarInv(c, w, bound) ==
    /\ ~c.joined => \A n \in c.reps : IsPlayerId(n) => n < bound
    /\ c.joined => IsPlayerId(c.me) /\ c.me \notin c.reps
    /\ \A i \in 1..Len(w) :
          /\ w[i].type = "Join" => IsPlayerId(w[i].id) /\ w[i].id < bound
          /\ w[i].type = "Spawn" => IsSpawnId(w[i].id)
          /\ w[i].type = "Welcome" =>
                /\ IsPlayerId(w[i].id) /\ ~c.joined /\ w[i].id \notin c.reps
                /\ \A j \in 1..Len(w) :
                      /\ w[j].type = "Welcome" => j = i
                      /\ j < i /\ w[j].type \in {"Join", "Spawn"} => w[j].id # w[i].id

\* The stream of a client agrees with what the server has told it: nothing is missing, and
\* what it has beside that it has from datagrams.
ToldInv ==
    /\ \A s \in Sessions : 0 \notin told[s]
    /\ \A s \in Sessions : link[s] = "open" =>
          /\ told[s] \subseteq Settled(s).reps
          /\ \A n \in Settled(s).reps \ told[s] : IsPlayerId(n)
          /\ s \notin Datagrams => Settled(s).reps \subseteq told[s]
          /\ Settled(s).me < NewPlayerId
          /\ s \in spawned => Settled(s).me = netId[s]

SystemInv ==
    IInv /\ ChannelsOK /\ HelloInv /\ ToldInv
    /\ \A s \in Sessions : OwnAvatarInv(client[s], wire[s], NewPlayerId)

\* What is sent goes to the open streams of those it is sent to, and to no other.
LEMMA SentType ==
    ASSUME ChannelsOK, NEW to, NEW msgs \in Seq(Message)
    PROVE  /\ Sent(to, msgs) \in [Sessions -> Seq(Message)]
           /\ \A t \in Sessions : ~(t \in to /\ link[t] = "open") => Sent(to, msgs)[t] = wire[t]
           /\ \A t \in Sessions : t \in to /\ link[t] = "open" => Sent(to, msgs)[t] = wire[t] \o msgs
<1>1. \A t \in Sessions : wire[t] \in Seq(Message) /\ wire[t] \o msgs \in Seq(Message)
  BY DEF ChannelsOK
<1>. QED  BY <1>1 DEF Sent

\* A client that messages have been added for settles as it would have, and then takes these.
LEMMA SettledMore ==
    ASSUME ChannelsOK, NEW s \in Sessions, NEW msgs \in Seq(Message),
           client'[s] = client[s], wire'[s] = wire[s] \o msgs
    PROVE  Settled(s)' = AfterAll(Settled(s), msgs)
<1>1. wire[s] \in Seq(Message)
  BY DEF ChannelsOK
<1>2. AfterAll(client[s], wire[s] \o msgs) = AfterAll(AfterAll(client[s], wire[s]), msgs)
  BY <1>1, AfterBoth
<1>3. AfterAll(client'[s], wire'[s]) = AfterAll(client[s], wire[s] \o msgs)
  OBVIOUS
<1>. QED  BY <1>2, <1>3 DEF Settled

\* A client to whom nothing happens settles on what it would have.
LEMMA SettledSame ==
    ASSUME NEW s \in Sessions, client'[s] = client[s], wire'[s] = wire[s]
    PROVE  Settled(s)' = Settled(s)
BY DEF Settled

\* What a client settles on is a client.
LEMMA SettledType ==
    ASSUME ChannelsOK, NEW s \in Sessions
    PROVE  Settled(s) \in Client
<1>1. client[s] \in Client /\ wire[s] \in Seq(Message)
  BY DEF ChannelsOK, SystemTypeOK, Client
<1>. QED  BY <1>1, AfterType DEF Settled

-----------------------------------------------------------------------------
(* What is on its way                                                      *)

\* All that the server sends in batches is messages.
LEMMA MessageBatches ==
    ASSUME IInv
    PROVE  /\ Messages("Join", {NewPlayerId}) \in Seq(Message)
           /\ Messages("Spawn", {NewSpawnId}) \in Seq(Message)
           /\ Messages("Despawn", pendingDespawns) \in Seq(Message)
           /\ \A gone : Messages("Leave", LeaverIds(gone)) \in Seq(Message)
           /\ <<Lifecycle("Welcome", NewPlayerId)>> \in Seq(Message)
           /\ Messages("Join", PlayerIds) \in Seq(Message)
           /\ Messages("Spawn", spawnedObjects) \in Seq(Message)
<1>1. NewPlayerId \in Nat /\ NewSpawnId \in Nat
  BY BasicIds DEF IInv
<1>2. /\ {NewPlayerId} \in SUBSET Nat /\ IsFiniteSet({NewPlayerId})
      /\ {NewSpawnId} \in SUBSET Nat /\ IsFiniteSet({NewSpawnId})
  BY <1>1, FS_Singleton
<1>3. \A type \in {"Join", "Spawn", "Leave", "Despawn"} : type \in Adding \cup Removing \cup {"Welcome"}
  BY DEF Adding, Removing
<1>4. Lifecycle("Welcome", NewPlayerId) \in Message
  BY <1>1 DEF Lifecycle, Message
<1>5. \A gone : Messages("Leave", LeaverIds(gone)) \in Seq(Message)
  BY <1>3, LeaverIdsFinite, MessagesType
<1>. QED  BY <1>2, <1>3, <1>4, <1>5, FiniteIds, MessagesType

\* A newcomer is sent messages.
LEMMA WelcomeType == IInv => WelcomePackage \in Seq(Message)
BY MessageBatches DEF WelcomePackage

\* Farewells in terms of the batch they are.
LEMMA FarewellsAre == \A gone : Farewells(gone) = Sent(registered \ gone, Messages("Leave", LeaverIds(gone)))
BY DEF Farewells, LeaverIds

\* A snapshot is a message, on the stream or off it.
LEMMA SnapshotType == IInv => SnapshotMessage(SnapshotIds, broadcasts + 1) \in Snapshots \cap Message
                              \/ broadcasts \notin Nat
<1> SUFFICES ASSUME IInv, broadcasts \in Nat
             PROVE  SnapshotMessage(SnapshotIds, broadcasts + 1) \in Snapshots \cap Message
  OBVIOUS
<1>1. SnapshotIds \in SUBSET Nat
  BY FiniteIds DEF IInv, TypeOK, SnapshotIds, LiveIds, BodyIds, NoBody
<1>. QED  BY <1>1 DEF SnapshotMessage, Snapshots, Message

\* A page begins with a client.
LEMMA NewClientType == NewClient \in Client
BY BasesAssumption DEF NewClient, Client, FileIds

\* Nothing is on its way at first.
LEMMA InitChannels == SystemInit => TypeOK /\ ChannelsOK
<1> SUFFICES ASSUME SystemInit PROVE TypeOK /\ ChannelsOK
  OBVIOUS
<1>1. TypeOK
  BY InitTypeOK DEF SystemInit
<1>2. <<>> \in Seq(Message)
  OBVIOUS
<1>. QED  BY <1>1, <1>2, NewClientType, ChannelAssumption DEF SystemInit, ChannelsOK, SystemTypeOK, Client

\* A step in which only the server sends keeps the channels typed.
LEMMA ChannelsSend ==
    ASSUME ChannelsOK, TypeOK', NEW to, NEW msgs \in Seq(Message), wire' = Sent(to, msgs),
           UNCHANGED <<link, hello, client, datagrams, broadcasts>>
    PROVE  ChannelsOK'
BY SentType DEF ChannelsOK, SystemTypeOK

\* A step that sends nothing keeps the channels typed.
LEMMA ChannelsFrame ==
    ChannelsOK /\ TypeOK' /\ UNCHANGED <<link, client, wire, datagrams, broadcasts>>
        /\ hello' \in [Sessions -> {"unsent", "flying", "arrived"}] => ChannelsOK'
BY DEF ChannelsOK, SystemTypeOK

\* Every step keeps the channels typed.
LEMMA NextChannels == IInv /\ ChannelsOK /\ HelloInv /\ [SystemNext]_systemVars => ChannelsOK'
<1> SUFFICES ASSUME IInv, ChannelsOK, HelloInv, [SystemNext]_systemVars PROVE ChannelsOK'
  OBVIOUS
<1>0. TypeOK'
  BY SystemStepIsAStep, StepKeepsIInv DEF IInv
<1>1. ASSUME NEW s \in Sessions, Open(s) PROVE ChannelsOK'
  BY <1>0, <1>1 DEF Open, ChannelsOK, SystemTypeOK
<1>2. ASSUME NEW s \in Sessions, SendHello(s) PROVE ChannelsOK'
  BY <1>0, <1>2, ChannelsFrame DEF SendHello, ChannelsOK, SystemTypeOK
<1>3. ASSUME NEW s \in Sessions, SendInput(s) PROVE ChannelsOK'
  BY <1>0, <1>3, ChannelsFrame DEF SendInput, ChannelsOK, SystemTypeOK, clientVars
<1>4. ASSUME NEW s \in Sessions, Close(s) \/ CloseUnnoticed(s) PROVE ChannelsOK'
  <2>1. /\ link' = [link EXCEPT ![s] = "closed"] /\ hello' = [hello EXCEPT ![s] = "arrived"]
        /\ client' = [client EXCEPT ![s] = NewClient] /\ datagrams' = [datagrams EXCEPT ![s] = {}]
        /\ broadcasts' = broadcasts
    BY <1>4 DEF Close, CloseUnnoticed, Gone
  <2>2. PICK W \in [Sessions -> Seq(Message)] :
            /\ wire' = [W EXCEPT ![s] = <<>>]
            /\ \A t \in Sessions : link[t] # "open" => W[t] = wire[t]
    <3>1. CASE Close(s)
      <4>1. wire' = [Sent(registered \ {s}, Messages("Leave", LeaverIds({s}))) EXCEPT ![s] = <<>>]
        BY <3>1, FarewellsAre DEF Close
      <4>2. Messages("Leave", LeaverIds({s})) \in Seq(Message)
        BY MessageBatches
      <4> DEFINE W == Sent(registered \ {s}, Messages("Leave", LeaverIds({s})))
      <4>3. W \in [Sessions -> Seq(Message)] /\ \A t \in Sessions : link[t] # "open" => W[t] = wire[t]
        BY <4>2, SentType
      <4> HIDE DEF W
      <4>. QED  BY <4>1, <4>3 DEF W
    <3>2. CASE CloseUnnoticed(s)
      BY <3>2 DEF CloseUnnoticed, ChannelsOK
    <3>. QED  BY <1>4, <3>1, <3>2
  <2>3. wire' \in [Sessions -> Seq(Message)] /\ wire'[s] = <<>>
        /\ \A t \in Sessions \ {s} : wire'[t] = W[t]
    BY <2>2
  <2>4. client' \in [Sessions -> Client]
    BY <2>1, NewClientType DEF ChannelsOK, SystemTypeOK, Client
  <2>. QED  BY <1>0, <2>1, <2>2, <2>3, <2>4 DEF ChannelsOK, SystemTypeOK, Client
<1>5. ASSUME NEW s \in Sessions, Receive(s) PROVE ChannelsOK'
  <2>1. wire[s] \in Seq(Message) /\ wire[s] # <<>> /\ client[s] \in Client
    BY <1>5 DEF Receive, ChannelsOK, SystemTypeOK, Client
  <2>2. Tail(wire[s]) \in Seq(Message) /\ Applied(client[s], Head(wire[s])) \in Client
    BY <2>1, AppliedType
  <2>3. link[s] = "open"
    BY <2>1 DEF ChannelsOK, SystemTypeOK
  <2>. QED  BY <1>0, <1>5, <2>2, <2>3 DEF Receive, ChannelsOK, SystemTypeOK, Client
<1>6. ASSUME NEW s \in Sessions, ReceiveDatagram(s) PROVE ChannelsOK'
  <2>1. PICK m \in datagrams[s] : /\ client' = [client EXCEPT ![s] = ApplySnapshot(@, m)]
                                  /\ datagrams' = [datagrams EXCEPT ![s] = @ \ {m}]
    BY <1>6 DEF ReceiveDatagram
  <2>2. m \in Snapshots /\ client[s] \in Client
    BY DEF ChannelsOK, SystemTypeOK, Client
  <2>3. ApplySnapshot(client[s], m) \in Client
    BY <2>2 DEF Client, ApplySnapshot, Sampled, Snapshots
  <2>. QED  BY <1>0, <1>6, <2>1, <2>3 DEF ReceiveDatagram, ChannelsOK, SystemTypeOK, Client
<1>7. ASSUME NEW s \in Sessions, LoseDatagram(s) PROVE ChannelsOK'
  BY <1>0, <1>7 DEF LoseDatagram, ChannelsOK, SystemTypeOK
<1>8. ASSUME NEW s \in Sessions, HelloArrives(s) PROVE ChannelsOK'
  <2>1. /\ UNCHANGED <<link, client, datagrams, broadcasts>> /\ hello[s] = "flying"
        /\ hello' = [hello EXCEPT ![s] = "arrived"]
    BY <1>8 DEF HelloArrives
  <2>2. link[s] = "open"
    BY <2>1 DEF HelloInv
  <2>3. CASE UNCHANGED wire
    BY <1>0, <2>1, <2>3, ChannelsFrame DEF ChannelsOK, SystemTypeOK
  <2>4. CASE wire' = [Sent(registered, Messages("Join", {NewPlayerId}))
                        EXCEPT ![s] = wire[s] \o WelcomePackage]
    <3>1. /\ wire[s] \o WelcomePackage \in Seq(Message)
          /\ Messages("Join", {NewPlayerId}) \in Seq(Message)
      BY WelcomeType, MessageBatches DEF ChannelsOK
    <3> DEFINE W == Sent(registered, Messages("Join", {NewPlayerId}))
    <3>2. W \in [Sessions -> Seq(Message)] /\ \A t \in Sessions : link[t] # "open" => W[t] = wire[t]
      BY <3>1, SentType
    <3> HIDE DEF W
    <3>3. wire' = [W EXCEPT ![s] = wire[s] \o WelcomePackage]
      BY <2>4 DEF W
    <3>4. wire' \in [Sessions -> Seq(Message)] /\ \A t \in Sessions : link[t] # "open" => wire'[t] = wire[t]
      BY <2>2, <3>1, <3>2, <3>3
    <3>. QED  BY <1>0, <2>1, <3>4 DEF ChannelsOK, SystemTypeOK
  <2>. QED  BY <1>8, <2>3, <2>4 DEF HelloArrives
<1>9. CASE BeginTickAndReap
  BY <1>0, <1>9, ChannelsSend, MessageBatches, FarewellsAre DEF BeginTickAndReap
<1>10. ASSUME NEW h \in Handles, BroadcastSpawn(h) PROVE ChannelsOK'
  BY <1>0, <1>10, ChannelsSend, MessageBatches DEF BroadcastSpawn
<1>11. CASE BroadcastDespawns
  BY <1>0, <1>11, ChannelsSend, MessageBatches DEF BroadcastDespawns
<1>12. CASE BroadcastSnapshots
  <2>1. CASE UNCHANGED <<broadcasts, wire, datagrams>>
    BY <1>0, <1>12, <2>1, ChannelsFrame DEF BroadcastSnapshots, ChannelsOK, SystemTypeOK
  <2>2. CASE SnapshotDue /\ broadcasts < MaxSnapshots
    <3> DEFINE m == SnapshotMessage(SnapshotIds, broadcasts + 1)
               D == datagrams'
    <3>1. /\ wire' = Sent(spawned \ Datagrams, <<m>>) /\ broadcasts' = broadcasts + 1
          /\ UNCHANGED <<link, hello, client>>
      BY <1>12, <2>2 DEF BroadcastSnapshots
    <3>2. /\ D = [t \in Sessions |-> D[t]]
          /\ \A t \in Sessions :
                \/ D[t] = datagrams[t]
                \/ D[t] = datagrams[t] \cup {m} /\ link[t] = "open" /\ t \in Datagrams
      BY <1>12, <2>2 DEF BroadcastSnapshots
    <3>3. broadcasts \in Nat /\ broadcasts' \in 0..MaxSnapshots
      BY <2>2, <3>1, ChannelAssumption DEF ChannelsOK, SystemTypeOK
    <3>4. m \in Snapshots /\ <<m>> \in Seq(Message)
      BY <3>3, SnapshotType
    <3> HIDE DEF m
    <3>5. D \in [Sessions -> SUBSET Snapshots]
      BY <3>2, <3>4 DEF ChannelsOK
    <3>6. \A t \in Sessions : link[t] # "open" \/ t \notin Datagrams => D[t] = datagrams[t]
      BY <3>2
    <3>7. wire' \in [Sessions -> Seq(Message)] /\ \A t \in Sessions : link[t] # "open" => wire'[t] = wire[t]
      BY <3>1, <3>4, SentType
    <3>. QED  BY <1>0, <3>1, <3>3, <3>5, <3>6, <3>7 DEF ChannelsOK, SystemTypeOK
  <2>. QED  BY <1>12, <2>1, <2>2 DEF BroadcastSnapshots
<1>13. CASE QuietServerStep
  BY <1>0, <1>13, ChannelsFrame DEF QuietServerStep, ChannelsOK, SystemTypeOK, clientVars
<1>14. CASE UNCHANGED systemVars
  BY <1>0, <1>14, ChannelsFrame DEF systemVars, ChannelsOK, SystemTypeOK, clientVars
<1>. QED
  BY <1>1, <1>2, <1>3, <1>4, <1>5, <1>6, <1>7, <1>8, <1>9, <1>10, <1>11, <1>12, <1>13, <1>14
     DEF SystemNext, Browsers, ServerTick

-----------------------------------------------------------------------------
(* A session says hello once                                               *)

\* No message of a batch is of another type than the batch.
LEMMA BatchTypes ==
    ASSUME NEW ids \in SUBSET Nat, IsFiniteSet(ids), NEW type \in Adding \cup Removing
    PROVE  \A i \in 1..Len(Messages(type, ids)) : Messages(type, ids)[i].type = type
<1>1. \A i \in 1..Len(Messages(type, ids)) : \E x \in ids : Messages(type, ids)[i] = Lifecycle(type, x)
  BY MessagesType
<1>2. \A x : Lifecycle(type, x).type = type
  BY DEF Lifecycle
<1>. QED  BY <1>1, <1>2

\* Nobody is welcomed by the stream w.
NoWelcome(w) == \A i \in 1..Len(w) : w[i].type # "Welcome"

\* Nobody is welcomed by two streams in a row if by neither.
LEMMA NoWelcomeAppend ==
    ASSUME NEW v \in Seq(Message), NEW w \in Seq(Message), NoWelcome(v), NoWelcome(w)
    PROVE  NoWelcome(v \o w)
<1>1. Len(v) \in Nat /\ Len(w) \in Nat
  OBVIOUS
<1>2. \A i \in 1..Len(v \o w) : \/ i \in 1..Len(v) /\ (v \o w)[i] = v[i]
                                \/ i - Len(v) \in 1..Len(w) /\ (v \o w)[i] = w[i - Len(v)]
  BY <1>1, ConcatProperties
<1>. QED  BY <1>2 DEF NoWelcome

\* The server welcomes nobody in what it sends to all.
LEMMA BatchesWelcomeNobody ==
    ASSUME IInv
    PROVE  /\ NoWelcome(Messages("Join", {NewPlayerId}))
           /\ NoWelcome(Messages("Spawn", {NewSpawnId}))
           /\ NoWelcome(Messages("Despawn", pendingDespawns))
           /\ \A gone : NoWelcome(Messages("Leave", LeaverIds(gone)))
<1>1. NewPlayerId \in Nat /\ NewSpawnId \in Nat
  BY BasicIds DEF IInv
<1>2. /\ {NewPlayerId} \in SUBSET Nat /\ IsFiniteSet({NewPlayerId})
      /\ {NewSpawnId} \in SUBSET Nat /\ IsFiniteSet({NewSpawnId})
  BY <1>1, FS_Singleton
<1>3. \A type \in {"Join", "Spawn", "Leave", "Despawn"} : type \in Adding \cup Removing /\ type # "Welcome"
  BY DEF Adding, Removing
<1>4. \A gone : NoWelcome(Messages("Leave", LeaverIds(gone)))
  BY <1>3, LeaverIdsFinite, BatchTypes DEF NoWelcome
<1>5. NoWelcome(Messages("Despawn", pendingDespawns))
  BY <1>3, FiniteIds, BatchTypes DEF NoWelcome
<1>6. NoWelcome(Messages("Join", {NewPlayerId})) /\ NoWelcome(Messages("Spawn", {NewSpawnId}))
  BY <1>2, <1>3, BatchTypes DEF NoWelcome
<1>. QED  BY <1>4, <1>5, <1>6

\* HelloInv holds at first.
LEMMA InitHello == SystemInit => HelloInv
<1> SUFFICES ASSUME SystemInit PROVE HelloInv
  OBVIOUS
<1>1. NewClient.joined = FALSE /\ Len(<<>>) = 0
  BY DEF NewClient
<1>. QED  BY <1>1 DEF SystemInit, Init, HelloInv

\* A batch for some of the open clients; nobody is registered, joins or says hello.
LEMMA HelloSend ==
    ASSUME ChannelsOK, HelloInv, NEW to, NEW msgs \in Seq(Message), NoWelcome(msgs),
           wire' = Sent(to, msgs), registered' \subseteq registered, spawned' \subseteq spawned,
           UNCHANGED <<link, hello, client>>
    PROVE  HelloInv'
<1>1. \A t \in Sessions : NoWelcome(wire[t]) => NoWelcome(wire'[t])
  <2> SUFFICES ASSUME NEW t \in Sessions, NoWelcome(wire[t]) PROVE NoWelcome(wire'[t])
    OBVIOUS
  <2>1. wire[t] \in Seq(Message)
    BY DEF ChannelsOK
  <2>2. wire'[t] = wire[t] \/ wire'[t] = wire[t] \o msgs
    BY SentType
  <2>. QED  BY <2>1, <2>2, NoWelcomeAppend
<1>. QED  BY <1>1 DEF HelloInv, NoWelcome

\* A step that neither sends nor registers keeps HelloInv.
LEMMA HelloFrame ==
    ASSUME HelloInv, registered' \subseteq registered, spawned' \subseteq spawned,
           UNCHANGED <<link, hello, client, wire>>
    PROVE  HelloInv'
BY DEF HelloInv

\* Every step keeps HelloInv.
LEMMA NextHello == IInv /\ ChannelsOK /\ HelloInv /\ [SystemNext]_systemVars => HelloInv'
<1> SUFFICES ASSUME IInv, ChannelsOK, HelloInv, [SystemNext]_systemVars PROVE HelloInv'
  OBVIOUS
<1>0. TypeOK
  BY DEF IInv
<1>1. ASSUME NEW s \in Sessions, Open(s) PROVE HelloInv'
  <2>1. /\ link' = [link EXCEPT ![s] = "open"] /\ link[s] = "new"
        /\ UNCHANGED <<hello, client, wire, spawned>> /\ registered' = registered \cup {s}
    BY <1>1 DEF Open, OnConnect
  <2>. QED  BY <2>1 DEF HelloInv, ChannelsOK, SystemTypeOK
<1>2. ASSUME NEW s \in Sessions, SendHello(s) PROVE HelloInv'
  <2>1. /\ hello' = [hello EXCEPT ![s] = "flying"] /\ link[s] = "open" /\ hello[s] = "unsent"
        /\ UNCHANGED <<link, client, wire, registered, spawned>>
    BY <1>2 DEF SendHello, vars, sessionVars
  <2>. QED  BY <2>1 DEF HelloInv, ChannelsOK, SystemTypeOK
<1>3. ASSUME NEW s \in Sessions, SendInput(s) PROVE HelloInv'
  BY <1>3, HelloFrame DEF SendInput, clientVars, OnOtherMessage, OnInput
<1>4. ASSUME NEW s \in Sessions, Close(s) PROVE HelloInv'
  <2>1. /\ link' = [link EXCEPT ![s] = "closed"] /\ hello' = [hello EXCEPT ![s] = "arrived"]
        /\ client' = [client EXCEPT ![s] = NewClient]
        /\ registered' \subseteq registered /\ spawned' \subseteq spawned
    BY <1>4 DEF Close, Gone, OnDisconnect, Erase
  <2> DEFINE msgs == Messages("Leave", LeaverIds({s}))
             W == Sent(registered \ {s}, msgs)
  <2>2. msgs \in Seq(Message) /\ NoWelcome(msgs)
    BY MessageBatches, BatchesWelcomeNobody
  <2>3. wire' = [W EXCEPT ![s] = <<>>]
    BY <1>4, FarewellsAre DEF Close
  <2> HIDE DEF msgs
  <2>4. W \in [Sessions -> Seq(Message)] /\ \A t \in Sessions : W[t] = wire[t] \/ W[t] = wire[t] \o msgs
    BY <2>2, SentType
  <2> HIDE DEF W
  <2>5. \A t \in Sessions \ {s} : NoWelcome(wire[t]) => NoWelcome(wire'[t])
    <3> SUFFICES ASSUME NEW t \in Sessions \ {s}, NoWelcome(wire[t]) PROVE NoWelcome(wire'[t])
      OBVIOUS
    <3>1. wire[t] \in Seq(Message) /\ wire'[t] = W[t]
      BY <2>3, <2>4 DEF ChannelsOK
    <3>. QED  BY <2>2, <2>4, <3>1, NoWelcomeAppend
  <2>. QED  BY <2>1, <2>5 DEF HelloInv, NoWelcome, ChannelsOK, SystemTypeOK
<1>5. ASSUME NEW s \in Sessions, CloseUnnoticed(s) PROVE HelloInv'
  <2>1. /\ link' = [link EXCEPT ![s] = "closed"] /\ hello' = [hello EXCEPT ![s] = "arrived"]
        /\ client' = [client EXCEPT ![s] = NewClient] /\ wire' = [wire EXCEPT ![s] = <<>>]
        /\ UNCHANGED <<registered, spawned>>
    BY <1>5 DEF CloseUnnoticed, Gone, vars, sessionVars
  <2>. QED  BY <2>1 DEF HelloInv, ChannelsOK, SystemTypeOK
<1>6. ASSUME NEW s \in Sessions, Receive(s) PROVE HelloInv'
  <2>1. /\ wire[s] # <<>> /\ wire[s] \in Seq(Message) /\ client[s] \in Client
        /\ client' = [client EXCEPT ![s] = Applied(client[s], Head(wire[s]))]
        /\ wire' = [wire EXCEPT ![s] = Tail(wire[s])]
        /\ UNCHANGED <<link, hello, registered, spawned>>
    BY <1>6 DEF Receive, ChannelsOK, SystemTypeOK, Client, vars, sessionVars
  <2>2. link[s] = "open"
    BY <2>1 DEF ChannelsOK, SystemTypeOK
  <2>3. NoWelcome(wire[s]) => NoWelcome(Tail(wire[s])) /\ Head(wire[s]).type # "Welcome"
    <3>1. /\ Len(Tail(wire[s])) = Len(wire[s]) - 1 /\ Len(wire[s]) \in Nat /\ Len(wire[s]) # 0
          /\ \A i \in 1..Len(Tail(wire[s])) : Tail(wire[s])[i] = wire[s][i + 1]
          /\ Head(wire[s]) = wire[s][1]
      BY <2>1, HeadTailProperties
    <3>. QED  BY <3>1 DEF NoWelcome
  <2>4. ASSUME ~client[s].joined, Head(wire[s]).type # "Welcome"
        PROVE  ~Applied(client[s], Head(wire[s])).joined
    <3>1. Head(wire[s]) \in Message
      BY <2>1
    <3>. QED  BY <2>1, <2>4, <3>1 DEF Message, Client, Applied, WithoutRep, ApplySnapshot
  <2>. QED  BY <2>1, <2>2, <2>3, <2>4 DEF HelloInv, NoWelcome, ChannelsOK, SystemTypeOK
<1>7. ASSUME NEW s \in Sessions, ReceiveDatagram(s) PROVE HelloInv'
  <2>1. PICK m \in datagrams[s] : client' = [client EXCEPT ![s] = ApplySnapshot(@, m)]
    BY <1>7 DEF ReceiveDatagram
  <2>2. /\ UNCHANGED <<link, hello, wire, registered, spawned>> /\ datagrams[s] # {}
    BY <1>7 DEF ReceiveDatagram, vars, sessionVars
  <2>3. link[s] = "open" /\ client[s] \in Client
    BY <2>2 DEF ChannelsOK, SystemTypeOK, Client
  <2>4. ~client[s].joined => ApplySnapshot(client[s], m) = client[s]
    BY DEF ApplySnapshot
  <2>. QED  BY <2>1, <2>2, <2>3, <2>4 DEF HelloInv, ChannelsOK, SystemTypeOK
<1>8. ASSUME NEW s \in Sessions, LoseDatagram(s) PROVE HelloInv'
  BY <1>8, HelloFrame DEF LoseDatagram, vars, sessionVars
<1>9. ASSUME NEW s \in Sessions, HelloArrives(s) PROVE HelloInv'
  <2>1. /\ UNCHANGED <<link, client>> /\ hello[s] = "flying" /\ link[s] = "open"
        /\ hello' = [hello EXCEPT ![s] = "arrived"]
        /\ registered' = registered \cup {s} /\ spawned' \subseteq spawned \cup {s}
    BY <1>9 DEF HelloArrives, HelloAccepted, HelloRefused, HelloEntry, HelloInv
  <2>2. \A t \in Sessions \ {s} : NoWelcome(wire[t]) => NoWelcome(wire'[t])
    <3>1. CASE UNCHANGED wire
      BY <3>1
    <3>2. CASE wire' = [Sent(registered, Messages("Join", {NewPlayerId}))
                          EXCEPT ![s] = wire[s] \o WelcomePackage]
      <4> DEFINE msgs == Messages("Join", {NewPlayerId})
                 W == Sent(registered, msgs)
      <4>1. msgs \in Seq(Message) /\ NoWelcome(msgs)
        BY MessageBatches, BatchesWelcomeNobody
      <4> HIDE DEF msgs
      <4>2. W \in [Sessions -> Seq(Message)] /\ \A t \in Sessions : W[t] = wire[t] \/ W[t] = wire[t] \o msgs
        BY <4>1, SentType
      <4>3. wire' = [W EXCEPT ![s] = wire[s] \o WelcomePackage]
        BY <3>2 DEF msgs
      <4> HIDE DEF W
      <4> SUFFICES ASSUME NEW t \in Sessions \ {s}, NoWelcome(wire[t]) PROVE NoWelcome(wire'[t])
        OBVIOUS
      <4>4. wire[t] \in Seq(Message) /\ wire'[t] = W[t]
        BY <4>2, <4>3 DEF ChannelsOK
      <4>. QED  BY <4>1, <4>2, <4>4, NoWelcomeAppend
    <3>. QED  BY <1>9, <3>1, <3>2 DEF HelloArrives
  <2>. QED  BY <2>1, <2>2 DEF HelloInv, NoWelcome, ChannelsOK, SystemTypeOK
<1>10. CASE BeginTickAndReap
  <2>1. /\ registered' \subseteq registered /\ spawned' \subseteq spawned
        /\ UNCHANGED <<link, hello, client>>
        /\ wire' = Sent(registered \ Dead, Messages("Leave", LeaverIds(Dead)))
    BY <1>10, FarewellsAre DEF BeginTickAndReap, BeginTick, Erase
  <2>. QED  BY <2>1, HelloSend, MessageBatches, BatchesWelcomeNobody
<1>11. ASSUME NEW h \in Handles, BroadcastSpawn(h) PROVE HelloInv'
  BY <1>11, HelloSend, MessageBatches, BatchesWelcomeNobody DEF BroadcastSpawn, AnnounceSpawn, sessionVars
<1>12. CASE BroadcastDespawns
  BY <1>12, HelloSend, MessageBatches, BatchesWelcomeNobody DEF BroadcastDespawns, FlushDespawns, sessionVars
<1>13. CASE BroadcastSnapshots
  <2>1. /\ UNCHANGED <<link, hello, client, registered, spawned>>
    BY <1>13 DEF BroadcastSnapshots, SendSnapshots, sessionVars
  <2>2. CASE UNCHANGED wire
    BY <2>1, <2>2, HelloFrame
  <2>3. CASE wire' = Sent(spawned \ Datagrams, <<SnapshotMessage(SnapshotIds, broadcasts + 1)>>)
    <3> DEFINE m == SnapshotMessage(SnapshotIds, broadcasts + 1)
    <3>1. m \in Message /\ m.type # "Welcome"
      BY SnapshotType DEF ChannelsOK, SystemTypeOK, SnapshotMessage
    <3> HIDE DEF m
    <3>2. <<m>> \in Seq(Message) /\ NoWelcome(<<m>>)
      BY <3>1 DEF NoWelcome
    <3>. QED  BY <2>1, <2>3, <3>2, HelloSend DEF m
  <2>. QED  BY <1>13, <2>2, <2>3 DEF BroadcastSnapshots
<1>14. CASE QuietServerStep
  BY <1>14, HelloFrame
     DEF QuietServerStep, clientVars, Scripts, ScriptSpawn, ScriptDestroy, ScriptExplode,
         ScriptRequestReset, ApplyReset, EndScripts, EndAnnounce, FlushExplosions, sessionVars
<1>15. CASE UNCHANGED systemVars
  BY <1>15, HelloFrame DEF systemVars, clientVars, vars, sessionVars
<1>. QED
  BY <1>1, <1>2, <1>3, <1>4, <1>5, <1>6, <1>7, <1>8, <1>9, <1>10, <1>11, <1>12, <1>13, <1>14, <1>15
     DEF SystemNext, Browsers, ServerTick

-----------------------------------------------------------------------------
(* What the server told a client of, and what the client settles on        *)

\* No client was ever told of the id 0.
LEMMA NoZeroTold ==
    ASSUME IInv, [Next]_vars, NEW s \in Sessions, 0 \notin told[s]
    PROVE  0 \notin told'[s]
<1> USE DEF IInv
<1>1. 0 \notin FileIds /\ 0 \notin PlayerIds /\ 0 \notin spawnedObjects /\ NewPlayerId # 0 /\ NewSpawnId # 0
  <2>1. 0 \notin PlayerIds
    BY BasesAssumption DEF PlayerIds, AllocationInv, TypeOK
  <2>2. 0 \notin spawnedObjects
    <3>1. ~IsSpawnId(0)
      BY BasesAssumption DEF IsSpawnId
    <3>. QED  BY <3>1 DEF ReplayInv
  <2>. QED  BY <2>1, <2>2, BasicIds DEF FileIds
<1>2. ASSUME NEW t \in Sessions, OnConnect(t) PROVE 0 \notin told'[s]
  BY <1>1, <1>2 DEF OnConnect, audienceVars, TypeOK
<1>3. ASSUME NEW t \in Sessions, OnDisconnect(t) PROVE 0 \notin told'[s]
  BY <1>1, <1>3 DEF OnDisconnect, AfterLeave, TypeOK
<1>4. ASSUME NEW t \in Sessions, HelloAccepted(t) PROVE 0 \notin told'[s]
  BY <1>1, <1>4 DEF HelloAccepted, Replay, TypeOK
<1>5. CASE BeginTick
  BY <1>5 DEF BeginTick, AfterLeave
<1>6. ASSUME NEW h \in Handles, AnnounceSpawn(h) PROVE 0 \notin told'[s]
  BY <1>1, <1>6 DEF AnnounceSpawn
<1>7. CASE FlushDespawns
  BY <1>7 DEF FlushDespawns
<1>8. CASE UNCHANGED told
  BY <1>8
<1>. QED
  BY <1>2, <1>3, <1>4, <1>5, <1>6, <1>7, <1>8
     DEF Next, Net, Scripts, Tick, HelloRefused, OnInput, OnOtherMessage, ScriptSpawn,
         ScriptDestroy, ScriptExplode, ScriptRequestReset, ApplyReset, EndScripts, EndAnnounce,
         FlushExplosions, SendSnapshots, audienceVars, vars

\* The client v, of session s, has what the server has told it.
Agrees(s, v, known) ==
    /\ known \subseteq v.reps
    /\ \A n \in v.reps \ known : IsPlayerId(n)
    /\ s \notin Datagrams => v.reps \subseteq known

\* ... and knows itself by the id it was given, one that nobody gets again.
KnowsItself(s, v) == v.me < NewPlayerId /\ (s \in spawned => v.me = netId[s])

\* ToldInv in terms of these two.
LEMMA ToldParts ==
    ToldInv <=> /\ \A s \in Sessions : 0 \notin told[s]
                /\ \A s \in Sessions : link[s] = "open" =>
                      Agrees(s, Settled(s), told[s]) /\ KnowsItself(s, Settled(s))
BY DEF ToldInv, Agrees, KnowsItself

\* What a client settles on after one more batch, when it is told of just that.
LEMMA AgreesBatch ==
    ASSUME NEW s, NEW v, NEW known, NEW ids, NEW type, TakesBatch(v, type, ids), Agrees(s, v, known)
    PROVE  Agrees(s, AfterAll(v, Messages(type, ids)), After(type, known, ids))
<1>1. AfterAll(v, Messages(type, ids)).reps = After(type, v.reps, ids)
  BY AfterBatch
<1>. QED  BY <1>1 DEF Agrees, After

\* ToldInv holds at first: no transport is open.
LEMMA InitTold == SystemInit => ToldInv
<1> SUFFICES ASSUME SystemInit PROVE ToldInv
  OBVIOUS
<1>. QED  BY DEF SystemInit, Init, ToldInv, FileIds

\* The id the next player will get never falls.
LEMMA IdsGrow ==
    ASSUME IInv, [Next]_vars
    PROVE  NewPlayerId \in Nat /\ NewPlayerId' \in Nat /\ NewPlayerId <= NewPlayerId'
<1>1. nextPlayerIdx \in Nat /\ PlayerBase \in Nat
  BY BasesAssumption DEF IInv, TypeOK
<1>2. nextPlayerIdx' = nextPlayerIdx \/ nextPlayerIdx' = nextPlayerIdx + 1
  BY DEF Next, Net, Scripts, Tick, OnConnect, OnDisconnect, Erase, HelloAccepted, HelloRefused,
         OnInput, OnOtherMessage, BeginTick, ScriptSpawn, ScriptDestroy, ScriptExplode,
         ScriptRequestReset, ApplyReset, EndScripts, AnnounceSpawn, EndAnnounce,
         FlushExplosions, FlushDespawns, SendSnapshots, sessionVars, vars
<1>3. NewPlayerId' = NewPlayerId \/ NewPlayerId' = NewPlayerId + 1
  <2>1. CASE nextPlayerIdx' = nextPlayerIdx
    BY <2>1 DEF NewPlayerId
  <2>2. CASE nextPlayerIdx' = nextPlayerIdx + 1
    <3>1. PlayerBase + (nextPlayerIdx + 1) = (PlayerBase + nextPlayerIdx) + 1
      BY <1>1
    <3>2. NewPlayerId' = PlayerBase + (nextPlayerIdx + 1)
      BY <2>2 DEF NewPlayerId
    <3>. QED  BY <3>1, <3>2 DEF NewPlayerId
  <2>. QED  BY <1>2, <2>1, <2>2
<1>4. NewPlayerId \in Nat
  BY <1>1 DEF NewPlayerId
<1>. QED  BY <1>3, <1>4

\* A client to whom nothing happens, and to whose session nothing happens.
LEMMA ToldFrame ==
    ASSUME ToldInv, ChannelsOK, NEW s \in Sessions, link[s] = "open",
           client'[s] = client[s], wire'[s] = wire[s], told'[s] = told[s],
           s \in spawned' => s \in spawned /\ netId'[s] = netId[s],
           NewPlayerId \in Nat, NewPlayerId' \in Nat, NewPlayerId <= NewPlayerId'
    PROVE  Agrees(s, Settled(s)', told'[s]) /\ KnowsItself(s, Settled(s))'
<1> DEFINE v == Settled(s)
<1>1. Settled(s)' = v
  BY SettledSame
<1>2. v.me \in Nat
  BY SettledType DEF Client
<1>3. Agrees(s, v, told[s]) /\ KnowsItself(s, v)
  BY ToldParts
<1> HIDE DEF v
<1>5. (KnowsItself(s, v) /\ NewPlayerId <= NewPlayerId') => v.me < NewPlayerId'
  BY <1>2 DEF KnowsItself
<1>6. KnowsItself(s, Settled(s))'
  BY <1>1, <1>3, <1>5 DEF KnowsItself
<1>. QED  BY <1>1, <1>3, <1>6

\* What ToldInv says of an open session.
Held(s) == Agrees(s, Settled(s), told[s]) /\ KnowsItself(s, Settled(s))

\* A client for which a batch is sent, and whose session is told of just that.
LEMMA ToldSend ==
    ASSUME IInv, ChannelsOK, ToldInv, [Next]_vars, NEW s \in Sessions, link[s] = "open",
           NEW type, NEW ids, TakesBatch(Settled(s), type, ids), Messages(type, ids) \in Seq(Message),
           client'[s] = client[s], wire'[s] = wire[s] \o Messages(type, ids),
           told'[s] = After(type, told[s], ids),
           s \in spawned' => s \in spawned /\ netId'[s] = netId[s]
    PROVE  Held(s)'
<1> DEFINE v == Settled(s)
           d == AfterAll(v, Messages(type, ids))
<1>1. Settled(s)' = d
  BY SettledMore
<1>2. v.me \in Nat
  BY SettledType DEF Client
<1>3. Agrees(s, v, told[s]) /\ KnowsItself(s, v)
  BY ToldParts
<1>4. d.me = v.me
  BY AfterBatch
<1>5. Agrees(s, d, After(type, told[s], ids))
  BY <1>3, AgreesBatch
<1>6. NewPlayerId \in Nat /\ NewPlayerId' \in Nat /\ NewPlayerId <= NewPlayerId'
  BY IdsGrow
<1> HIDE DEF v, d
<1>7. Agrees(s, Settled(s), told[s])'
  BY <1>1, <1>5 DEF Agrees
<1>8. KnowsItself(s, Settled(s))'
  BY <1>1, <1>2, <1>3, <1>4, <1>6 DEF KnowsItself
<1>. QED  BY <1>7, <1>8 DEF Held

\* A client to whom nothing happens, and to whose session nothing happens.
LEMMA HeldFrame ==
    ASSUME IInv, ChannelsOK, ToldInv, [Next]_vars, NEW s \in Sessions, link[s] = "open",
           client'[s] = client[s], wire'[s] = wire[s], told'[s] = told[s],
           s \in spawned' => s \in spawned /\ netId'[s] = netId[s]
    PROVE  Held(s)'
BY ToldFrame, IdsGrow DEF Held

\* To be told of all who leave is to be told of the players that leave.
LEMMA LeaversAre ==
    ASSUME IInv, NEW gone \in SUBSET Sessions, NEW known, 0 \notin known
    PROVE  known \ Leavers(gone) = After("Leave", known, LeaverIds(gone))
<1>1. \A t \in gone : t \in spawned \/ netId[t] = 0
  BY DEF IInv, AllocationInv
<1>. QED  BY <1>1 DEF After, Adding, Leavers, LeaverIds

\* Those who remain when the sessions in gone leave.
LEMMA LeaveHeld ==
    ASSUME IInv, ChannelsOK, ToldInv, [Next]_vars, NEW gone \in SUBSET Sessions,
           NEW s \in Sessions \ gone, link[s] = "open",
           client'[s] = client[s], wire'[s] = Farewells(gone)[s],
           told'[s] = AfterLeave(registered \ gone, Leavers(gone))[s],
           spawned' \subseteq spawned, netId'[s] = netId[s]
    PROVE  Held(s)'
<1> DEFINE M == Messages("Leave", LeaverIds(gone))
<1>1. M \in Seq(Message) /\ LeaverIds(gone) \in SUBSET Nat /\ IsFiniteSet(LeaverIds(gone))
  BY MessageBatches, LeaverIdsFinite
<1>2. TakesBatch(Settled(s), "Leave", LeaverIds(gone))
  BY <1>1, SettledType DEF TakesBatch, Adding, Removing
<1>3. Farewells(gone) = Sent(registered \ gone, M)
  BY FarewellsAre
<1>4. 0 \notin told[s]
  BY ToldParts
<1>5. CASE s \in registered
  <2>1. wire'[s] = wire[s] \o M
    <3>1. s \in registered \ gone
      BY <1>5
    <3> DEFINE to == registered \ gone
    <3>2. s \in to /\ M \in Seq(Message) /\ wire'[s] = Sent(to, M)[s]
      BY <1>1, <1>3, <3>1
    <3> HIDE DEF M, to
    <3>. QED  BY <3>2, SentType
  <2>2. told'[s] = After("Leave", told[s], LeaverIds(gone))
    BY <1>4, <1>5, LeaversAre DEF AfterLeave
  <2>. QED  BY <1>1, <1>2, <2>1, <2>2, ToldSend
<1>6. CASE s \notin registered
  <2>1. wire'[s] = wire[s]
    <3> HIDE DEF M
    <3>. QED  BY <1>1, <1>3, <1>6, SentType
  <2>2. told'[s] = told[s]
    BY <1>6 DEF AfterLeave
  <2>. QED  BY <2>1, <2>2, HeldFrame
<1>. QED  BY <1>5, <1>6

\* The newcomer: the welcome, the roster and the replay are what it is told of.
LEMMA WelcomeHeld ==
    ASSUME IInv, ChannelsOK, ToldInv, [Next]_vars, NEW s \in Sessions, link[s] = "open",
           HelloAccepted(s), client'[s] = client[s], wire'[s] = wire[s] \o WelcomePackage
    PROVE  Held(s)'
<1> DEFINE v == Settled(s)
           W == <<Lifecycle("Welcome", NewPlayerId)>>
           J == Messages("Join", PlayerIds)
           P == Messages("Spawn", spawnedObjects)
           a == AfterAll(v, W)
           b == AfterAll(a, J)
           d == AfterAll(b, P)
<1>0. TypeOK
  BY DEF IInv
<1>1. v \in Client
  BY SettledType
<1>2. W \in Seq(Message) /\ J \in Seq(Message) /\ P \in Seq(Message) /\ W \o J \in Seq(Message)
  BY MessageBatches
<1>3. Settled(s)' = d
  <2>1. WelcomePackage = (W \o J) \o P
    BY DEF WelcomePackage
  <2>2. Settled(s)' = AfterAll(v, WelcomePackage)
    BY WelcomeType, SettledMore
  <2> HIDE DEF v, W, J, P
  <2>3. AfterAll(v, (W \o J) \o P) = AfterAll(AfterAll(v, W \o J), P)
    <3> DEFINE V == W \o J
    <3>1. V \in Seq(Message)
      BY <1>2
    <3> HIDE DEF V
    <3>2. AfterAll(v, V \o P) = AfterAll(AfterAll(v, V), P)
      BY <1>2, <3>1, AfterBoth
    <3>. QED  BY <3>2 DEF V
  <2>4. AfterAll(v, W \o J) = AfterAll(AfterAll(v, W), J)
    BY <1>2, AfterBoth
  <2>. QED  BY <2>1, <2>2, <2>3, <2>4
<1>4. NewPlayerId \in Nat /\ NewPlayerId' \in Nat /\ NewPlayerId < NewPlayerId'
  <2>1. nextPlayerIdx \in Nat /\ PlayerBase \in Nat
    BY <1>0, BasesAssumption DEF TypeOK
  <2>2. NewPlayerId' = PlayerBase + (nextPlayerIdx + 1)
    BY DEF HelloAccepted, NewPlayerId
  <2>3. PlayerBase + nextPlayerIdx < PlayerBase + (nextPlayerIdx + 1)
    BY <2>1
  <2>. QED  BY <2>1, <2>2, <2>3 DEF NewPlayerId
<1>5. a \in Client /\ a.me = NewPlayerId /\ a.reps = v.reps
  <2>1. a = Applied(v, Lifecycle("Welcome", NewPlayerId))
    BY AfterOne
  <2>2. a = [v EXCEPT !.joined = TRUE, !.me = NewPlayerId]
    BY <2>1 DEF Applied, Lifecycle
  <2> HIDE DEF v, a
  <2>. QED  BY <1>1, <1>4, <2>2 DEF Client
<1>6. NewPlayerId \notin PlayerIds
  BY <1>0, <1>4 DEF IInv, AllocationInv, PlayerIds, TypeOK
<1> HIDE DEF v, a
<1>7. TakesBatch(a, "Join", PlayerIds)
  BY <1>5, <1>6, FiniteIds DEF TakesBatch, Adding
<1>8. b \in Client /\ b.me = NewPlayerId /\ b.reps = v.reps \cup PlayerIds
  <2>1. b \in Client /\ b.me = a.me /\ b.reps = After("Join", a.reps, PlayerIds)
    BY <1>7, AfterBatch
  <2>2. After("Join", a.reps, PlayerIds) = a.reps \cup PlayerIds
    BY DEF After, Adding
  <2> HIDE DEF b
  <2>. QED  BY <1>5, <2>1, <2>2
<1> HIDE DEF b
<1>9. TakesBatch(b, "Spawn", spawnedObjects)
  BY <1>8, FiniteIds DEF TakesBatch, Adding
<1>10. d.me = NewPlayerId /\ d.reps = v.reps \cup (PlayerIds \cup spawnedObjects)
  <2>1. d.me = b.me /\ d.reps = After("Spawn", b.reps, spawnedObjects)
    BY <1>9, AfterBatch
  <2>2. After("Spawn", b.reps, spawnedObjects) = b.reps \cup spawnedObjects
    BY DEF After, Adding
  <2> HIDE DEF d
  <2>. QED  BY <1>8, <2>1, <2>2
<1> HIDE DEF d
<1>11. told'[s] = told[s] \cup (PlayerIds \cup spawnedObjects)
  BY DEF HelloAccepted, Replay
<1>12. Agrees(s, v, told[s])
  BY ToldParts DEF v
<1>13. Agrees(s, d, told'[s])
  BY <1>10, <1>11, <1>12 DEF Agrees
<1>14. KnowsItself(s, Settled(s))'
  <2>1. netId'[s] = NewPlayerId
    BY <1>0 DEF HelloAccepted, TypeOK
  <2>2. Settled(s)'.me = NewPlayerId
    BY <1>3, <1>10
  <2>. QED  BY <1>4, <2>1, <2>2 DEF KnowsItself
<1>15. Agrees(s, Settled(s), told[s])'
  BY <1>3, <1>13 DEF Agrees
<1>. QED  BY <1>14, <1>15 DEF Held

\* The others, when somebody joins.
LEMMA JoinHeld ==
    ASSUME IInv, ChannelsOK, ToldInv, [Next]_vars, NEW s \in Sessions,
           HelloAccepted(s), NEW t \in Sessions \ {s}, link[t] = "open",
           client'[t] = client[t], wire'[t] = Sent(registered, Messages("Join", {NewPlayerId}))[t]
    PROVE  Held(t)'
<1> DEFINE M == Messages("Join", {NewPlayerId})
<1>1. M \in Seq(Message) /\ NewPlayerId \in Nat /\ IsFiniteSet({NewPlayerId})
  BY MessageBatches, IdsGrow, FS_Singleton
<1>2. Settled(t).me # NewPlayerId
  <2>1. Settled(t).me < NewPlayerId /\ Settled(t).me \in Nat
    BY ToldParts, SettledType DEF KnowsItself, Client
  <2>. QED  BY <1>1, <2>1
<1>3. TakesBatch(Settled(t), "Join", {NewPlayerId})
  BY <1>1, <1>2, SettledType DEF TakesBatch, Adding
<1>4. /\ told'[t] = (IF t \in registered THEN told[t] \cup {NewPlayerId} ELSE told[t])
      /\ t \in spawned' => t \in spawned /\ netId'[t] = netId[t]
  BY DEF HelloAccepted, IInv, TypeOK
<1>5. (t \in registered => wire'[t] = wire[t] \o M) /\ (t \notin registered => wire'[t] = wire[t])
  <2>1. M \in Seq(Message) /\ wire'[t] = Sent(registered, M)[t]
    BY <1>1
  <2> HIDE DEF M
  <2>2. t \in registered => Sent(registered, M)[t] = wire[t] \o M
    BY <2>1, SentType
  <2>3. t \notin registered => Sent(registered, M)[t] = wire[t]
    BY <2>1, SentType
  <2>. QED  BY <2>1, <2>2, <2>3
<1>6. CASE t \in registered
  <2>1. told'[t] = After("Join", told[t], {NewPlayerId})
    BY <1>4, <1>6 DEF After, Adding
  <2>. QED  BY <1>1, <1>3, <1>4, <1>5, <1>6, <2>1, ToldSend
<1>7. CASE t \notin registered
  BY <1>4, <1>5, <1>7, HeldFrame
<1>. QED  BY <1>6, <1>7

\* A snapshot that comes on the stream shows nobody that the stream has not announced.
LEMMA SnapshotHeld ==
    ASSUME IInv, ChannelsOK, ToldInv, [Next]_vars, NEW s \in Sessions \ Datagrams, link[s] = "open",
           s \in spawned, UNCHANGED <<spawned, netId, told>>, client'[s] = client[s],
           wire'[s] = wire[s] \o <<SnapshotMessage(SnapshotIds, broadcasts + 1)>>
    PROVE  Held(s)'
<1> DEFINE v == Settled(s)
           m == SnapshotMessage(SnapshotIds, broadcasts + 1)
           d == AfterAll(v, <<m>>)
<1>1. m \in Message /\ m.type = "Snapshot" /\ m.ids = LiveIds
  BY SnapshotType DEF ChannelsOK, SystemTypeOK, SnapshotMessage, SnapshotIds
<1>2. v \in Client
  BY SettledType
<1>3. Agrees(s, v, told[s]) /\ v.me < NewPlayerId /\ v.me = netId[s]
  BY ToldParts DEF KnowsItself
<1>4. \A n \in LiveIds \ {netId[s]} : IsPlayerId(n) => n \in told[s]
  <2> SUFFICES ASSUME NEW n \in LiveIds \ {netId[s]}, IsPlayerId(n) PROVE n \in told[s]
    OBVIOUS
  <2>1. n \notin BodyIds
    <3>1. \A k \in BodyIds : IsSceneId(k) \/ IsSpawnId(k)
      BY DEF IInv, AllocationInv, BodyIds
    <3>2. ~IsSceneId(n) /\ ~IsSpawnId(n)
      <4>1. n \in Nat
        BY DEF LiveIds, BodyIds, PlayerIds, IInv, TypeOK, NoBody
      <4>. QED  BY <4>1, BasesAssumption DEF IsPlayerId, IsSceneId, IsSpawnId
    <3>. QED  BY <3>1, <3>2
  <2>2. PICK t \in spawned \ {s} : netId[t] = n
    BY <2>1 DEF LiveIds, PlayerIds
  <2>. QED  BY <2>2 DEF IInv, AudienceInv, RosterAgrees
<1>5. Settled(s)' = d
  <2>1. <<m>> \in Seq(Message)
    BY <1>1
  <2> HIDE DEF m
  <2>. QED  BY <2>1, SettledMore DEF m
<1>6. d = Applied(v, m)
  BY AfterOne
<1> HIDE DEF v, m
<1>7. Sampled(v, m.ids) \subseteq v.reps
  BY <1>1, <1>3, <1>4 DEF Sampled, Agrees
<1>8. d.reps = v.reps /\ d.me = v.me
  BY <1>1, <1>2, <1>6, <1>7 DEF Applied, ApplySnapshot, Client
<1> HIDE DEF d
<1>9. NewPlayerId \in Nat /\ NewPlayerId' \in Nat /\ NewPlayerId <= NewPlayerId' /\ v.me \in Nat
  BY <1>2, IdsGrow DEF Client
<1>10. KnowsItself(s, Settled(s))'
  BY <1>3, <1>5, <1>8, <1>9 DEF KnowsItself
<1>11. Agrees(s, Settled(s), told[s])'
  BY <1>3, <1>5, <1>8 DEF Agrees
<1>. QED  BY <1>10, <1>11 DEF Held

\* A datagram adds nothing but avatars, and settles nothing else.
LEMMA DatagramHeld ==
    ASSUME IInv, ChannelsOK, ToldInv, NEW s \in Sessions, link[s] = "open", NEW m \in datagrams[s],
           client'[s] = ApplySnapshot(client[s], m), wire'[s] = wire[s],
           UNCHANGED <<spawned, netId, told, nextPlayerIdx>>
    PROVE  Held(s)'
<1> DEFINE X == {n \in m.ids : IsPlayerId(n)}
           c == client[s]
           d == ApplySnapshot(client[s], m)
           w == wire[s]
<1>1. m \in Snapshots /\ c \in Client /\ w \in Seq(Message) /\ s \in Datagrams
  BY DEF ChannelsOK, SystemTypeOK, Client
<1>2. d \in Client /\ Extends(d, c, X)
  BY <1>1 DEF Client, ApplySnapshot, Sampled, Snapshots, Extends
<1>3. Settled(s) = AfterAll(c, w) /\ Settled(s)' = AfterAll(d, w)
  BY DEF Settled
<1>4. Agrees(s, Settled(s), told[s]) /\ KnowsItself(s, Settled(s))
  BY ToldParts
<1> HIDE DEF c, d, w, X
<1>5. Extends(Settled(s)', Settled(s), X)
  BY <1>1, <1>2, <1>3, AfterMore
<1>6. Agrees(s, Settled(s), told[s])'
  BY <1>1, <1>4, <1>5 DEF Agrees, Extends, X
<1>7. KnowsItself(s, Settled(s))'
  BY <1>4, <1>5 DEF KnowsItself, Extends, NewPlayerId
<1>. QED  BY <1>6, <1>7 DEF Held

\* Applying what comes first leaves what the client settles on.
LEMMA ReceiveHeld ==
    ASSUME ChannelsOK, ToldInv, NEW s \in Sessions, link[s] = "open", wire[s] # <<>>,
           client'[s] = Applied(client[s], Head(wire[s])), wire'[s] = Tail(wire[s]),
           UNCHANGED <<spawned, netId, told, nextPlayerIdx>>
    PROVE  Held(s)'
<1>1. wire[s] \in Seq(Message)
  BY DEF ChannelsOK
<1>2. AfterAll(Applied(client[s], Head(wire[s])), Tail(wire[s])) = AfterAll(client[s], wire[s])
  BY <1>1, AfterHead
<1>3. AfterAll(client'[s], wire'[s]) = AfterAll(client[s], wire[s])
  BY <1>2
<1>4. Settled(s)' = Settled(s)
  BY <1>3 DEF Settled
<1>5. Agrees(s, Settled(s), told[s]) /\ KnowsItself(s, Settled(s))
  BY ToldParts
<1>. QED  BY <1>4, <1>5 DEF Held, Agrees, KnowsItself, NewPlayerId

\* A client whose transport has just opened: it has the bodies of the scene file.
LEMMA OpenHeld ==
    ASSUME IInv, ChannelsOK, HelloInv, NEW s \in Sessions, Open(s)
    PROVE  Held(s)'
<1>1. /\ link[s] = "new" /\ client'[s] = client[s] /\ wire'[s] = wire[s]
      /\ UNCHANGED <<spawned, netId, nextPlayerIdx>>
  BY DEF Open, OnConnect
<1>2. s \notin registered /\ s \notin spawned /\ client[s] = NewClient /\ wire[s] = <<>>
  BY <1>1 DEF HelloInv, ChannelsOK, SystemTypeOK, TypeOK
<1>3. told'[s] = FileIds
  BY <1>2 DEF Open, OnConnect, IInv, TypeOK
<1>4. Settled(s)' = NewClient
  <2>1. Settled(s)' = Settled(s) /\ Settled(s) = AfterAll(NewClient, <<>>)
    BY <1>1, <1>2, SettledSame DEF Settled
  <2>. QED  BY <2>1, AfterNothing
<1>5. Agrees(s, Settled(s), told[s])'
  BY <1>3, <1>4 DEF Agrees, NewClient
<1>6. NewPlayerId' = NewPlayerId /\ NewPlayerId > 0
  BY <1>1, BasicIds DEF IInv, NewPlayerId
<1>7. NewClient.me = 0 /\ NewPlayerId \in Nat
  BY BasicIds DEF IInv, NewClient
<1>8. KnowsItself(s, Settled(s))'
  BY <1>1, <1>2, <1>4, <1>6, <1>7 DEF KnowsItself
<1>. QED  BY <1>5, <1>8 DEF Held

\* Every step keeps ToldInv.
LEMMA NextTold == IInv /\ ChannelsOK /\ HelloInv /\ ToldInv /\ [SystemNext]_systemVars => ToldInv'
<1> SUFFICES ASSUME IInv, ChannelsOK, HelloInv, ToldInv, [SystemNext]_systemVars PROVE ToldInv'
  OBVIOUS
<1>1. [Next]_vars
  BY SystemStepIsAStep
<1>2. \A s \in Sessions : 0 \notin told'[s]
  BY <1>1, NoZeroTold, ToldParts
<1>3. SUFFICES ASSUME NEW s \in Sessions, link'[s] = "open" PROVE Held(s)'
  BY <1>2 DEF ToldInv, Held, Agrees, KnowsItself
<1>4. link \in [Sessions -> {"new", "open", "closed"}] /\ TypeOK
  BY DEF ChannelsOK, SystemTypeOK
<1>5. ASSUME link[s] = "open", UNCHANGED <<told, spawned, netId>>, client'[s] = client[s], wire'[s] = wire[s]
      PROVE  Held(s)'
  BY <1>1, <1>5, HeldFrame
<1>6. ASSUME NEW t \in Sessions, Open(t) PROVE Held(s)'
  <2>1. /\ link' = [link EXCEPT ![t] = "open"] /\ UNCHANGED <<client, wire, spawned, netId>>
        /\ s # t => told'[s] = told[s]
    BY <1>4, <1>6 DEF Open, OnConnect, TypeOK, audienceVars
  <2>2. CASE s = t
    BY <1>6, <2>2, OpenHeld
  <2>3. CASE s # t
    BY <1>1, <1>3, <1>4, <2>1, <2>3, HeldFrame
  <2>. QED  BY <2>2, <2>3
<1>7. ASSUME NEW t \in Sessions, SendHello(t) \/ SendInput(t) \/ LoseDatagram(t) PROVE Held(s)'
  BY <1>3, <1>5, <1>7 DEF SendHello, SendInput, LoseDatagram, OnInput, OnOtherMessage, vars, sessionVars,
                    audienceVars, clientVars
<1>8. ASSUME NEW t \in Sessions, Close(t) PROVE Held(s)'
  <2>1. link' = [link EXCEPT ![t] = "closed"] /\ client' = [client EXCEPT ![t] = NewClient]
        /\ wire' = [Farewells({t}) EXCEPT ![t] = <<>>] /\ OnDisconnect(t)
    BY <1>8 DEF Close, Gone
  <2>2. s # t /\ link[s] = "open" /\ client'[s] = client[s]
    BY <1>3, <1>4, <2>1
  <2>3. wire'[s] = Farewells({t})[s]
    BY <2>1, <2>2 DEF Farewells, Sent
  <2>4. /\ told'[s] = AfterLeave(registered \ {t}, Leavers({t}))[s]
        /\ spawned' \subseteq spawned /\ netId'[s] = netId[s]
    BY <2>1, <2>2 DEF OnDisconnect, AfterLeave, Erase
  <2>. QED  BY <1>1, <2>2, <2>3, <2>4, LeaveHeld
<1>9. ASSUME NEW t \in Sessions, CloseUnnoticed(t) PROVE Held(s)'
  BY <1>3, <1>4, <1>5, <1>9 DEF CloseUnnoticed, Gone, vars, sessionVars, audienceVars
<1>10. ASSUME NEW t \in Sessions, Receive(t) PROVE Held(s)'
  <2>1. /\ wire[t] # <<>> /\ UNCHANGED <<link, spawned, netId, told, nextPlayerIdx>>
        /\ client' = [client EXCEPT ![t] = Applied(client[t], Head(wire[t]))]
        /\ wire' = [wire EXCEPT ![t] = Tail(wire[t])]
    BY <1>10 DEF Receive, vars, sessionVars, audienceVars
  <2>2. CASE s = t
    <3>1. client'[s] = Applied(client[s], Head(wire[s])) /\ wire'[s] = Tail(wire[s]) /\ wire[s] # <<>>
      BY <2>1, <2>2 DEF ChannelsOK, SystemTypeOK
    <3>. QED  BY <1>3, <2>1, <3>1, ReceiveHeld
  <2>3. CASE s # t
    BY <1>3, <1>5, <2>1, <2>3
  <2>. QED  BY <2>2, <2>3
<1>11. ASSUME NEW t \in Sessions, ReceiveDatagram(t) PROVE Held(s)'
  <2>1. PICK m \in datagrams[t] : client' = [client EXCEPT ![t] = ApplySnapshot(client[t], m)]
    BY <1>11 DEF ReceiveDatagram
  <2>2. UNCHANGED <<link, wire, spawned, netId, told, nextPlayerIdx>>
    BY <1>11 DEF ReceiveDatagram, vars, sessionVars, audienceVars
  <2>3. CASE s = t
    <3>1. client'[s] = ApplySnapshot(client[s], m) /\ m \in datagrams[s]
      BY <2>1, <2>3 DEF ChannelsOK, SystemTypeOK
    <3>. QED  BY <1>3, <2>2, <3>1, DatagramHeld
  <2>4. CASE s # t
    BY <1>3, <1>5, <2>1, <2>2, <2>4
  <2>. QED  BY <2>3, <2>4
<1>12. ASSUME NEW t \in Sessions, HelloArrives(t) PROVE Held(s)'
  <2>1. UNCHANGED <<link, client>>
    BY <1>12 DEF HelloArrives
  <2>2. CASE HelloRefused(t) /\ UNCHANGED wire
    BY <1>3, <1>5, <2>1, <2>2 DEF HelloRefused, audienceVars
  <2>3. CASE /\ HelloAccepted(t)
             /\ wire' = [Sent(registered, Messages("Join", {NewPlayerId})) EXCEPT ![t] = wire[t] \o WelcomePackage]
    <3>1. CASE s = t
      <4>1. wire'[s] = wire[s] \o WelcomePackage
        BY <2>3, <3>1 DEF Sent
      <4>. QED  BY <1>1, <1>3, <2>1, <2>3, <3>1, <4>1, WelcomeHeld
    <3>2. CASE s # t
      <4>1. wire'[s] = Sent(registered, Messages("Join", {NewPlayerId}))[s]
        BY <2>3, <3>2 DEF Sent
      <4>. QED  BY <1>1, <1>3, <2>1, <2>3, <3>2, <4>1, JoinHeld
    <3>. QED  BY <3>1, <3>2
  <2>. QED  BY <1>12, <2>2, <2>3 DEF HelloArrives
<1>13. CASE BeginTickAndReap
  <2>1. BeginTick /\ wire' = Farewells(Dead) /\ UNCHANGED <<link, client>>
    BY <1>13 DEF BeginTickAndReap
  <2>2. spawned' = spawned \ Dead /\ told' = AfterLeave(registered \ Dead, Leavers(Dead))
    BY <2>1 DEF BeginTick, Erase
  <2>3. Dead \in SUBSET Sessions
    BY <1>4 DEF Dead, TypeOK
  <2>4. CASE s \in Dead
    <3>1. Farewells(Dead)[s] = wire[s] /\ told'[s] = told[s]
      <4>1. s \notin registered \ Dead
        BY <2>4
      <4>. QED  BY <2>2, <4>1 DEF Farewells, Sent, AfterLeave
    <3>. QED  BY <1>1, <1>3, <2>1, <2>2, <2>4, <3>1, HeldFrame
  <2>5. CASE s \notin Dead
    <3>1. netId'[s] = netId[s]
      BY <2>1, <2>5 DEF BeginTick, Erase
    <3>2. s \in Sessions \ Dead /\ spawned' \subseteq spawned /\ link[s] = "open" /\ client'[s] = client[s]
          /\ wire'[s] = Farewells(Dead)[s] /\ told'[s] = AfterLeave(registered \ Dead, Leavers(Dead))[s]
      BY <1>3, <2>1, <2>2, <2>5
    <3>. QED  BY <1>1, <2>3, <3>1, <3>2, LeaveHeld
  <2>. QED  BY <2>4, <2>5
<1>14. ASSUME NEW h \in Handles, BroadcastSpawn(h) PROVE Held(s)'
  <2> DEFINE M == Messages("Spawn", {NewSpawnId})
  <2>1. /\ UNCHANGED <<link, client, spawned, netId>> /\ wire' = Sent(spawned, M)
        /\ told'[s] = IF s \in spawned THEN told[s] \cup {NewSpawnId} ELSE told[s]
    BY <1>14 DEF BroadcastSpawn, AnnounceSpawn, sessionVars
  <2>2. M \in Seq(Message) /\ NewSpawnId \in Nat /\ IsFiniteSet({NewSpawnId})
    BY <1>4, MessageBatches, BasicIds, FS_Singleton
  <2>3. TakesBatch(Settled(s), "Spawn", {NewSpawnId})
    BY <2>2, SettledType DEF TakesBatch, Adding
  <2>4. (s \in spawned => wire'[s] = wire[s] \o M) /\ (s \notin spawned => wire'[s] = wire[s])
    <3> HIDE DEF M
    <3>. QED  BY <1>3, <2>1, <2>2, SentType
  <2>5. CASE s \in spawned
    <3>1. told'[s] = After("Spawn", told[s], {NewSpawnId})
      BY <2>1, <2>5 DEF After, Adding
    <3>. QED  BY <1>1, <1>3, <2>1, <2>2, <2>3, <2>4, <2>5, <3>1, ToldSend
  <2>6. CASE s \notin spawned
    BY <1>1, <1>3, <2>1, <2>4, <2>6, HeldFrame
  <2>. QED  BY <2>5, <2>6
<1>15. CASE BroadcastDespawns
  <2> DEFINE M == Messages("Despawn", pendingDespawns)
  <2>1. /\ UNCHANGED <<link, client, spawned, netId>> /\ wire' = Sent(spawned, M)
        /\ told'[s] = IF s \in spawned THEN told[s] \ pendingDespawns ELSE told[s]
    BY <1>15 DEF BroadcastDespawns, FlushDespawns, sessionVars
  <2>2. M \in Seq(Message)
    BY MessageBatches
  <2>3. TakesBatch(Settled(s), "Despawn", pendingDespawns)
    BY FiniteIds, SettledType DEF TakesBatch, Adding, Removing
  <2>4. (s \in spawned => wire'[s] = wire[s] \o M) /\ (s \notin spawned => wire'[s] = wire[s])
    <3> HIDE DEF M
    <3>. QED  BY <1>3, <2>1, <2>2, SentType
  <2>5. CASE s \in spawned
    <3>1. told'[s] = After("Despawn", told[s], pendingDespawns)
      BY <2>1, <2>5 DEF After, Adding
    <3>. QED  BY <1>1, <1>3, <2>1, <2>2, <2>3, <2>4, <2>5, <3>1, ToldSend
  <2>6. CASE s \notin spawned
    BY <1>1, <1>3, <2>1, <2>4, <2>6, HeldFrame
  <2>. QED  BY <2>5, <2>6
<1>16. CASE BroadcastSnapshots
  <2> DEFINE M == <<SnapshotMessage(SnapshotIds, broadcasts + 1)>>
  <2>1. UNCHANGED <<link, client, spawned, netId, told>>
    BY <1>16 DEF BroadcastSnapshots, SendSnapshots, sessionVars, audienceVars
  <2>2. CASE wire'[s] = wire[s]
    BY <1>3, <1>5, <2>1, <2>2
  <2>3. CASE wire' = Sent(spawned \ Datagrams, M) /\ wire'[s] # wire[s]
    <3>1. s \in spawned /\ s \notin Datagrams /\ wire'[s] = wire[s] \o M
      BY <2>3 DEF Sent
    <3>. QED  BY <1>1, <1>3, <2>1, <3>1, SnapshotHeld
  <2>. QED  BY <1>16, <2>2, <2>3 DEF BroadcastSnapshots
<1>17. CASE QuietServerStep
  BY <1>3, <1>5, <1>17
     DEF QuietServerStep, clientVars, Scripts, ScriptSpawn, ScriptDestroy, ScriptExplode,
         ScriptRequestReset, ApplyReset, EndScripts, EndAnnounce, FlushExplosions, sessionVars, audienceVars
<1>18. CASE UNCHANGED systemVars
  BY <1>3, <1>5, <1>18 DEF systemVars, clientVars, vars, sessionVars, audienceVars
<1>. QED
  BY <1>6, <1>7, <1>8, <1>9, <1>10, <1>11, <1>12, <1>13, <1>14, <1>15, <1>16, <1>17, <1>18
     DEF SystemNext, Browsers, ServerTick

-----------------------------------------------------------------------------
(* A client never shows its own avatar                                     *)

\* The ids of announced players and objects, for a room whose next player gets the id bound.
Announces(m, bound) ==
    /\ m.type = "Join" => IsPlayerId(m.id) /\ m.id < bound
    /\ m.type = "Spawn" => IsSpawnId(m.id)

\* A batch that welcomes nobody.
BatchOK(msgs, bound) == \A i \in 1..Len(msgs) : Announces(msgs[i], bound) /\ msgs[i].type # "Welcome"

\* What holds for a smaller bound holds for a larger one.
LEMMA OwnAvatarGrows ==
    ASSUME NEW c \in Client, NEW w \in Seq(Message), NEW low, NEW high, low \in Nat, high \in Nat,
           low <= high, OwnAvatarInv(c, w, low)
    PROVE  OwnAvatarInv(c, w, high)
<1>1. \A i \in 1..Len(w) : w[i] \in Message
  BY ElementOfSeq
<1>2. \A n \in Nat : n < low => n < high
  OBVIOUS
<1>3. \A i \in 1..Len(w) : w[i].type = "Join" => w[i].id \in Nat
  BY <1>1 DEF Message
<1>4. \A n \in c.reps : n \in Nat
  BY DEF Client
<1>. QED  BY <1>2, <1>3, <1>4 DEF OwnAvatarInv

\* Messages that welcome nobody may follow whatever is on the stream.
LEMMA OwnAvatarAppend ==
    ASSUME NEW c, NEW w \in Seq(Message), NEW msgs \in Seq(Message), NEW bound,
           OwnAvatarInv(c, w, bound), BatchOK(msgs, bound)
    PROVE  OwnAvatarInv(c, w \o msgs, bound)
<1> DEFINE u == w \o msgs
<1>1. Len(w) \in Nat /\ Len(msgs) \in Nat
  OBVIOUS
<1>2. \A i \in 1..Len(u) : \/ i \in 1..Len(w) /\ u[i] = w[i]
                           \/ i > Len(w) /\ i - Len(w) \in 1..Len(msgs) /\ u[i] = msgs[i - Len(w)]
  BY <1>1, ConcatProperties
<1> HIDE DEF u
<1>3. \A i \in 1..Len(u) : Announces(u[i], bound)
  BY <1>2 DEF OwnAvatarInv, BatchOK, Announces
<1>4. \A i \in 1..Len(u) : u[i].type = "Welcome" => i \in 1..Len(w) /\ u[i] = w[i]
  BY <1>2 DEF BatchOK
<1>5. ASSUME NEW i \in 1..Len(u), u[i].type = "Welcome"
      PROVE  /\ IsPlayerId(u[i].id) /\ ~c.joined /\ u[i].id \notin c.reps
             /\ \A j \in 1..Len(u) :
                   /\ u[j].type = "Welcome" => j = i
                   /\ j < i /\ u[j].type \in {"Join", "Spawn"} => u[j].id # u[i].id
  <2>1. i \in 1..Len(w) /\ u[i] = w[i] /\ w[i].type = "Welcome"
    BY <1>4, <1>5
  <2>2. \A j \in 1..Len(u) : j < i => j \in 1..Len(w) /\ u[j] = w[j]
    BY <1>1, <1>2, <2>1
  <2>. QED  BY <1>4, <2>1, <2>2 DEF OwnAvatarInv
<1>. QED  BY <1>3, <1>5 DEF OwnAvatarInv, Announces, u

\* The welcome comes to a client that has no avatar of the new player, nor ever will by then.
LEMMA OwnAvatarWelcome ==
    ASSUME NEW c, NEW w \in Seq(Message), NEW n, n \in Nat,
           OwnAvatarInv(c, w, n), ~c.joined, NoWelcome(w), IsPlayerId(n)
    PROVE  OwnAvatarInv(c, w \o <<Lifecycle("Welcome", n)>>, n)
<1> DEFINE m == Lifecycle("Welcome", n)
           u == w \o <<m>>
           p == Len(w)
<1>0. m.type = "Welcome" /\ m.id = n /\ m \in Message
  BY DEF Lifecycle, Message
<1> HIDE DEF m
<1>1. p \in Nat /\ Len(u) = p + 1 /\ u[p + 1] = m /\ \A i \in 1..p : u[i] = w[i]
  BY <1>0
<1> HIDE DEF u, p
<1>2. \A i \in 1..(p + 1) : i \in 1..p \/ i = p + 1
  BY <1>1
<1>3. \A i \in 1..p : w[i].type # "Welcome"
  BY DEF NoWelcome, p
<1>4. \A i \in 1..p : w[i].type \in {"Join", "Spawn"} => w[i].id # n
  <2>1. \A i \in 1..p : w[i].type = "Join" => w[i].id < n /\ w[i].id \in Nat
    <3>1. \A i \in 1..p : w[i] \in Message
      BY ElementOfSeq DEF p
    <3>. QED  BY <3>1 DEF OwnAvatarInv, Message, p
  <2>2. \A i \in 1..p : w[i].type = "Spawn" => IsSpawnId(w[i].id)
    BY DEF OwnAvatarInv, p
  <2>3. ~IsSpawnId(n)
    BY BasesAssumption DEF IsSpawnId, IsPlayerId
  <2>. QED  BY <2>1, <2>2, <2>3
<1>5. n \notin c.reps
  BY DEF OwnAvatarInv
<1>6. \A i \in 1..(p + 1) : Announces(u[i], n)
  BY <1>0, <1>1, <1>2 DEF Announces, OwnAvatarInv, p
<1>7. \A i \in 1..(p + 1) : u[i].type = "Welcome" => i = p + 1
  BY <1>1, <1>2, <1>3
<1>8. \A j \in 1..(p + 1) : j < p + 1 /\ u[j].type \in {"Join", "Spawn"} => u[j].id # n
  BY <1>1, <1>2, <1>4
<1>9. \A i \in 1..Len(u) : u[i].type = "Welcome" => i = p + 1 /\ u[i].id = n
  BY <1>0, <1>1, <1>7
<1>10. ASSUME NEW i \in 1..Len(u), u[i].type = "Welcome"
       PROVE  /\ IsPlayerId(u[i].id) /\ ~c.joined /\ u[i].id \notin c.reps
              /\ \A j \in 1..Len(u) :
                    /\ u[j].type = "Welcome" => j = i
                    /\ j < i /\ u[j].type \in {"Join", "Spawn"} => u[j].id # u[i].id
  BY <1>1, <1>5, <1>8, <1>9, <1>10
<1>11. OwnAvatarInv(c, u, n)
  BY <1>1, <1>6, <1>10 DEF OwnAvatarInv, Announces
<1>. QED  BY <1>11 DEF u, m

\* What a client makes of the first message ahead of it.
LEMMA OwnAvatarHead ==
    ASSUME NEW c \in Client, NEW w \in Seq(Message), NEW bound, w # <<>>, OwnAvatarInv(c, w, bound)
    PROVE  OwnAvatarInv(Applied(c, Head(w)), Tail(w), bound)
<1> DEFINE m == Head(w)
           t == Tail(w)
           d == Applied(c, m)
<1>1. /\ Len(t) = Len(w) - 1 /\ Len(w) \in Nat /\ Len(w) # 0 /\ m = w[1]
      /\ \A i \in 1..Len(t) : t[i] = w[i + 1]
  BY HeadTailProperties
<1>2. m \in Message
  OBVIOUS
<1>3. c.joined \in BOOLEAN /\ c.me \in Nat /\ c.reps \in SUBSET Nat
  BY DEF Client
<1> HIDE DEF m, t
<1>4. \A i \in 1..Len(t) : Announces(t[i], bound)
  BY <1>1 DEF OwnAvatarInv, Announces
<1>5. ASSUME NEW i \in 1..Len(t), t[i].type = "Welcome"
      PROVE  /\ IsPlayerId(t[i].id) /\ ~c.joined /\ t[i].id \notin c.reps
             /\ m.type # "Welcome"
             /\ m.type \in {"Join", "Spawn"} => m.id # t[i].id
             /\ \A j \in 1..Len(t) :
                   /\ t[j].type = "Welcome" => j = i
                   /\ j < i /\ t[j].type \in {"Join", "Spawn"} => t[j].id # t[i].id
  <2> DEFINE k == i + 1
  <2>1. k \in 1..Len(w) /\ t[i] = w[k] /\ w[k].type = "Welcome" /\ 1 \in 1..Len(w) /\ 1 < k
    BY <1>1, <1>5
  <2>2. \A j \in 1..Len(t) : j + 1 \in 1..Len(w) /\ t[j] = w[j + 1] /\ (j + 1 = k => j = i) /\ (j < i => j + 1 < k)
    BY <1>1
  <2> HIDE DEF k
  <2>3. /\ IsPlayerId(w[k].id) /\ ~c.joined /\ w[k].id \notin c.reps
        /\ \A j \in 1..Len(w) : /\ w[j].type = "Welcome" => j = k
                                /\ j < k /\ w[j].type \in {"Join", "Spawn"} => w[j].id # w[k].id
    BY <2>1 DEF OwnAvatarInv
  <2>4. m.type # "Welcome"
    BY <1>1, <2>1, <2>3
  <2>5. m.type \in {"Join", "Spawn"} => m.id # t[i].id
    BY <1>1, <2>1, <2>3
  <2>. QED  BY <2>1, <2>2, <2>3, <2>4, <2>5
<1>6. /\ m.type = "Welcome" => IsPlayerId(m.id) /\ ~c.joined /\ m.id \notin c.reps
      /\ Announces(m, bound)
  <2>1. 1 \in 1..Len(w)
    BY <1>1
  <2>. QED  BY <1>1, <2>1 DEF OwnAvatarInv, Announces
<1>7. /\ ~c.joined => \A n \in c.reps : IsPlayerId(n) => n < bound
      /\ c.joined => IsPlayerId(c.me) /\ c.me \notin c.reps
  BY DEF OwnAvatarInv
<1>8. m.type \in {"Welcome", "Join", "Leave", "Spawn", "Despawn", "Snapshot"}
  BY <1>2 DEF Message
<1> DEFINE Good == /\ ~d.joined => \A n \in d.reps : IsPlayerId(n) => n < bound
                   /\ d.joined => IsPlayerId(d.me) /\ d.me \notin d.reps
                   /\ m.type # "Welcome" => d.joined = c.joined
                   /\ ~c.joined => d.reps \subseteq c.reps
                                   \cup IF m.type \in {"Join", "Spawn"} THEN {m.id} ELSE {}
<1>9. ASSUME m.type = "Welcome" PROVE Good
  <2>1. d = [c EXCEPT !.joined = TRUE, !.me = m.id]
    BY <1>9 DEF Applied
  <2>2. d.joined = TRUE /\ d.me = m.id /\ d.reps = c.reps
    BY <2>1 DEF Client
  <2> HIDE DEF d
  <2>. QED  BY <1>6, <1>9, <2>2
<1>10. ASSUME m.type \in {"Join", "Spawn"} PROVE Good
  <2>1. /\ d.joined = c.joined /\ d.me = c.me
        /\ d.reps = c.reps \/ d.reps = c.reps \cup {m.id}
        /\ m.id = c.me => d.reps = c.reps \/ m.type = "Spawn"
    <3>1. d = c \/ (d = [c EXCEPT !.reps = @ \cup {m.id}] /\ (m.id = c.me => m.type = "Spawn"))
      BY <1>10 DEF Applied
    <3>2. LET e == [c EXCEPT !.reps = @ \cup {m.id}]
          IN  e.joined = c.joined /\ e.me = c.me /\ e.reps = c.reps \cup {m.id}
      BY DEF Client
    <3> HIDE DEF d
    <3>. QED  BY <3>1, <3>2
  <2>2. m.type = "Spawn" => ~IsPlayerId(m.id)
    <3>1. m.type = "Spawn" => m.id \in Nat
      BY <1>2 DEF Message
    <3>. QED  BY <1>6, <3>1, BasesAssumption DEF Announces, IsPlayerId, IsSpawnId
  <2>3. m.type = "Join" => m.id < bound
    BY <1>6 DEF Announces
  <2> HIDE DEF d
  <2>. QED  BY <1>7, <1>10, <2>1, <2>2, <2>3
<1>11. ASSUME m.type \in {"Leave", "Despawn"} PROVE Good
  <2>1. d = [c EXCEPT !.reps = @ \ {m.id}]
    BY <1>11 DEF Applied, WithoutRep
  <2>2. d.joined = c.joined /\ d.me = c.me /\ d.reps = c.reps \ {m.id}
    BY <2>1 DEF Client
  <2> HIDE DEF d
  <2>. QED  BY <1>7, <1>11, <2>2
<1>12. ASSUME m.type = "Snapshot" PROVE Good
  <2>1. d = IF c.joined THEN [c EXCEPT !.reps = @ \cup Sampled(c, m.ids)] ELSE c
    BY <1>12 DEF Applied, ApplySnapshot
  <2>2. c.me \notin Sampled(c, m.ids)
    BY DEF Sampled
  <2>3. d.joined = c.joined /\ d.me = c.me /\ (c.joined => d.reps = c.reps \cup Sampled(c, m.ids))
        /\ (~c.joined => d.reps = c.reps)
    BY <2>1 DEF Client
  <2> HIDE DEF d
  <2>. QED  BY <1>7, <1>12, <2>2, <2>3
<1>13. Good
  BY <1>8, <1>9, <1>10, <1>11, <1>12
<1> HIDE DEF d
<1>14. \A i \in 1..Len(t) : t[i].type = "Welcome" => ~d.joined /\ t[i].id \notin d.reps
  BY <1>5, <1>13
<1>15. ASSUME NEW i \in 1..Len(t), t[i].type = "Welcome"
       PROVE  /\ IsPlayerId(t[i].id) /\ ~d.joined /\ t[i].id \notin d.reps
              /\ \A j \in 1..Len(t) :
                    /\ t[j].type = "Welcome" => j = i
                    /\ j < i /\ t[j].type \in {"Join", "Spawn"} => t[j].id # t[i].id
  BY <1>5, <1>14, <1>15
<1>16. OwnAvatarInv(d, t, bound)
  BY <1>4, <1>13, <1>15 DEF OwnAvatarInv, Announces
<1>. QED  BY <1>16 DEF d, t, m

\* OwnAvatarInv, for every client.
OwnAvatars == \A s \in Sessions : OwnAvatarInv(client[s], wire[s], NewPlayerId)

\* The ids of a room are of the kind they are announced as.
LEMMA AnnouncedIds ==
    ASSUME IInv
    PROVE  /\ \A n \in PlayerIds : IsPlayerId(n) /\ n < NewPlayerId
           /\ \A n \in spawnedObjects : IsSpawnId(n)
           /\ IsSpawnId(NewSpawnId)
<1>1. nextPlayerIdx \in 0..MaxJoins /\ NewPlayerId = PlayerBase + nextPlayerIdx
  BY DEF IInv, TypeOK, NewPlayerId
<1>2. NewPlayerId <= SpawnBase /\ NewPlayerId \in Nat
  BY <1>1, BasesAssumption
<1>3. \A n \in PlayerIds : n \in Nat /\ PlayerBase <= n /\ n < NewPlayerId
  BY DEF IInv, TypeOK, AllocationInv, PlayerIds
<1>4. \A n \in PlayerIds : IsPlayerId(n)
  BY <1>2, <1>3, BasesAssumption DEF IsPlayerId
<1>. QED  BY <1>3, <1>4, BasicIds DEF IInv, ReplayInv

\* The batches of the server announce only what is of the room.
LEMMA BatchIsOK ==
    ASSUME NEW bound, NEW ids \in SUBSET Nat, IsFiniteSet(ids), NEW type \in Adding \cup Removing,
           type = "Join" => \A n \in ids : IsPlayerId(n) /\ n < bound,
           type = "Spawn" => \A n \in ids : IsSpawnId(n)
    PROVE  BatchOK(Messages(type, ids), bound)
<1> DEFINE M == Messages(type, ids)
<1>1. \A i \in 1..Len(M) : \E x \in ids : M[i] = Lifecycle(type, x)
  BY MessagesType
<1>2. \A x \in ids : Lifecycle(type, x).type = type /\ Lifecycle(type, x).id = x
  BY DEF Lifecycle
<1>3. type # "Welcome"
  BY DEF Adding, Removing
<1> HIDE DEF M
<1>4. \A i \in 1..Len(M) : M[i].type = type /\ M[i].id \in ids
  BY <1>1, <1>2
<1>5. BatchOK(M, bound)
  BY <1>3, <1>4 DEF BatchOK, Announces
<1>. QED  BY <1>5 DEF M

\* A client to whose stream nothing or such a batch is added.
LEMMA OwnAvatarSend ==
    ASSUME IInv, ChannelsOK, OwnAvatars, [Next]_vars, NEW s \in Sessions,
           client'[s] = client[s], NEW msgs, msgs \in Seq(Message), BatchOK(msgs, NewPlayerId'),
           wire'[s] = wire[s] \/ wire'[s] = wire[s] \o msgs
    PROVE  OwnAvatarInv(client'[s], wire'[s], NewPlayerId')
<1> DEFINE c == client[s]
           w == wire[s]
           high == NewPlayerId'
<1>1. c \in Client /\ w \in Seq(Message)
  BY DEF ChannelsOK, SystemTypeOK, Client
<1>2. NewPlayerId \in Nat /\ high \in Nat /\ NewPlayerId <= high
  BY IdsGrow
<1>3. OwnAvatarInv(c, w, NewPlayerId) /\ BatchOK(msgs, high)
  BY DEF OwnAvatars
<1> HIDE DEF c, w, high
<1>4. OwnAvatarInv(c, w, high)
  BY <1>1, <1>2, <1>3, OwnAvatarGrows
<1>5. OwnAvatarInv(c, w \o msgs, high)
  BY <1>1, <1>3, <1>4, OwnAvatarAppend
<1>. QED  BY <1>4, <1>5 DEF c, w, high

\* A client to whom nothing happens.
LEMMA OwnAvatarFrame ==
    ASSUME IInv, ChannelsOK, OwnAvatars, [Next]_vars, NEW s \in Sessions,
           client'[s] = client[s], wire'[s] = wire[s]
    PROVE  OwnAvatarInv(client'[s], wire'[s], NewPlayerId')
<1> DEFINE none == <<>>
<1>1. none \in Seq(Message) /\ BatchOK(none, NewPlayerId')
  BY DEF BatchOK
<1> HIDE DEF none
<1>. QED  BY <1>1, OwnAvatarSend

\* A client that begins anew.
LEMMA OwnAvatarGone == \A bound : OwnAvatarInv(NewClient, <<>>, bound)
<1> SUFFICES ASSUME NEW bound PROVE OwnAvatarInv(NewClient, <<>>, bound)
  OBVIOUS
<1>1. NewClient.joined = FALSE /\ NewClient.reps = 1..SceneSize
  BY DEF NewClient, FileIds
<1>2. \A n \in 1..SceneSize : ~IsPlayerId(n)
  BY BasesAssumption DEF IsPlayerId
<1>3. Len(<<>>) = 0
  OBVIOUS
<1>. QED  BY <1>1, <1>2, <1>3 DEF OwnAvatarInv

\* The newcomer's stream.
LEMMA OwnAvatarNewcomer ==
    ASSUME IInv, ChannelsOK, HelloInv, OwnAvatars, [Next]_vars, NEW s \in Sessions,
           hello[s] = "flying", HelloAccepted(s),
           client'[s] = client[s], wire'[s] = wire[s] \o WelcomePackage
    PROVE  OwnAvatarInv(client'[s], wire'[s], NewPlayerId')
<1> DEFINE c == client[s]
           w == wire[s]
           W == <<Lifecycle("Welcome", NewPlayerId)>>
           J == Messages("Join", PlayerIds)
           P == Messages("Spawn", spawnedObjects)
           high == NewPlayerId'
<1>1. c \in Client /\ w \in Seq(Message) /\ OwnAvatarInv(c, w, NewPlayerId)
  BY DEF ChannelsOK, SystemTypeOK, Client, OwnAvatars
<1>2. ~c.joined /\ NoWelcome(w)
  BY DEF HelloInv, NoWelcome
<1>3. W \in Seq(Message) /\ J \in Seq(Message) /\ P \in Seq(Message)
  BY MessageBatches
<1>4. NewPlayerId \in Nat /\ high \in Nat /\ NewPlayerId <= high
  BY IdsGrow
<1>5. IsPlayerId(NewPlayerId)
  BY BasicIds DEF IInv, HelloAccepted
<1>6. BatchOK(J, high) /\ BatchOK(P, high)
  <2>1. \A n \in PlayerIds : IsPlayerId(n) /\ n < high
    <3>1. \A n \in PlayerIds : IsPlayerId(n) /\ n < NewPlayerId /\ n \in Nat
      BY AnnouncedIds, FiniteIds
    <3> HIDE DEF high
    <3>. QED  BY <1>4, <3>1
  <2>2. "Join" \in Adding \cup Removing /\ "Spawn" \in Adding \cup Removing
    BY DEF Adding
  <2> HIDE DEF high
  <2>3. BatchOK(J, high)
    BY <2>1, <2>2, FiniteIds, BatchIsOK
  <2>4. BatchOK(P, high)
    BY <2>2, AnnouncedIds, FiniteIds, BatchIsOK
  <2>. QED  BY <2>3, <2>4
<1>7. OwnAvatarInv(c, w \o W, NewPlayerId)
  <2> HIDE DEF c, w
  <2>. QED  BY <1>1, <1>2, <1>4, <1>5, OwnAvatarWelcome
<1> HIDE DEF c, w, W, J, P, high
<1> DEFINE a == w \o W
           b == a \o J
<1>8. a \in Seq(Message) /\ b \in Seq(Message)
  BY <1>1, <1>3
<1>9. OwnAvatarInv(c, a, high)
  <2>1. OwnAvatarInv(c, a, NewPlayerId)
    BY <1>7
  <2> HIDE DEF a
  <2>. QED  BY <1>1, <1>4, <1>8, <2>1, OwnAvatarGrows
<1> HIDE DEF a
<1>10. OwnAvatarInv(c, b, high)
  BY <1>3, <1>6, <1>8, <1>9, OwnAvatarAppend
<1> HIDE DEF b
<1>11. OwnAvatarInv(c, b \o P, high)
  BY <1>3, <1>6, <1>8, <1>10, OwnAvatarAppend
<1>12. b \o P = w \o WelcomePackage
  <2>1. WelcomePackage = (W \o J) \o P
    BY DEF WelcomePackage, W, J, P
  <2>2. b = w \o (W \o J)
    BY <1>1, <1>3 DEF a, b
  <2>3. W \o J \in Seq(Message)
    BY <1>3
  <2>. QED  BY <1>1, <1>3, <2>1, <2>2, <2>3
<1>. QED  BY <1>11, <1>12 DEF c, w, high

\* Every step keeps OwnAvatars.
LEMMA NextOwnAvatars ==
    IInv /\ ChannelsOK /\ HelloInv /\ OwnAvatars /\ [SystemNext]_systemVars => OwnAvatars'
<1> SUFFICES ASSUME IInv, ChannelsOK, HelloInv, OwnAvatars, [SystemNext]_systemVars, NEW s \in Sessions
             PROVE  OwnAvatarInv(client'[s], wire'[s], NewPlayerId')
  BY DEF OwnAvatars
<1>1. [Next]_vars
  BY SystemStepIsAStep
<1>2. client \in [Sessions -> Client] /\ wire \in [Sessions -> Seq(Message)] /\ TypeOK
  BY DEF ChannelsOK, SystemTypeOK, Client
<1>3. ASSUME client'[s] = client[s], wire'[s] = wire[s]
      PROVE  OwnAvatarInv(client'[s], wire'[s], NewPlayerId')
  BY <1>1, <1>3, OwnAvatarFrame
<1>4. ASSUME NEW to, NEW ids \in SUBSET Nat, IsFiniteSet(ids), NEW type \in Adding \cup Removing,
             type = "Join" => \A n \in ids : IsPlayerId(n) /\ n < NewPlayerId',
             type = "Spawn" => \A n \in ids : IsSpawnId(n),
             client'[s] = client[s], wire'[s] = Sent(to, Messages(type, ids))[s]
      PROVE  OwnAvatarInv(client'[s], wire'[s], NewPlayerId')
  <2> DEFINE M == Messages(type, ids)
             high == NewPlayerId'
  <2>1. M \in Seq(Message)
    BY <1>4, MessagesType
  <2>2. BatchOK(M, high)
    <3>1. type = "Join" => \A n \in ids : IsPlayerId(n) /\ n < high
      BY <1>4
    <3> HIDE DEF high
    <3>. QED  BY <1>4, <3>1, BatchIsOK
  <2>3. wire'[s] = wire[s] \/ wire'[s] = wire[s] \o M
    BY <1>4 DEF Sent
  <2>4. client'[s] = client[s] /\ BatchOK(M, NewPlayerId')
    BY <1>4, <2>2
  <2> HIDE DEF M
  <2>. QED  BY <1>1, <2>1, <2>3, <2>4, OwnAvatarSend
<1>5. ASSUME NEW t \in Sessions,
             Open(t) \/ SendHello(t) \/ SendInput(t) \/ LoseDatagram(t)
      PROVE  OwnAvatarInv(client'[s], wire'[s], NewPlayerId')
  BY <1>3, <1>5 DEF Open, SendHello, SendInput, LoseDatagram, clientVars
<1>6. ASSUME NEW t \in Sessions, Close(t) \/ CloseUnnoticed(t)
      PROVE  OwnAvatarInv(client'[s], wire'[s], NewPlayerId')
  <2>1. /\ client' = [client EXCEPT ![t] = NewClient]
        /\ \/ wire' = [Farewells({t}) EXCEPT ![t] = <<>>]
           \/ wire' = [wire EXCEPT ![t] = <<>>]
    BY <1>6 DEF Close, CloseUnnoticed, Gone
  <2>2. CASE s = t
    <3>1. client'[s] = NewClient /\ wire'[s] = <<>>
      BY <1>2, <2>1, <2>2 DEF Farewells, Sent
    <3>. QED  BY <3>1, OwnAvatarGone
  <2>3. CASE s # t /\ wire'[s] = wire[s]
    BY <1>3, <2>1, <2>3
  <2>4. CASE s # t /\ wire'[s] = Farewells({t})[s]
    <3> DEFINE to == registered \ {t}
               ids == LeaverIds({t})
    <3>1. wire'[s] = Sent(to, Messages("Leave", ids))[s] /\ client'[s] = client[s]
      BY <2>1, <2>4, FarewellsAre
    <3>2. ids \in SUBSET Nat /\ IsFiniteSet(ids) /\ "Leave" \in Adding \cup Removing
      BY LeaverIdsFinite DEF Removing
    <3> HIDE DEF to, ids
    <3>. QED  BY <1>4, <3>1, <3>2
  <2>. QED  BY <1>2, <2>1, <2>2, <2>3, <2>4 DEF Farewells, Sent
<1>7. ASSUME NEW t \in Sessions, Receive(t)
      PROVE  OwnAvatarInv(client'[s], wire'[s], NewPlayerId')
  <2>1. /\ wire[t] # <<>> /\ UNCHANGED nextPlayerIdx
        /\ client' = [client EXCEPT ![t] = Applied(client[t], Head(wire[t]))]
        /\ wire' = [wire EXCEPT ![t] = Tail(wire[t])]
    BY <1>7 DEF Receive, vars, sessionVars
  <2>2. CASE s = t
    <3> DEFINE c == client[s]
               w == wire[s]
               bound == NewPlayerId
    <3>1. c \in Client /\ w \in Seq(Message) /\ w # <<>> /\ OwnAvatarInv(c, w, bound)
      BY <1>2, <2>1, <2>2 DEF OwnAvatars
    <3>2. client'[s] = Applied(c, Head(w)) /\ wire'[s] = Tail(w) /\ NewPlayerId' = bound
      BY <1>2, <2>1, <2>2 DEF NewPlayerId
    <3> HIDE DEF c, w, bound
    <3>3. OwnAvatarInv(Applied(c, Head(w)), Tail(w), bound)
      BY <3>1, OwnAvatarHead
    <3>. QED  BY <3>2, <3>3
  <2>3. CASE s # t
    BY <1>3, <2>1, <2>3
  <2>. QED  BY <2>2, <2>3
<1>8. ASSUME NEW t \in Sessions, ReceiveDatagram(t)
      PROVE  OwnAvatarInv(client'[s], wire'[s], NewPlayerId')
  <2>1. PICK m \in datagrams[t] : client' = [client EXCEPT ![t] = ApplySnapshot(client[t], m)]
    BY <1>8 DEF ReceiveDatagram
  <2>2. UNCHANGED <<wire, nextPlayerIdx>>
    BY <1>8 DEF ReceiveDatagram, vars, sessionVars
  <2>3. CASE s = t
    <3> DEFINE c == client[s]
               d == ApplySnapshot(c, m)
               w == wire[s]
               bound == NewPlayerId
    <3>1. c \in Client /\ OwnAvatarInv(c, w, bound)
      BY <1>2 DEF OwnAvatars
    <3>2. client'[s] = d /\ wire'[s] = w /\ NewPlayerId' = bound
      BY <1>2, <2>1, <2>2, <2>3 DEF NewPlayerId
    <3> HIDE DEF c, w, bound
    <3>3. /\ d.joined = c.joined /\ d.me = c.me
          /\ ~c.joined => d.reps = c.reps
          /\ c.me \notin c.reps => d.me \notin d.reps
      BY <3>1 DEF ApplySnapshot, Sampled, Client
    <3>4. c.joined \in BOOLEAN
      BY <3>1 DEF Client
    <3> HIDE DEF d
    <3>5. OwnAvatarInv(d, w, bound)
      BY <3>1, <3>3, <3>4 DEF OwnAvatarInv
    <3>. QED  BY <3>2, <3>5
  <2>4. CASE s # t
    BY <1>3, <2>1, <2>2, <2>4
  <2>. QED  BY <2>3, <2>4
<1>9. ASSUME NEW t \in Sessions, HelloArrives(t)
      PROVE  OwnAvatarInv(client'[s], wire'[s], NewPlayerId')
  <2>1. UNCHANGED client /\ hello[t] = "flying"
    BY <1>9 DEF HelloArrives
  <2>2. CASE UNCHANGED wire
    BY <1>3, <2>1, <2>2
  <2>3. CASE /\ HelloAccepted(t)
             /\ wire' = [Sent(registered, Messages("Join", {NewPlayerId})) EXCEPT ![t] = wire[t] \o WelcomePackage]
    <3>1. CASE s = t
      <4>1. wire'[s] = wire[s] \o WelcomePackage
        BY <2>3, <3>1 DEF Sent
      <4>. QED  BY <1>1, <2>1, <2>3, <3>1, <4>1, OwnAvatarNewcomer
    <3>2. CASE s # t
      <4> DEFINE ids == {NewPlayerId}
      <4>1. wire'[s] = Sent(registered, Messages("Join", ids))[s]
        BY <2>3, <3>2 DEF Sent
      <4>2. ids \in SUBSET Nat /\ IsFiniteSet(ids) /\ "Join" \in Adding \cup Removing
        BY <1>2, BasicIds, FS_Singleton DEF Adding
      <4>3. \A n \in ids : IsPlayerId(n) /\ n < NewPlayerId'
        <5>1. nextPlayerIdx \in Nat /\ PlayerBase \in Nat
          BY <1>2, BasesAssumption DEF TypeOK
        <5>2. NewPlayerId' = PlayerBase + (nextPlayerIdx + 1)
          BY <2>3 DEF HelloAccepted, NewPlayerId
        <5>3. PlayerBase + nextPlayerIdx < PlayerBase + (nextPlayerIdx + 1)
          BY <5>1
        <5>4. IsPlayerId(NewPlayerId)
          BY <1>2, <2>3, BasicIds DEF HelloAccepted
        <5>. QED  BY <5>2, <5>3, <5>4 DEF NewPlayerId
      <4> HIDE DEF ids
      <4>. QED  BY <1>4, <2>1, <4>1, <4>2, <4>3
    <3>. QED  BY <3>1, <3>2
  <2>. QED  BY <1>9, <2>2, <2>3 DEF HelloArrives
<1>10. CASE BeginTickAndReap
  <2> DEFINE to == registered \ Dead
             ids == LeaverIds(Dead)
  <2>1. wire'[s] = Sent(to, Messages("Leave", ids))[s] /\ client'[s] = client[s]
    BY <1>10, FarewellsAre DEF BeginTickAndReap
  <2>2. ids \in SUBSET Nat /\ IsFiniteSet(ids) /\ "Leave" \in Adding \cup Removing
    BY LeaverIdsFinite DEF Removing
  <2> HIDE DEF to, ids
  <2>. QED  BY <1>4, <2>1, <2>2
<1>11. ASSUME NEW h \in Handles, BroadcastSpawn(h)
       PROVE  OwnAvatarInv(client'[s], wire'[s], NewPlayerId')
  <2> DEFINE ids == {NewSpawnId}
  <2>1. wire'[s] = Sent(spawned, Messages("Spawn", ids))[s] /\ client'[s] = client[s]
    BY <1>11 DEF BroadcastSpawn
  <2>2. /\ ids \in SUBSET Nat /\ IsFiniteSet(ids) /\ "Spawn" \in Adding \cup Removing
        /\ \A n \in ids : IsSpawnId(n)
    BY <1>2, BasicIds, FS_Singleton DEF Adding
  <2> HIDE DEF ids
  <2>. QED  BY <1>4, <2>1, <2>2
<1>12. CASE BroadcastDespawns
  <2>1. wire'[s] = Sent(spawned, Messages("Despawn", pendingDespawns))[s] /\ client'[s] = client[s]
    BY <1>12 DEF BroadcastDespawns
  <2>2. "Despawn" \in Adding \cup Removing
    BY DEF Removing
  <2>. QED  BY <1>4, <2>1, <2>2, FiniteIds
<1>13. CASE BroadcastSnapshots
  <2> DEFINE m == SnapshotMessage(SnapshotIds, broadcasts + 1)
             M == <<m>>
  <2>1. /\ client'[s] = client[s]
        /\ wire' = wire \/ wire' = Sent(spawned \ Datagrams, M)
    BY <1>13 DEF BroadcastSnapshots
  <2>2. m \in Message /\ m.type = "Snapshot"
    BY SnapshotType DEF ChannelsOK, SystemTypeOK, SnapshotMessage
  <2> HIDE DEF m
  <2>3. M \in Seq(Message) /\ BatchOK(M, NewPlayerId')
    BY <2>2 DEF BatchOK, Announces
  <2>4. wire'[s] = wire[s] \/ wire'[s] = wire[s] \o M
    BY <2>1 DEF Sent
  <2> HIDE DEF M
  <2>. QED  BY <1>1, <2>1, <2>3, <2>4, OwnAvatarSend
<1>14. CASE QuietServerStep
  BY <1>3, <1>14 DEF QuietServerStep, clientVars
<1>15. CASE UNCHANGED systemVars
  BY <1>3, <1>15 DEF systemVars, clientVars
<1>. QED
  BY <1>5, <1>6, <1>7, <1>8, <1>9, <1>10, <1>11, <1>12, <1>13, <1>14, <1>15
     DEF SystemNext, Browsers, ServerTick

\* OwnAvatars holds at first.
LEMMA InitOwnAvatars == SystemInit => OwnAvatars
BY OwnAvatarGone DEF SystemInit, OwnAvatars

-----------------------------------------------------------------------------
(* Theorems                                                                  *)

\* SystemInv holds in every reachable state of the server together with its clients.
THEOREM SystemInvariance == SystemSpec => []SystemInv
<1>1. SystemInit => SystemInv
  BY InitTypeOK, InitAllocation, InitReplay, InitAudience, InitChannels, InitHello, InitTold, InitOwnAvatars
     DEF SystemInv, SystemInit, IInv, OwnAvatars
<1>2. SystemInv /\ [SystemNext]_systemVars => SystemInv'
  BY SystemStepIsAStep, StepKeepsIInv, NextChannels, NextHello, NextTold, NextOwnAvatars
     DEF SystemInv, OwnAvatars
<1>. QED  BY <1>1, <1>2, PTL DEF SystemSpec

\* Whatever crosses, nothing the server told a client of is missing once it has caught up.
THEOREM NothingIsMissing == SystemSpec => []NothingMissing
<1>1. SystemInv => NothingMissing
  BY DEF SystemInv, ToldInv, NothingMissing
<1>. QED  BY <1>1, SystemInvariance, PTL

\* Beside what the server told it of, a client has nothing but avatars, and never its own.
THEOREM NothingElseLingers == SystemSpec => []OnlyAvatarsLinger
<1>1. SystemInv => OnlyAvatarsLinger
  BY DEF SystemInv, ToldInv, ChannelsOK, OwnAvatarInv, OnlyAvatarsLinger
<1>. QED  BY <1>1, SystemInvariance, PTL

\* A client on one ordered stream that has caught up shows the room as it is.
THEOREM CaughtUpClients == SystemSpec => []CaughtUpClientIsRight
<1>1. SystemInv => CaughtUpClientIsRight
  <2> SUFFICES ASSUME SystemInv, phase = "net", NEW s \in spawned \ (lapsed \cup Datagrams), link[s] = "open"
               PROVE  {n \in Settled(s).reps : ~IsSceneId(n)} = {n \in LiveIds \ {netId[s]} : ~IsSceneId(n)}
    BY DEF CaughtUpClientIsRight
  <2>1. s \in Sessions /\ s \in registered /\ IInv /\ ToldInv
    BY DEF SystemInv, IInv, TypeOK
  <2>2. Settled(s).reps = told[s]
    BY <2>1, ToldParts DEF Agrees
  <2>3. ASSUME NEW n \in told[s], ~IsSceneId(n)
        PROVE  n \in LiveIds \ {netId[s]}
    <3>1. n \in Nat /\ n # 0
      BY <2>1 DEF ToldInv, IInv, TypeOK
    <3>2. CASE IsPlayerId(n)
      <4>1. PICK t \in spawned \ {s} : netId[t] = n
        BY <2>1, <3>2 DEF IInv, AudienceInv, RosterAgrees
      <4>. QED  BY <2>1, <4>1 DEF IInv, AllocationInv, LiveIds, PlayerIds
    <3>3. CASE IsSpawnId(n)
      <4>1. n \in spawnedObjects
        BY <3>3, <2>1 DEF IInv, AudienceInv
      <4>2. n \in BodyIds
        BY <2>1, <4>1 DEF IInv, ReplayInv
      <4>3. n # netId[s]
        <5>1. IsPlayerId(netId[s]) /\ netId[s] \in Nat
          BY <2>1, AnnouncedIds, FiniteIds DEF PlayerIds
        <5>. QED  BY <3>3, <5>1, BasesAssumption DEF IsPlayerId, IsSpawnId
      <4>. QED  BY <4>2, <4>3 DEF LiveIds
    <3>. QED  BY <2>3, <3>1, <3>2, <3>3, BasesAssumption DEF IsSceneId, IsPlayerId, IsSpawnId
  <2>4. ASSUME NEW n \in LiveIds \ {netId[s]}, ~IsSceneId(n)
        PROVE  n \in told[s]
    <3>1. CASE n \in PlayerIds
      BY <2>1, <3>1 DEF PlayerIds, IInv, AudienceInv, RosterAgrees
    <3>2. CASE n \in BodyIds
      <4>1. IsSpawnId(n)
        BY <2>1, <2>4, <3>2 DEF BodyIds, IInv, AllocationInv
      <4>. QED  BY <2>1, <3>2, <4>1 DEF IInv, ReplayInv, AudienceInv
    <3>. QED  BY <3>1, <3>2 DEF LiveIds
  <2>. QED  BY <2>2, <2>3, <2>4
<1>. QED  BY <1>1, SystemInvariance, PTL

\* A room and its browsers do only what a room does that hears from anybody at any time:
\* every behavior of the two is one of GameServer.
THEOREM SystemIsAGameServer == SystemSpec => Spec
<1>1. SystemInit => Init
  BY DEF SystemInit
<1>. QED  BY <1>1, SystemStepIsAStep, PTL DEF SystemSpec, Spec

\* In the system, too, no two things in a room have one netId, and those who are told of a
\* player or an object are told when it goes (GameServer.cpp onMessage, onDisconnect,
\* sweep, announceSpawns).
THEOREM SystemKeepsItsIds == SystemSpec => [](NetIdsUnique /\ RosterAgrees)
BY SystemIsAGameServer, UniqueIds, RostersAgree, PTL
=============================================================================
