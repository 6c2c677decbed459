------------------------- MODULE RoomManagerProofs -------------------------
(***************************************************************************)
(* Proofs about RoomManager, for any set of requests, games and ports: no  *)
(* port is shared, no process is orphaned, and only a dropped request can  *)
(* lose a port.  RoomsInv is inductive; the lemmas below show for each of  *)
(* its parts that a step preserves it, action by action.                   *)
(***************************************************************************)
EXTENDS RoomManager, TLAPS

LEMMA InitRooms == Init => RoomsInv
BY RoomConfigAssumption
DEF Init, RoomsInv, RoomsTypeOK, HoldersInv, StageInv, NoOrphan, PortsAccounted, Holders,
    Bound, Running, Ports, NoPort, NoToken, Steps, Unasked

----------------------------------------------------------------------------
(* Types                                                                   *)

\* A player count after the second pass is one the room may have.
LEMMA CountsInRange ==
    ASSUME RoomsTypeOK, Judge
    PROVE  players' \in [Joins -> 0..MaxOccupants]
<1>1. ASSUME NEW t \in Joins PROVE Refreshed(t) \subseteq 0..MaxOccupants
  BY RoomConfigAssumption DEF RoomsTypeOK, Refreshed, Unasked
<1>2. PICK n \in [Joins -> UNION {Refreshed(t) : t \in Joins}] :
          (\A t \in Joins : n[t] \in Refreshed(t)) /\ players' = n
  BY DEF Judge
<1>. QED  BY <1>1, <1>2

LEMMA NextRoomsType == RoomsTypeOK /\ [Next]_vars => RoomsTypeOK'
<1> SUFFICES ASSUME RoomsTypeOK, [Next]_vars PROVE RoomsTypeOK'
  OBVIOUS
<1>. USE RoomConfigAssumption
<1>1. ASSUME NEW j \in Joins, FindRoom(j) PROVE RoomsTypeOK'
  BY <1>1 DEF FindRoom, Joinable, Goes, RoomsTypeOK, Steps, roomVars, reaperVars
<1>2. ASSUME NEW j \in Joins, CountRooms(j) PROVE RoomsTypeOK'
  <2>1. step' \in [Joins -> Steps]
    BY <1>2 DEF CountRooms, Goes, RoomsTypeOK, Steps
  <2>. QED  BY <1>2, <2>1 DEF CountRooms, RoomsTypeOK, roomVars, reaperVars
<1>3. ASSUME NEW j \in Joins, ClaimAndSpawn(j) PROVE RoomsTypeOK'
  BY <1>3 DEF ClaimAndSpawn, ClaimPort, FreePorts, Goes, RoomsTypeOK, Steps, roomVars, reaperVars
<1>4. ASSUME NEW j \in Joins, NoPortLeft(j) PROVE RoomsTypeOK'
  BY <1>4 DEF NoPortLeft, Goes, RoomsTypeOK, Steps, roomVars, reaperVars
<1>5. ASSUME NEW j \in Joins, RoomReady(j) PROVE RoomsTypeOK'
  BY <1>5 DEF RoomReady, Goes, RoomsTypeOK, Steps, roomVars, reaperVars
<1>6. ASSUME NEW j \in Joins, StartFails(j) PROVE RoomsTypeOK'
  BY <1>6 DEF StartFails, Goes, Killed, RoomsTypeOK, Steps, roomVars, reaperVars
<1>7. ASSUME NEW j \in Joins, Insert(j) PROVE RoomsTypeOK'
  BY <1>7 DEF Insert, Goes, Token, RoomsTypeOK, Steps, reaperVars
<1>8. ASSUME NEW j \in Joins, GiveUp(j) PROVE RoomsTypeOK'
  BY <1>8 DEF GiveUp, ReleasePort, Goes, RoomsTypeOK, Steps, roomVars, reaperVars
<1>9. ASSUME NEW t \in Joins, HangUp(t) PROVE RoomsTypeOK'
  BY <1>9 DEF HangUp, DroppedChild, Killed, Goes, RoomsTypeOK, Steps, roomVars, reaperVars
<1>10. ASSUME NEW t \in Joins, BootDone(t) \/ ProcessExits(t) PROVE RoomsTypeOK'
  BY <1>10 DEF BootDone, ProcessExits, RoomsTypeOK, joinVars, roomVars, reaperVars
<1>11. ASSUME NEW t \in Joins, Enter(t) \/ Leave(t) PROVE RoomsTypeOK'
  BY <1>11 DEF Enter, Leave, RoomsTypeOK, joinVars, roomVars, reaperVars
<1>12. ASSUME NEW t \in Joins, WindowPasses(t) PROVE RoomsTypeOK'
  BY <1>12 DEF WindowPasses, RoomsTypeOK, joinVars, reaperVars
<1>13. ASSUME NEW p \in Ports, CoolDown(p) PROVE RoomsTypeOK'
  BY <1>13 DEF CoolDown, RoomsTypeOK, joinVars, roomVars, reaperVars
<1>14. CASE ListRooms
  BY <1>14 DEF ListRooms, RoomsTypeOK, Unasked, joinVars, roomVars
<1>15. ASSUME NEW t \in Joins, Probe(t) PROVE RoomsTypeOK'
  <2>1. report' \in [Joins -> Unasked..MaxOccupants]
    BY <1>15 DEF Probe, RoomsTypeOK, Unasked, Silent
  <2>. QED  BY <1>15, <2>1 DEF Probe, RoomsTypeOK, joinVars, roomVars
<1>16. CASE Judge
  <2>1. players' \in [Joins -> 0..MaxOccupants]
    BY <1>16, CountsInRange
  <2>2. report' \in [Joins -> Unasked..MaxOccupants]
    BY <1>16 DEF Judge, Unasked
  <2>3. dead' \subseteq Joins
    BY <1>16 DEF Judge, Doomed, RoomsTypeOK
  <2>4. windowOver' \in [Joins -> BOOLEAN]
    <3>1. windowOver' = [t \in Joins |->
                           windowOver[t] /\ ~(t \in rooms /\ Running(t) /\ report[t] > 0)]
      BY <1>16 DEF Judge
    <3>. QED  BY <3>1, Zenon
  <2>. QED  BY <1>16, <2>1, <2>2, <2>3, <2>4 DEF Judge, RoomsTypeOK, joinVars
<1>17. ASSUME NEW t \in Joins, StopRoom(t) PROVE RoomsTypeOK'
  BY <1>17 DEF StopRoom, Killed, RoomsTypeOK, joinVars
<1>18. ASSUME NEW t \in Joins, ReleaseStopped(t) PROVE RoomsTypeOK'
  BY <1>18 DEF ReleaseStopped, ReleasePort, RoomsTypeOK, joinVars, roomVars
<1>19. CASE ReaperSleeps
  BY <1>19 DEF ReaperSleeps, RoomsTypeOK, joinVars, roomVars
<1>20. CASE UNCHANGED vars
  BY <1>20 DEF vars, joinVars, roomVars, reaperVars, RoomsTypeOK
<1>. QED
  BY <1>1, <1>2, <1>3, <1>4, <1>5, <1>6, <1>7, <1>8, <1>9, <1>10, <1>11, <1>12, <1>13, <1>14,
     <1>15, <1>16, <1>17, <1>18, <1>19, <1>20
  DEF Next, JoinStep, Environment, Reaper

----------------------------------------------------------------------------
(* Stages                                                                  *)

LEMMA NextStage == RoomsTypeOK /\ StageInv /\ [Next]_vars => StageInv'
<1> SUFFICES ASSUME RoomsTypeOK, StageInv, [Next]_vars PROVE StageInv'
  OBVIOUS
<1>1. ASSUME NEW j \in Joins,
             FindRoom(j) \/ CountRooms(j) \/ NoPortLeft(j) \/ RoomReady(j) \/ StartFails(j) \/ GiveUp(j)
      PROVE  StageInv'
  <2>1. step[j] # "answered" /\ step' = [step EXCEPT ![j] = step'[j]]
    BY <1>1 DEF FindRoom, CountRooms, NoPortLeft, RoomReady, StartFails, GiveUp, Goes, RoomsTypeOK
  <2>2. step'[j] \in {"count", "claim"} => step[j] \in {"idle", "count"}
    BY <1>1 DEF FindRoom, CountRooms, NoPortLeft, RoomReady, StartFails, GiveUp, Goes, RoomsTypeOK
  <2>3. step'[j] # "idle"
    BY <1>1 DEF FindRoom, CountRooms, NoPortLeft, RoomReady, StartFails, GiveUp, Goes, RoomsTypeOK
  <2>4. UNCHANGED <<claimed, rooms, dead, reaper>>
    BY <1>1 DEF FindRoom, CountRooms, NoPortLeft, RoomReady, StartFails, GiveUp, roomVars, reaperVars
  <2>. QED  BY <2>1, <2>2, <2>3, <2>4 DEF StageInv, RoomsTypeOK
<1>2. ASSUME NEW j \in Joins, ClaimAndSpawn(j) PROVE StageInv'
  BY <1>2 DEF ClaimAndSpawn, Goes, StageInv, RoomsTypeOK, roomVars, reaperVars
<1>3. ASSUME NEW j \in Joins, Insert(j) PROVE StageInv'
  BY <1>3 DEF Insert, Goes, Token, StageInv, RoomsTypeOK, reaperVars
<1>4. ASSUME NEW j \in Joins, HangUp(j) PROVE StageInv'
  BY <1>4 DEF HangUp, Goes, StageInv, RoomsTypeOK, roomVars, reaperVars
<1>5. ASSUME NEW t \in Joins, BootDone(t) \/ ProcessExits(t) \/ Enter(t) \/ Leave(t) \/ WindowPasses(t)
      PROVE  StageInv'
  BY <1>5 DEF BootDone, ProcessExits, Enter, Leave, WindowPasses, StageInv, joinVars, roomVars, reaperVars
<1>6. ASSUME NEW p \in Ports, CoolDown(p) PROVE StageInv'
  BY <1>6 DEF CoolDown, StageInv, joinVars, roomVars, reaperVars
<1>7. CASE ListRooms
  BY <1>7 DEF ListRooms, StageInv, joinVars, roomVars
<1>8. ASSUME NEW t \in Joins, Probe(t) PROVE StageInv'
  BY <1>8 DEF Probe, StageInv, joinVars, roomVars
<1>9. CASE Judge
  BY <1>9 DEF Judge, Doomed, StageInv, joinVars
<1>10. ASSUME NEW t \in Joins, StopRoom(t) PROVE StageInv'
  BY <1>10 DEF StopRoom, StageInv, joinVars
<1>11. ASSUME NEW t \in Joins, ReleaseStopped(t) PROVE StageInv'
  BY <1>11 DEF ReleaseStopped, StageInv, joinVars, roomVars
<1>12. CASE ReaperSleeps
  BY <1>12 DEF ReaperSleeps, StageInv, joinVars, roomVars
<1>13. CASE UNCHANGED vars
  BY <1>13 DEF vars, joinVars, roomVars, reaperVars, StageInv
<1>. QED
  BY <1>1, <1>2, <1>3, <1>4, <1>5, <1>6, <1>7, <1>8, <1>9, <1>10, <1>11, <1>12, <1>13
  DEF Next, JoinStep, Environment, Reaper

----------------------------------------------------------------------------
(* Running processes                                                       *)

\* Killing a process only ever leaves fewer of them running.
LEMMA KilledStops ==
    ASSUME RoomsTypeOK, NEW t \in Joins, process' = Killed(t)
    PROVE  /\ \A u \in Joins : Running(u)' => u # t /\ Running(u)
           /\ \A u \in Joins : Bound(u)' <=> Bound(u)
BY DEF RoomsTypeOK, Killed, Running, Bound

LEMMA NextNoOrphan == RoomsTypeOK /\ StageInv /\ NoOrphan /\ [Next]_vars => NoOrphan'
<1> SUFFICES ASSUME RoomsTypeOK, StageInv, NoOrphan, [Next]_vars PROVE NoOrphan'
  OBVIOUS
<1>1. ASSUME NEW j \in Joins,
             FindRoom(j) \/ CountRooms(j) \/ NoPortLeft(j) \/ RoomReady(j) \/ GiveUp(j)
      PROVE  NoOrphan'
  <2>1. step' = [step EXCEPT ![j] = step'[j]] /\ step[j] # "insert"
    BY <1>1 DEF FindRoom, CountRooms, NoPortLeft, RoomReady, GiveUp, Goes, RoomsTypeOK
  <2>2. step[j] = "await" => step'[j] = "insert"
    BY <1>1 DEF FindRoom, CountRooms, NoPortLeft, RoomReady, GiveUp, Goes, RoomsTypeOK
  <2>3. UNCHANGED <<process, rooms>>
    BY <1>1 DEF FindRoom, CountRooms, NoPortLeft, RoomReady, GiveUp, roomVars
  <2>. QED  BY <2>1, <2>2, <2>3 DEF NoOrphan, Running, RoomsTypeOK
<1>2. ASSUME NEW j \in Joins, ClaimAndSpawn(j) PROVE NoOrphan'
  <2>1. j \notin rooms /\ ~Running(j)
    BY <1>2 DEF ClaimAndSpawn, StageInv, NoOrphan
  <2>. QED  BY <1>2, <2>1 DEF ClaimAndSpawn, Goes, NoOrphan, Running, RoomsTypeOK, roomVars
<1>3. ASSUME NEW j \in Joins, StartFails(j) \/ HangUp(j) PROVE NoOrphan'
  <2>1. process' = Killed(j) /\ UNCHANGED rooms
    BY <1>3 DEF StartFails, HangUp, DroppedChild, roomVars
  <2>2. \A u \in Joins : u # j => step'[u] = step[u]
    BY <1>3 DEF StartFails, HangUp, Goes, RoomsTypeOK
  <2>. QED  BY <2>1, <2>2, KilledStops DEF NoOrphan
<1>4. ASSUME NEW j \in Joins, Insert(j) PROVE NoOrphan'
  BY <1>4 DEF Insert, Goes, NoOrphan, Running, RoomsTypeOK
<1>5. ASSUME NEW t \in Joins, BootDone(t) \/ ProcessExits(t) PROVE NoOrphan'
  BY <1>5 DEF BootDone, ProcessExits, NoOrphan, Running, RoomsTypeOK, joinVars, roomVars
<1>6. ASSUME NEW t \in Joins, StopRoom(t) PROVE NoOrphan'
  <2>1. process' = Killed(t) /\ rooms' = rooms \ {t} /\ step' = step
    BY <1>6 DEF StopRoom, joinVars
  <2>. QED  BY <2>1, KilledStops DEF NoOrphan
<1>7. ASSUME UNCHANGED <<process, rooms, step>> PROVE NoOrphan'
  BY <1>7 DEF NoOrphan, Running
<1>8. ASSUME NEW t \in Joins, Enter(t) \/ Leave(t) \/ WindowPasses(t) \/ Probe(t) \/ ReleaseStopped(t)
      PROVE  NoOrphan'
  BY <1>7, <1>8 DEF Enter, Leave, WindowPasses, Probe, ReleaseStopped, joinVars, roomVars
<1>9. ASSUME NEW p \in Ports, CoolDown(p) PROVE NoOrphan'
  BY <1>7, <1>9 DEF CoolDown, joinVars, roomVars
<1>10. CASE ListRooms \/ Judge \/ ReaperSleeps \/ UNCHANGED vars
  BY <1>7, <1>10 DEF ListRooms, Judge, ReaperSleeps, vars, joinVars, roomVars
<1>. QED
  BY <1>1, <1>2, <1>3, <1>4, <1>5, <1>6, <1>8, <1>9, <1>10 DEF Next, JoinStep, Environment, Reaper

----------------------------------------------------------------------------
(* Holders of ports                                                        *)

\* A step that changes no claim and no port, and gives nobody a port or takes one
\* away, keeps HoldersInv if it starts no process of somebody else.
LEMMA HoldersFrame ==
    /\ HoldersInv
    /\ UNCHANGED <<claimed, ports>>
    /\ Holders' = Holders
    /\ \A t \in Joins : Bound(t)' => Bound(t)
    => HoldersInv'
BY DEF HoldersInv

\* The same for a step that leaves requests, rooms and the reaper's list alone.
LEMMA HoldersStutter ==
    /\ HoldersInv
    /\ UNCHANGED <<claimed, ports, step, rooms, dead>>
    /\ \A t \in Joins : Bound(t)' => Bound(t)
    => HoldersInv'
<1> SUFFICES ASSUME HoldersInv, UNCHANGED <<claimed, ports, step, rooms, dead>>,
                    \A t \in Joins : Bound(t)' => Bound(t)
             PROVE  HoldersInv'
  OBVIOUS
<1>1. Holders' = Holders
  BY DEF Holders
<1>. QED  BY <1>1, HoldersFrame

\* Releasing the port of a holder that stops being one.
LEMMA HoldersRelease ==
    ASSUME RoomsTypeOK, HoldersInv, NEW t \in Holders,
           ports' = ReleasePort(claimed[t]), claimed' = claimed,
           Holders' = Holders \ {t}, process' = process, ~Bound(t)
    PROVE  HoldersInv'
<1>1. ASSUME NEW u \in Holders' PROVE claimed'[u] \in Ports /\ ports'[claimed'[u]] = "used"
  BY <1>1 DEF HoldersInv, ReleasePort, RoomsTypeOK
<1>2. \A u \in Joins : Bound(u)' => u \in Holders'
  BY DEF HoldersInv, Bound, Running
<1>. QED  BY <1>1, <1>2 DEF HoldersInv

LEMMA NextHolders == RoomsTypeOK /\ StageInv /\ HoldersInv /\ [Next]_vars => HoldersInv'
<1> SUFFICES ASSUME RoomsTypeOK, StageInv, HoldersInv, [Next]_vars PROVE HoldersInv'
  OBVIOUS
<1>. USE RoomConfigAssumption
<1>1. ASSUME NEW j \in Joins, FindRoom(j) \/ CountRooms(j) \/ NoPortLeft(j) \/ RoomReady(j)
      PROVE  HoldersInv'
  <2>1. UNCHANGED <<claimed, ports, rooms, dead, process>>
    BY <1>1 DEF FindRoom, CountRooms, NoPortLeft, RoomReady, roomVars, reaperVars
  <2>2. Holders' = Holders
    <3>1. step' = [step EXCEPT ![j] = step'[j]]
      BY <1>1 DEF FindRoom, CountRooms, NoPortLeft, RoomReady, Goes, RoomsTypeOK
    <3>2. \/ step[j] = "await" /\ step'[j] = "insert"
          \/ /\ step[j] \in {"idle", "count", "claim"}
             /\ step'[j] \in {"answered", "count", "claim", "refused"}
      BY <1>1 DEF FindRoom, CountRooms, NoPortLeft, RoomReady, Goes, RoomsTypeOK
    <3>. QED  BY <2>1, <3>1, <3>2 DEF Holders, RoomsTypeOK
  <2>. QED  BY <2>1, <2>2, HoldersFrame DEF Bound, Running
<1>2. ASSUME NEW j \in Joins, ClaimAndSpawn(j) PROVE HoldersInv'
  <2>1. PICK p \in FreePorts : ClaimPort(p) /\ claimed' = [claimed EXCEPT ![j] = p]
    BY <1>2 DEF ClaimAndSpawn
  <2>2. j \notin Holders /\ Holders' = Holders \cup {j}
    BY <1>2 DEF ClaimAndSpawn, Goes, Holders, StageInv, RoomsTypeOK, roomVars, reaperVars
  <2>3. p \in Ports /\ ports[p] = "free"
    BY <2>1 DEF FreePorts
  <2>4. \A u \in Holders : claimed'[u] = claimed[u] /\ claimed[u] # p
    BY <2>1, <2>2, <2>3 DEF HoldersInv, Holders, RoomsTypeOK
  <2>5. claimed'[j] = p
    BY <2>1 DEF RoomsTypeOK
  <2>6. \A u \in Holders' : claimed'[u] \in Ports /\ ports'[claimed'[u]] = "used"
    BY <2>1, <2>2, <2>3, <2>4, <2>5 DEF ClaimPort, HoldersInv, RoomsTypeOK
  <2>7. \A u \in Joins : Bound(u)' => u \in Holders'
    BY <1>2, <2>2 DEF ClaimAndSpawn, HoldersInv, Bound, Running, RoomsTypeOK
  <2>8. \A u, v \in Holders' : u # v => claimed'[u] # claimed'[v]
    BY <2>2, <2>4, <2>5 DEF HoldersInv
  <2>. QED  BY <2>6, <2>7, <2>8 DEF HoldersInv
<1>3. ASSUME NEW j \in Joins, StartFails(j) \/ HangUp(j) PROVE HoldersInv'
  <2>1. process' = Killed(j) /\ UNCHANGED <<claimed, ports, rooms, dead>>
    BY <1>3 DEF StartFails, HangUp, DroppedChild, roomVars, reaperVars
  <2>2. Holders' = Holders
    <3>1. CASE StartFails(j)
      BY <2>1, <3>1 DEF StartFails, Goes, Holders, RoomsTypeOK
    <3>2. CASE HangUp(j) /\ step[j] \in {"count", "claim"}
      BY <2>1, <3>2 DEF HangUp, Goes, Holders, StageInv, RoomsTypeOK
    <3>3. CASE HangUp(j) /\ step[j] \in {"await", "insert", "giveUp"}
      <4>1. claimed[j] # NoPort
        BY <3>3 DEF HoldersInv, Holders, Ports, NoPort
      <4>. QED  BY <2>1, <3>3, <4>1 DEF HangUp, Goes, Holders, RoomsTypeOK
    <3>. QED  BY <1>3, <3>1, <3>2, <3>3 DEF HangUp
  <2>. QED  BY <2>1, <2>2, HoldersFrame, KilledStops
<1>4. ASSUME NEW j \in Joins, Insert(j) PROVE HoldersInv'
  <2>1. Holders' = Holders
    BY <1>4 DEF Insert, Goes, Holders, RoomsTypeOK, reaperVars
  <2>. QED  BY <1>4, <2>1, HoldersFrame DEF Insert, Bound, Running
<1>5. ASSUME NEW j \in Joins, GiveUp(j) PROVE HoldersInv'
  <2>1. j \in Holders /\ Holders' = Holders \ {j}
    BY <1>5 DEF GiveUp, Goes, Holders, StageInv, RoomsTypeOK, roomVars, reaperVars
  <2>. QED  BY <1>5, <2>1, HoldersRelease DEF GiveUp, WaitedFor
<1>6. ASSUME NEW t \in Joins, BootDone(t) \/ ProcessExits(t) PROVE HoldersInv'
  <2>1. \A u \in Joins : Bound(u)' => Bound(u)
    BY <1>6 DEF BootDone, ProcessExits, Bound, Running, RoomsTypeOK
  <2>. QED
    BY <1>6, <2>1, HoldersStutter DEF BootDone, ProcessExits, joinVars, roomVars, reaperVars
<1>7. ASSUME NEW t \in Joins, Enter(t) \/ Leave(t) \/ WindowPasses(t) \/ Probe(t) PROVE HoldersInv'
  BY <1>7, HoldersStutter
  DEF Enter, Leave, WindowPasses, Probe, Bound, Running, joinVars, roomVars, reaperVars
<1>8. ASSUME NEW p \in Ports, CoolDown(p) PROVE HoldersInv'
  <2>1. Holders' = Holders /\ claimed' = claimed
    BY <1>8 DEF CoolDown, Holders, joinVars, roomVars, reaperVars
  <2>2. \A q \in Ports : ports[q] = "used" => ports'[q] = "used"
    BY <1>8 DEF CoolDown, RoomsTypeOK
  <2>. QED  BY <1>8, <2>1, <2>2 DEF CoolDown, HoldersInv, Bound, Running
<1>9. CASE Judge
  <2>1. Holders' = Holders
    BY <1>9 DEF Judge, Doomed, Holders, StageInv, joinVars
  <2>. QED  BY <1>9, <2>1, HoldersFrame DEF Judge, Bound, Running, joinVars
<1>10. ASSUME NEW t \in Joins, StopRoom(t) PROVE HoldersInv'
  <2>1. Holders' = Holders
    BY <1>10 DEF StopRoom, Holders, joinVars
  <2>. QED  BY <1>10, <2>1, HoldersFrame, KilledStops DEF StopRoom, joinVars
<1>11. ASSUME NEW t \in Joins, ReleaseStopped(t) PROVE HoldersInv'
  <2>1. t \in Holders /\ Holders' = Holders \ {t}
    BY <1>11 DEF ReleaseStopped, Holders, StageInv, joinVars, roomVars
  <2>. QED  BY <1>11, <2>1, HoldersRelease DEF ReleaseStopped, WaitedFor, joinVars
<1>12. CASE ListRooms \/ ReaperSleeps \/ UNCHANGED vars
  BY <1>12, HoldersStutter
  DEF ListRooms, ReaperSleeps, vars, Bound, Running, joinVars, roomVars, reaperVars
<1>. QED
  BY <1>1, <1>2, <1>3, <1>4, <1>5, <1>6, <1>7, <1>8, <1>9, <1>10, <1>11, <1>12
  DEF Next, JoinStep, Environment, Reaper

----------------------------------------------------------------------------
(* Ports that are in use                                                   *)

\* PortsAccounted by name of the witness.
Accounts(t) == t \in rooms \cup dead \/ step[t] \in {"await", "insert", "giveUp", "dropped"}

LEMMA AccountedDef ==
    PortsAccounted <=>
        \A p \in Ports : ports[p] = "used" => \E t \in Joins : claimed[t] = p /\ Accounts(t)
BY DEF PortsAccounted, Accounts

\* A step that takes no port, and after which everyone who accounted for one does
\* so still, keeps PortsAccounted.
LEMMA AccountedFrame ==
    ASSUME PortsAccounted, claimed' = claimed,
           \A p \in Ports : ports'[p] = "used" => ports[p] = "used",
           \A p \in Ports : \A t \in Joins :
               ports'[p] = "used" /\ claimed[t] = p /\ Accounts(t) => Accounts(t)'
    PROVE  PortsAccounted'
<1> SUFFICES ASSUME NEW p \in Ports, ports'[p] = "used"
             PROVE  \E t \in Joins : claimed'[t] = p /\ Accounts(t)'
  BY DEF PortsAccounted, Accounts
<1>1. PICK t \in Joins : claimed[t] = p /\ Accounts(t)
  BY AccountedDef
<1>. QED  BY <1>1

LEMMA NextAccounted ==
    RoomsTypeOK /\ StageInv /\ HoldersInv /\ PortsAccounted /\ [Next]_vars => PortsAccounted'
<1> SUFFICES ASSUME RoomsTypeOK, StageInv, HoldersInv, PortsAccounted, [Next]_vars
             PROVE  PortsAccounted'
  OBVIOUS
<1>1. ASSUME NEW j \in Joins,
             FindRoom(j) \/ CountRooms(j) \/ NoPortLeft(j) \/ RoomReady(j) \/ StartFails(j) \/ HangUp(j)
      PROVE  PortsAccounted'
  <2>1. UNCHANGED <<claimed, ports, rooms, dead>>
    BY <1>1 DEF FindRoom, CountRooms, NoPortLeft, RoomReady, StartFails, HangUp, roomVars, reaperVars
  <2>2. step' = [step EXCEPT ![j] = step'[j]] /\ step[j] # "dropped"
    BY <1>1 DEF FindRoom, CountRooms, NoPortLeft, RoomReady, StartFails, HangUp, Goes, RoomsTypeOK
  <2>3. step[j] \in {"await", "insert", "giveUp"} => step'[j] \in {"insert", "giveUp", "dropped"}
    BY <1>1 DEF FindRoom, CountRooms, NoPortLeft, RoomReady, StartFails, HangUp, Goes, RoomsTypeOK
  <2>4. \A t \in Joins : Accounts(t) => Accounts(t)'
    BY <2>1, <2>2, <2>3 DEF Accounts, RoomsTypeOK
  <2>. QED  BY <2>1, <2>4, AccountedFrame
<1>2. ASSUME NEW j \in Joins, ClaimAndSpawn(j) PROVE PortsAccounted'
  <2>1. PICK p \in FreePorts : ClaimPort(p) /\ claimed' = [claimed EXCEPT ![j] = p]
    BY <1>2 DEF ClaimAndSpawn
  <2>2. j \in Joins /\ claimed'[j] = p /\ Accounts(j)'
    BY <1>2, <2>1 DEF ClaimAndSpawn, Goes, Accounts, RoomsTypeOK
  <2>3. ~Accounts(j)
    BY <1>2 DEF ClaimAndSpawn, Accounts, StageInv
  <2>4. \A t \in Joins : Accounts(t) => t # j /\ claimed'[t] = claimed[t] /\ Accounts(t)'
    <3>1. \A t \in Joins : t # j => claimed'[t] = claimed[t] /\ step'[t] = step[t]
      BY <1>2, <2>1 DEF ClaimAndSpawn, Goes, RoomsTypeOK
    <3>2. UNCHANGED <<rooms, dead>>
      BY <1>2 DEF ClaimAndSpawn, roomVars, reaperVars
    <3>. QED  BY <2>3, <3>1, <3>2 DEF Accounts
  <2>5. ASSUME NEW q \in Ports, ports'[q] = "used" PROVE \E t \in Joins : claimed'[t] = q /\ Accounts(t)'
    <3>1. CASE q = p
      BY <2>2, <3>1
    <3>2. CASE q # p
      <4>1. ports[q] = "used"
        BY <2>1, <2>5, <3>2 DEF ClaimPort, FreePorts, RoomsTypeOK
      <4>2. PICK t \in Joins : claimed[t] = q /\ Accounts(t)
        BY <4>1, AccountedDef
      <4>. QED  BY <2>4, <4>2
    <3>. QED  BY <3>1, <3>2
  <2>. QED  BY <2>5 DEF PortsAccounted, Accounts
<1>3. ASSUME NEW j \in Joins, Insert(j) PROVE PortsAccounted'
  <2>1. \A t \in Joins : Accounts(t) => Accounts(t)'
    BY <1>3 DEF Insert, Goes, Accounts, RoomsTypeOK, reaperVars
  <2>. QED  BY <1>3, <2>1, AccountedFrame DEF Insert
<1>4. ASSUME NEW j \in Joins, GiveUp(j) PROVE PortsAccounted'
  <2>1. \A p \in Ports : ports'[p] = "used" => ports[p] = "used" /\ p # claimed[j]
    BY <1>4 DEF GiveUp, ReleasePort, RoomsTypeOK
  <2>2. \A t \in Joins : Accounts(t) /\ t # j => Accounts(t)'
    BY <1>4 DEF GiveUp, Goes, Accounts, RoomsTypeOK, roomVars, reaperVars
  <2>. QED  BY <1>4, <2>1, <2>2, AccountedFrame DEF GiveUp
<1>5. ASSUME UNCHANGED <<claimed, step>>, rooms \cup dead \subseteq rooms' \cup dead',
             \A p \in Ports : ports'[p] = "used" => ports[p] = "used"
      PROVE  PortsAccounted'
  <2>1. \A t \in Joins : Accounts(t) => Accounts(t)'
    BY <1>5 DEF Accounts
  <2>. QED  BY <1>5, <2>1, AccountedFrame
<1>6. ASSUME NEW t \in Joins,
             BootDone(t) \/ ProcessExits(t) \/ Enter(t) \/ Leave(t) \/ WindowPasses(t) \/ Probe(t)
      PROVE  PortsAccounted'
  BY <1>5, <1>6
  DEF BootDone, ProcessExits, Enter, Leave, WindowPasses, Probe, joinVars, roomVars, reaperVars
<1>7. ASSUME NEW p \in Ports, CoolDown(p) PROVE PortsAccounted'
  <2>1. \A q \in Ports : ports'[q] = "used" => ports[q] = "used"
    BY <1>7 DEF CoolDown, RoomsTypeOK
  <2>. QED  BY <1>5, <1>7, <2>1 DEF CoolDown, joinVars, roomVars, reaperVars
<1>8. CASE ListRooms \/ ReaperSleeps \/ UNCHANGED vars
  BY <1>5, <1>8 DEF ListRooms, ReaperSleeps, vars, joinVars, roomVars, reaperVars
<1>9. CASE Judge
  <2>1. dead = {}
    BY <1>9 DEF Judge, StageInv
  <2>. QED  BY <1>5, <1>9, <2>1 DEF Judge, joinVars
<1>10. ASSUME NEW t \in Joins, StopRoom(t) PROVE PortsAccounted'
  BY <1>5, <1>10 DEF StopRoom, joinVars
<1>11. ASSUME NEW t \in Joins, ReleaseStopped(t) PROVE PortsAccounted'
  <2>1. \A p \in Ports : ports'[p] = "used" => ports[p] = "used" /\ p # claimed[t]
    BY <1>11 DEF ReleaseStopped, ReleasePort, RoomsTypeOK
  <2>2. \A u \in Joins : Accounts(u) /\ u # t => Accounts(u)'
    BY <1>11 DEF ReleaseStopped, Accounts, joinVars, roomVars
  <2>. QED  BY <1>11, <2>1, <2>2, AccountedFrame DEF ReleaseStopped, joinVars
<1>. QED
  BY <1>1, <1>2, <1>3, <1>4, <1>6, <1>7, <1>8, <1>9, <1>10, <1>11
  DEF Next, JoinStep, Environment, Reaper

----------------------------------------------------------------------------

\* RoomsInv is an invariant: types, one port per holder, no orphan, no lost port.
THEOREM RoomsInvariance == Spec => []RoomsInv
<1>1. Init => RoomsInv
  BY InitRooms
<1>2. RoomsInv /\ [Next]_vars => RoomsInv'
  BY NextRoomsType, NextHolders, NextStage, NextNoOrphan, NextAccounted DEF RoomsInv
<1>. QED  BY <1>1, <1>2, PTL DEF Spec

\* Type correctness of the room orchestration.
THEOREM RoomsTypeCorrect == Spec => []RoomsTypeOK
<1>1. RoomsInv => RoomsTypeOK
  BY DEF RoomsInv
<1>. QED  BY <1>1, RoomsInvariance, PTL

\* However joins, crashes, lost probes and stops interleave, no two processes
\* share a port and no join can claim the port of a process (rooms.rs 144-197,
\* 396-411).
THEOREM PortsStayExclusive == Spec => []PortsExclusive
<1>1. RoomsInv => PortsExclusive
  BY DEF RoomsInv, HoldersInv, PortsExclusive
<1>. QED  BY <1>1, RoomsInvariance, PTL

\* Every running room process is in the map the reaper walks or has its join
\* still waiting for it (rooms.rs 187-221).
THEOREM NoProcessOrphaned == Spec => []NoOrphan
<1>1. RoomsInv => NoOrphan
  BY DEF RoomsInv
<1>. QED  BY <1>1, RoomsInvariance, PTL

\* Only a dropped request can lose a port (rooms.rs 181-195, 396-399).
THEOREM PortsStayAccounted == Spec => []PortsAccounted
<1>1. RoomsInv => PortsAccounted
  BY DEF RoomsInv
<1>. QED  BY <1>1, RoomsInvariance, PTL
=============================================================================
