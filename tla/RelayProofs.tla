---------------------------- MODULE RelayProofs ----------------------------
(***************************************************************************)
(* Proofs about Relay: its type invariant, the accounting of connection    *)
(* slots, and what it takes before a browser reaches another world.        *)
(*                                                                         *)
(* RelayInv is inductive: a slot is held by exactly the admitted           *)
(* connections (SlotsMatch), a registered session is the one of a bridge   *)
(* (TableInv), it has been without a word for no longer than the grace and *)
(* the signals sent to it (QuietInv), and the room of a connection has     *)
(* been gone for no longer than that and its handshake, unless the         *)
(* connection has outlived the cooldown of the port (StaleInv).            *)
(***************************************************************************)
EXTENDS Relay, FiniteSetTheorems, TLAPS

\* Init establishes the invariant.
LEMMA InitRelayInv == Init => RelayInv
<1> SUFFICES ASSUME Init PROVE RelayInv
  OBVIOUS
<1> USE ConnsAssumption, CapAssumption, TimesAssumption, PortsAssumption DEF Init
<1>1. RelayTypeOK
  BY DEF RelayTypeOK, Stages
<1>2. SlotsMatch
  <2>1. \A a \in Addresses : ChargedTo(a) = {}
    BY DEF ChargedTo
  <2>2. \A a \in Addresses : Cardinality(ChargedTo(a)) = 0
    <3> HIDE DEF ChargedTo
    <3> QED
      BY <2>1, FS_EmptySet
  <2> QED
    BY <2>2 DEF SlotsMatch
<1>3. TableInv
  BY DEF TableInv, Listed, Resolved
<1>4. QuietInv
  BY DEF QuietInv
<1>5. StaleInv
  BY DEF StaleInv, Resolved
<1> QED
  BY <1>1, <1>2, <1>3, <1>4, <1>5 DEF RelayInv

\* What a task that ends drops keeps its type.
LEMMA ForgetsType ==
  ASSUME RelayTypeOK, NEW c \in Conns, Forgets(c)
  PROVE  /\ stage' \in [Conns -> Stages] /\ stage' = [stage EXCEPT ![c] = "closing"]
         /\ upstream' \in [Conns -> Ports \cup {NoPort}]
         /\ heard' \subseteq Conns
         /\ quiet' \in [Conns -> 0..Cooldown]
         /\ took' \in [Conns -> 0..Cooldown] /\ signals' \in [Conns -> 0..Cooldown]
<1> USE TimesAssumption DEF RelayTypeOK, Stages, Goes
<1>1. 0 \in 0..Cooldown
  OBVIOUS
<1> QED
  BY <1>1 DEF Forgets

\* So does the table of a room that a frame reaches.
LEMMA EntryType ==
  ASSUME RelayTypeOK, NEW c \in Conns, NEW id,
         NEW k \in {known} \cup {WithEntry(w, c, id) : w \in Hosts(c)}
  PROVE  k \subseteq Worlds \X Conns
<1>1. known \subseteq Worlds \X Conns
  BY DEF RelayTypeOK
<1>2. \A w \in Hosts(c) : w \in Worlds /\ <<w, c>> \in Worlds \X Conns
  BY DEF Hosts
<1>3. \A w \in Hosts(c) : WithEntry(w, c, id) = known \/ WithEntry(w, c, id) = known \cup {<<w, c>>}
  BY DEF WithEntry
<1> QED
  BY <1>1, <1>2, <1>3

\* A step is one of the actions, each with its connection or room.
LEMMA TypeStep ==
  ASSUME RelayInv, [Next]_vars PROVE RelayTypeOK'
<1> USE ConnsAssumption, CapAssumption, TimesAssumption, PortsAssumption
<1> USE DEF RelayTypeOK, Stages, Goes
<1>0. RelayTypeOK /\ SlotsMatch /\ TableInv /\ QuietInv
  BY DEF RelayInv
<1>1. ASSUME NEW c \in Conns, Arrive(c) PROVE RelayTypeOK'
  BY <1>0, <1>1 DEF Arrive, tableVars, worldVars
<1>2. ASSUME NEW c \in Conns, Charge(c) PROVE RelayTypeOK'
  BY <1>0, <1>2, ForgetsType DEF Charge, tableVars, worldVars
<1>3. ASSUME NEW c \in Conns, Lookup(c) PROVE RelayTypeOK'
  <2>1. CASE Forgets(c)
    BY <1>0, <1>3, <2>1, ForgetsType DEF Lookup, worldVars
  <2>2. CASE ~Forgets(c)
    BY <1>0, <1>3, <2>2 DEF Lookup, worldVars
  <2> QED
    BY <2>1, <2>2
<1>4. ASSUME NEW c \in Conns, HandshakeFails(c) PROVE RelayTypeOK'
  BY <1>0, <1>4, ForgetsType DEF HandshakeFails, worldVars
<1>5. ASSUME NEW c \in Conns, Register(c) PROVE RelayTypeOK'
  <2>1. known' \subseteq Worlds \X Conns
    BY <1>0, <1>5, EntryType DEF Register
  <2> QED
    BY <1>0, <1>5, <2>1 DEF Register
<1>6. ASSUME NEW c \in Conns, Forward(c) PROVE RelayTypeOK'
  <2>1. known' \subseteq Worlds \X Conns
    BY <1>0, <1>6, EntryType DEF Forward
  <2> QED
    BY <1>0, <1>6, <2>1 DEF Forward, tableVars
<1>7. ASSUME NEW c \in Conns, Unbridge(c) PROVE RelayTypeOK'
  BY <1>0, <1>7, ForgetsType DEF Unbridge, Entries
<1>8. ASSUME NEW c \in Conns, Release(c) PROVE RelayTypeOK'
  <2>1. c \in charged => connsPerIp[address[c]] - 1 \in Nat
    <3> SUFFICES ASSUME c \in charged PROVE connsPerIp[address[c]] - 1 \in Nat
      OBVIOUS
    <3>1. c \in ChargedTo(address[c]) /\ IsFiniteSet(ChargedTo(address[c]))
      BY <1>0, FS_Subset DEF ChargedTo
    <3>2. Cardinality(ChargedTo(address[c])) # 0
      BY <3>1, FS_EmptySet
    <3>3. connsPerIp[address[c]] \in Nat /\ connsPerIp[address[c]] # 0
      BY <1>0, <3>2 DEF SlotsMatch
    <3> QED
      BY <3>3
  <2>2. connsPerIp' \in [Addresses -> Nat]
    BY <1>0, <1>8, <2>1 DEF Release, ReleaseIp
  <2> QED
    BY <1>0, <1>8, <2>2 DEF Release, tableVars, worldVars
<1>9. ASSUME NEW c \in Conns, TakeFrame(c) PROVE RelayTypeOK'
  BY <1>0, <1>9 DEF TakeFrame, worldVars
<1>10. ASSUME NEW c \in Conns, UpstreamHeard(c) PROVE RelayTypeOK'
  BY <1>0, <1>10 DEF UpstreamHeard, connVars, worldVars
<1>11. ASSUME NEW c \in Conns, NEW w \in Worlds, RoomForgets(w, c) PROVE RelayTypeOK'
  BY <1>0, <1>11 DEF RoomForgets, connVars, tableVars
<1>12. ASSUME NEW w \in Worlds, RoomStarts(w) PROVE RelayTypeOK'
  BY <1>0, <1>12 DEF RoomStarts, connVars, tableVars
<1>13. ASSUME NEW w \in Worlds, RoomExits(w) PROVE RelayTypeOK'
  BY <1>0, <1>13 DEF RoomExits, connVars, tableVars
<1>14. ASSUME NEW w \in Worlds, RoomStopped(w) PROVE RelayTypeOK'
  <2>0. Cooldown \in 0..Cooldown
    BY TimesAssumption
  <2>1. cooling' \in [Ports -> 0..Cooldown]
    BY <1>0, <1>14, <2>0 DEF RoomStopped, ReleasedFor
  <2>2. world' \in [Worlds -> {"unborn", "up", "exited", "gone"}]
    BY <1>0, <1>14 DEF RoomStopped
  <2> QED
    BY <1>0, <1>14, <2>1, <2>2 DEF RoomStopped, connVars, tableVars
<1>15. ASSUME Second PROVE RelayTypeOK'
  <2>1. quiet' \in [Conns -> 0..Cooldown]
    BY <1>0, <1>15 DEF Second, Older
  <2>2. signals' \in [Conns -> 0..Cooldown]
    BY <1>0, <1>15 DEF Second, Older
  <2>3. cooling' \in [Ports -> 0..Cooldown]
    BY <1>0, <1>15 DEF Second
  <2>4. killed' \subseteq Conns
    BY <1>0, <1>15 DEF Second, Overdue
  <2> QED
    BY <1>0, <1>15, <2>1, <2>2, <2>3, <2>4 DEF Second, connVars
<1>16. CASE Restart
  BY <1>0, <1>16 DEF Restart, worldVars
<1>17. CASE UNCHANGED vars
  BY <1>0, <1>17 DEF vars, connVars, tableVars, worldVars
<1> QED
  BY <1>1, <1>2, <1>3, <1>4, <1>5, <1>6, <1>7, <1>8, <1>9, <1>10, <1>11, <1>12, <1>13, <1>14,
     <1>15, <1>16, <1>17 DEF Next, BrowserLeaves, KillTaken

\* The slots of an address, counted after one of its connections is added to or
\* taken from those charged.
LEMMA ChargedCount ==
  ASSUME RelayTypeOK, NEW c \in Conns, NEW a \in Addresses,
         NEW S \in SUBSET charged
  PROVE  /\ IsFiniteSet({d \in S : address[d] = a})
         /\ Cardinality({d \in S : address[d] = a}) \in Nat
<1>1. {d \in S : address[d] = a} \in SUBSET Conns
  BY DEF RelayTypeOK
<1> QED
  BY <1>1, ConnsAssumption, FS_Subset, FS_CardinalityType

LEMMA SlotAdded ==
  ASSUME RelayTypeOK, NEW c \in Conns, c \notin charged, NEW a \in Addresses
  PROVE  Cardinality({d \in charged \cup {c} : address[d] = a})
           = Cardinality(ChargedTo(a)) + (IF address[c] = a THEN 1 ELSE 0)
<1>1. IsFiniteSet(ChargedTo(a)) /\ Cardinality(ChargedTo(a)) \in Nat
  BY ChargedCount DEF ChargedTo
<1>2. CASE address[c] = a
  <2>1. {d \in charged \cup {c} : address[d] = a} = ChargedTo(a) \cup {c}
    BY <1>2 DEF ChargedTo
  <2>2. c \notin ChargedTo(a)
    BY DEF ChargedTo
  <2> QED
    BY <1>1, <1>2, <2>1, <2>2, FS_AddElement
<1>3. CASE address[c] # a
  <2>1. {d \in charged \cup {c} : address[d] = a} = ChargedTo(a)
    BY <1>3 DEF ChargedTo
  <2> QED
    BY <1>1, <1>3, <2>1
<1> QED
  BY <1>2, <1>3

LEMMA SlotRemoved ==
  ASSUME RelayTypeOK, NEW c \in charged, NEW a \in Addresses
  PROVE  Cardinality({d \in charged \ {c} : address[d] = a})
           = Cardinality(ChargedTo(a)) - (IF address[c] = a THEN 1 ELSE 0)
<1>0. c \in Conns
  BY DEF RelayTypeOK
<1>1. IsFiniteSet(ChargedTo(a)) /\ Cardinality(ChargedTo(a)) \in Nat
  BY <1>0, ChargedCount DEF ChargedTo
<1>2. CASE address[c] = a
  <2>1. {d \in charged \ {c} : address[d] = a} = ChargedTo(a) \ {c}
    BY <1>2 DEF ChargedTo
  <2>2. c \in ChargedTo(a)
    BY <1>2 DEF ChargedTo
  <2>3. Cardinality(ChargedTo(a) \ {c}) = Cardinality(ChargedTo(a)) - 1
    BY <1>1, <2>2, FS_RemoveElement
  <2>4. Cardinality({d \in charged \ {c} : address[d] = a}) = Cardinality(ChargedTo(a)) - 1
    BY <2>1, <2>3
  <2> QED
    BY <1>1, <1>2, <2>4
<1>3. CASE address[c] # a
  <2>1. {d \in charged \ {c} : address[d] = a} = ChargedTo(a)
    BY <1>3 DEF ChargedTo
  <2>2. Cardinality({d \in charged \ {c} : address[d] = a}) = Cardinality(ChargedTo(a))
    BY <2>1
  <2> QED
    BY <1>1, <1>3, <2>2
<1> QED
  BY <1>2, <1>3

\* Whatever way a connection takes through admission, bridge and end, its slot is
\* taken once and given back once.
LEMMA SlotsStep ==
  ASSUME RelayInv, [Next]_vars PROVE SlotsMatch'
<1> USE ConnsAssumption, CapAssumption
<1> USE DEF Goes
<1>0. RelayTypeOK /\ SlotsMatch /\ TableInv
  BY DEF RelayInv
<1>1. ASSUME NEW c \in Conns, stage[c] \in {"new", "handshake", "bridging", "midframe"},
             \E to \in {"closed", "handshake", "bridging", "midframe", "closing"} :
                /\ Goes(c, to)
                /\ (c \in charged => to # "closed"),
             sessions' \subseteq charged',
             UNCHANGED <<address, charged, connsPerIp>>
      PROVE  SlotsMatch'
  <2>1. \A a \in Addresses : ChargedTo(a)' = ChargedTo(a)
    BY <1>1 DEF ChargedTo
  <2>2. ASSUME NEW d \in charged'
        PROVE  stage'[d] \in {"handshake", "bridging", "midframe", "closing"}
    <3>1. d \in charged /\ d \in Conns
      BY <1>0, <1>1 DEF RelayTypeOK
    <3>2. PICK to \in {"closed", "handshake", "bridging", "midframe", "closing"} :
             stage' = [stage EXCEPT ![c] = to] /\ (c \in charged => to # "closed")
      BY <1>1
    <3>3. CASE d = c
      BY <1>0, <3>1, <3>2, <3>3 DEF RelayTypeOK
    <3>4. CASE d # c
      BY <1>0, <3>1, <3>2, <3>4 DEF SlotsMatch, RelayTypeOK
    <3> QED
      BY <3>3, <3>4
  <2> QED
    BY <1>0, <1>1, <2>1, <2>2 DEF SlotsMatch
<1>2. ASSUME UNCHANGED <<address, stage, charged, connsPerIp, sessions>> PROVE SlotsMatch'
  BY <1>0, <1>2 DEF SlotsMatch, ChargedTo
<1>3. ASSUME NEW c \in Conns, Charge(c), AcquireIp(address[c]) PROVE SlotsMatch'
  <2>1. c \notin charged /\ charged' = charged \cup {c} /\ stage' = stage /\ sessions' = sessions
        /\ address' = address /\ connsPerIp' = [connsPerIp EXCEPT ![address[c]] = @ + 1]
    BY <1>3 DEF Charge, ChargeDue, tableVars
  <2>2. \A a \in Addresses : connsPerIp'[a] = Cardinality(ChargedTo(a)') /\ connsPerIp'[a] <= MaxPerIp
    <3> SUFFICES ASSUME NEW a \in Addresses
                 PROVE  connsPerIp'[a] = Cardinality(ChargedTo(a)') /\ connsPerIp'[a] <= MaxPerIp
      OBVIOUS
    <3>1. ChargedTo(a)' = {d \in charged \cup {c} : address[d] = a}
      BY <2>1 DEF ChargedTo
    <3>2. Cardinality(ChargedTo(a)') = Cardinality(ChargedTo(a)) + (IF address[c] = a THEN 1 ELSE 0)
      BY <1>0, <2>1, <3>1, SlotAdded
    <3>3. connsPerIp'[a] = connsPerIp[a] + (IF address[c] = a THEN 1 ELSE 0)
      BY <1>0, <2>1 DEF RelayTypeOK
    <3>4. connsPerIp[a] = Cardinality(ChargedTo(a)) /\ connsPerIp[a] <= MaxPerIp /\ connsPerIp[a] \in Nat
      BY <1>0 DEF SlotsMatch, RelayTypeOK
    <3>5. connsPerIp[address[c]] < MaxPerIp
      BY <1>3 DEF AcquireIp
    <3> QED
      BY <3>2, <3>3, <3>4, <3>5
  <2>3. \A d \in charged' : stage'[d] \in {"handshake", "bridging", "midframe", "closing"}
    BY <1>0, <1>3, <2>1 DEF SlotsMatch, Charge
  <2> QED
    BY <1>0, <2>1, <2>2, <2>3 DEF SlotsMatch
<1>4. ASSUME NEW c \in Conns, Release(c) PROVE SlotsMatch'
  <2>1. /\ charged' = charged \ {c} /\ sessions' = sessions /\ address' = address
        /\ stage[c] = "closing" /\ stage' = [stage EXCEPT ![c] = "closed"]
    BY <1>4 DEF Release, tableVars
  <2>2. \A a \in Addresses : connsPerIp'[a] = Cardinality(ChargedTo(a)') /\ connsPerIp'[a] <= MaxPerIp
    <3> SUFFICES ASSUME NEW a \in Addresses
                 PROVE  connsPerIp'[a] = Cardinality(ChargedTo(a)') /\ connsPerIp'[a] <= MaxPerIp
      OBVIOUS
    <3>1. ChargedTo(a)' = {d \in charged \ {c} : address[d] = a}
      BY <2>1 DEF ChargedTo
    <3>2. connsPerIp[a] = Cardinality(ChargedTo(a)) /\ connsPerIp[a] <= MaxPerIp /\ connsPerIp[a] \in Nat
      BY <1>0 DEF SlotsMatch, RelayTypeOK
    <3>3. CASE c \in charged
      <4>1. Cardinality(ChargedTo(a)') = Cardinality(ChargedTo(a)) - (IF address[c] = a THEN 1 ELSE 0)
        BY <1>0, <3>1, <3>3, SlotRemoved
      <4>2. connsPerIp' = [connsPerIp EXCEPT ![address[c]] = @ - 1]
        BY <1>4, <3>3 DEF Release, ReleaseIp
      <4>3. connsPerIp'[a] = connsPerIp[a] - (IF address[c] = a THEN 1 ELSE 0)
        BY <1>0, <3>2, <4>2 DEF RelayTypeOK
      <4> QED
        BY <3>2, <4>1, <4>3, CapAssumption
    <3>4. CASE c \notin charged
      <4>1. ChargedTo(a)' = ChargedTo(a)
        BY <3>1, <3>4 DEF ChargedTo
      <4>2. connsPerIp' = connsPerIp
        BY <1>4, <3>4 DEF Release, ReleaseIp
      <4> QED
        BY <3>2, <4>1, <4>2
    <3> QED
      BY <3>3, <3>4
  <2>3. \A d \in charged' : stage'[d] \in {"handshake", "bridging", "midframe", "closing"}
    BY <1>0, <2>1 DEF SlotsMatch, RelayTypeOK
  <2>4. c \notin sessions
    BY <1>0, <2>1 DEF TableInv
  <2> QED
    BY <1>0, <2>1, <2>2, <2>3, <2>4 DEF SlotsMatch
<1>5. ASSUME Restart PROVE SlotsMatch'
  <2>1. \A a \in Addresses : ChargedTo(a)' = {} /\ connsPerIp'[a] = 0
    BY <1>5 DEF Restart, ChargedTo
  <2>2. \A a \in Addresses : Cardinality(ChargedTo(a)') = 0
    BY <2>1, FS_EmptySet
  <2> QED
    BY <1>5, <2>1, <2>2 DEF SlotsMatch, Restart
<1>6. ASSUME NEW c \in Conns, Arrive(c) PROVE SlotsMatch'
  <2>1. c \notin charged
    BY <1>0, <1>6 DEF Arrive, SlotsMatch
  <2> QED
    BY <1>0, <1>1, <1>6, <2>1 DEF Arrive, SlotsMatch, tableVars
<1>7. ASSUME NEW c \in Conns, Charge(c), ~AcquireIp(address[c]) PROVE SlotsMatch'
  BY <1>0, <1>1, <1>7 DEF Charge, Forgets, SlotsMatch
<1>8. ASSUME NEW c \in Conns, Lookup(c) PROVE SlotsMatch'
  <2>1. CASE Forgets(c)
    BY <1>0, <1>1, <1>8, <2>1 DEF Lookup, Forgets, SlotsMatch
  <2>2. CASE ~Forgets(c)
    BY <1>2, <1>8, <2>2 DEF Lookup
  <2> QED
    BY <2>1, <2>2
<1>9. ASSUME NEW c \in Conns, HandshakeFails(c) PROVE SlotsMatch'
  BY <1>0, <1>1, <1>9 DEF HandshakeFails, Forgets, SlotsMatch
<1>10. ASSUME NEW c \in Conns, Register(c) PROVE SlotsMatch'
  BY <1>0, <1>1, <1>10 DEF Register, SlotsMatch
<1>11. ASSUME NEW c \in Conns, Forward(c) PROVE SlotsMatch'
  BY <1>0, <1>1, <1>11 DEF Forward, SlotsMatch, tableVars
<1>12. ASSUME NEW c \in Conns, TakeFrame(c) PROVE SlotsMatch'
  BY <1>0, <1>1, <1>12 DEF TakeFrame, SlotsMatch
<1>13. ASSUME NEW c \in Conns, stage[c] \in {"bridging", "midframe"}, Unbridge(c) PROVE SlotsMatch'
  BY <1>0, <1>1, <1>13 DEF Unbridge, Forgets, SlotsMatch
<1>14. ASSUME NEW c \in Conns, UpstreamHeard(c) PROVE SlotsMatch'
  BY <1>2, <1>14 DEF UpstreamHeard, connVars
<1>15. ASSUME NEW c \in Conns, NEW w \in Worlds, RoomForgets(w, c) PROVE SlotsMatch'
  BY <1>2, <1>15 DEF RoomForgets, connVars, tableVars
<1>16. ASSUME NEW w \in Worlds, RoomStarts(w) \/ RoomExits(w) \/ RoomStopped(w) PROVE SlotsMatch'
  BY <1>2, <1>16 DEF RoomStarts, RoomExits, RoomStopped, connVars, tableVars
<1>17. CASE Second
  BY <1>2, <1>17 DEF Second, connVars
<1>18. CASE UNCHANGED vars
  BY <1>2, <1>18 DEF vars, connVars, tableVars
<1> QED
  BY <1>3, <1>4, <1>5, <1>6, <1>7, <1>8, <1>9, <1>10, <1>11, <1>12, <1>13, <1>14, <1>15, <1>16,
     <1>17, <1>18 DEF Next, BrowserLeaves, KillTaken

\* The session table follows the bridges, and a listed room its port.
LEMMA TableStep ==
  ASSUME RelayInv, [Next]_vars PROVE TableInv'
<1> USE PortsAssumption
<1> USE DEF Goes, Listed, Resolved
<1>0. RelayTypeOK /\ SlotsMatch /\ TableInv
  BY DEF RelayInv
<1>1. ASSUME UNCHANGED <<stage, sessions, killed, upstream, world, place, cooling>> PROVE TableInv'
  BY <1>0, <1>1 DEF TableInv
<1>2. ASSUME NEW c \in Conns, stage[c] \in {"new", "handshake"},
             Goes(c, "handshake") \/ Goes(c, "closed") \/ Goes(c, "closing"),
             upstream' = upstream \/ upstream' = [upstream EXCEPT ![c] = NoPort],
             UNCHANGED <<sessions, killed, world, place, cooling>>
      PROVE  TableInv'
  BY <1>0, <1>2 DEF TableInv, RelayTypeOK
<1>3. ASSUME NEW c \in Conns, Arrive(c) PROVE TableInv'
  BY <1>2, <1>3 DEF Arrive, tableVars, worldVars
<1>4. ASSUME NEW c \in Conns, Charge(c) PROVE TableInv'
  BY <1>1, <1>2, <1>4 DEF Charge, Forgets, tableVars, worldVars
<1>5. ASSUME NEW c \in Conns, Lookup(c) PROVE TableInv'
  <2>1. CASE Forgets(c)
    BY <1>2, <1>5, <2>1 DEF Lookup, Forgets, worldVars
  <2>2. CASE wanted[c] \in Listed /\ upstream' = [upstream EXCEPT ![c] = place[wanted[c]]] /\ stage' = stage
    <3>1. place[wanted[c]] # NoPort
      BY <1>0, <2>2 DEF TableInv
    <3>2. UNCHANGED <<sessions, killed, world, place, cooling>> /\ stage[c] = "handshake"
      BY <1>5 DEF Lookup, worldVars
    <3> QED
      BY <1>0, <2>2, <3>1, <3>2 DEF TableInv, RelayTypeOK
  <2> QED
    BY <1>5, <2>1, <2>2 DEF Lookup
<1>6. ASSUME NEW c \in Conns, HandshakeFails(c) PROVE TableInv'
  BY <1>2, <1>6 DEF HandshakeFails, Forgets, worldVars
<1>7. ASSUME NEW c \in Conns, Register(c) PROVE TableInv'
  BY <1>0, <1>7 DEF Register, TableInv, RelayTypeOK
<1>8. ASSUME NEW c \in Conns, Forward(c) PROVE TableInv'
  BY <1>0, <1>8 DEF Forward, TableInv, RelayTypeOK, tableVars
<1>9. ASSUME NEW c \in Conns, TakeFrame(c) PROVE TableInv'
  BY <1>0, <1>9 DEF TakeFrame, TableInv, RelayTypeOK, worldVars
<1>10. ASSUME NEW c \in Conns, stage[c] \in {"bridging", "midframe"}, Unbridge(c) PROVE TableInv'
  BY <1>0, <1>10 DEF Unbridge, Forgets, TableInv, RelayTypeOK
<1>11. ASSUME NEW c \in Conns, Release(c) PROVE TableInv'
  BY <1>0, <1>11 DEF Release, TableInv, RelayTypeOK, tableVars, worldVars
<1>12. ASSUME NEW c \in Conns, UpstreamHeard(c) \/ \E w \in Worlds : RoomForgets(w, c) PROVE TableInv'
  BY <1>1, <1>12 DEF UpstreamHeard, RoomForgets, connVars, tableVars, worldVars
<1>13. ASSUME NEW w \in Worlds, RoomStarts(w) PROVE TableInv'
  <2>1. PICK p \in Ports : /\ cooling[p] = 0 /\ \A v \in Listed : place[v] # p
                           /\ place' = [place EXCEPT ![w] = p]
    BY <1>13 DEF RoomStarts
  <2>2. /\ world[w] = "unborn" /\ world' = [world EXCEPT ![w] = "up"]
        /\ UNCHANGED <<stage, sessions, killed, upstream, cooling>>
    BY <1>13 DEF RoomStarts, connVars, tableVars
  <2>3. p # NoPort
    OBVIOUS
  <2>4. place'[w] = p /\ \A v \in Worlds : v # w => place'[v] = place[v] /\ world'[v] = world[v]
    BY <1>0, <2>1, <2>2 DEF RelayTypeOK
  <2>5. Listed' = Listed \cup {w}
    BY <1>0, <2>2 DEF RelayTypeOK
  <2>6. \A v \in Worlds : world'[v] # "unborn" <=> place'[v] # NoPort
    BY <1>0, <2>1, <2>2, <2>3, <2>4 DEF TableInv, RelayTypeOK
  <2>7. \A v, u \in Listed' : v # u => place'[v] # place'[u]
    BY <1>0, <2>1, <2>4, <2>5 DEF TableInv
  <2>8. \A v \in Listed' : cooling'[place'[v]] = 0
    BY <1>0, <2>1, <2>2, <2>4, <2>5 DEF TableInv
  <2> QED
    BY <1>0, <2>2, <2>6, <2>7, <2>8 DEF TableInv
<1>14. ASSUME NEW w \in Worlds, RoomExits(w) PROVE TableInv'
  BY <1>0, <1>14 DEF RoomExits, TableInv, RelayTypeOK, connVars, tableVars
<1>15. ASSUME NEW w \in Worlds, RoomStopped(w) PROVE TableInv'
  <2>1. /\ w \in Listed /\ world' = [world EXCEPT ![w] = "gone"]
        /\ cooling' = [cooling EXCEPT ![place[w]] = ReleasedFor]
        /\ UNCHANGED <<stage, sessions, killed, upstream, place>>
    BY <1>15 DEF RoomStopped, connVars, tableVars
  <2>2. Listed' = Listed \ {w}
    BY <1>0, <2>1 DEF RelayTypeOK
  <2>3. \A v \in Listed' : cooling'[place'[v]] = 0
    <3> SUFFICES ASSUME NEW v \in Listed' PROVE cooling'[place'[v]] = 0
      OBVIOUS
    <3>1. v \in Listed /\ v # w
      BY <2>2
    <3>2. place[v] # place[w] /\ cooling[place[v]] = 0
      BY <1>0, <2>1, <3>1 DEF TableInv
    <3>3. place[v] # NoPort /\ place[v] \in Ports
      BY <1>0, <3>1 DEF TableInv, RelayTypeOK
    <3> QED
      BY <1>0, <2>1, <3>2, <3>3 DEF RelayTypeOK
  <2>4. \A v \in Worlds : world'[v] # "unborn" <=> place'[v] # NoPort
    BY <1>0, <2>1 DEF TableInv, RelayTypeOK
  <2>5. \A v, u \in Listed' : v # u => place'[v] # place'[u]
    BY <1>0, <2>1, <2>2 DEF TableInv
  <2> QED
    BY <1>0, <2>1, <2>3, <2>4, <2>5 DEF TableInv
<1>16. CASE Second
  <2>1. /\ UNCHANGED <<stage, sessions, upstream, world, place>>
        /\ killed' = killed \cup {c \in Overdue : stage[c] = "bridging"}
    BY <1>16 DEF Second, connVars
  <2>2. \A w \in Listed : cooling'[place[w]] = 0
    <3> SUFFICES ASSUME NEW w \in Listed PROVE cooling'[place[w]] = 0
      OBVIOUS
    <3>1. place[w] \in Ports /\ cooling[place[w]] = 0
      BY <1>0 DEF TableInv, RelayTypeOK
    <3>2. cooling' = [p \in Ports |-> IF cooling[p] > 0 THEN cooling[p] - 1 ELSE 0]
      BY <1>16 DEF Second
    <3> QED
      BY <3>1, <3>2
  <2> QED
    BY <1>0, <2>1, <2>2 DEF TableInv
<1>17. CASE Restart
  BY <1>0, <1>17 DEF Restart, TableInv, RelayTypeOK, worldVars
<1>18. CASE UNCHANGED vars
  BY <1>1, <1>18 DEF vars, connVars, tableVars, worldVars
<1> QED
  BY <1>3, <1>4, <1>5, <1>6, <1>7, <1>8, <1>9, <1>10, <1>11, <1>12, <1>13, <1>14, <1>15, <1>16,
     <1>17, <1>18 DEF Next, BrowserLeaves, KillTaken

\* No bridge stays without a word for longer than the grace and the signals it got.
LEMMA QuietStep ==
  ASSUME RelayInv, [Next]_vars PROVE QuietInv'
<1> USE TimesAssumption, PortsAssumption
<1> USE DEF Goes, Resolved
<1>0. RelayTypeOK /\ TableInv /\ QuietInv
  BY DEF RelayInv
<1>1. ASSUME UNCHANGED <<stage, sessions, quiet, signals>> PROVE QuietInv'
  BY <1>0, <1>1 DEF QuietInv
\* A connection that is, or is about to be, without a bridge.
<1>2. ASSUME NEW c \in Conns, Forgets(c), sessions' = sessions \ {c} PROVE QuietInv'
  <2>1. stage' = [stage EXCEPT ![c] = "closing"]
    BY <1>2 DEF Forgets
  <2>2. \A d \in Conns \ {c} : quiet'[d] = quiet[d] /\ signals'[d] = signals[d]
    BY <1>0, <1>2 DEF Forgets, RelayTypeOK
  <2>3. \A d \in Conns : stage'[d] = "new" => stage[d] = "new" /\ d # c
    BY <1>0, <2>1 DEF RelayTypeOK
  <2>4. \A d \in sessions' : d \in sessions /\ d # c /\ d \in Conns
    BY <1>0, <1>2 DEF RelayTypeOK
  <2> QED
    BY <1>0, <2>2, <2>3, <2>4 DEF QuietInv
<1>3. ASSUME NEW c \in Conns, stage[c] = "handshake" PROVE sessions \ {c} = sessions
  BY <1>0, <1>3 DEF TableInv
<1>4. ASSUME NEW c \in Conns, Arrive(c) PROVE QuietInv'
  BY <1>0, <1>4 DEF Arrive, QuietInv, RelayTypeOK, tableVars
<1>5. ASSUME NEW c \in Conns, Charge(c) PROVE QuietInv'
  BY <1>1, <1>2, <1>3, <1>5 DEF Charge, tableVars
<1>6. ASSUME NEW c \in Conns, Lookup(c) PROVE QuietInv'
  <2>1. CASE Forgets(c)
    BY <1>2, <1>3, <1>6, <2>1 DEF Lookup
  <2>2. CASE quiet' = [quiet EXCEPT ![c] = 0] /\ UNCHANGED <<stage, signals>>
    <3>1. c \notin sessions /\ sessions' = sessions
      BY <1>3, <1>6 DEF Lookup
    <3> QED
      BY <1>0, <2>2, <3>1 DEF QuietInv, RelayTypeOK
  <2> QED
    BY <1>6, <2>1, <2>2 DEF Lookup
<1>7. ASSUME NEW c \in Conns, HandshakeFails(c) PROVE QuietInv'
  BY <1>2, <1>3, <1>7 DEF HandshakeFails
<1>8. ASSUME NEW c \in Conns, Register(c) PROVE QuietInv'
  <2>1. /\ stage' = [stage EXCEPT ![c] = "bridging"] /\ quiet' = [quiet EXCEPT ![c] = 0]
        /\ sessions' = sessions \cup {c} /\ signals' = signals
    BY <1>8 DEF Register
  <2>2. 0 < Grace + signals[c]
    BY <1>0 DEF RelayTypeOK
  <2> QED
    BY <1>0, <2>1, <2>2 DEF QuietInv, RelayTypeOK
<1>9. ASSUME NEW c \in Conns, Forward(c) \/ TakeFrame(c) \/ Release(c) PROVE QuietInv'
  <2>1. UNCHANGED <<sessions, quiet, signals>>
    BY <1>9 DEF Forward, TakeFrame, Release, tableVars
  <2>2. \A d \in Conns : stage'[d] = "new" => stage[d] = "new"
    BY <1>0, <1>9 DEF Forward, TakeFrame, Release, RelayTypeOK
  <2> QED
    BY <1>0, <2>1, <2>2 DEF QuietInv
<1>10. ASSUME NEW c \in Conns, Unbridge(c) PROVE QuietInv'
  BY <1>2, <1>10 DEF Unbridge
<1>11. ASSUME NEW c \in Conns, UpstreamHeard(c) PROVE QuietInv'
  <2>1. /\ UNCHANGED <<stage, sessions>> /\ quiet' = [quiet EXCEPT ![c] = 0]
        /\ \E w \in Worlds : signals' = [signals EXCEPT ![c] = IF w = wanted[c] THEN 0 ELSE @]
    BY <1>11 DEF UpstreamHeard, Hosts, connVars
  <2>2. quiet'[c] = 0 /\ signals'[c] \in Nat
    BY <1>0, <2>1 DEF RelayTypeOK
  <2>3. \A d \in Conns \ {c} : quiet'[d] = quiet[d] /\ signals'[d] = signals[d]
    BY <1>0, <2>1 DEF RelayTypeOK
  <2>4. \A d \in Conns : stage'[d] = "new" => quiet'[d] = 0
    BY <1>0, <2>1, <2>2, <2>3 DEF QuietInv
  <2>5. \A d \in sessions' : quiet'[d] < Grace + signals'[d]
    <3> SUFFICES ASSUME NEW d \in sessions PROVE quiet'[d] < Grace + signals'[d]
      BY <2>1
    <3>1. d \in Conns
      BY <1>0 DEF RelayTypeOK
    <3>2. CASE d = c
      BY <2>2, <3>2
    <3>3. CASE d # c
      BY <1>0, <2>3, <3>1, <3>3 DEF QuietInv
    <3> QED
      BY <3>2, <3>3
  <2> QED
    BY <2>4, <2>5 DEF QuietInv
<1>12. ASSUME NEW c \in Conns, NEW w \in Worlds, RoomForgets(w, c) PROVE QuietInv'
  BY <1>1, <1>12 DEF RoomForgets, connVars, tableVars
<1>13. ASSUME NEW w \in Worlds, RoomStarts(w) \/ RoomExits(w) \/ RoomStopped(w) PROVE QuietInv'
  BY <1>1, <1>13 DEF RoomStarts, RoomExits, RoomStopped, connVars, tableVars
<1>14. CASE Second
  <2>1. stage' = stage /\ sessions' = sessions
    BY <1>14 DEF Second, connVars
  <2>2. \A c \in Conns : stage[c] = "new" => quiet'[c] = 0
    BY <1>0, <1>14 DEF Second, QuietInv, RelayTypeOK
  <2>3. ASSUME NEW c \in sessions PROVE quiet'[c] < Grace + signals'[c]
    <3>1. c \in Conns
      BY <1>0 DEF RelayTypeOK
    <3>2. quiet[c] < Grace + signals[c] /\ quiet[c] \in 0..Cooldown /\ signals[c] \in 0..Cooldown
      BY <1>0, <3>1 DEF QuietInv, RelayTypeOK
    <3>3. quiet'[c] \in {quiet[c], Older(quiet[c])}
      BY <1>14, <3>1 DEF Second
    <3>4. /\ Older(quiet[c]) \in Nat /\ Older(quiet[c]) <= quiet[c] + 1
          /\ Older(quiet[c]) >= quiet[c] /\ Older(quiet[c]) <= Cooldown
      BY <3>2 DEF Older
    <3>5. CASE c \in Overdue
      <4>1. signals'[c] = Older(signals[c])
        BY <1>14, <3>1, <3>5 DEF Second
      <4>2. signals'[c] = signals[c] + 1 \/ signals'[c] = Cooldown
        BY <3>2, <4>1 DEF Older
      <4> QED
        BY <3>2, <3>3, <3>4, <4>2
    <3>6. CASE c \notin Overdue
      <4>1. signals'[c] = signals[c]
        BY <1>14, <3>1, <3>6 DEF Second
      <4>2. Older(quiet[c]) < Grace
        BY <3>4, <3>6 DEF Overdue, Limit
      <4> QED
        BY <3>2, <3>3, <3>4, <4>1, <4>2
    <3> QED
      BY <3>5, <3>6
  <2> QED
    BY <2>1, <2>2, <2>3 DEF QuietInv
<1>15. CASE Restart
  BY <1>0, <1>15 DEF Restart, QuietInv, RelayTypeOK
<1>16. CASE UNCHANGED vars
  BY <1>1, <1>16 DEF vars, connVars, tableVars
<1> QED
  BY <1>4, <1>5, <1>6, <1>7, <1>8, <1>9, <1>10, <1>11, <1>12, <1>13, <1>14, <1>15,
     <1>16 DEF Next, BrowserLeaves, KillTaken

\* Whoever is listed on the port of a bridged connection is its own room, as long as
\* the port of a room that is gone is still cooling down.
LEMMA StaysOut == RelayInv => PacketsStayOut
<1> SUFFICES ASSUME RelayInv, NEW c \in sessions, NEW w \in Listed, place[w] = upstream[c],
                    ~Outlived(c)
             PROVE  w = wanted[c]
  BY DEF PacketsStayOut, Strayed
<1> USE TimesAssumption
<1>0. RelayTypeOK /\ TableInv /\ QuietInv /\ StaleInv
  BY DEF RelayInv
<1>1. c \in Conns /\ stage[c] \in {"bridging", "midframe"} /\ Resolved(c)
  BY <1>0 DEF TableInv, RelayTypeOK
<1>2. /\ world[wanted[c]] # "unborn" /\ upstream[c] = place[wanted[c]]
      /\ world[wanted[c]] = "gone" => Cooldown <= cooling[upstream[c]] + quiet[c] + took[c]
  BY <1>0, <1>1 DEF StaleInv
<1>3. quiet[c] < Grace + signals[c]
  BY <1>0 DEF QuietInv
<1>4. cooling[upstream[c]] = 0
  BY <1>0 DEF TableInv
<1>5. world[wanted[c]] # "gone"
  <2>1. quiet[c] \in Nat /\ took[c] \in Nat /\ signals[c] \in Nat
    BY <1>0, <1>1 DEF RelayTypeOK
  <2> QED
    BY <1>2, <1>3, <1>4, <2>1 DEF Outlived
<1>6. wanted[c] \in Listed
  BY <1>0, <1>1, <1>2, <1>5 DEF Listed, RelayTypeOK
<1> QED
  BY <1>0, <1>2, <1>6 DEF TableInv

\* A connection's port was its own room's, and how long ago that ended is bounded
\* by how long the connection has been without a word, unless it was too long.
LEMMA StaleStep ==
  ASSUME RelayInv, [Next]_vars PROVE StaleInv'
<1> USE TimesAssumption, PortsAssumption
<1> USE DEF Goes, Resolved
<1>0. RelayTypeOK /\ TableInv /\ QuietInv /\ StaleInv
  BY DEF RelayInv
<1> DEFINE Slack(c) == IF c \in sessions THEN took[c] ELSE 0
<1>1. ASSUME UNCHANGED <<stage, sessions, quiet, took, signals, wanted, upstream, world, place, cooling>>
      PROVE  StaleInv'
  BY <1>0, <1>1 DEF StaleInv, Outlived
\* Steps that keep, or end, each connection's place in the table.
<1>2. ASSUME \A d \in Conns : stage'[d] \in {"handshake", "bridging", "midframe"} /\ upstream'[d] # NoPort =>
                /\ stage[d] \in {"handshake", "bridging", "midframe"}
                /\ upstream'[d] = upstream[d] /\ quiet'[d] = quiet[d]
                /\ took'[d] = took[d] /\ signals'[d] = signals[d]
                /\ d \in sessions' <=> d \in sessions,
             UNCHANGED <<wanted, world, place, cooling>>
      PROVE  StaleInv'
  BY <1>0, <1>2 DEF StaleInv, Outlived
\* A task that ends, with or without a bridge.
<1>20. ASSUME NEW c \in Conns, Forgets(c), sessions' = sessions \ {c},
              UNCHANGED <<wanted, world, place, cooling>>
       PROVE  StaleInv'
  <2>1. /\ upstream'[c] = NoPort
        /\ \A d \in Conns \ {c} :
              /\ stage'[d] = stage[d] /\ upstream'[d] = upstream[d] /\ quiet'[d] = quiet[d]
              /\ took'[d] = took[d] /\ signals'[d] = signals[d]
    BY <1>0, <1>20 DEF Forgets, RelayTypeOK
  <2> QED
    BY <1>2, <1>20, <2>1
<1>21. ASSUME NEW c \in Conns, stage[c] = "handshake" PROVE sessions \ {c} = sessions
  BY <1>0, <1>21 DEF TableInv
<1>3. ASSUME NEW c \in Conns, Arrive(c) PROVE StaleInv'
  <2>1. upstream[c] = NoPort
    BY <1>0, <1>3 DEF Arrive, TableInv
  <2> QED
    BY <1>0, <1>2, <1>3, <2>1 DEF Arrive, RelayTypeOK, tableVars, worldVars
<1>4. ASSUME NEW c \in Conns, Charge(c) PROVE StaleInv'
  BY <1>1, <1>4, <1>20, <1>21 DEF Charge, tableVars, worldVars
<1>5. ASSUME NEW c \in Conns, HandshakeFails(c) PROVE StaleInv'
  BY <1>5, <1>20, <1>21 DEF HandshakeFails, worldVars
<1>6. ASSUME NEW c \in Conns, Forward(c) PROVE StaleInv'
  BY <1>0, <1>2, <1>6 DEF Forward, RelayTypeOK, tableVars
<1>7. ASSUME NEW c \in Conns, TakeFrame(c) PROVE StaleInv'
  BY <1>0, <1>2, <1>7 DEF TakeFrame, RelayTypeOK, worldVars
<1>8. ASSUME NEW c \in Conns, Unbridge(c) PROVE StaleInv'
  BY <1>8, <1>20 DEF Unbridge
<1>9. ASSUME NEW c \in Conns, Release(c) PROVE StaleInv'
  BY <1>0, <1>2, <1>9 DEF Release, RelayTypeOK, tableVars, worldVars
<1>10. CASE Restart
  BY <1>0, <1>2, <1>10 DEF Restart, RelayTypeOK, worldVars
<1>11. ASSUME NEW c \in Conns, Lookup(c) PROVE StaleInv'
  <2>1. CASE Forgets(c)
    BY <1>11, <1>20, <1>21, <2>1 DEF Lookup, worldVars
  <2>2. CASE /\ wanted[c] \in Listed /\ upstream' = [upstream EXCEPT ![c] = place[wanted[c]]]
             /\ quiet' = [quiet EXCEPT ![c] = 0] /\ UNCHANGED <<stage, took, signals>>
    <3>1. world[wanted[c]] \in {"up", "exited"} /\ UNCHANGED <<wanted, sessions, world, place, cooling>>
      BY <1>11, <2>2 DEF Lookup, Listed, worldVars
    <3> QED
      BY <1>0, <2>2, <3>1 DEF StaleInv, Outlived, RelayTypeOK
  <2> QED
    BY <1>11, <2>1, <2>2 DEF Lookup
<1>12. ASSUME NEW c \in Conns, Register(c) PROVE StaleInv'
  <2>1. /\ stage[c] = "handshake" /\ upstream[c] # NoPort
        /\ stage' = [stage EXCEPT ![c] = "bridging"]
        /\ quiet' = [quiet EXCEPT ![c] = 0] /\ took' = [took EXCEPT ![c] = quiet[c]]
        /\ sessions' = sessions \cup {c}
        /\ UNCHANGED <<signals, wanted, upstream, world, place, cooling>>
    BY <1>12 DEF Register
  <2>2. c \notin sessions
    BY <1>0, <2>1 DEF TableInv
  <2>3. /\ world[wanted[c]] # "unborn" /\ upstream[c] = place[wanted[c]]
        /\ world[wanted[c]] = "gone" => Cooldown <= cooling[upstream[c]] + quiet[c] + 0
    BY <1>0, <2>1, <2>2 DEF StaleInv
  <2>4. upstream[c] \in Ports /\ cooling[upstream[c]] \in Nat /\ quiet[c] \in Nat
    BY <1>0, <2>1 DEF RelayTypeOK
  <2>5. world[wanted[c]] = "gone" => Cooldown <= cooling[upstream[c]] + 0 + quiet[c]
    BY <2>3, <2>4
  <2>6. quiet'[c] = 0 /\ took'[c] = quiet[c] /\ c \in sessions'
    BY <1>0, <2>1 DEF RelayTypeOK
  <2>7. \A d \in Conns \ {c} : /\ stage'[d] = stage[d] /\ quiet'[d] = quiet[d] /\ took'[d] = took[d]
                               /\ d \in sessions' <=> d \in sessions
    BY <1>0, <2>1 DEF RelayTypeOK
  <2> QED
    BY <1>0, <2>1, <2>3, <2>5, <2>6, <2>7 DEF StaleInv, Outlived
<1>13. ASSUME NEW c \in Conns, UpstreamHeard(c) PROVE StaleInv'
  <2>1. /\ c \in sessions /\ quiet' = [quiet EXCEPT ![c] = 0]
        /\ UNCHANGED <<stage, wanted, upstream, sessions, world, place, cooling>>
    BY <1>13 DEF UpstreamHeard, connVars, worldVars
  <2>2. PICK w \in Hosts(c) : /\ took' = [took EXCEPT ![c] = IF w = wanted[c] THEN 0 ELSE @]
                             /\ signals' = [signals EXCEPT ![c] = IF w = wanted[c] THEN 0 ELSE @]
    BY <1>13 DEF UpstreamHeard
  <2>3. w \in Listed /\ place[w] = upstream[c] /\ world[w] = "up"
    BY DEF Hosts, Listed
  <2>4. \A d \in Conns \ {c} : quiet'[d] = quiet[d] /\ took'[d] = took[d] /\ signals'[d] = signals[d]
    BY <1>0, <2>1, <2>2 DEF RelayTypeOK
  <2>5. world[wanted[c]] = "gone" => c \in sessions' /\ Outlived(c)'
    <3> SUFFICES ASSUME world[wanted[c]] = "gone" PROVE Outlived(c)'
      BY <2>1
    <3>1. w # wanted[c]
      BY <2>3
    <3>2. Outlived(c)
      BY <2>1, <2>3, <3>1, StaysOut DEF PacketsStayOut, Strayed
    <3>3. took' = took /\ signals' = signals
      BY <1>0, <2>2, <3>1 DEF RelayTypeOK
    <3> QED
      BY <3>2, <3>3 DEF Outlived
  <2> QED
    BY <1>0, <2>1, <2>4, <2>5 DEF StaleInv, Outlived
<1>14. ASSUME NEW c \in Conns, NEW w \in Worlds, RoomForgets(w, c) PROVE StaleInv'
  BY <1>1, <1>14 DEF RoomForgets, connVars, tableVars
<1>15. ASSUME NEW w \in Worlds, RoomStarts(w) PROVE StaleInv'
  <2>1. PICK p \in Ports : place' = [place EXCEPT ![w] = p]
    BY <1>15 DEF RoomStarts
  <2>2. /\ world[w] = "unborn" /\ world' = [world EXCEPT ![w] = "up"]
        /\ UNCHANGED <<stage, sessions, quiet, took, signals, wanted, upstream, cooling>>
    BY <1>15 DEF RoomStarts, connVars, tableVars
  <2>3. \A v \in Worlds : v # w => place'[v] = place[v] /\ world'[v] = world[v]
    BY <1>0, <2>1, <2>2 DEF RelayTypeOK
  <2> QED
    BY <1>0, <2>2, <2>3 DEF StaleInv, Outlived, RelayTypeOK
<1>16. ASSUME NEW w \in Worlds, RoomExits(w) PROVE StaleInv'
  <2>1. /\ world' = [world EXCEPT ![w] = "exited"]
        /\ UNCHANGED <<stage, sessions, quiet, took, signals, wanted, upstream, place, cooling>>
    BY <1>16 DEF RoomExits, connVars, tableVars
  <2> QED
    BY <1>0, <2>1 DEF StaleInv, Outlived, RelayTypeOK
<1>17. ASSUME NEW w \in Worlds, RoomStopped(w) PROVE StaleInv'
  <2>1. /\ world' = [world EXCEPT ![w] = "gone"]
        /\ cooling' = [cooling EXCEPT ![place[w]] = ReleasedFor]
        /\ UNCHANGED <<stage, sessions, quiet, took, signals, wanted, upstream, place>>
    BY <1>17 DEF RoomStopped, connVars, tableVars
  <2>2. SUFFICES ASSUME NEW c \in Conns, stage[c] \in {"handshake", "bridging", "midframe"}, Resolved(c)
                 PROVE  /\ world'[wanted[c]] # "unborn" /\ upstream[c] = place[wanted[c]]
                        /\ world'[wanted[c]] = "gone" =>
                              \/ c \in sessions /\ Outlived(c)
                              \/ Cooldown <= cooling'[upstream[c]] + quiet[c] + Slack(c)
    BY <2>1 DEF StaleInv, Outlived
  <2>3. /\ world[wanted[c]] # "unborn" /\ upstream[c] = place[wanted[c]]
        /\ world[wanted[c]] = "gone" =>
              \/ c \in sessions /\ Outlived(c)
              \/ Cooldown <= cooling[upstream[c]] + quiet[c] + Slack(c)
    BY <1>0, <2>2 DEF StaleInv
  <2>4. upstream[c] \in Ports /\ quiet[c] \in Nat /\ Slack(c) \in Nat
    BY <1>0, <2>2 DEF RelayTypeOK
  <2>5. CASE upstream[c] = place[w]
    <3>1. cooling'[upstream[c]] = Cooldown
      BY <1>0, <2>1, <2>4, <2>5 DEF ReleasedFor, RelayTypeOK
    <3> QED
      BY <1>0, <2>1, <2>3, <2>4, <3>1 DEF RelayTypeOK
  <2>6. CASE upstream[c] # place[w]
    <3>1. cooling'[upstream[c]] = cooling[upstream[c]] /\ wanted[c] # w
      BY <1>0, <2>1, <2>3, <2>4, <2>6 DEF RelayTypeOK
    <3> QED
      BY <1>0, <2>1, <2>3, <3>1 DEF RelayTypeOK
  <2> QED
    BY <2>5, <2>6
<1>18. CASE Second
  <2>1. UNCHANGED <<stage, sessions, took, wanted, upstream, world, place>>
    BY <1>18 DEF Second, connVars
  <2>2. SUFFICES ASSUME NEW c \in Conns, stage[c] \in {"handshake", "bridging", "midframe"}, Resolved(c),
                        world[wanted[c]] = "gone"
                 PROVE  \/ c \in sessions /\ Outlived(c)'
                        \/ Cooldown <= cooling'[upstream[c]] + quiet'[c] + Slack(c)
    BY <1>0, <2>1 DEF StaleInv
  <2>3. \/ c \in sessions /\ Outlived(c)
        \/ Cooldown <= cooling[upstream[c]] + quiet[c] + Slack(c)
    BY <1>0, <2>2 DEF StaleInv
  <2>4. /\ upstream[c] \in Ports /\ quiet[c] \in 0..Cooldown /\ cooling[upstream[c]] \in Nat
        /\ took[c] \in Nat /\ signals[c] \in 0..Cooldown
    BY <1>0, <2>2 DEF RelayTypeOK
  <2>5. CASE c \in sessions /\ Outlived(c)
    <3>1. signals'[c] \in Nat /\ signals'[c] >= signals[c]
      BY <1>18, <2>4 DEF Second, Older
    <3>2. took'[c] = took[c] /\ Cooldown < took[c] + Grace + signals[c]
      BY <2>1, <2>5 DEF Outlived
    <3>3. Cooldown < took'[c] + Grace + signals'[c]
      BY <2>4, <3>1, <3>2
    <3> QED
      BY <2>5, <3>3 DEF Outlived
  <2>6. CASE Cooldown <= cooling[upstream[c]] + quiet[c] + Slack(c)
    <3>1. cooling'[upstream[c]] = IF cooling[upstream[c]] > 0 THEN cooling[upstream[c]] - 1 ELSE 0
      BY <1>18, <2>4 DEF Second
    <3>2. quiet'[c] = Older(quiet[c]) /\ Slack(c) \in Nat
      BY <1>18, <2>2, <2>4 DEF Second
    <3>3. quiet'[c] = quiet[c] + 1 \/ quiet'[c] = Cooldown
      BY <2>4, <3>2 DEF Older
    <3> QED
      BY <2>4, <2>6, <3>1, <3>2, <3>3
  <2> QED
    BY <2>3, <2>5, <2>6
<1>19. CASE UNCHANGED vars
  BY <1>1, <1>19 DEF vars, connVars, tableVars, worldVars
<1> QED
  BY <1>3, <1>4, <1>5, <1>6, <1>7, <1>8, <1>9, <1>10, <1>11, <1>12, <1>13, <1>14, <1>15, <1>16,
     <1>17, <1>18, <1>19 DEF Next, BrowserLeaves, KillTaken

\* The invariant holds in every reachable state.
THEOREM RelayInvariance == Spec => []RelayInv
<1>1. RelayInv /\ [Next]_vars => RelayInv'
  BY TypeStep, SlotsStep, TableStep, QuietStep, StaleStep DEF RelayInv
<1> QED
  BY InitRelayInv, <1>1, PTL DEF Spec

\* Every variable of the sidecar stays in its range; in particular a count of
\* conns_per_ip never goes below zero (release_ip).
THEOREM RelayTypeCorrect == Spec => []RelayTypeOK
<1>1. RelayInv => RelayTypeOK
  BY DEF RelayInv
<1> QED
  BY RelayInvariance, <1>1, PTL

\* The slots of an address are those of its admitted connections and stay within
\* the cap, for any number of connections, addresses and restarts.
THEOREM SlotsAccounted == Spec => []SlotsMatch
<1>1. RelayInv => SlotsMatch
  BY DEF RelayInv
<1> QED
  BY RelayInvariance, <1>1, PTL

\* Of any number of connections, rooms and ports: the packets of a browser reach
\* another world only when its handshake, the grace and the signals it did not act on
\* add up to the cooldown of the port (sweep_upstreams, release_port).
THEOREM PacketsReachNoOtherWorld == Spec => []PacketsStayOut
<1> QED
  BY RelayInvariance, StaysOut, PTL
=============================================================================
