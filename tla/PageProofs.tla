----------------------------- MODULE PageProofs -----------------------------
(***************************************************************************)
(* What TLAPS proves of Protocol and Page.                                 *)
(*                                                                         *)
(* A frame is read as it was written because both accounts of a message's  *)
(* fields agree; of a snapshot the reader must find every entity where the *)
(* writer put it, for any number of them that 16 bits can count.  A frame  *)
(* that is cut short is refused because the reader asks for as many fields *)
(* as the writer wrote.                                                    *)
(*                                                                         *)
(* Settings are packed into the bits of one number: what is below a flag's *)
(* bit is less than its power of two and what is above a multiple of the   *)
(* next.  The sum of bits is recursive and is unrolled by the least number *)
(* at which a statement about it would fail.                               *)
(*                                                                         *)
(* A press that cannot be the menu's, because it began while the menu was  *)
(* closed or has acted already, is one that an open menu has seen.         *)
(*                                                                         *)
(* A body that goes forward is not shown further back because of what its  *)
(* samples promise: followed from a moment on, none of them puts it before *)
(* a place.  Wherever a step shows a body, its samples promise that place  *)
(* if they are in order.  In a frame the promise outlives a new sample     *)
(* that is behind none that are held, the loss of the oldest, and a step   *)
(* of the clock.                                                           *)
(***************************************************************************)
EXTENDS Page, TLAPS, SequenceTheorems, FiniteSetTheorems

-----------------------------------------------------------------------------
(* Sequences, whatever their elements.                                     *)

IsSequence(s) == \E S : s \in Seq(S)

LEMMA SequenceShape ==
    ASSUME NEW s, IsSequence(s)
    PROVE  Len(s) \in Nat /\ DOMAIN s = 1..Len(s)
<1>1. PICK S : s \in Seq(S)
  BY DEF IsSequence
<1>. QED  BY <1>1

LEMMA SequenceFrom ==
    ASSUME NEW n \in Nat, NEW s, s = [i \in 1..n |-> s[i]]
    PROVE  IsSequence(s) /\ Len(s) = n
<1> DEFINE S == {s[i] : i \in 1..n}
<1>1. s \in [1..n -> S]
  OBVIOUS
<1>2. s \in Seq(S) /\ Len(s) = n
  BY <1>1
<1>. QED  BY <1>2 DEF IsSequence

LEMMA WiderSequence ==
    ASSUME NEW S, NEW T, S \subseteq T, NEW s \in Seq(S)
    PROVE  s \in Seq(T)
<1>1. Len(s) \in Nat /\ s \in [1..Len(s) -> S]
  OBVIOUS
<1>2. s \in [1..Len(s) -> T]
  BY <1>1
<1>. QED  BY <1>1, <1>2

\* u is s followed by t.
IsJoin(u, s, t) ==
    /\ IsSequence(u) /\ Len(u) = Len(s) + Len(t)
    /\ \A k \in 1..Len(s) : u[k] = s[k]
    /\ \A k \in 1..Len(t) : u[Len(s) + k] = t[k]

LEMMA Joined ==
    ASSUME NEW s, IsSequence(s), NEW t, IsSequence(t)
    PROVE  IsJoin(s \o t, s, t)
<1>1. PICK S : s \in Seq(S)
  BY DEF IsSequence
<1>2. PICK T : t \in Seq(T)
  BY DEF IsSequence
<1> DEFINE U == S \union T
<1>3. s \in Seq(U) /\ t \in Seq(U)
  BY <1>1, <1>2, WiderSequence, S \subseteq U, T \subseteq U
<1> HIDE DEF U
<1>4. s \o t \in Seq(U) /\ Len(s \o t) = Len(s) + Len(t)
  BY <1>3
<1>5. ASSUME NEW k \in 1..Len(s) PROVE (s \o t)[k] = s[k]
  BY <1>3
<1>6. ASSUME NEW k \in 1..Len(t) PROVE (s \o t)[Len(s) + k] = t[k]
  BY <1>3
<1>7. IsSequence(s \o t)
  BY <1>4 DEF IsSequence
<1>. QED  BY <1>4, <1>5, <1>6, <1>7 DEF IsJoin

LEMMA OneElement == ASSUME NEW c PROVE IsSequence(<<c>>) /\ Len(<<c>>) = 1 /\ <<c>>[1] = c
<1>1. <<c>> \in Seq({c}) /\ Len(<<c>>) = 1 /\ <<c>>[1] = c
  OBVIOUS
<1>. QED  BY <1>1 DEF IsSequence

-----------------------------------------------------------------------------
(* The wire format.                                                        *)

\* A layout names each of its fields once, and none of them "type".
IsLayout(layout) ==
    /\ Len(layout) \in Nat /\ DOMAIN layout = 1..Len(layout)
    /\ \A i, j \in DOMAIN layout : layout[i][2] = layout[j][2] => i = j
    /\ \A i \in DOMAIN layout : layout[i][2] # "type"

Fields(layout) == {layout[i][2] : i \in DOMAIN layout}

\* A message is its type with the fields of its type's layout; of a snapshot, the entities
\* as well.  Their number is written as a u16.
Types == {MsgType[t] : t \in DOMAIN MsgType}
PlainMessage(m) ==
    /\ m.type \in Types \ {"Snapshot"}
    /\ m = [name \in Fields(Writes[m.type]) \union {"type"} |-> m[name]]
EntityState(e) == e = [name \in Fields(WritesEntity) |-> e[name]]
IsSnapshot(m) ==
    m = [type |-> "Snapshot", serverTick |-> m.serverTick, ackSeq |-> m.ackSeq,
         entities |-> m.entities]
SnapshotMessage(m) ==
    /\ IsSnapshot(m)
    /\ IsSequence(m.entities) /\ Len(m.entities) < 65536
    /\ \A i \in DOMAIN m.entities : EntityState(m.entities[i])
Message(m) == PlainMessage(m) \/ SnapshotMessage(m)

LEMMA OneFields ==
    ASSUME NEW a, a[2] # "type"
    PROVE  IsLayout(<<a>>) /\ Len(<<a>>) = 1
<1> DEFINE w == <<a>>
<1>1. Len(w) = 1 /\ DOMAIN w = 1..1
  OBVIOUS
<1>2. w[1] = a
  OBVIOUS
<1> HIDE DEF w
<1>3. ASSUME NEW i \in DOMAIN w PROVE i = 1
  BY <1>1
<1>4. ASSUME NEW i \in DOMAIN w PROVE w[i][2] # "type"
  BY <1>2, <1>3
<1>5. ASSUME NEW i \in DOMAIN w, NEW j \in DOMAIN w, w[i][2] = w[j][2] PROVE i = j
  <2>1. (i = 1) /\ (j = 1)
    BY <1>3
  <2>. QED  BY <2>1, <1>2, <1>5
<1>6. IsLayout(w) /\ Len(w) = 1
  BY <1>1, <1>4, <1>5 DEF IsLayout
<1>. QED  BY <1>6 DEF w

LEMMA TwoFields ==
    ASSUME NEW a, a[2] # "type", NEW b, b[2] # "type",
           a[2] # b[2]
    PROVE  IsLayout(<<a, b>>) /\ Len(<<a, b>>) = 2
<1> DEFINE w == <<a, b>>
<1>1. Len(w) = 2 /\ DOMAIN w = 1..2
  OBVIOUS
<1>2. w[1] = a /\ w[2] = b
  OBVIOUS
<1> HIDE DEF w
<1>3. ASSUME NEW i \in DOMAIN w PROVE i = 1 \/ i = 2
  BY <1>1
<1>4. ASSUME NEW i \in DOMAIN w PROVE w[i][2] # "type"
  BY <1>2, <1>3
<1>5. ASSUME NEW i \in DOMAIN w, NEW j \in DOMAIN w, w[i][2] = w[j][2] PROVE i = j
  <2>1. (i = 1 \/ i = 2) /\ (j = 1 \/ j = 2)
    BY <1>3
  <2>. QED  BY <2>1, <1>2, <1>5
<1>6. IsLayout(w) /\ Len(w) = 2
  BY <1>1, <1>4, <1>5 DEF IsLayout
<1>. QED  BY <1>6 DEF w

LEMMA ThreeFields ==
    ASSUME NEW a, a[2] # "type", NEW b, b[2] # "type", NEW c, c[2] # "type",
           a[2] # b[2], a[2] # c[2], b[2] # c[2]
    PROVE  IsLayout(<<a, b, c>>) /\ Len(<<a, b, c>>) = 3
<1> DEFINE w == <<a, b, c>>
<1>1. Len(w) = 3 /\ DOMAIN w = 1..3
  OBVIOUS
<1>2. w[1] = a /\ w[2] = b /\ w[3] = c
  OBVIOUS
<1> HIDE DEF w
<1>3. ASSUME NEW i \in DOMAIN w PROVE i = 1 \/ i = 2 \/ i = 3
  BY <1>1
<1>4. ASSUME NEW i \in DOMAIN w PROVE w[i][2] # "type"
  BY <1>2, <1>3
<1>5. ASSUME NEW i \in DOMAIN w, NEW j \in DOMAIN w, w[i][2] = w[j][2] PROVE i = j
  <2>1. (i = 1 \/ i = 2 \/ i = 3) /\ (j = 1 \/ j = 2 \/ j = 3)
    BY <1>3
  <2>. QED  BY <2>1, <1>2, <1>5
<1>6. IsLayout(w) /\ Len(w) = 3
  BY <1>1, <1>4, <1>5 DEF IsLayout
<1>. QED  BY <1>6 DEF w

LEMMA FourFields ==
    ASSUME NEW a, a[2] # "type", NEW b, b[2] # "type", NEW c, c[2] # "type", NEW d, d[2] # "type",
           a[2] # b[2], a[2] # c[2], a[2] # d[2], b[2] # c[2], b[2] # d[2], c[2] # d[2]
    PROVE  IsLayout(<<a, b, c, d>>) /\ Len(<<a, b, c, d>>) = 4
<1> DEFINE w == <<a, b, c, d>>
<1>1. Len(w) = 4 /\ DOMAIN w = 1..4
  OBVIOUS
<1>2. w[1] = a /\ w[2] = b /\ w[3] = c /\ w[4] = d
  OBVIOUS
<1> HIDE DEF w
<1>3. ASSUME NEW i \in DOMAIN w PROVE i = 1 \/ i = 2 \/ i = 3 \/ i = 4
  BY <1>1
<1>4. ASSUME NEW i \in DOMAIN w PROVE w[i][2] # "type"
  BY <1>2, <1>3
<1>5. ASSUME NEW i \in DOMAIN w, NEW j \in DOMAIN w, w[i][2] = w[j][2] PROVE i = j
  <2>1. (i = 1 \/ i = 2 \/ i = 3 \/ i = 4) /\ (j = 1 \/ j = 2 \/ j = 3 \/ j = 4)
    BY <1>3
  <2>. QED  BY <2>1, <1>2, <1>5
<1>6. IsLayout(w) /\ Len(w) = 4
  BY <1>1, <1>4, <1>5 DEF IsLayout
<1>. QED  BY <1>6 DEF w

LEMMA FiveFields ==
    ASSUME NEW a, a[2] # "type", NEW b, b[2] # "type", NEW c, c[2] # "type", NEW d, d[2] # "type",
           NEW e, e[2] # "type",
           a[2] # b[2], a[2] # c[2], a[2] # d[2], a[2] # e[2], b[2] # c[2], b[2] # d[2], b[2] # e[2],
           c[2] # d[2], c[2] # e[2], d[2] # e[2]
    PROVE  IsLayout(<<a, b, c, d, e>>) /\ Len(<<a, b, c, d, e>>) = 5
<1> DEFINE w == <<a, b, c, d, e>>
<1>1. Len(w) = 5 /\ DOMAIN w = 1..5
  OBVIOUS
<1>2. w[1] = a /\ w[2] = b /\ w[3] = c /\ w[4] = d /\ w[5] = e
  OBVIOUS
<1> HIDE DEF w
<1>3. ASSUME NEW i \in DOMAIN w PROVE i = 1 \/ i = 2 \/ i = 3 \/ i = 4 \/ i = 5
  BY <1>1
<1>4. ASSUME NEW i \in DOMAIN w PROVE w[i][2] # "type"
  BY <1>2, <1>3
<1>5. ASSUME NEW i \in DOMAIN w, NEW j \in DOMAIN w, w[i][2] = w[j][2] PROVE i = j
  <2>1. (i = 1 \/ i = 2 \/ i = 3 \/ i = 4 \/ i = 5) /\ (j = 1 \/ j = 2 \/ j = 3 \/ j = 4 \/ j = 5)
    BY <1>3
  <2>. QED  BY <2>1, <1>2, <1>5
<1>6. IsLayout(w) /\ Len(w) = 5
  BY <1>1, <1>4, <1>5 DEF IsLayout
<1>. QED  BY <1>6 DEF w

\* Both sides have the same account of every message but the snapshot.
LEMMA LayoutsAgree ==
    ASSUME NEW type \in Types \ {"Snapshot"}
    PROVE  /\ Reads[type] = Writes[type] /\ IsLayout(Writes[type])
           /\ Len(Writes[type]) \in Nat \ {0}
<1>1. type \in {"ClientHello", "ServerWelcome", "InputCommand", "PlayerJoin",
                "PlayerLeave", "SpawnEntity", "DespawnEntity", "Explosion"}
  BY DEF Types, MsgType
<1>2. CASE type = "ClientHello"
  <2> DEFINE a == <<"u16", "protocolVersion">>
             b == <<"str", "name">>
  <2>1. Reads[type] = <<a, b>> /\ Writes[type] = <<a, b>>
    BY <1>2 DEF Reads, Writes
  <2>3. a[2] = "protocolVersion" /\ b[2] = "name"
    OBVIOUS
  <2> HIDE DEF a, b
  <2>4. IsLayout(<<a, b>>) /\ Len(<<a, b>>) = 2
    BY <2>3, TwoFields
  <2>. QED  BY <2>1, <2>4
<1>3. CASE type = "ServerWelcome"
  <2> DEFINE a == <<"u32", "playerNetId">>
             b == <<"u32", "sceneId">>
             c == <<"u16", "tickRate">>
  <2>1. Reads[type] = <<a, b, c>> /\ Writes[type] = <<a, b, c>>
    BY <1>3 DEF Reads, Writes
  <2>3. a[2] = "playerNetId" /\ b[2] = "sceneId" /\ c[2] = "tickRate"
    OBVIOUS
  <2> HIDE DEF a, b, c
  <2>4. IsLayout(<<a, b, c>>) /\ Len(<<a, b, c>>) = 3
    BY <2>3, ThreeFields
  <2>. QED  BY <2>1, <2>4
<1>4. CASE type = "InputCommand"
  <2> DEFINE a == <<"u32", "sequence">>
             b == <<"u64", "keys">>
             c == <<"f32", "lookYaw">>
             d == <<"f32", "lookPitch">>
             e == <<"f32", "dt">>
  <2>1. Reads[type] = <<a, b, c, d, e>> /\ Writes[type] = <<a, b, c, d, e>>
    BY <1>4 DEF Reads, Writes
  <2>3. a[2] = "sequence" /\ b[2] = "keys" /\ c[2] = "lookYaw" /\ d[2] = "lookPitch" /\ e[2] = "dt"
    OBVIOUS
  <2> HIDE DEF a, b, c, d, e
  <2>4. IsLayout(<<a, b, c, d, e>>) /\ Len(<<a, b, c, d, e>>) = 5
    BY <2>3, FiveFields
  <2>. QED  BY <2>1, <2>4
<1>5. CASE type = "PlayerJoin"
  <2> DEFINE a == <<"u32", "netId">>
             b == <<"str", "name">>
  <2>1. Reads[type] = <<a, b>> /\ Writes[type] = <<a, b>>
    BY <1>5 DEF Reads, Writes
  <2>3. a[2] = "netId" /\ b[2] = "name"
    OBVIOUS
  <2> HIDE DEF a, b
  <2>4. IsLayout(<<a, b>>) /\ Len(<<a, b>>) = 2
    BY <2>3, TwoFields
  <2>. QED  BY <2>1, <2>4
<1>6. CASE type \in {"PlayerLeave", "DespawnEntity"}
  <2> DEFINE a == <<"u32", "netId">>
  <2>1. Reads[type] = <<a>> /\ Writes[type] = <<a>>
    BY <1>6 DEF Reads, Writes
  <2>3. a[2] = "netId"
    OBVIOUS
  <2> HIDE DEF a
  <2>4. IsLayout(<<a>>) /\ Len(<<a>>) = 1
    BY <2>3, OneFields
  <2>. QED  BY <2>1, <2>4
<1>7. CASE type = "SpawnEntity"
  <2> DEFINE a == <<"u32", "netId">>
             b == <<"u8", "kind">>
             c == <<"vec3", "scale">>
             d == <<"vec4", "color">>
  <2>1. Reads[type] = <<a, b, c, d>> /\ Writes[type] = <<a, b, c, d>>
    BY <1>7 DEF Reads, Writes
  <2>3. a[2] = "netId" /\ b[2] = "kind" /\ c[2] = "scale" /\ d[2] = "color"
    OBVIOUS
  <2> HIDE DEF a, b, c, d
  <2>4. IsLayout(<<a, b, c, d>>) /\ Len(<<a, b, c, d>>) = 4
    BY <2>3, FourFields
  <2>. QED  BY <2>1, <2>4
<1>8. CASE type = "Explosion"
  <2> DEFINE a == <<"vec3", "pos">>
             b == <<"f32", "radius">>
             c == <<"f32", "speed">>
             d == <<"f32", "upBias">>
             e == <<"f32", "spin">>
  <2>1. Reads[type] = <<a, b, c, d, e>> /\ Writes[type] = <<a, b, c, d, e>>
    BY <1>8 DEF Reads, Writes
  <2>3. a[2] = "pos" /\ b[2] = "radius" /\ c[2] = "speed" /\ d[2] = "upBias" /\ e[2] = "spin"
    OBVIOUS
  <2> HIDE DEF a, b, c, d, e
  <2>4. IsLayout(<<a, b, c, d, e>>) /\ Len(<<a, b, c, d, e>>) = 5
    BY <2>3, FiveFields
  <2>. QED  BY <2>1, <2>4
<1>. QED  BY <1>1, <1>2, <1>3, <1>4, <1>5, <1>6, <1>7, <1>8

LEMMA EntityLayoutsAgree ==
    ReadsEntity = WritesEntity /\ IsLayout(WritesEntity) /\ Len(WritesEntity) = 4
<1> DEFINE a == <<"u32", "netId">>
           b == <<"vec3", "pos">>
           c == <<"quat", "rot">>
           d == <<"vec3", "vel">>
<1>1. ReadsEntity = <<a, b, c, d>> /\ WritesEntity = <<a, b, c, d>>
  BY DEF ReadsEntity, WritesEntity
<1>3. a[2] = "netId" /\ b[2] = "pos" /\ c[2] = "rot" /\ d[2] = "vel"
  OBVIOUS
<1> HIDE DEF a, b, c, d
<1>4. IsLayout(<<a, b, c, d>>) /\ Len(<<a, b, c, d>>) = 4
  BY <1>3, FourFields
<1>. QED  BY <1>1, <1>4

\* Of a snapshot, both write and read the tick, the acknowledgement and a number.
LEMMA SnapshotHead ==
    /\ Len(Writes["Snapshot"]) = 2 /\ Len(Reads["Snapshot"]) = 3
    /\ DOMAIN Writes["Snapshot"] = 1..2 /\ DOMAIN Reads["Snapshot"] = 1..3
    /\ Writes["Snapshot"][1] = <<"u32", "serverTick">>
    /\ Writes["Snapshot"][2] = <<"u32", "ackSeq">>
    /\ Reads["Snapshot"][1] = <<"u32", "serverTick">>
    /\ Reads["Snapshot"][2] = <<"u32", "ackSeq">>
    /\ Reads["Snapshot"][3] = <<"u16", "count">>
<1> DEFINE a == <<"u32", "serverTick">>
           b == <<"u32", "ackSeq">>
           c == <<"u16", "count">>
<1>1. Writes["Snapshot"] = <<a, b>> /\ Reads["Snapshot"] = <<a, b, c>>
  BY DEF Writes, Reads
<1> HIDE DEF a, b, c
<1>2. /\ Len(Writes["Snapshot"]) = 2 /\ Len(Reads["Snapshot"]) = 3
      /\ DOMAIN Writes["Snapshot"] = 1..2 /\ DOMAIN Reads["Snapshot"] = 1..3
      /\ Writes["Snapshot"][1] = a /\ Writes["Snapshot"][2] = b
      /\ Reads["Snapshot"][1] = a /\ Reads["Snapshot"][2] = b /\ Reads["Snapshot"][3] = c
  BY <1>1
<1>. QED  BY <1>2 DEF a, b, c

-----------------------------------------------------------------------------
(* Messages but for the snapshot.                                          *)

\* The fields of m stand in a frame after the first `at`, as the layout has them.
Stands(layout, m, fields, at) ==
    /\ Len(fields) >= at + Len(layout)
    /\ \A i \in DOMAIN layout : fields[at + i] = <<layout[i][1], m[layout[i][2]]>>

\* The fields of a message, read by the layout they were written by, are the message's.
LEMMA ReadBack ==
    ASSUME NEW layout, IsLayout(layout), NEW m, NEW fields, NEW at \in Nat,
           Stands(layout, m, fields, at)
    PROVE  /\ Readable(layout, fields, at)
           /\ Taken(layout, fields, at) = [name \in Fields(layout) |-> m[name]]
<1>1. Readable(layout, fields, at)
  BY DEF Readable, Stands
<1>2. ASSUME NEW name \in Fields(layout)
      PROVE  fields[at + (CHOOSE i \in DOMAIN layout : layout[i][2] = name)][2] = m[name]
  <2> DEFINE j == CHOOSE i \in DOMAIN layout : layout[i][2] = name
  <2>1. j \in DOMAIN layout /\ layout[j][2] = name
    BY <1>2 DEF Fields
  <2> HIDE DEF j
  <2>2. fields[at + j][2] = m[name]
    BY <2>1 DEF Stands
  <2>. QED  BY <2>2 DEF j
<1>. QED  BY <1>1, <1>2 DEF Taken, Fields

LEMMA WrittenStands ==
    ASSUME NEW layout, IsLayout(layout), NEW m
    PROVE  /\ IsSequence(Written(layout, m)) /\ Len(Written(layout, m)) = Len(layout)
           /\ Stands(layout, m, Written(layout, m), 0)
<1> DEFINE w == Written(layout, m)
<1>1. DOMAIN layout = 1..Len(layout) /\ Len(layout) \in Nat
  BY DEF IsLayout
<1>2. \A i \in DOMAIN layout : w[i] = <<layout[i][1], m[layout[i][2]]>>
  BY DEF Written
<1>3. w = [i \in 1..Len(layout) |-> w[i]]
  BY <1>1 DEF Written
<1> HIDE DEF w
<1>4. IsSequence(w) /\ Len(w) = Len(layout)
  BY <1>1, <1>3, SequenceFrom
<1>5. Stands(layout, m, w, 0)
  <2>1. Len(w) >= 0 + Len(layout)
    BY <1>1, <1>4
  <2>2. ASSUME NEW i \in DOMAIN layout PROVE w[0 + i] = <<layout[i][1], m[layout[i][2]]>>
    <3>1. 0 + i = i
      BY <1>1
    <3>. QED  BY <3>1, <1>2
  <2>. QED  BY <2>1, <2>2 DEF Stands
<1>. QED  BY <1>4, <1>5 DEF w

LEMMA TagOf ==
    ASSUME NEW type \in Types
    PROVE  LET t == CHOOSE t \in DOMAIN MsgType : MsgType[t] = type
           IN  t \in DOMAIN MsgType /\ MsgType[t] = type
<1>1. \E t \in DOMAIN MsgType : MsgType[t] = type
  BY DEF Types
<1>. QED  BY <1>1

\* f is a frame of this type.
IsFrame(f, type) ==
    /\ f = [tag |-> f.tag, fields |-> f.fields]
    /\ f.tag = CHOOSE t \in DOMAIN MsgType : MsgType[t] = type
    /\ f.tag \in DOMAIN MsgType /\ MsgType[f.tag] = type
    /\ IsSequence(f.fields)

LEMMA PlainFrame ==
    ASSUME NEW m, m.type \in Types \ {"Snapshot"}
    PROVE  /\ IsFrame(Encode(m), m.type)
           /\ Encode(m).fields = Written(Writes[m.type], m)
<1> DEFINE w == Written(Writes[m.type], m)
           f == Encode(m)
           t == CHOOSE t \in DOMAIN MsgType : MsgType[t] = m.type
           z == << <<"u16", Len(m.entities) % 65536>> >> \o WrittenEntities(m.entities)
           x == IF m.type # "Snapshot" THEN <<>> ELSE z
<1>1. x = <<>>
  <2> HIDE DEF z
  <2>. QED  OBVIOUS
<1>2. f = [tag |-> t, fields |-> w \o x]
  BY DEF Encode
<1> HIDE DEF x
<1>3. IsSequence(w)
  BY LayoutsAgree, WrittenStands
<1>4. t \in DOMAIN MsgType /\ MsgType[t] = m.type
  BY TagOf
<1> HIDE DEF w
<1>5. w \o <<>> = w
  <2>1. PICK S : w \in Seq(S)
    BY <1>3 DEF IsSequence
  <2>. QED  BY <2>1, ConcatEmptySeq
<1>6. f = [tag |-> t, fields |-> w]
  BY <1>1, <1>2, <1>5
<1> HIDE DEF f, t
<1>7. f.tag = t /\ f.fields = w /\ f = [tag |-> f.tag, fields |-> f.fields]
  BY <1>6
<1>8. IsFrame(f, m.type)
  BY <1>3, <1>4, <1>7 DEF IsFrame, t
<1>. QED  BY <1>7, <1>8 DEF f, w

\* A message but for the snapshot: decode gives it back.
LEMMA PlainDecodes == ASSUME NEW m, PlainMessage(m) PROVE Decode(Encode(m)) = m
<1> DEFINE f == Encode(m)
           L == Writes[m.type]
<1>1. m.type \in Types \ {"Snapshot"} /\ m = [name \in Fields(L) \union {"type"} |-> m[name]]
  BY DEF PlainMessage
<1>2. f.tag \in DOMAIN MsgType /\ MsgType[f.tag] = m.type /\ f.fields = Written(L, m)
  BY <1>1, PlainFrame DEF IsFrame
<1>3. Reads[m.type] = L /\ IsLayout(L)
  BY <1>1, LayoutsAgree
<1>4. Stands(L, m, f.fields, 0)
  BY <1>2, <1>3, WrittenStands
<1> HIDE DEF f, L
<1>5. /\ Readable(L, f.fields, 0)
      /\ Taken(L, f.fields, 0) = [name \in Fields(L) |-> m[name]]
  BY <1>3, <1>4, ReadBack
<1>6. ~(m.type = "Snapshot") /\ "type" \notin Fields(L)
  BY <1>1, <1>3 DEF IsLayout, Fields
<1>7. Decode(f) = [name \in Fields(L) \union {"type"} |->
                      IF name = "type" THEN m.type ELSE [k \in Fields(L) |-> m[k]][name]]
  BY <1>1, <1>2, <1>3, <1>5, <1>6 DEF Decode
<1>8. Decode(f) = [name \in Fields(L) \union {"type"} |-> m[name]]
  BY <1>6, <1>7
<1>9. Decode(f) = m
  BY <1>1, <1>8, Zenon
<1>. QED  BY <1>9 DEF f

\* A frame cut short of what its message takes is no message.
LEMMA PlainCut ==
    ASSUME NEW m, m.type \in Types \ {"Snapshot"}, NEW n \in 0..Len(Encode(m).fields) - 1
    PROVE  Decode(Cut(Encode(m), n)) = None
<1> DEFINE f == Encode(m)
           L == Writes[m.type]
           g == Cut(f, n)
<1>1. IsFrame(f, m.type) /\ f.fields = Written(L, m)
  BY PlainFrame
<1>2. Reads[m.type] = L /\ IsLayout(L)
  BY LayoutsAgree
<1>3. Len(f.fields) = Len(L)
  BY <1>1, <1>2, WrittenStands
<1> HIDE DEF f, L
<1>4. g.tag = f.tag /\ g.fields = SubSeq(f.fields, 1, n)
  BY <1>1 DEF IsFrame, Cut
<1>5. n \in Nat /\ n < Len(L) /\ n <= Len(f.fields)
  BY <1>1, <1>3, SequenceShape DEF IsFrame, f
<1>6. Len(g.fields) = n
  <2>1. PICK S : f.fields \in Seq(S)
    BY <1>1 DEF IsFrame, IsSequence
  <2>. QED  BY <2>1, <1>4, <1>5
<1> HIDE DEF g
<1>7. ~Readable(L, g.fields, 0)
  BY <1>2, <1>5, <1>6 DEF Readable, IsLayout
<1>8. g.tag \in DOMAIN MsgType /\ MsgType[g.tag] = m.type
  BY <1>1, <1>4 DEF IsFrame
<1>9. Decode(g) = None
  BY <1>2, <1>7, <1>8 DEF Decode
<1>. QED  BY <1>9 DEF f, g

-----------------------------------------------------------------------------
(* Snapshots.                                                              *)

\* The fields of the entities, entity by entity.
LEMMA EntitiesFields ==
    ASSUME NEW entities, Len(entities) \in Nat
    PROVE  LET E == WrittenEntities(entities)
           IN  /\ IsSequence(E) /\ Len(E) = 4 * Len(entities)
               /\ \A i \in 1..Len(entities), j \in 1..4 :
                     E[4 * (i - 1) + j] = <<WritesEntity[j][1], entities[i][WritesEntity[j][2]]>>
<1> DEFINE N == Len(entities)
           E == WrittenEntities(entities)
<1>1. E = [k \in 1..(N * 4) |->
              Written(WritesEntity, entities[((k - 1) \div 4) + 1])[((k - 1) % 4) + 1]]
  BY EntityLayoutsAgree DEF WrittenEntities
<1>2. N \in Nat /\ N * 4 \in Nat /\ N * 4 = 4 * N
  OBVIOUS
<1> HIDE DEF N, E
<1>3. E = [k \in 1..(N * 4) |-> E[k]]
  BY <1>1
<1>4. IsSequence(E) /\ Len(E) = N * 4
  BY <1>2, <1>3, SequenceFrom
<1>5. ASSUME NEW i \in 1..N, NEW j \in 1..4
      PROVE  E[4 * (i - 1) + j] = <<WritesEntity[j][1], entities[i][WritesEntity[j][2]]>>
  <2>1. PICK k \in 1..(N * 4) :
            k = 4 * (i - 1) + j /\ ((k - 1) \div 4) + 1 = i /\ ((k - 1) % 4) + 1 = j
    <3>1. /\ 4 * (i - 1) + j \in 1..(N * 4)
          /\ ((4 * (i - 1) + j - 1) \div 4) + 1 = i
          /\ ((4 * (i - 1) + j - 1) % 4) + 1 = j
      BY <1>2
    <3>. QED  BY <3>1
  <2>2. E[k] = Written(WritesEntity, entities[((k - 1) \div 4) + 1])[((k - 1) % 4) + 1]
    BY <1>1
  <2>3. E[k] = Written(WritesEntity, entities[i])[j]
    BY <2>1, <2>2
  <2>4. j \in DOMAIN WritesEntity
    BY EntityLayoutsAgree DEF IsLayout
  <2>5. Written(WritesEntity, entities[i])[j]
            = <<WritesEntity[j][1], entities[i][WritesEntity[j][2]]>>
    BY <2>4 DEF Written
  <2>. QED  BY <2>1, <2>3, <2>5
<1>6. /\ IsSequence(E) /\ Len(E) = 4 * N
      /\ \A i \in 1..N, j \in 1..4 :
            E[4 * (i - 1) + j] = <<WritesEntity[j][1], entities[i][WritesEntity[j][2]]>>
  BY <1>2, <1>4, <1>5
<1>. QED  BY <1>6 DEF N, E

\* Two fields, a third one and the rest.
InThreeParts(f, h, c, e) ==
    /\ IsSequence(f) /\ Len(f) = 3 + Len(e)
    /\ f[1] = h[1] /\ f[2] = h[2] /\ f[3] = c
    /\ \A k \in 1..Len(e) : f[3 + k] = e[k]

LEMMA ThreeParts ==
    ASSUME NEW h, IsSequence(h), Len(h) = 2, NEW c, NEW e, IsSequence(e)
    PROVE  InThreeParts(h \o (<<c>> \o e), h, c, e)
<1> DEFINE s == <<c>>
           g == s \o e
           f == h \o g
<1>1. IsSequence(s) /\ Len(s) = 1 /\ s[1] = c
  BY OneElement
<1> HIDE DEF s
<1>2. IsJoin(g, s, e)
  BY <1>1, Joined
<1> HIDE DEF g
<1>3. IsJoin(f, h, g)
  <2>1. IsSequence(g)
    BY <1>2 DEF IsJoin
  <2>. QED  BY <2>1, Joined
<1> HIDE DEF f
<1>4. Len(e) \in Nat
  BY SequenceShape
<1>5. Len(g) = 1 + Len(e) /\ g[1] = c
  BY <1>1, <1>2, <1>4 DEF IsJoin
<1>6. IsSequence(f) /\ Len(f) = 3 + Len(e)
  BY <1>3, <1>4, <1>5 DEF IsJoin
<1>7. f[1] = h[1] /\ f[2] = h[2]
  BY <1>3 DEF IsJoin
<1>8. \A k \in 1..(1 + Len(e)) : f[2 + k] = g[k]
  BY <1>3, <1>5 DEF IsJoin
<1>9. f[3] = c
  <2>1. 1 \in 1..(1 + Len(e)) /\ 2 + 1 = 3
    BY <1>4
  <2>. QED  BY <2>1, <1>5, <1>8
<1>10. ASSUME NEW k \in 1..Len(e) PROVE f[3 + k] = e[k]
  <2>1. 1 + k \in 1..(1 + Len(e)) /\ 2 + (1 + k) = 3 + k
    BY <1>4
  <2>2. f[3 + k] = g[1 + k]
    BY <2>1, <1>8
  <2>3. g[1 + k] = e[k]
    BY <1>1, <1>2 DEF IsJoin
  <2>. QED  BY <2>2, <2>3
<1>11. InThreeParts(f, h, c, e)
  BY <1>6, <1>7, <1>9, <1>10 DEF InThreeParts
<1>. QED  BY <1>11 DEF f, g, s

\* The fields of a snapshot of n entities: tick, acknowledgement, n modulo 2^16, and them.
SnapshotFields(F, m, n) ==
    /\ IsSequence(F) /\ Len(F) = 3 + 4 * n
    /\ F[1] = <<"u32", m.serverTick>> /\ F[2] = <<"u32", m.ackSeq>>
    /\ F[3] = <<"u16", n % 65536>>
    /\ \A i \in 1..n : Stands(WritesEntity, m.entities[i], F, 3 + (i - 1) * 4)

LEMMA SnapshotFrame ==
    ASSUME NEW m, m.type = "Snapshot", Len(m.entities) \in Nat
    PROVE  /\ IsFrame(Encode(m), "Snapshot")
           /\ SnapshotFields(Encode(m).fields, m, Len(m.entities))
<1> DEFINE f == Encode(m)
           n == Len(m.entities)
           H == Written(Writes["Snapshot"], m)
           c == <<"u16", n % 65536>>
           E == WrittenEntities(m.entities)
           t == CHOOSE t \in DOMAIN MsgType : MsgType[t] = m.type
           ce == <<c>> \o E
           x == IF m.type # "Snapshot" THEN <<>> ELSE ce
           F == H \o (<<c>> \o E)
<1>1. x = ce
  <2> HIDE DEF ce
  <2>. QED  OBVIOUS
<1>2. f = [tag |-> t, fields |-> H \o x]
  BY DEF Encode
<1>3. "Snapshot" \in Types
  <2>1. 4 \in DOMAIN MsgType /\ MsgType[4] = "Snapshot"
    BY DEF MsgType
  <2>. QED  BY <2>1 DEF Types
<1>4. t \in DOMAIN MsgType /\ MsgType[t] = "Snapshot"
  BY <1>3, TagOf
<1> HIDE DEF t, x
<1>5. f = [tag |-> t, fields |-> F]
  BY <1>1, <1>2
<1>6. /\ DOMAIN H = 1..2 /\ H = [k \in 1..2 |-> H[k]]
      /\ H[1] = <<"u32", m.serverTick>> /\ H[2] = <<"u32", m.ackSeq>>
  BY SnapshotHead DEF Written
<1>7. /\ IsSequence(E) /\ Len(E) = 4 * n
      /\ \A i \in 1..n, j \in 1..4 :
            E[4 * (i - 1) + j] = <<WritesEntity[j][1], m.entities[i][WritesEntity[j][2]]>>
  BY EntitiesFields
<1> HIDE DEF H, c, E
<1>8. IsSequence(H) /\ Len(H) = 2
  BY <1>6, SequenceFrom, 2 \in Nat
<1>9. /\ IsSequence(F) /\ Len(F) = 3 + Len(E)
      /\ F[1] = H[1] /\ F[2] = H[2] /\ F[3] = c
      /\ \A k \in 1..Len(E) : F[3 + k] = E[k]
  <2>1. InThreeParts(F, H, c, E)
    BY <1>7, <1>8, ThreeParts
  <2> HIDE DEF F
  <2>. QED  BY <2>1 DEF InThreeParts
<1> HIDE DEF F, f
<1>10. f.tag = t /\ f.fields = F /\ f = [tag |-> f.tag, fields |-> f.fields]
  BY <1>5
<1>11. IsFrame(f, "Snapshot")
  BY <1>4, <1>9, <1>10 DEF IsFrame, t
<1>12. n \in Nat
  OBVIOUS
<1> HIDE DEF n
<1>13. ASSUME NEW i \in 1..n
       PROVE  Stands(WritesEntity, m.entities[i], F, 3 + (i - 1) * 4)
  <2>1. Len(WritesEntity) = 4 /\ DOMAIN WritesEntity = 1..4
    BY EntityLayoutsAgree DEF IsLayout
  <2>2. Len(F) >= 3 + (i - 1) * 4 + 4
    BY <1>7, <1>9, <1>12
  <2>3. ASSUME NEW j \in 1..4
        PROVE  F[3 + (i - 1) * 4 + j]
                   = <<WritesEntity[j][1], m.entities[i][WritesEntity[j][2]]>>
    <3>1. PICK k \in 1..(4 * n) : k = 4 * (i - 1) + j
      <4>1. 4 * (i - 1) + j \in 1..(4 * n)
        BY <1>12
      <4>. QED  BY <4>1
    <3>2. 3 + (i - 1) * 4 + j = 3 + k
      BY <3>1, <1>12
    <3>3. F[3 + k] = E[k]
      BY <1>7, <1>9
    <3>4. E[k] = <<WritesEntity[j][1], m.entities[i][WritesEntity[j][2]]>>
      BY <3>1, <1>7
    <3>. QED  BY <3>2, <3>3, <3>4
  <2>. QED  BY <2>1, <2>2, <2>3 DEF Stands
<1>14. SnapshotFields(F, m, n)
  <2>1. IsSequence(F) /\ Len(F) = 3 + 4 * n
    BY <1>7, <1>9
  <2>2. F[1] = <<"u32", m.serverTick>> /\ F[2] = <<"u32", m.ackSeq>>
    BY <1>6, <1>9
  <2>3. F[3] = <<"u16", n % 65536>>
    BY <1>9 DEF c
  <2>. QED  BY <2>1, <2>2, <2>3, <1>13 DEF SnapshotFields
<1>. QED  BY <1>10, <1>11, <1>14 DEF f, n

\* The head of a snapshot with n entities in its frame.
LEMMA HeadReads ==
    ASSUME NEW F, NEW m, NEW n \in Nat, SnapshotFields(F, m, n)
    PROVE  /\ Readable(Reads["Snapshot"], F, 0)
           /\ Taken(Reads["Snapshot"], F, 0)
                  = [serverTick |-> m.serverTick, ackSeq |-> m.ackSeq, count |-> n % 65536]
<1> DEFINE L == Reads["Snapshot"]
           h == [serverTick |-> m.serverTick, ackSeq |-> m.ackSeq, count |-> n % 65536]
<1>1. /\ Len(L) = 3 /\ DOMAIN L = 1..3
      /\ L[1] = <<"u32", "serverTick">> /\ L[2] = <<"u32", "ackSeq">> /\ L[3] = <<"u16", "count">>
  BY SnapshotHead
<1>2. L[1][1] = "u32" /\ L[1][2] = "serverTick" /\ L[2][1] = "u32" /\ L[2][2] = "ackSeq"
      /\ L[3][1] = "u16" /\ L[3][2] = "count"
  BY <1>1
<1>3. /\ Len(F) = 3 + 4 * n /\ F[1] = <<"u32", h.serverTick>> /\ F[2] = <<"u32", h.ackSeq>>
      /\ F[3] = <<"u16", h.count>>
  BY DEF SnapshotFields
<1>4. DOMAIN h = {"serverTick", "ackSeq", "count"} /\ h = [name \in DOMAIN h |-> h[name]]
  OBVIOUS
<1> HIDE DEF L, h
<1>5. \A i \in DOMAIN L : i = 1 \/ i = 2 \/ i = 3
  BY <1>1
<1>6. IsLayout(L)
  <2>1. \A i \in DOMAIN L : L[i][2] # "type"
    BY <1>2, <1>5
  <2>2. ASSUME NEW i \in DOMAIN L, NEW j \in DOMAIN L, L[i][2] = L[j][2] PROVE i = j
    <3>1. (i = 1 \/ i = 2 \/ i = 3) /\ (j = 1 \/ j = 2 \/ j = 3)
      BY <1>5
    <3>. QED  BY <3>1, <2>2, <1>2
  <2>. QED  BY <2>1, <2>2, <1>1 DEF IsLayout
<1>7. Stands(L, h, F, 0)
  <2>1. Len(F) >= 0 + Len(L)
    BY <1>1, <1>3
  <2>2. ASSUME NEW i \in DOMAIN L PROVE F[0 + i] = <<L[i][1], h[L[i][2]]>>
    <3>1. CASE i = 1
      BY <3>1, <1>2, <1>3
    <3>2. CASE i = 2
      BY <3>2, <1>2, <1>3
    <3>3. CASE i = 3
      BY <3>3, <1>2, <1>3
    <3>. QED  BY <3>1, <3>2, <3>3, <1>5
  <2>. QED  BY <2>1, <2>2 DEF Stands
<1>8. /\ Readable(L, F, 0)
      /\ Taken(L, F, 0) = [name \in Fields(L) |-> h[name]]
  BY <1>6, <1>7, ReadBack, 0 \in Nat
<1>9. Fields(L) = DOMAIN h
  <2>1. 1 \in DOMAIN L /\ 2 \in DOMAIN L /\ 3 \in DOMAIN L
    BY <1>1
  <2>. QED  BY <2>1, <1>2, <1>4, <1>5 DEF Fields
<1>10. Taken(L, F, 0) = h
  BY <1>4, <1>8, <1>9
<1>. QED  BY <1>8, <1>10 DEF L, h

\* A snapshot of fewer than 2^16 entities: decode gives it back.
LEMMA SnapshotDecodes == ASSUME NEW m, SnapshotMessage(m) PROVE Decode(Encode(m)) = m
<1> DEFINE f == Encode(m)
           F == f.fields
           n == Len(m.entities)
           head == Taken(Reads["Snapshot"], F, 0)
           at(i) == Len(Reads["Snapshot"]) + (i - 1) * Len(ReadsEntity)
<1>1. /\ m = [type |-> "Snapshot", serverTick |-> m.serverTick, ackSeq |-> m.ackSeq,
              entities |-> m.entities]
      /\ n \in Nat /\ DOMAIN m.entities = 1..n /\ n < 65536
      /\ \A i \in 1..n : m.entities[i] = [name \in Fields(WritesEntity) |-> m.entities[i][name]]
  <2>1. IsSequence(m.entities)
    BY DEF SnapshotMessage
  <2>. QED  BY <2>1, SequenceShape DEF SnapshotMessage, IsSnapshot, EntityState
<1>2. m.type = "Snapshot"
  BY <1>1
<1>3. IsFrame(f, "Snapshot") /\ SnapshotFields(F, m, n)
  BY <1>1, <1>2, SnapshotFrame
<1> HIDE DEF f, F, n
<1>4. n % 65536 = n
  BY <1>1
<1>5. /\ Readable(Reads["Snapshot"], F, 0)
      /\ head.serverTick = m.serverTick /\ head.ackSeq = m.ackSeq /\ head.count = n
  <2>1. /\ Readable(Reads["Snapshot"], F, 0)
        /\ head = [serverTick |-> m.serverTick, ackSeq |-> m.ackSeq, count |-> n % 65536]
    BY <1>1, <1>3, HeadReads
  <2> HIDE DEF head
  <2>. QED  BY <2>1, <1>4
<1>6. \A i \in 1..n : at(i) \in Nat /\ at(i) = 3 + (i - 1) * 4
  BY <1>1, SnapshotHead, EntityLayoutsAgree
<1> HIDE DEF head, at
<1>7. ASSUME NEW i \in 1..n
      PROVE  Readable(ReadsEntity, F, at(i)) /\ Taken(ReadsEntity, F, at(i)) = m.entities[i]
  <2>1. Stands(WritesEntity, m.entities[i], F, at(i))
    BY <1>3, <1>6 DEF SnapshotFields
  <2>2. at(i) \in Nat
    BY <1>6
  <2>3. /\ Readable(WritesEntity, F, at(i))
        /\ Taken(WritesEntity, F, at(i))
               = [name \in Fields(WritesEntity) |-> m.entities[i][name]]
    BY <2>1, <2>2, EntityLayoutsAgree, ReadBack
  <2>. QED  BY <2>3, <1>1, EntityLayoutsAgree
<1>8. [i \in 1..n |-> Taken(ReadsEntity, F, at(i))] = m.entities
  <2>1. [i \in 1..n |-> Taken(ReadsEntity, F, at(i))] = [i \in 1..n |-> m.entities[i]]
    BY <1>7
  <2>2. PICK S : m.entities \in Seq(S)
    BY DEF SnapshotMessage, IsSequence
  <2>3. m.entities = [i \in 1..n |-> m.entities[i]]
    BY <2>2 DEF n
  <2>. QED  BY <2>1, <2>3
<1>9. ReadSnapshot(F) = [type |-> "Snapshot", serverTick |-> m.serverTick, ackSeq |-> m.ackSeq,
                         entities |-> m.entities]
  <2>1. ReadSnapshot(F) =
            IF \A i \in 1..head.count : Readable(ReadsEntity, F, at(i))
            THEN [type |-> "Snapshot", serverTick |-> head.serverTick, ackSeq |-> head.ackSeq,
                  entities |-> [i \in 1..head.count |-> Taken(ReadsEntity, F, at(i))]]
            ELSE None
    BY DEF ReadSnapshot, head, at
  <2>. QED  BY <2>1, <1>5, <1>7, <1>8
<1>10. Decode(f) = ReadSnapshot(F)
  BY <1>3, <1>5 DEF Decode, IsFrame, F
<1>. QED  BY <1>1, <1>9, <1>10 DEF f

\* A snapshot's frame cut short is no message.
LEMMA SnapshotCut ==
    ASSUME NEW m, SnapshotMessage(m), NEW k \in 0..Len(Encode(m).fields) - 1
    PROVE  Decode(Cut(Encode(m), k)) = None
<1> DEFINE f == Encode(m)
           F == f.fields
           n == Len(m.entities)
           g == Cut(f, k)
           G == g.fields
<1>1. m.type = "Snapshot" /\ n \in Nat /\ n < 65536
  <2>1. IsSequence(m.entities)
    BY DEF SnapshotMessage
  <2>2. m = [type |-> "Snapshot", serverTick |-> m.serverTick, ackSeq |-> m.ackSeq,
             entities |-> m.entities]
    BY DEF SnapshotMessage, IsSnapshot
  <2>3. m.type = "Snapshot"
    BY <2>2
  <2>. QED  BY <2>1, <2>3, SequenceShape DEF SnapshotMessage
<1>2. IsFrame(f, "Snapshot") /\ SnapshotFields(F, m, n)
  BY <1>1, SnapshotFrame
<1>3. k \in 0..(Len(F) - 1)
  OBVIOUS
<1> HIDE DEF f, n
<1>4. g.tag = f.tag /\ G = SubSeq(F, 1, k)
  BY <1>2 DEF IsFrame, Cut
<1>5. Len(F) = 3 + 4 * n
  BY <1>2 DEF SnapshotFields
<1>6. k \in Nat /\ k < 3 + 4 * n /\ k <= Len(F)
  BY <1>1, <1>3, <1>5
<1>7. Len(G) = k /\ \A i \in 1..k : G[i] = F[i]
  <2>1. PICK S : F \in Seq(S)
    BY <1>2 DEF SnapshotFields, IsSequence
  <2> HIDE DEF F, G
  <2>. QED  BY <2>1, <1>4, <1>6
<1>8. g.tag \in DOMAIN MsgType /\ MsgType[g.tag] = "Snapshot"
  BY <1>2, <1>4 DEF IsFrame
<1> HIDE DEF F, G, g
<1>9. CASE k < 3
  <2>1. ~Readable(Reads["Snapshot"], G, 0)
    BY <1>6, <1>7, <1>9, SnapshotHead DEF Readable
  <2>. QED  BY <2>1, <1>8 DEF Decode, f, g, G
<1>10. CASE k >= 3
  <2> DEFINE L == Reads["Snapshot"]
             head == Taken(L, G, 0)
             at(i) == Len(Reads["Snapshot"]) + (i - 1) * Len(ReadsEntity)
  <2>1. /\ Readable(L, F, 0)
        /\ Taken(L, F, 0)
              = [serverTick |-> m.serverTick, ackSeq |-> m.ackSeq, count |-> n % 65536]
    BY <1>1, <1>2, HeadReads
  <2>2. Len(L) = 3 /\ DOMAIN L = 1..3
    BY SnapshotHead
  <2>3. \A i \in DOMAIN L : G[0 + i] = F[0 + i]
    BY <1>6, <1>7, <1>10, <2>2
  <2>4. Readable(L, G, 0)
    BY <2>1, <2>2, <2>3, <1>6, <1>7, <1>10 DEF Readable
  <2>5. head = Taken(L, F, 0)
    <3>1. \A name \in Fields(L) : (CHOOSE i \in DOMAIN L : L[i][2] = name) \in DOMAIN L
      BY DEF Fields
    <3> HIDE DEF L
    <3>. QED  BY <3>1, <2>3 DEF Taken, Fields
  <2>6. head.count = n
    BY <2>1, <2>5, <1>1
  <2> HIDE DEF head, L
  <2>7. n >= 1 /\ n \in 1..n
    BY <1>1, <1>6, <1>10
  <2>8. PICK p \in Nat : p = at(n) /\ p + 4 = 3 + 4 * n
    <3>1. at(n) = 3 + (n - 1) * 4
      BY <1>1, SnapshotHead, EntityLayoutsAgree
    <3> HIDE DEF at
    <3>. QED  BY <3>1, <2>7, <1>1
  <2> HIDE DEF at
  <2>9. ~Readable(ReadsEntity, G, at(n))
    <3>1. ~(Len(G) >= p + Len(ReadsEntity))
      BY <2>8, <1>1, <1>6, <1>7, EntityLayoutsAgree
    <3>. QED  BY <2>8, <3>1 DEF Readable
  <2>10. ReadSnapshot(G) =
            IF \A i \in 1..head.count : Readable(ReadsEntity, G, at(i))
            THEN [type |-> "Snapshot", serverTick |-> head.serverTick, ackSeq |-> head.ackSeq,
                  entities |-> [i \in 1..head.count |-> Taken(ReadsEntity, G, at(i))]]
            ELSE None
    BY DEF ReadSnapshot, head, at, L
  <2>11. ReadSnapshot(G) = None
    BY <2>6, <2>7, <2>9, <2>10
  <2>. QED  BY <2>4, <2>11, <1>8 DEF Decode, L, f, g, G
<1>. QED  BY <1>6, <1>9, <1>10

\* Decode is the inverse of encode for every message of every type, a snapshot of up to
\* 65535 entities included, and takes no frame that was cut short for any message
\* (encode, decode and the ByteReader's `ok`).
THEOREM DecodeInvertsEncode ==
    ASSUME NEW m, Message(m)
    PROVE  /\ Decode(Encode(m)) = m
           /\ \A n \in 0..Len(Encode(m).fields) - 1 : Decode(Cut(Encode(m), n)) = None
<1>1. CASE PlainMessage(m)
  BY <1>1, PlainDecodes, PlainCut DEF PlainMessage
<1>2. CASE SnapshotMessage(m)
  BY <1>2, SnapshotDecodes, SnapshotCut
<1>. QED  BY <1>1, <1>2 DEF Message

LEMMA MessagesAreUnderstood == ASSUME NEW m, Message(m) PROVE Understood(Encode(m))
<1>1. m.type \in Types
  <2>1. CASE PlainMessage(m)
    BY <2>1 DEF PlainMessage
  <2>2. CASE SnapshotMessage(m)
    <3>1. m = [type |-> "Snapshot", serverTick |-> m.serverTick, ackSeq |-> m.ackSeq,
               entities |-> m.entities]
      BY <2>2 DEF SnapshotMessage, IsSnapshot
    <3>2. m.type = "Snapshot"
      BY <3>1
    <3>3. 4 \in DOMAIN MsgType /\ MsgType[4] = "Snapshot"
      BY DEF MsgType
    <3>. QED  BY <3>2, <3>3 DEF Types
  <2>. QED  BY <2>1, <2>2 DEF Message
<1>2. m # None
  BY <1>1 DEF Types, MsgType, None
<1>. QED  BY <1>2, DecodeInvertsEncode DEF Understood

-----------------------------------------------------------------------------
(* Frames that arrive.                                                     *)

LEMMA OneNames ==
    ASSUME NEW a
    PROVE  Fields(<<a>>) = {a[2]}
<1> DEFINE w == <<a>>
<1>1. DOMAIN w = 1..1 /\ w[1] = a
  OBVIOUS
<1> HIDE DEF w
<1>2. 1 \in DOMAIN w
  BY <1>1
<1>3. \A i \in DOMAIN w : i = 1
  BY <1>1
<1>4. Fields(w) = {a[2]}
  BY <1>1, <1>2, <1>3 DEF Fields
<1>. QED  BY <1>4 DEF w

LEMMA TwoNames ==
    ASSUME NEW a, NEW b
    PROVE  Fields(<<a, b>>) = {a[2], b[2]}
<1> DEFINE w == <<a, b>>
<1>1. DOMAIN w = 1..2 /\ w[1] = a /\ w[2] = b
  OBVIOUS
<1> HIDE DEF w
<1>2. 1 \in DOMAIN w /\ 2 \in DOMAIN w
  BY <1>1
<1>3. \A i \in DOMAIN w : i = 1 \/ i = 2
  BY <1>1
<1>4. Fields(w) = {a[2], b[2]}
  BY <1>1, <1>2, <1>3 DEF Fields
<1>. QED  BY <1>4 DEF w

LEMMA ThreeNames ==
    ASSUME NEW a, NEW b, NEW c
    PROVE  Fields(<<a, b, c>>) = {a[2], b[2], c[2]}
<1> DEFINE w == <<a, b, c>>
<1>1. DOMAIN w = 1..3 /\ w[1] = a /\ w[2] = b /\ w[3] = c
  OBVIOUS
<1> HIDE DEF w
<1>2. 1 \in DOMAIN w /\ 2 \in DOMAIN w /\ 3 \in DOMAIN w
  BY <1>1
<1>3. \A i \in DOMAIN w : i = 1 \/ i = 2 \/ i = 3
  BY <1>1
<1>4. Fields(w) = {a[2], b[2], c[2]}
  BY <1>1, <1>2, <1>3 DEF Fields
<1>. QED  BY <1>4 DEF w

LEMMA FourNames ==
    ASSUME NEW a, NEW b, NEW c, NEW d
    PROVE  Fields(<<a, b, c, d>>) = {a[2], b[2], c[2], d[2]}
<1> DEFINE w == <<a, b, c, d>>
<1>1. DOMAIN w = 1..4 /\ w[1] = a /\ w[2] = b /\ w[3] = c /\ w[4] = d
  OBVIOUS
<1> HIDE DEF w
<1>2. 1 \in DOMAIN w /\ 2 \in DOMAIN w /\ 3 \in DOMAIN w /\ 4 \in DOMAIN w
  BY <1>1
<1>3. \A i \in DOMAIN w : i = 1 \/ i = 2 \/ i = 3 \/ i = 4
  BY <1>1
<1>4. Fields(w) = {a[2], b[2], c[2], d[2]}
  BY <1>1, <1>2, <1>3 DEF Fields
<1>. QED  BY <1>4 DEF w

LEMMA FiveNames ==
    ASSUME NEW a, NEW b, NEW c, NEW d, NEW e
    PROVE  Fields(<<a, b, c, d, e>>) = {a[2], b[2], c[2], d[2], e[2]}
<1> DEFINE w == <<a, b, c, d, e>>
<1>1. DOMAIN w = 1..5 /\ w[1] = a /\ w[2] = b /\ w[3] = c /\ w[4] = d /\ w[5] = e
  OBVIOUS
<1> HIDE DEF w
<1>2. 1 \in DOMAIN w /\ 2 \in DOMAIN w /\ 3 \in DOMAIN w /\ 4 \in DOMAIN w /\ 5 \in DOMAIN w
  BY <1>1
<1>3. \A i \in DOMAIN w : i = 1 \/ i = 2 \/ i = 3 \/ i = 4 \/ i = 5
  BY <1>1
<1>4. Fields(w) = {a[2], b[2], c[2], d[2], e[2]}
  BY <1>1, <1>2, <1>3 DEF Fields
<1>. QED  BY <1>4 DEF w

LEMMA FieldNames ==
    /\ Fields(Writes["ServerWelcome"]) = {"playerNetId", "sceneId", "tickRate"}
    /\ Fields(Writes["PlayerJoin"]) = {"netId", "name"}
    /\ Fields(Writes["PlayerLeave"]) = {"netId"}
    /\ Fields(Writes["SpawnEntity"]) = {"netId", "kind", "scale", "color"}
    /\ Fields(Writes["DespawnEntity"]) = {"netId"}
    /\ Fields(Writes["Explosion"]) = {"pos", "radius", "speed", "upBias", "spin"}
    /\ Fields(WritesEntity) = {"netId", "pos", "rot", "vel"}
<1>1. Fields(Writes["ServerWelcome"]) = {"playerNetId", "sceneId", "tickRate"}
  <2> DEFINE a == <<"u32", "playerNetId">>
             b == <<"u32", "sceneId">>
             c == <<"u16", "tickRate">>
  <2>1. Writes["ServerWelcome"] = <<a, b, c>>
    BY DEF Writes
  <2>2. a[2] = "playerNetId" /\ b[2] = "sceneId" /\ c[2] = "tickRate"
    OBVIOUS
  <2> HIDE DEF a, b, c
  <2>. QED  BY <2>1, <2>2, ThreeNames
<1>2. Fields(Writes["PlayerJoin"]) = {"netId", "name"}
  <2> DEFINE a == <<"u32", "netId">>
             b == <<"str", "name">>
  <2>1. Writes["PlayerJoin"] = <<a, b>>
    BY DEF Writes
  <2>2. a[2] = "netId" /\ b[2] = "name"
    OBVIOUS
  <2> HIDE DEF a, b
  <2>. QED  BY <2>1, <2>2, TwoNames
<1>3. Fields(Writes["PlayerLeave"]) = {"netId"}
  <2> DEFINE a == <<"u32", "netId">>
  <2>1. Writes["PlayerLeave"] = <<a>>
    BY DEF Writes
  <2>2. a[2] = "netId"
    OBVIOUS
  <2> HIDE DEF a
  <2>. QED  BY <2>1, <2>2, OneNames
<1>4. Fields(Writes["SpawnEntity"]) = {"netId", "kind", "scale", "color"}
  <2> DEFINE a == <<"u32", "netId">>
             b == <<"u8", "kind">>
             c == <<"vec3", "scale">>
             d == <<"vec4", "color">>
  <2>1. Writes["SpawnEntity"] = <<a, b, c, d>>
    BY DEF Writes
  <2>2. a[2] = "netId" /\ b[2] = "kind" /\ c[2] = "scale" /\ d[2] = "color"
    OBVIOUS
  <2> HIDE DEF a, b, c, d
  <2>. QED  BY <2>1, <2>2, FourNames
<1>5. Fields(Writes["DespawnEntity"]) = {"netId"}
  <2> DEFINE a == <<"u32", "netId">>
  <2>1. Writes["DespawnEntity"] = <<a>>
    BY DEF Writes
  <2>2. a[2] = "netId"
    OBVIOUS
  <2> HIDE DEF a
  <2>. QED  BY <2>1, <2>2, OneNames
<1>6. Fields(Writes["Explosion"]) = {"pos", "radius", "speed", "upBias", "spin"}
  <2> DEFINE a == <<"vec3", "pos">>
             b == <<"f32", "radius">>
             c == <<"f32", "speed">>
             d == <<"f32", "upBias">>
             e == <<"f32", "spin">>
  <2>1. Writes["Explosion"] = <<a, b, c, d, e>>
    BY DEF Writes
  <2>2. a[2] = "pos" /\ b[2] = "radius" /\ c[2] = "speed" /\ d[2] = "upBias" /\ e[2] = "spin"
    OBVIOUS
  <2> HIDE DEF a, b, c, d, e
  <2>. QED  BY <2>1, <2>2, FiveNames
<1>7. Fields(WritesEntity) = {"netId", "pos", "rot", "vel"}
  <2> DEFINE a == <<"u32", "netId">>
             b == <<"vec3", "pos">>
             c == <<"quat", "rot">>
             d == <<"vec3", "vel">>
  <2>1. WritesEntity = <<a, b, c, d>>
    BY DEF WritesEntity
  <2>2. a[2] = "netId" /\ b[2] = "pos" /\ c[2] = "rot" /\ d[2] = "vel"
    OBVIOUS
  <2> HIDE DEF a, b, c, d
  <2>. QED  BY <2>1, <2>2, FourNames
<1>. QED  BY <1>1, <1>2, <1>3, <1>4, <1>5, <1>6, <1>7

LEMMA TypesInclude ==
    {"ServerWelcome", "PlayerJoin", "PlayerLeave", "SpawnEntity", "DespawnEntity",
     "Explosion"} \subseteq Types \ {"Snapshot"}
<1>1. /\ {2, 5, 6, 7, 8, 9} \subseteq DOMAIN MsgType
      /\ MsgType[2] = "ServerWelcome" /\ MsgType[5] = "PlayerJoin"
      /\ MsgType[6] = "PlayerLeave" /\ MsgType[7] = "SpawnEntity"
      /\ MsgType[8] = "DespawnEntity" /\ MsgType[9] = "Explosion"
  BY DEF MsgType
<1>. QED  BY <1>1 DEF Types

LEMMA WelcomeIsMessage == Message(Welcome)
<1> DEFINE m == Welcome
<1>1. m.type = "ServerWelcome" /\ DOMAIN m = {"playerNetId", "sceneId", "tickRate"} \union {"type"}
      /\ m = [name \in DOMAIN m |-> m[name]]
  BY DEF Welcome
<1> HIDE DEF m
<1>2. PlainMessage(m)
  BY <1>1, FieldNames, TypesInclude DEF PlainMessage
<1>. QED  BY <1>2 DEF Message, m

LEMMA SnapshotOfEntities ==
    ASSUME NEW tick, NEW ack, NEW e, IsSequence(e), Len(e) < 65536,
           \A i \in DOMAIN e : EntityState(e[i]),
           NEW m, m = [type |-> "Snapshot", serverTick |-> tick, ackSeq |-> ack, entities |-> e]
    PROVE  Message(m)
<1>1. m.serverTick = tick /\ m.ackSeq = ack /\ m.entities = e
  OBVIOUS
<1>2. IsSnapshot(m)
  BY <1>1 DEF IsSnapshot
<1>3. IsSequence(m.entities) /\ Len(m.entities) < 65536
  BY <1>1
<1>4. \A i \in DOMAIN m.entities : EntityState(m.entities[i])
  BY <1>1
<1>5. SnapshotMessage(m)
  BY ONLY <1>2, <1>3, <1>4 DEF SnapshotMessage
<1>. QED  BY <1>5 DEF Message

LEMMA SnapshotIsMessage ==
    ASSUME NEW pos, NEW a, NEW b, NEW c, NEW tick
    PROVE  Message([type |-> "Snapshot", serverTick |-> tick, ackSeq |-> 0,
                    entities |-> <<Entity(Me, pos)>> \o
                        [i \in DOMAIN <<a, b, c>> |-> Entity(<<a, b, c>>[i], tick)]])
<1> DEFINE x == Entity(Me, pos)
           s == <<x>>
           w == <<a, b, c>>
           t == [i \in DOMAIN w |-> Entity(w[i], tick)]
           e == s \o t
           m == [type |-> "Snapshot", serverTick |-> tick, ackSeq |-> 0, entities |-> e]
<1>1. \A n, p : EntityState(Entity(n, p))
  <2> TAKE n, p
  <2> DEFINE y == Entity(n, p)
  <2>1. DOMAIN y = {"netId", "pos", "rot", "vel"} /\ y = [name \in DOMAIN y |-> y[name]]
    BY DEF Entity
  <2> HIDE DEF y
  <2>2. EntityState(y)
    BY <2>1, FieldNames DEF EntityState
  <2>. QED  BY <2>2 DEF y
<1>2. IsSequence(s) /\ Len(s) = 1 /\ s[1] = x
  BY OneElement
<1>3. DOMAIN w = 1..3
  OBVIOUS
<1>4. t = [i \in 1..3 |-> t[i]] /\ \A i \in 1..3 : EntityState(t[i])
  BY <1>1, <1>3
<1>5. EntityState(x)
  BY <1>1
<1> HIDE DEF x, s, w, t
<1>6. IsSequence(t) /\ Len(t) = 3
  BY <1>4, SequenceFrom, 3 \in Nat
<1>7. IsJoin(e, s, t)
  BY <1>2, <1>6, Joined
<1> HIDE DEF e
<1>8. IsSequence(e) /\ Len(e) = 4 /\ e[1] = x /\ \A k \in 1..3 : e[1 + k] = t[k]
  BY <1>2, <1>6, <1>7 DEF IsJoin
<1>9. DOMAIN e = 1..4
  BY <1>8, SequenceShape
<1>10. ASSUME NEW i \in DOMAIN e PROVE EntityState(e[i])
  <2>1. CASE i = 1
    BY <2>1, <1>5, <1>8
  <2>2. CASE i # 1
    <3>1. i - 1 \in 1..3 /\ 1 + (i - 1) = i
      BY <2>2, <1>9
    <3>2. e[i] = t[i - 1]
      BY <3>1, <1>8
    <3>. QED  BY <3>1, <3>2, <1>4
  <2>. QED  BY <2>1, <2>2
<1>11. Len(e) < 65536
  BY <1>8
<1>12. Message(m)
  <2>1. IsSequence(e)
    BY <1>8
  <2>2. \A q : q = [type |-> "Snapshot", serverTick |-> tick, ackSeq |-> 0, entities |-> e]
               => Message(q)
    BY <2>1, <1>10, <1>11, SnapshotOfEntities
  <2>. QED  BY <2>2, Zenon
<1>. QED  BY <1>12 DEF m, e, s, t, w, x

LEMMA SnapshotsAreMessages == ASSUME NEW m \in Snapshots PROVE Message(m)
<1>1. \E pos, at : m = SnapshotOf(<<Crate, Pal, Ball>>, pos, at)
  BY DEF Snapshots
<1>. QED  BY <1>1, SnapshotIsMessage DEF SnapshotOf

LEMMA NewsAreMessages == ASSUME NEW m \in News PROVE Message(m)
<1>2. CASE m = Lifecycle("PlayerLeave", Pal) \/ m = Lifecycle("DespawnEntity", Ball)
  <2>1. m.type \in {"PlayerLeave", "DespawnEntity"} /\ DOMAIN m = {"netId"} \union {"type"}
        /\ m = [name \in DOMAIN m |-> m[name]]
    BY <1>2 DEF Lifecycle
  <2>2. PlainMessage(m)
    BY <2>1, FieldNames, TypesInclude DEF PlainMessage
  <2>. QED  BY <2>2 DEF Message
<1>3. CASE m = [type |-> "PlayerJoin", netId |-> Pal, name |-> "pal"]
  <2>1. m.type = "PlayerJoin" /\ DOMAIN m = {"netId", "name"} \union {"type"}
        /\ m = [name \in DOMAIN m |-> m[name]]
    BY <1>3
  <2>2. PlainMessage(m)
    BY <2>1, FieldNames, TypesInclude DEF PlainMessage
  <2>. QED  BY <2>2 DEF Message
<1>4. CASE m = [type |-> "SpawnEntity", netId |-> Ball, kind |-> 0, scale |-> 1, color |-> 0]
  <2>1. m.type = "SpawnEntity" /\ DOMAIN m = {"netId", "kind", "scale", "color"} \union {"type"}
        /\ m = [name \in DOMAIN m |-> m[name]]
    BY <1>4
  <2>2. PlainMessage(m)
    BY <2>1, FieldNames, TypesInclude DEF PlainMessage
  <2>. QED  BY <2>2 DEF Message
<1>5. CASE m = [type |-> "Explosion", pos |-> 0, radius |-> 6, speed |-> HardSnapDistance,
                upBias |-> 0, spin |-> 8]
  <2>1. m.type = "Explosion"
        /\ DOMAIN m = {"pos", "radius", "speed", "upBias", "spin"} \union {"type"}
        /\ m = [name \in DOMAIN m |-> m[name]]
    BY <1>5
  <2>2. PlainMessage(m)
    BY <2>1, FieldNames, TypesInclude DEF PlainMessage
  <2>. QED  BY <2>2 DEF Message
<1>. QED  BY <1>2, <1>3, <1>4, <1>5 DEF News

\* What is delivered is a message of the server.
LEMMA DeliverSends ==
    ASSUME Deliver
    PROVE  \E m \in Snapshots \union News \union {Welcome} :
              Message(m) /\ inbox' = Append(inbox, Encode(m))
<1>1. PICK m \in Snapshots \union
                   (IF net.joined \/ Hears("ServerWelcome") THEN News ELSE {Welcome}) :
          inbox' = Append(inbox, Encode(m))
  BY Zenon DEF Deliver
<1>2. m \in Snapshots \/ m \in News \/ m = Welcome
  BY <1>1
<1>3. Message(m)
  BY <1>2, SnapshotsAreMessages, WelcomeIsMessage, NewsAreMessages
<1>. QED  BY <1>1, <1>2, <1>3

\* The last frame that waits is one that the client understands.
InboxOK == IsSequence(inbox) /\ FramesAreUnderstood

LEMMA EmptyInboxOK == ASSUME inbox' = <<>> PROVE InboxOK'
<1>1. IsSequence(<<>>)
  <2>1. <<>> \in Seq({})
    OBVIOUS
  <2>. QED  BY <2>1 DEF IsSequence
<1>2. IsSequence(inbox')
  BY <1>1
<1>. QED  BY <1>2 DEF InboxOK, FramesAreUnderstood

LEMMA SameInboxOK == ASSUME InboxOK, inbox' = inbox PROVE InboxOK'
BY Zenon DEF InboxOK, FramesAreUnderstood

LEMMA DeliverInboxOK == ASSUME InboxOK, Deliver PROVE InboxOK'
<1>1. PICK m : Message(m) /\ inbox' = Append(inbox, Encode(m))
  BY DeliverSends
<1>2. Message(m)
  BY <1>1
<1>3. Understood(Encode(m))
  BY <1>2, MessagesAreUnderstood
<1> DEFINE f == Encode(m)
<1> HIDE DEF f
<1>4. PICK S : inbox \in Seq(S)
  BY DEF InboxOK, IsSequence
<1> DEFINE T == S \union {f}
<1>5. inbox \in Seq(T) /\ f \in T
  BY <1>4, WiderSequence, S \subseteq T
<1> HIDE DEF T
<1>6. inbox' = Append(inbox, f)
  BY <1>1 DEF f
<1>7. inbox' \in Seq(T) /\ Len(inbox') = Len(inbox) + 1 /\ inbox'[Len(inbox) + 1] = f
  BY <1>5, <1>6
<1>8. Last(inbox') = f
  BY <1>7 DEF Last
<1>9. IsSequence(inbox')
  BY <1>7 DEF IsSequence
<1>. QED  BY <1>3, <1>8, <1>9 DEF InboxOK, FramesAreUnderstood, f

LEMMA InboxInvariance == Spec => []InboxOK
<1>1. Init => InboxOK
  <2> SUFFICES ASSUME Init PROVE InboxOK
    OBVIOUS
  <2>1. inbox = <<>> /\ <<>> \in Seq({})
    BY DEF Init
  <2>. QED  BY <2>1 DEF InboxOK, FramesAreUnderstood, IsSequence
<1>2. InboxOK /\ [Next]_vars => InboxOK'
  <2> SUFFICES ASSUME InboxOK, [Next]_vars PROVE InboxOK'
    OBVIOUS
  <2>1. CASE \E k \in Keys : KeyDown(k) \/ KeyUp(k)
    BY <2>1, SameInboxOK DEF KeyDown, KeyUp, Input
  <2>2. CASE (\E row \in 0..Len(Rows) : PointerMoves(row)) \/ Button
    BY <2>2, SameInboxOK DEF PointerMoves, Button, Input
  <2>3. CASE LockLost
    BY <2>3, SameInboxOK DEF LockLost
  <2>4. CASE Reload
    BY <2>4, EmptyInboxOK DEF Reload
  <2>5. CASE Deliver
    BY <2>5, DeliverInboxOK
  <2>6. CASE \E dt \in Deltas : Frame(dt)
    <3>1. inbox' = <<>> \/ inbox' = inbox
      BY <2>6, Zenon DEF Frame
    <3>. QED  BY <3>1, EmptyInboxOK, SameInboxOK
  <2>7. CASE UNCHANGED vars
    BY <2>7, SameInboxOK DEF vars
  <2>. QED  BY <2>1, <2>2, <2>3, <2>4, <2>5, <2>6, <2>7 DEF Next
<1>. QED  BY <1>1, <1>2, PTL DEF Spec

\* Every frame the server sends is understood as what it was (FramesAreUnderstood).
THEOREM FramesStayUnderstood == Spec => []FramesAreUnderstood
<1>1. InboxOK => FramesAreUnderstood
  BY DEF InboxOK
<1>. QED  BY <1>1, InboxInvariance, PTL

-----------------------------------------------------------------------------
(* Settings.  Sums of bits are recursive; what is said of them holds at 0  *)
(* and, if at a number, at the next.                                       *)

\* A set of numbers that is not empty has a least one.
LEMMA LeastNumber ==
    ASSUME NEW T \in SUBSET Nat, T # {}
    PROVE  \E n \in T : \A m \in T : n <= m
<1>1. PICK n \in T : \A m \in T : <<m, n>> \notin OpToRel(<, Nat)
  BY WFMin, NatLessThanWellFounded, Zenon
<1>2. \A m \in T : ~(m < n)
  BY <1>1, Zenon DEF OpToRel
<1>. QED  BY <1>2

LEMMA Upwards ==
    ASSUME NEW S, 0 \in S, \A n \in Nat : n \in S => n + 1 \in S
    PROVE  Nat \subseteq S
<1> DEFINE R == Nat \ S
<1> SUFFICES ASSUME R # {} PROVE FALSE
  OBVIOUS
<1>1. PICK n \in R : \A m \in R : n <= m
  BY LeastNumber
<1>2. n \in Nat /\ n # 0 /\ n - 1 \in Nat
  OBVIOUS
<1>3. n - 1 \in S
  BY <1>1, <1>2
<1>. QED  BY <1>2, <1>3

\* The powers that are needed, one by one.
PowerOf(n) == 2^n

LEMMA Powers == \A n \in 0..15 : 2^n \in Nat \ {0} /\ 2^(n + 1) = 2 * 2^n
<1>1. /\ PowerOf(0) = 1 /\ PowerOf(1) = 2 /\ PowerOf(2) = 4
      /\ PowerOf(3) = 8 /\ PowerOf(4) = 16 /\ PowerOf(5) = 32
      /\ PowerOf(6) = 64 /\ PowerOf(7) = 128 /\ PowerOf(8) = 256
      /\ PowerOf(9) = 512 /\ PowerOf(10) = 1024 /\ PowerOf(11) = 2048
      /\ PowerOf(12) = 4096 /\ PowerOf(13) = 8192 /\ PowerOf(14) = 16384
      /\ PowerOf(15) = 32768 /\ PowerOf(16) = 65536
  BY DEF PowerOf
<1> SUFFICES ASSUME NEW n \in 0..15
             PROVE  PowerOf(n) \in Nat \ {0} /\ PowerOf(n + 1) = 2 * PowerOf(n)
  BY DEF PowerOf
<1>c0. CASE n = 0
  <2>1. n + 1 = 1
    BY <1>c0
  <2>. QED  BY <1>1, <1>c0, <2>1
<1>c1. CASE n = 1
  <2>1. n + 1 = 2
    BY <1>c1
  <2>. QED  BY <1>1, <1>c1, <2>1
<1>c2. CASE n = 2
  <2>1. n + 1 = 3
    BY <1>c2
  <2>. QED  BY <1>1, <1>c2, <2>1
<1>c3. CASE n = 3
  <2>1. n + 1 = 4
    BY <1>c3
  <2>. QED  BY <1>1, <1>c3, <2>1
<1>c4. CASE n = 4
  <2>1. n + 1 = 5
    BY <1>c4
  <2>. QED  BY <1>1, <1>c4, <2>1
<1>c5. CASE n = 5
  <2>1. n + 1 = 6
    BY <1>c5
  <2>. QED  BY <1>1, <1>c5, <2>1
<1>c6. CASE n = 6
  <2>1. n + 1 = 7
    BY <1>c6
  <2>. QED  BY <1>1, <1>c6, <2>1
<1>c7. CASE n = 7
  <2>1. n + 1 = 8
    BY <1>c7
  <2>. QED  BY <1>1, <1>c7, <2>1
<1>c8. CASE n = 8
  <2>1. n + 1 = 9
    BY <1>c8
  <2>. QED  BY <1>1, <1>c8, <2>1
<1>c9. CASE n = 9
  <2>1. n + 1 = 10
    BY <1>c9
  <2>. QED  BY <1>1, <1>c9, <2>1
<1>c10. CASE n = 10
  <2>1. n + 1 = 11
    BY <1>c10
  <2>. QED  BY <1>1, <1>c10, <2>1
<1>c11. CASE n = 11
  <2>1. n + 1 = 12
    BY <1>c11
  <2>. QED  BY <1>1, <1>c11, <2>1
<1>c12. CASE n = 12
  <2>1. n + 1 = 13
    BY <1>c12
  <2>. QED  BY <1>1, <1>c12, <2>1
<1>c13. CASE n = 13
  <2>1. n + 1 = 14
    BY <1>c13
  <2>. QED  BY <1>1, <1>c13, <2>1
<1>c14. CASE n = 14
  <2>1. n + 1 = 15
    BY <1>c14
  <2>. QED  BY <1>1, <1>c14, <2>1
<1>c15. CASE n = 15
  <2>1. n + 1 = 16
    BY <1>c15
  <2>. QED  BY <1>1, <1>c15, <2>1
<1>3. n \in 0..7 \/ n \in 8..15
  OBVIOUS
<1>4. n \in 0..7 => \/ n = 0 \/ n = 1 \/ n = 2 \/ n = 3 \/ n = 4 \/ n = 5 \/ n = 6 \/ n = 7
  OBVIOUS
<1>5. n \in 8..15 => \/ n = 8 \/ n = 9 \/ n = 10 \/ n = 11
                   \/ n = 12 \/ n = 13 \/ n = 14 \/ n = 15
  OBVIOUS
<1>. QED
  BY <1>3, <1>4, <1>5, <1>c0, <1>c1, <1>c2, <1>c3, <1>c4, <1>c5, <1>c6, <1>c7,
     <1>c8, <1>c9, <1>c10, <1>c11, <1>c12, <1>c13, <1>c14, <1>c15

LEMMA PowersNat == \A n \in 0..16 : 2^n \in Nat \ {0}
<1>1. 2^16 \in Nat \ {0}
  OBVIOUS
<1>2. \A n \in 0..16 : n \in 0..15 \/ n = 16
  OBVIOUS
<1>. QED  BY <1>1, <1>2, Powers

\* A power of two is a multiple of every smaller one.
LEMMA PowersDivide ==
    ASSUME NEW i \in 0..16
    PROVE  \A n \in i..16 : \E s \in Nat : 2^n = 2^i * s
<1> DEFINE Good(n) == n \in i..16 => \E s \in Nat : 2^n = 2^i * s
           S == {n \in Nat : Good(n)}
<1>1. 2^i \in Nat
  BY PowersNat
<1>2. 2^i = 2^i * 1
  BY <1>1
<1>3. Good(i)
  BY <1>2
<1>4. 0 \in S
  <2>1. Good(0)
    <3>1. CASE i = 0
      BY <3>1, <1>3
    <3>2. CASE i # 0
      BY <3>2
    <3>. QED  BY <3>1, <3>2
  <2>. QED  BY <2>1
<1>5. ASSUME NEW n \in Nat, Good(n) PROVE Good(n + 1)
  <2>1. CASE n + 1 = i
    BY <2>1, <1>3
  <2>2. CASE n + 1 # i
    <3> SUFFICES ASSUME n + 1 \in i..16 PROVE \E s \in Nat : 2^(n + 1) = 2^i * s
      OBVIOUS
    <3>1. n \in i..16 /\ n \in 0..15
      BY <2>2
    <3>2. PICK s \in Nat : 2^n = 2^i * s
      BY <1>5, <3>1
    <3>3. 2^(n + 1) = 2 * 2^n
      BY <3>1, Powers
    <3>4. 2 * (2^i * s) = 2^i * (2 * s)
      <4>1. \A p \in Nat : 2 * (p * s) = p * (2 * s)
        OBVIOUS
      <4>. QED  BY <4>1, <1>1
    <3>5. 2^(n + 1) = 2^i * (2 * s) /\ 2 * s \in Nat
      BY <3>2, <3>3, <3>4
    <3>. QED  BY <3>5
  <2>. QED  BY <2>1, <2>2
<1>6. \A n \in Nat : n \in S => n + 1 \in S
  BY <1>5
<1> HIDE DEF Good
<1>7. Nat \subseteq S
  <2> HIDE DEF S
  <2>. QED  BY <1>4, <1>6, Upwards
<1>8. ASSUME NEW n \in i..16 PROVE \E s \in Nat : 2^n = 2^i * s
  <2>1. n \in Nat
    OBVIOUS
  <2>2. Good(n)
    BY <2>1, <1>7
  <2>. QED  BY <2>2 DEF Good
<1>. QED  BY <1>8

\* What the n-th flag adds to the sum.
Weight(v, n) == IF Flags[n] \in v.on THEN 2^(n - 1) ELSE 0

IsSum(f, v, N) ==
    f = [n \in 0..N |-> IF n = 0 THEN 0 ELSE f[n - 1] + Weight(v, n)]

\* The recursive function of BitsOf has a value at every place.
LEMMA SumExists == ASSUME NEW v PROVE \A N \in Nat : \E f : IsSum(f, v, N)
<1> DEFINE S == {N \in Nat : \E f : IsSum(f, v, N)}
<1>1. 0 \in S
  <2> DEFINE f == [n \in 0..0 |-> 0]
  <2>1. IsSum(f, v, 0)
    BY DEF IsSum
  <2>. QED  BY <2>1
<1>2. ASSUME NEW k \in Nat, k \in S PROVE k + 1 \in S
  <2>1. PICK g : IsSum(g, v, k)
    BY <1>2
  <2> DEFINE h == [n \in 0..(k + 1) |-> IF n = k + 1 THEN g[k] + Weight(v, k + 1) ELSE g[n]]
  <2>2. \A n \in 0..k : g[n] = IF n = 0 THEN 0 ELSE g[n - 1] + Weight(v, n)
    BY <2>1 DEF IsSum
  <2>3. ASSUME NEW n \in 0..(k + 1)
        PROVE  h[n] = IF n = 0 THEN 0 ELSE h[n - 1] + Weight(v, n)
    <3>1. CASE n = 0
      BY <3>1, <2>2
    <3>2. CASE n # 0 /\ n # k + 1
      <4>1. n \in 0..k /\ n - 1 \in 0..(k + 1) /\ n - 1 # k + 1
        BY <3>2
      <4>2. h[n] = g[n] /\ h[n - 1] = g[n - 1]
        BY <4>1, <3>2
      <4>. QED  BY <4>1, <4>2, <2>2, <3>2
    <3>3. CASE n = k + 1
      <4>1. h[n] = g[k] + Weight(v, n) /\ n - 1 = k /\ h[k] = g[k] /\ n # 0
        BY <3>3
      <4>. QED  BY <4>1
    <3>. QED  BY <3>1, <3>2, <3>3
  <2>4. h = [n \in 0..(k + 1) |-> h[n]]
    OBVIOUS
  <2> HIDE DEF h
  <2>5. IsSum(h, v, k + 1)
    BY <2>3, <2>4 DEF IsSum
  <2>. QED  BY <2>5
<1> HIDE DEF S
<1>3. Nat \subseteq S
  BY <1>1, <1>2, Upwards
<1>. QED  BY <1>3 DEF S

LEMMA BitsRun ==
    ASSUME NEW v
    PROVE  LET low == BitsOf(v)
           IN  /\ low[0] = 0
               /\ \A n \in 1..Len(Flags) : low[n] = low[n - 1] + Weight(v, n)
<1> DEFINE low == BitsOf(v)
<1>1. Len(Flags) \in Nat
  BY PageAssumption DEF PageAssumption
<1>2. low = CHOOSE f : IsSum(f, v, Len(Flags))
  BY DEF BitsOf, IsSum, Weight
<1>3. IsSum(low, v, Len(Flags))
  BY <1>1, <1>2, SumExists
<1> HIDE DEF low
<1>4. /\ low[0] = 0
      /\ \A n \in 1..Len(Flags) : low[n] = low[n - 1] + Weight(v, n)
  BY <1>1, <1>3 DEF IsSum
<1>. QED  BY <1>4 DEF low

\* What a flag adds is its power of two, or nothing.
LEMMA Weights ==
    ASSUME NEW v, NEW n \in 1..16
    PROVE  /\ n - 1 \in 0..15 /\ 2^(n - 1) \in Nat \ {0} /\ 2^n = 2 * 2^(n - 1)
           /\ Weight(v, n) = IF Flags[n] \in v.on THEN 2^(n - 1) ELSE 0
<1>1. n - 1 \in 0..15 /\ (n - 1) + 1 = n
  OBVIOUS
<1>2. 2^(n - 1) \in Nat \ {0} /\ 2^((n - 1) + 1) = 2 * 2^(n - 1)
  BY <1>1, Powers
<1>. QED  BY <1>1, <1>2 DEF Weight

\* How many toggles the menu has.
Toggles == Len(Flags)

LEMMA FlagDomain == DOMAIN Flags = 1..Toggles /\ Toggles \in Nat
<1>1. Flags \in Seq(STRING)
  BY PageAssumption, Zenon DEF PageAssumption
<1>. QED  BY <1>1 DEF Toggles

LEMMA FlagCount == Toggles \in 0..16
<1>1. Toggles <= 16
  BY PageAssumption, Zenon DEF PageAssumption, Toggles
<1>. QED  BY <1>1, FlagDomain

\* The bits of the first n flags are a number of n bits.
LEMMA BitsRange ==
    ASSUME NEW v
    PROVE  \A n \in 0..Toggles : BitsOf(v)[n] \in Nat /\ BitsOf(v)[n] < 2^n
<1> DEFINE low == BitsOf(v)
           S == {n \in Nat : n <= Toggles => low[n] \in Nat /\ low[n] < 2^n}
<1>1. low[0] = 0 /\ \A n \in 1..Toggles : low[n] = low[n - 1] + Weight(v, n)
  BY BitsRun, Zenon DEF Toggles
<1> HIDE DEF low
<1>2. 0 \in S
  BY <1>1
<1>3. ASSUME NEW n \in Nat, n \in S PROVE n + 1 \in S
  <2> SUFFICES ASSUME n + 1 <= Toggles PROVE low[n + 1] \in Nat /\ low[n + 1] < 2^(n + 1)
    OBVIOUS
  <2>1. n \in 0..15 /\ n + 1 \in 1..Toggles /\ (n + 1) - 1 = n /\ n <= Toggles
    BY FlagCount
  <2>2. low[n] \in Nat /\ low[n] < 2^n
    BY <1>3, <2>1
  <2>3. low[n + 1] = low[n] + Weight(v, n + 1)
    BY <1>1, <2>1
  <2>4. Weight(v, n + 1) = (IF Flags[n + 1] \in v.on THEN 2^n ELSE 0)
    BY <2>1 DEF Weight
  <2>5. 2^n \in Nat /\ 2^(n + 1) = 2 * 2^n
    BY <2>1, Powers
  <2>. QED  BY <2>2, <2>3, <2>4, <2>5
<1> HIDE DEF S
<1>4. Nat \subseteq S
  BY <1>2, <1>3, Upwards
<1>5. ASSUME NEW n \in 0..Toggles PROVE low[n] \in Nat /\ low[n] < 2^n
  <2>1. n \in Nat /\ n <= Toggles
    BY FlagCount
  <2>. QED  BY <2>1, <1>4 DEF S
<1>. QED  BY <1>5 DEF low

\* Two multiples of the same number add up to one.
LEMMA Multiples ==
    ASSUME NEW a \in Nat, NEW d \in Nat, NEW r \in Nat, NEW s \in Nat
    PROVE  (a + d * r) + d * s = a + d * (r + s)
  OBVIOUS

\* Above the i-th flag there are multiples of the next power only.
LEMMA BitsRead ==
    ASSUME NEW v, NEW i \in 1..Toggles
    PROVE  \A n \in i..Toggles :
               \E r \in Nat : BitsOf(v)[n] = (BitsOf(v)[i - 1] + Weight(v, i)) + 2^i * r
<1> DEFINE low == BitsOf(v)
           a == low[i - 1] + Weight(v, i)
           S == {n \in Nat : n \in i..Toggles => \E r \in Nat : low[n] = a + 2^i * r}
<1>1. \A n \in 1..Toggles : low[n] = low[n - 1] + Weight(v, n)
  BY BitsRun, Zenon DEF Toggles
<1>2. i \in 1..16 /\ i \in 0..16 /\ i - 1 \in 0..Toggles
  BY FlagCount
<1>3. 2^i \in Nat
  BY <1>2, PowersNat
<1>4. a \in Nat
  <2>1. low[i - 1] \in Nat
    BY <1>2, BitsRange
  <2>2. Weight(v, i) \in Nat
    <3>1. 2^(i - 1) \in Nat /\ Weight(v, i) = IF Flags[i] \in v.on THEN 2^(i - 1) ELSE 0
      BY <1>2, Weights
    <3> HIDE DEF S
    <3>. QED  BY <3>1
  <2>. QED  BY <2>1, <2>2
<1>5. low[i] = a
  BY <1>1
<1> HIDE DEF low, a
<1>6. i \in S
  <2>1. low[i] = a + 2^i * 0
    BY <1>3, <1>4, <1>5
  <2>. QED  BY <2>1
<1>7. 0 \in S
  OBVIOUS
<1>8. ASSUME NEW n \in Nat, n \in S PROVE n + 1 \in S
  <2>1. CASE n + 1 = i
    BY <2>1, <1>6
  <2>2. CASE n + 1 # i
    <3> SUFFICES ASSUME n + 1 \in i..Toggles PROVE \E r \in Nat : low[n + 1] = a + 2^i * r
      OBVIOUS
    <3>1. n \in i..Toggles /\ n \in i..16 /\ n + 1 \in 1..Toggles /\ (n + 1) - 1 = n
      <4> HIDE DEF S
      <4>1. n + 1 <= Toggles /\ i <= n + 1 /\ i \in Nat /\ 1 <= i /\ Toggles \in 0..16
        BY FlagCount
      <4>. QED  BY <4>1, <2>2
    <3>2. PICK r \in Nat : low[n] = a + 2^i * r
      BY <1>8, <3>1
    <3>3. PICK s \in Nat : 2^n = 2^i * s
      BY <1>2, <3>1, PowersDivide
    <3>4. low[n + 1] = low[n] + Weight(v, n + 1)
      BY <1>1, <3>1
    <3>5. Weight(v, n + 1) = (IF Flags[n + 1] \in v.on THEN 2^n ELSE 0)
      BY <3>1 DEF Weight
    <3>6. CASE Flags[n + 1] \in v.on
      <4>1. low[n + 1] = (a + 2^i * r) + 2^i * s
        BY <3>2, <3>3, <3>4, <3>5, <3>6
      <4>2. (a + 2^i * r) + 2^i * s = a + 2^i * (r + s)
        BY <1>3, <1>4, Multiples
      <4>3. r + s \in Nat
        OBVIOUS
      <4>. QED  BY <4>1, <4>2, <4>3
    <3>7. CASE Flags[n + 1] \notin v.on
      <4>1. low[n + 1] = (a + 2^i * r) + 0
        BY <3>2, <3>4, <3>5, <3>7
      <4>2. (a + 2^i * r) + 0 = a + 2^i * r
        BY <1>3, <1>4
      <4>. QED  BY <4>1, <4>2
    <3>. QED  BY <3>6, <3>7
  <2>. QED  BY <2>1, <2>2
<1> HIDE DEF S
<1>9. Nat \subseteq S
  BY <1>7, <1>8, Upwards
<1>10. ASSUME NEW n \in i..Toggles PROVE \E r \in Nat : low[n] = a + 2^i * r
  <2>1. n \in Nat
    BY FlagCount
  <2>. QED  BY <2>1, <1>9 DEF S
<1>. QED  BY <1>10 DEF low, a

-----------------------------------------------------------------------------
(* What is packed is unpacked. *)

FlagSet == {Flags[i] : i \in 1..Toggles}
Settings == [on : SUBSET FlagSet, quality : 1..3, boosted : BOOLEAN]

\* The digit b at the place p of a number is read by a division and a remainder.
LEMMA DigitRead ==
    ASSUME NEW x \in Nat, NEW p \in Nat \ {0}, x < p, NEW b \in {0, 1}, NEW R \in Nat
    PROVE  ((x + p * (b + 2 * R)) \div p) % 2 = b
<1> DEFINE k == b + 2 * R
<1>1. k \in Nat /\ k % 2 = b
  OBVIOUS
<1> HIDE DEF k
<1>2. (x + p * k) \div p = k
  <2>1. x \div p = 0
    OBVIOUS
  <2>2. (x + p * k) \div p = (x \div p) + k
    BY <1>1
  <2>. QED  BY <1>1, <2>1, <2>2
<1>. QED  BY <1>1, <1>2 DEF k

SixteenBit(x) == x <= 65536

LEMMA SixteenBits == ASSUME NEW n \in 0..16 PROVE SixteenBit(2^n)
<1>1. 16 \in n..16
  OBVIOUS
<1>2. PICK s \in Nat : 2^16 = 2^n * s
  BY <1>1, PowersDivide
<1>3. 2^n \in Nat \ {0}
  BY PowersNat
<1>4. \A a \in Nat \ {0} : \A b \in Nat : a * b = 65536 => a <= 65536
  OBVIOUS
<1>5. 2^n * s = 65536
  BY <1>2
<1>. QED  BY <1>3, <1>4, <1>5 DEF SixteenBit

\* The bits of all flags.
Bits(v) == BitsOf(v)[Toggles]

LEMMA PackForm ==
    ASSUME NEW v \in Settings
    PROVE  /\ Bits(v) \in Nat /\ Bits(v) < 65536
           /\ PackSettings(v) = 16777216 + (v.quality - 1) * 65536 + Bits(v)
<1>1. Toggles \in 0..Toggles /\ Toggles \in 0..16
  BY FlagCount
<1>2. Bits(v) \in Nat /\ Bits(v) < 2^Toggles
  BY <1>1, BitsRange DEF Bits
<1>3. 2^Toggles \in Nat /\ 2^Toggles <= 65536
  <2>1. SixteenBit(2^Toggles)
    BY <1>1, SixteenBits
  <2>2. 2^Toggles \in Nat
    BY <1>1, PowersNat
  <2>. QED  BY <2>1, <2>2 DEF SixteenBit
<1>4. PackSettings(v) = 1 * 2^24 + (v.quality - 1) * 2^16 + Bits(v)
  BY Zenon DEF PackSettings, kSettingsVersion, Toggles, Bits
<1>5. Bits(v) \in Nat /\ Bits(v) < 65536
  BY <1>2, <1>3
<1>6. v.quality \in 1..3
  BY DEF Settings
<1>. QED  BY <1>4, <1>5, <1>6

LEMMA FieldsRead ==
    ASSUME NEW q \in 1..3, NEW low \in Nat, low < 65536
    PROVE  LET packed == 16777216 + (q - 1) * 65536 + low
           IN  /\ packed \in Nat
               /\ (packed \div 16777216) % 256 = 1
               /\ (packed \div 65536) % 256 = q - 1
  OBVIOUS

\* The version, the quality and the flags are read as they were written.
LEMMA HeadRead ==
    ASSUME NEW v \in Settings
    PROVE  /\ PackSettings(v) \in Nat
           /\ VersionOf(PackSettings(v)) = kSettingsVersion
           /\ (PackSettings(v) \div 2^16) % 256 = v.quality - 1
<1>1. /\ Bits(v) \in Nat /\ Bits(v) < 65536
      /\ PackSettings(v) = 16777216 + (v.quality - 1) * 65536 + Bits(v)
  BY PackForm
<1>2. v.quality \in 1..3
  BY DEF Settings
<1> DEFINE P == PackSettings(v)
<1>3. P \in Nat /\ (P \div 16777216) % 256 = 1 /\ (P \div 65536) % 256 = v.quality - 1
  BY <1>1, <1>2, FieldsRead
<1> HIDE DEF P
<1>4. P \in Nat /\ (P \div 2^24) % 256 = 1 /\ (P \div 2^16) % 256 = v.quality - 1
  BY <1>3
<1>. QED  BY <1>4 DEF VersionOf, kSettingsVersion, P

LEMMA FlagRead ==
    ASSUME NEW v \in Settings, NEW i \in 1..Toggles
    PROVE  (PackSettings(v) \div 2^(i - 1)) % 2 = 1 <=> Flags[i] \in v.on
<1> DEFINE p == 2^(i - 1)
           b == IF Flags[i] \in v.on THEN 1 ELSE 0
           x == BitsOf(v)[i - 1]
<1>1. i \in 1..16 /\ i - 1 \in 0..Toggles /\ Toggles \in i..Toggles /\ i \in 0..16 /\ 16 \in i..16
  BY FlagCount
<1>2. p \in Nat \ {0} /\ 2^i = 2 * p /\ Weight(v, i) = IF Flags[i] \in v.on THEN p ELSE 0
  BY <1>1, Weights
<1>3. x \in Nat /\ x < p
  BY <1>1, BitsRange
<1>4. PICK r \in Nat : Bits(v) = (x + Weight(v, i)) + 2^i * r
  BY <1>1, BitsRead DEF Bits
<1>5. PICK s \in Nat : 2^16 = 2^i * s
  BY <1>1, PowersDivide
<1>6. /\ Bits(v) \in Nat /\ Bits(v) < 65536
      /\ PackSettings(v) = 16777216 + (v.quality - 1) * 65536 + Bits(v)
  BY PackForm
<1>7. v.quality \in 1..3 /\ b \in {0, 1}
  BY DEF Settings
<1> DEFINE R == s * (256 + (v.quality - 1)) + r
<1>8. R \in Nat
  BY <1>7
<1>9. PackSettings(v) = x + p * (b + 2 * R)
  <2>1. Weight(v, i) = p * b
    BY <1>2
  <2> HIDE DEF p, b, x
  <2>2. 65536 = (2 * p) * s
    BY <1>5, <1>2
  <2>3. Bits(v) = (x + p * b) + (2 * p) * r
    BY <1>2, <1>4, <1>6, <2>1
  <2>4. \A q \in 1..3 : 16777216 + (q - 1) * 65536 = 65536 * (256 + (q - 1))
    OBVIOUS
  <2>5. \A k \in Nat : ((2 * p) * s) * k + ((x + p * b) + (2 * p) * r)
                           = x + p * (b + 2 * (s * k + r))
    BY <1>2, <1>3, <1>7
  <2>6. 256 + (v.quality - 1) \in Nat
    BY <1>7
  <2>7. 65536 * (256 + (v.quality - 1)) + Bits(v) = x + p * (b + 2 * R)
    BY <2>2, <2>3, <2>5, <2>6
  <2>. QED  BY <1>6, <1>7, <2>4, <2>7
<1> HIDE DEF p, b, x, R
<1>10. (PackSettings(v) \div p) % 2 = b
  BY <1>2, <1>3, <1>7, <1>8, <1>9, DigitRead
<1>. QED  BY <1>10 DEF p, b

\* Neon is never on without a strength to be seen by.
Visible(v) == "neon" \in v.on => v.boosted
SaneSettings == {v \in Settings : Visible(v)}

LEMMA DefaultsSane == Defaults \in SaneSettings
<1>1. "fill" \in {Flags[i] : i \in DOMAIN Flags}
  BY PageAssumption, Zenon DEF PageAssumption
<1>2. {"fill"} \in SUBSET FlagSet
  BY <1>1, FlagDomain DEF FlagSet
<1>3. Defaults = [on |-> {"fill"}, quality |-> 3, boosted |-> FALSE]
  BY DEF Defaults
<1>4. Defaults \in Settings
  BY <1>2, <1>3 DEF Settings
<1>. QED  BY <1>3, <1>4 DEF SaneSettings, Visible

\* The flags whose bits are set.
OnIn(packed) == {Flags[i] : i \in {i \in DOMAIN Flags : (packed \div 2^(i - 1)) % 2 = 1}}

LEMMA UnpackedIs ==
    ASSUME NEW packed, VersionOf(packed) = kSettingsVersion
    PROVE  UnpackSettings(packed, Defaults) =
               [on |-> OnIn(packed),
                quality |-> IF (packed \div 2^16) % 256 <= 1 THEN ((packed \div 2^16) % 256) + 1
                            ELSE 3,
                boosted |-> FALSE \/ "neon" \in OnIn(packed)]
  BY Zenon DEF UnpackSettings, OnIn, Defaults

LEMMA UnpackSane ==
    ASSUME NEW packed \in Nat
    PROVE  UnpackSettings(packed, Defaults) \in SaneSettings
<1>1. CASE VersionOf(packed) # kSettingsVersion
  BY <1>1, DefaultsSane DEF UnpackSettings
<1>2. CASE VersionOf(packed) = kSettingsVersion
  <2> DEFINE q == (packed \div 65536) % 256
             quality == IF q <= 1 THEN q + 1 ELSE 3
             on == OnIn(packed)
  <2>1. q \in Nat
    OBVIOUS
  <2>2. quality \in 1..3
    <3> HIDE DEF q
    <3>. QED  BY <2>1
  <2>3. on \in SUBSET FlagSet
    BY FlagDomain DEF OnIn, FlagSet
  <2>4. UnpackSettings(packed, Defaults) =
            [on |-> on, quality |-> quality, boosted |-> FALSE \/ "neon" \in on]
    BY <1>2, UnpackedIs
  <2> DEFINE b == FALSE \/ "neon" \in on
  <2>5. b \in BOOLEAN /\ ("neon" \in on => b)
    OBVIOUS
  <2> HIDE DEF q, quality, on, b
  <2> DEFINE w == [on |-> on, quality |-> quality, boosted |-> b]
  <2>6. w \in Settings
    BY <2>2, <2>3, <2>5 DEF Settings
  <2>7. w.on = on /\ w.boosted = b
    OBVIOUS
  <2>8. UnpackSettings(packed, Defaults) = w
    BY <2>4 DEF b
  <2>9. Visible(w)
    BY <2>5, <2>7, Zenon DEF Visible
  <2> HIDE DEF w
  <2>. QED  BY <2>6, <2>8, <2>9 DEF SaneSettings
<1>. QED  BY <1>1, <1>2

\* A fresh page shows what was packed.
LEMMA PackUnpack ==
    ASSUME NEW v \in SaneSettings
    PROVE  /\ PackSettings(v) \in Nat
           /\ Look(UnpackSettings(PackSettings(v), Defaults)) = Look(v)
<1>1. v \in Settings /\ ("neon" \in v.on => v.boosted)
  BY DEF SaneSettings, Visible
<1>2. v.on \in SUBSET FlagSet /\ v.quality \in 1..3 /\ v.boosted \in BOOLEAN
  BY <1>1 DEF Settings
<1> DEFINE P == PackSettings(v)
<1>3. P \in Nat /\ VersionOf(P) = kSettingsVersion /\ (P \div 2^16) % 256 = v.quality - 1
  BY <1>1, HeadRead
<1>4. OnIn(P) = v.on
  <2>1. DOMAIN Flags = 1..Toggles
    BY FlagDomain
  <2>2. \A i \in 1..Toggles : (P \div 2^(i - 1)) % 2 = 1 <=> Flags[i] \in v.on
    BY <1>1, FlagRead
  <2> HIDE DEF P
  <2> DEFINE I == {i \in DOMAIN Flags : (P \div 2^(i - 1)) % 2 = 1}
  <2>3. \A i : i \in I <=> i \in 1..Toggles /\ Flags[i] \in v.on
    BY <2>1, <2>2, Zenon
  <2>4. OnIn(P) = {Flags[i] : i \in I}
    BY Zenon DEF OnIn
  <2> HIDE DEF I
  <2>5. \A f \in v.on : \E i \in I : f = Flags[i]
    BY <1>2, <2>3 DEF FlagSet
  <2>. QED  BY <2>3, <2>4, <2>5
<1> HIDE DEF P
<1>5. UnpackSettings(P, Defaults) =
          [on |-> v.on,
           quality |-> IF (P \div 2^16) % 256 <= 1 THEN ((P \div 2^16) % 256) + 1 ELSE 3,
           boosted |-> FALSE \/ "neon" \in v.on]
  BY <1>3, <1>4, UnpackedIs, Zenon
<1>6. (IF (P \div 2^16) % 256 <= 1 THEN ((P \div 2^16) % 256) + 1 ELSE 3) = v.quality
  BY <1>2, <1>3
<1>7. UnpackSettings(P, Defaults) =
          [on |-> v.on, quality |-> v.quality, boosted |-> FALSE \/ "neon" \in v.on]
  BY <1>5, <1>6, Zenon
<1> DEFINE b == FALSE \/ "neon" \in v.on
           w == [on |-> v.on, quality |-> v.quality, boosted |-> b]
<1>8. w.on = v.on /\ w.quality = v.quality /\ w.boosted = b
  <2> HIDE DEF b
  <2>. QED  OBVIOUS
<1>9. ("neon" \in w.on /\ w.boosted) = ("neon" \in v.on /\ v.boosted)
  <2>1. b = ("neon" \in v.on)
    OBVIOUS
  <2> HIDE DEF b, w
  <2>. QED  BY <1>1, <1>2, <1>8, <2>1
<1>10. Look(UnpackSettings(P, Defaults)) = Look(v)
  <2>1. UnpackSettings(P, Defaults) = w
    BY <1>7
  <2> HIDE DEF b, w
  <2>2. Look(w) = Look(v)
    BY <1>8, <1>9, Zenon DEF Look
  <2>. QED  BY <2>1, <2>2
<1>. QED  BY <1>3, <1>10 DEF P

-----------------------------------------------------------------------------
(* The menu. *)

RowCount == Toggles + 3

LEMMA RowsAre ==
    /\ Len(Rows) = RowCount /\ RowCount \in Nat /\ RowCount >= 3
    /\ \A row \in 1..RowCount : Rows[row] \in FlagSet \union {"quality", "resume", "quit"}
<1>1. Flags \in Seq(STRING)
  BY PageAssumption, Zenon DEF PageAssumption
<1> DEFINE tail == <<"quality", "resume", "quit">>
           Names == STRING \union {"quality", "resume", "quit"}
<1>2. tail \in Seq(Names) /\ Flags \in Seq(Names)
  <2>1. "quality" \in Names /\ "resume" \in Names /\ "quit" \in Names /\ STRING \subseteq Names
    OBVIOUS
  <2> HIDE DEF Names
  <2>2. tail \in Seq(Names)
    BY <2>1
  <2>3. Flags \in Seq(Names)
    BY <1>1, <2>1, WiderSequence
  <2>. QED  BY <2>2, <2>3
<1>3. Len(tail) = 3 /\ \A i \in 1..3 : tail[i] \in {"quality", "resume", "quit"}
  OBVIOUS
<1>4. Rows = Flags \o tail
  BY DEF Rows
<1> HIDE DEF tail, Names
<1>a. /\ Len(Flags \o tail) = Len(Flags) + Len(tail)
      /\ \A i \in 1..(Len(Flags) + Len(tail)) :
             (Flags \o tail)[i] = IF i <= Len(Flags) THEN Flags[i] ELSE tail[i - Len(Flags)]
  BY <1>2, ConcatProperties
<1>5. Len(Rows) = Toggles + 3 /\ Toggles \in Nat
  BY <1>a, <1>3, <1>4, FlagDomain DEF Toggles
<1>6. \A row \in 1..(Toggles + 3) :
          Rows[row] = IF row <= Toggles THEN Flags[row] ELSE tail[row - Toggles]
  BY <1>a, <1>3, <1>4 DEF Toggles
<1>7. ASSUME NEW row \in 1..(Toggles + 3)
      PROVE  Rows[row] \in FlagSet \union {"quality", "resume", "quit"}
  <2>1. CASE row <= Toggles
    <3>1. row \in 1..Toggles
      BY <2>1, <1>5
    <3>. QED  BY <3>1, <2>1, <1>6 DEF FlagSet
  <2>2. CASE ~(row <= Toggles)
    <3>1. row - Toggles \in 1..3
      BY <2>2, <1>5
    <3>. QED  BY <3>1, <2>2, <1>3, <1>6
  <2>. QED  BY <2>1, <2>2
<1>. QED  BY <1>5, <1>7 DEF RowCount

MenuType ==
    [open : BOOLEAN, selected : 1..RowCount, up : BOOLEAN, down : BOOLEAN, select : BOOLEAN,
     toggle : BOOLEAN, button : BOOLEAN, timer : Int, seen : 0..RowCount, restore : BOOLEAN]

\* What GameMenu::update works on.
StateType ==
    [menu : MenuType, vfx : SaneSettings, stored : Nat, locked : BOOLEAN, quit : BOOLEAN,
     by : {"nothing", "key", "button"}]

\* A fresh page would show the settings as they are.
Faithful(s) ==
    VersionOf(s.stored) = kSettingsVersion => Look(UnpackSettings(s.stored, Defaults)) = Look(s.vfx)

LEMMA NewMenuType == NewMenu \in MenuType /\ ~NewMenu.open
<1>1. 1 \in 1..RowCount /\ 0 \in 0..RowCount /\ 0 \in Int
  BY RowsAre
<1>. QED  BY <1>1 DEF NewMenu, MenuType

LEMMA SetOpenType ==
    ASSUME NEW m \in MenuType, NEW open \in BOOLEAN
    PROVE  /\ SetOpen(m, open) \in MenuType
           /\ SetOpen(m, open).open = open
           /\ SetOpen(m, open).select /\ SetOpen(m, open).button
           /\ SetOpen(m, open).restore = m.restore
<1>1. 0 \in Int
  OBVIOUS
<1>. QED  BY <1>1 DEF SetOpen, MenuType

LEMMA FlippedSane ==
    ASSUME NEW v \in SaneSettings, NEW flag \in FlagSet
    PROVE  Flipped(v, flag) \in SaneSettings
<1> DEFINE on == IF flag \in v.on THEN v.on \ {flag} ELSE v.on \union {flag}
           b == v.boosted \/ (flag = "neon" /\ flag \in on)
<1>1. v \in Settings /\ ("neon" \in v.on => v.boosted)
  BY DEF SaneSettings, Visible
<1>2. on \in SUBSET FlagSet
  BY <1>1 DEF Settings
<1>3. "neon" \in on => "neon" \in v.on \/ flag = "neon"
  OBVIOUS
<1>4. b \in BOOLEAN /\ ("neon" \in on => b)
  <2>1. v.boosted \in BOOLEAN
    BY <1>1 DEF Settings
  <2> HIDE DEF on
  <2>. QED  BY <1>1, <1>3, <2>1
<1>5. Flipped(v, flag) = [v EXCEPT !.on = on, !.boosted = b]
  BY Zenon DEF Flipped
<1> HIDE DEF on, b
<1>6. [v EXCEPT !.on = on, !.boosted = b] \in Settings
  BY <1>1, <1>2, <1>4 DEF Settings
<1>7. /\ [v EXCEPT !.on = on, !.boosted = b].on = on
      /\ [v EXCEPT !.on = on, !.boosted = b].boosted = b
  BY <1>1 DEF Settings
<1>. QED  BY <1>4, <1>5, <1>6, <1>7 DEF SaneSettings, Visible

LEMMA QualitySane ==
    ASSUME NEW v \in SaneSettings
    PROVE  [v EXCEPT !.quality = (@ % Len(Quality)) + 1] \in SaneSettings
<1>1. v \in Settings /\ ("neon" \in v.on => v.boosted)
  BY DEF SaneSettings, Visible
<1>2. Len(Quality) = 3
  BY DEF Quality
<1>3. v.quality \in 1..3
  BY <1>1 DEF Settings
<1>4. (v.quality % 3) + 1 \in 1..3
  BY <1>3
<1> DEFINE q == (v.quality % 3) + 1
<1> HIDE DEF q
<1>5. [v EXCEPT !.quality = q] \in Settings
  BY <1>1, <1>4 DEF Settings, q
<1>6. [v EXCEPT !.quality = q].on = v.on /\ [v EXCEPT !.quality = q].boosted = v.boosted
  BY <1>1 DEF Settings
<1>7. [v EXCEPT !.quality = q] \in SaneSettings
  BY <1>1, <1>5, <1>6 DEF SaneSettings, Visible
<1>. QED  BY <1>2, <1>7 DEF q

\* The menu that a row leaves behind.
AfterRow(menu1, menu2) == menu2 = menu1 \/ menu2 = SetOpen(menu1, FALSE)

\* A row that is activated leaves settings that are stored as they are.
LEMMA ActivateEffect ==
    ASSUME NEW s \in StateType, NEW row \in 1..RowCount, NEW by \in {"key", "button"}
    PROVE  /\ Activate(s, row, by) \in StateType
           /\ Faithful(Activate(s, row, by))
           /\ Activate(s, row, by).by = by
           /\ AfterRow(s.menu, Activate(s, row, by).menu)
<1> DEFINE v == CASE Rows[row] = "quality" -> [s.vfx EXCEPT !.quality = (@ % Len(Quality)) + 1]
                  [] Rows[row] \in {"resume", "quit"} -> s.vfx
                  [] OTHER -> Flipped(s.vfx, Rows[row])
           m == IF Rows[row] = "resume" THEN SetOpen(s.menu, FALSE) ELSE s.menu
           q == s.quit \/ Rows[row] = "quit"
<1>1. s.vfx \in SaneSettings /\ s.menu \in MenuType /\ s.quit \in BOOLEAN
  BY DEF StateType
<1>2. v \in SaneSettings
  <2>1. CASE Rows[row] = "quality"
    <3>1. v = [s.vfx EXCEPT !.quality = (@ % Len(Quality)) + 1]
      BY <2>1
    <3>. QED  BY <3>1, <1>1, QualitySane
  <2>2. CASE Rows[row] \in {"resume", "quit"}
    <3>1. v = s.vfx
      BY <2>2
    <3>. QED  BY <3>1, <1>1
  <2>3. CASE Rows[row] \notin {"quality", "resume", "quit"}
    <3>1. v = Flipped(s.vfx, Rows[row])
      BY <2>3
    <3>2. Rows[row] \in FlagSet
      BY <2>3, RowsAre
    <3>. QED  BY <3>1, <3>2, <1>1, FlippedSane
  <2>. QED  BY <2>1, <2>2, <2>3
<1>3. m \in MenuType /\ AfterRow(s.menu, m)
  BY <1>1, SetOpenType DEF AfterRow
<1>4. q \in BOOLEAN
  BY <1>1
<1>5. Activate(s, row, by) =
          [s EXCEPT !.vfx = v, !.stored = PackSettings(v), !.by = by, !.menu = m, !.quit = q]
  BY Zenon DEF Activate
<1> HIDE DEF v, m, q
<1>6. PackSettings(v) \in Nat /\ Look(UnpackSettings(PackSettings(v), Defaults)) = Look(v)
  BY <1>2, PackUnpack
<1> DEFINE packed == PackSettings(v)
<1> HIDE DEF packed
<1> DEFINE t == [s EXCEPT !.vfx = v, !.stored = packed, !.by = by, !.menu = m, !.quit = q]
<1>7. packed \in Nat
  BY <1>6 DEF packed
<1>8. t \in StateType /\ t.vfx = v /\ t.stored = packed /\ t.by = by /\ t.menu = m
  BY <1>2, <1>3, <1>4, <1>7 DEF StateType
<1> HIDE DEF t
<1>9. Faithful(t)
  BY <1>6, <1>8 DEF Faithful, packed
<1>. QED  BY <1>3, <1>5, <1>8, <1>9 DEF t, packed

\* What a step of the menu that activates nothing leaves alone.
Idle(s, t) ==
    /\ t \in StateType
    /\ t.vfx = s.vfx /\ t.stored = s.stored /\ t.by = s.by
    /\ t.menu.open = s.menu.open /\ t.menu.select = s.menu.select
    /\ t.menu.button = s.menu.button

LEMMA MoveIdle ==
    ASSUME NEW s \in StateType, NEW dt \in Int
    PROVE  Idle(s, Move(s, dt))
<1> DEFINE m == s.menu
           up == "W" \in held
           down == "S" \in held
           timer == IF up \/ down THEN m.timer - dt ELSE 0
           again == (up \/ down) /\ timer <= 0
           pressed == (up /\ ~m.up) \/ (down /\ ~m.down)
           stepUp == up /\ (~m.up \/ (again /\ ~pressed))
           stepDown == down /\ (~m.down \/ (again /\ ~pressed /\ ~up))
           next == IF again THEN (IF m.up \/ m.down THEN NextRepeat ELSE FirstRepeat) ELSE timer
           selected == IF stepUp THEN (IF m.selected = 1 THEN Len(Rows) ELSE m.selected - 1)
                       ELSE IF stepDown THEN (m.selected % Len(Rows)) + 1 ELSE m.selected
           n == [m EXCEPT !.up = up, !.down = down, !.timer = next, !.selected = selected]
<1>1. m \in MenuType
  BY DEF StateType
<1>2. up \in BOOLEAN /\ down \in BOOLEAN
  OBVIOUS
<1>3. FirstRepeat \in Int /\ NextRepeat \in Int
  <2>1. {FirstRepeat, NextRepeat} \subseteq Nat
    BY PageAssumption, Zenon DEF PageAssumption
  <2>. QED  BY <2>1
<1>4. timer \in Int
  <2>1. m.timer \in Int
    BY <1>1 DEF MenuType
  <2>2. 0 \in Int /\ m.timer - dt \in Int
    BY <2>1
  <2> HIDE DEF m, up, down
  <2>. QED  BY <2>2
<1>5. next \in Int
  <2> HIDE DEF m, timer, again
  <2>. QED  BY <1>3, <1>4
<1>6. selected \in 1..RowCount
  <2>1. m.selected \in 1..RowCount
    BY <1>1 DEF MenuType
  <2>2. \A k \in 1..RowCount : (k % RowCount) + 1 \in 1..RowCount
    BY RowsAre
  <2>3. \A k \in 1..RowCount : k # 1 => k - 1 \in 1..RowCount
    BY RowsAre
  <2>4. RowCount \in 1..RowCount /\ Len(Rows) = RowCount
    BY RowsAre
  <2> HIDE DEF m, stepUp, stepDown
  <2>. QED  BY <2>1, <2>2, <2>3, <2>4
<1>7. Move(s, dt) = [s EXCEPT !.menu = n]
  BY Zenon DEF Move
<1> HIDE DEF up, down, next, selected
<1>8. /\ n \in MenuType /\ n.open = m.open /\ n.select = m.select /\ n.button = m.button
  <2> HIDE DEF m
  <2>. QED  BY <1>1, <1>2, <1>5, <1>6 DEF MenuType
<1> HIDE DEF n, m
<1> DEFINE t == [s EXCEPT !.menu = n]
<1>9. t \in StateType /\ t.vfx = s.vfx /\ t.stored = s.stored /\ t.by = s.by /\ t.menu = n
  BY <1>8 DEF StateType
<1> HIDE DEF t
<1>10. Idle(s, t)
  BY <1>8, <1>9 DEF Idle, m
<1>. QED  BY <1>7, <1>10 DEF t

MouseType == mouse \in [row : 0..RowCount, down : BOOLEAN]

LEMMA HoverIdle ==
    ASSUME MouseType, NEW s \in StateType
    PROVE  Idle(s, Hover(s))
<1> DEFINE selected == IF mouse.row # 0 /\ mouse.row # s.menu.seen THEN mouse.row
                       ELSE s.menu.selected
           t == [s EXCEPT !.menu.seen = mouse.row, !.menu.selected = selected]
<1>1. mouse.row \in 0..RowCount
  BY DEF MouseType
<1>2. s.menu \in MenuType
  BY DEF StateType
<1>3. selected \in 1..RowCount
  <2>1. s.menu.selected \in 1..RowCount
    BY <1>2 DEF MenuType
  <2>2. mouse.row # 0 => mouse.row \in 1..RowCount
    BY <1>1, RowsAre
  <2>. QED  BY <2>1, <2>2
<1>4. Hover(s) = t
  BY Zenon DEF Hover
<1> HIDE DEF selected
<1> DEFINE n == [s.menu EXCEPT !.seen = mouse.row, !.selected = selected]
<1>5. t = [s EXCEPT !.menu = n]
  BY DEF StateType
<1>6. n \in MenuType /\ n.open = s.menu.open /\ n.select = s.menu.select /\ n.button = s.menu.button
  BY <1>1, <1>2, <1>3 DEF MenuType
<1> HIDE DEF n
<1>7. t \in StateType /\ t.vfx = s.vfx /\ t.stored = s.stored /\ t.by = s.by /\ t.menu = n
  BY <1>5, <1>6 DEF StateType
<1> HIDE DEF t
<1>. QED  BY <1>4, <1>6, <1>7 DEF Idle

\* A click on a row that is not the click that is over.
LEMMA ClickEffect ==
    ASSUME MouseType, NEW s \in StateType, mouse.row # 0
    PROVE  LET t == Click(s)
           IN  /\ t \in StateType /\ Faithful(t) /\ t.by = "button"
               /\ t.menu.open => t.menu.button /\ t.menu.select = s.menu.select
<1> DEFINE u == [s EXCEPT !.menu.selected = mouse.row]
           n == [s.menu EXCEPT !.selected = mouse.row]
<1>1. mouse.row \in 1..RowCount
  <2>1. mouse.row \in 0..RowCount
    BY DEF MouseType
  <2>. QED  BY <2>1, RowsAre
<1>2. s.menu \in MenuType
  BY DEF StateType
<1>3. n \in MenuType /\ n.select = s.menu.select
  BY <1>1, <1>2 DEF MenuType
<1>4. u = [s EXCEPT !.menu = n]
  BY DEF StateType
<1> HIDE DEF n
<1>5. u \in StateType /\ u.menu = n
  BY <1>3, <1>4 DEF StateType
<1> HIDE DEF u
<1> DEFINE done == Activate(u, mouse.row, "button")
<1>6. /\ done \in StateType /\ Faithful(done) /\ done.by = "button"
      /\ AfterRow(n, done.menu)
  BY <1>1, <1>5, ActivateEffect
<1>7. Click(s) = [done EXCEPT !.menu.button = TRUE]
  BY Zenon DEF Click, u
<1> HIDE DEF done
<1> DEFINE after == [done.menu EXCEPT !.button = TRUE]
           t == [done EXCEPT !.menu = after]
<1>8. [done EXCEPT !.menu.button = TRUE] = t
  BY <1>6 DEF StateType
<1>9. done.menu \in MenuType
  BY <1>6 DEF StateType
<1>10. /\ after \in MenuType /\ after.button /\ after.open = done.menu.open
       /\ after.select = done.menu.select
  BY <1>9 DEF MenuType
<1>11. done.menu.open => done.menu.select = s.menu.select
  BY <1>3, <1>6, SetOpenType DEF AfterRow
<1> HIDE DEF after
<1>12. /\ t \in StateType /\ t.vfx = done.vfx /\ t.stored = done.stored /\ t.by = "button"
       /\ t.menu = after
  BY <1>6, <1>10 DEF StateType
<1> HIDE DEF t
<1>13. Faithful(t)
  BY <1>6, <1>12, Zenon DEF Faithful
<1>. QED  BY <1>7, <1>8, <1>10, <1>11, <1>12, <1>13

\* The select keys activate the row at a press, once.
LEMMA SelectEffect ==
    ASSUME MouseType, NEW s \in StateType, Faithful(s), s.by = "nothing"
    PROVE  LET t == Select(s)
           IN  /\ t \in StateType /\ Faithful(t)
               /\ \/ t.by = "nothing"
                  \/ t.by = "key" /\ "Space" \in held /\ ~s.menu.select
               /\ t.menu.open => /\ t.menu.select = ("Space" \in held)
                                 /\ t.menu.button = (mouse.down /\ (s.menu.button \/ mouse.row # 0))
<1> DEFINE select == "Space" \in held
           button == mouse.down /\ (s.menu.button \/ mouse.row # 0)
           m == [s.menu EXCEPT !.button = button, !.select = select]
           u == [s EXCEPT !.menu = m]
           done == IF select /\ ~s.menu.select THEN Activate(u, m.selected, "key") ELSE u
<1>1. s.menu \in MenuType
  BY DEF StateType
<1>2. select \in BOOLEAN /\ button \in BOOLEAN
  <2>1. mouse.down \in BOOLEAN
    BY DEF MouseType
  <2>. QED  BY <2>1
<1>3. Select(s) = IF done.menu.open THEN done ELSE [done EXCEPT !.locked = done.menu.restore]
  BY Zenon DEF Select
<1> HIDE DEF select, button
<1>4. m \in MenuType /\ m.select = select /\ m.button = button
  BY <1>1, <1>2 DEF MenuType
<1>5. m.selected \in 1..RowCount
  BY <1>4 DEF MenuType
<1> HIDE DEF m
<1>6. u \in StateType /\ u.menu = m /\ u.vfx = s.vfx /\ u.stored = s.stored /\ u.by = s.by
  BY <1>4 DEF StateType
<1> HIDE DEF u
<1>7. /\ done \in StateType /\ Faithful(done) /\ AfterRow(m, done.menu)
      /\ done.by = "nothing" \/ (done.by = "key" /\ select /\ ~s.menu.select)
  <2>1. CASE select /\ ~s.menu.select
    <3>1. done = Activate(u, m.selected, "key")
      BY <2>1, Zenon
    <3>2. /\ done \in StateType /\ Faithful(done) /\ done.by = "key"
          /\ AfterRow(m, done.menu)
      BY <3>1, <1>5, <1>6, ActivateEffect
    <3>. QED  BY <3>2, <2>1
  <2>2. CASE ~(select /\ ~s.menu.select)
    <3>1. done = u
      BY <2>2, Zenon
    <3>2. Faithful(u)
      BY <1>6, Zenon DEF Faithful
    <3>. QED  BY <3>1, <3>2, <1>6 DEF AfterRow
  <2>. QED  BY <2>1, <2>2
<1> HIDE DEF done
<1>8. done.menu.open => done.menu.select = select /\ done.menu.button = button
  BY <1>4, <1>7, <1>1, SetOpenType DEF AfterRow
<1>9. CASE done.menu.open
  <2>1. Select(s) = done
    BY <1>3, <1>9
  <2>. QED  BY <2>1, <1>7, <1>8 DEF select, button
<1>10. CASE ~done.menu.open
  <2> DEFINE lock == done.menu.restore
             t == [done EXCEPT !.locked = lock]
  <2>1. Select(s) = t
    BY <1>3, <1>10
  <2>2. lock \in BOOLEAN
    BY <1>7 DEF StateType, MenuType
  <2> HIDE DEF lock
  <2>3. /\ t \in StateType /\ t.menu = done.menu /\ t.vfx = done.vfx
        /\ t.stored = done.stored /\ t.by = done.by
    BY <1>7, <2>2 DEF StateType
  <2> HIDE DEF t
  <2>4. Faithful(t)
    BY <1>7, <2>3, Zenon DEF Faithful
  <2>. QED  BY <2>1, <2>3, <2>4, <1>7, <1>10 DEF select
<1>. QED  BY <1>9, <1>10

\* Escape opens or closes the menu, and activates nothing.
LEMMA ToggleEffect ==
    ASSUME NEW s \in StateType, Faithful(s), s.by = "nothing"
    PROVE  LET t == Toggle(s)
           IN  /\ t \in StateType /\ Faithful(t) /\ t.by = "nothing"
               /\ t.menu.open => t.menu.select /\ t.menu.button
<1> DEFINE m == SetOpen(s.menu, ~s.menu.open)
           n == IF m.open THEN [m EXCEPT !.restore = s.locked] ELSE m
           lock == IF m.open THEN FALSE ELSE m.restore
           t == [s EXCEPT !.menu = n, !.locked = lock]
<1>1. s.menu \in MenuType /\ s.locked \in BOOLEAN
  BY DEF StateType
<1>2. (~s.menu.open) \in BOOLEAN
  OBVIOUS
<1>3. m \in MenuType /\ m.select /\ m.button
  BY <1>1, <1>2, SetOpenType
<1>4. Toggle(s) = t
  BY Zenon DEF Toggle
<1> HIDE DEF m
<1>5. n \in MenuType /\ n.select /\ n.button
  BY <1>1, <1>3 DEF MenuType
<1>6. lock \in BOOLEAN
  BY <1>3 DEF MenuType
<1> HIDE DEF n, lock
<1>7. t \in StateType /\ t.menu = n /\ t.vfx = s.vfx /\ t.stored = s.stored /\ t.by = s.by
  BY <1>5, <1>6 DEF StateType
<1> HIDE DEF t
<1>8. Faithful(t)
  BY <1>7, Zenon DEF Faithful
<1>. QED  BY <1>4, <1>5, <1>7, <1>8

\* What a fresh page would show is what is shown, and a press that cannot be the menu's
\* any more is remembered as one that has been seen.
MenuInv ==
    /\ MouseType /\ locked \in BOOLEAN
    /\ menu \in MenuType /\ vfx \in SaneSettings /\ stored \in Nat
    /\ SettingsSurvive
    /\ menu.open /\ press.key \in {"other", "spent"} => menu.select
    /\ menu.open /\ press.button \in {"other", "spent"} => menu.button
    /\ press.key \in {"up", "menu", "other", "spent"}
    /\ press.button \in {"up", "menu", "other", "spent"}
    /\ press = [key |-> press.key, button |-> press.button]
    /\ PressesAreMeant

\* A press that is not the menu's, or cannot become its own.
Others(state) == state \in {"other", "spent"} \/ ~menu.open

\* What a frame makes of the menu: a row is activated only by a press that was up, or is
\* the menu's, and presses that are neither are still remembered afterwards.
LEMMA UpdateEffect ==
    ASSUME MenuInv, NEW dt \in Int
    PROVE  LET s == MenuUpdate(dt)
           IN  /\ s \in StateType /\ Faithful(s)
               /\ s.by = "key" =>
                     menu.open /\ "Space" \in held /\ press.key \in {"up", "menu"}
               /\ s.by = "button" =>
                     menu.open /\ mouse.down /\ press.button \in {"up", "menu"}
               /\ s.menu.open =>
                     /\ "Space" \in held /\ (s.by = "key" \/ Others(press.key)) => s.menu.select
                     /\ mouse.down /\ (s.by = "button" \/ Others(press.button)) => s.menu.button
<1> DEFINE n == [menu EXCEPT !.toggle = "Escape" \in held]
           s == [menu |-> n, vfx |-> vfx, stored |-> stored, locked |-> locked, quit |-> FALSE,
                 by |-> "nothing"]
           u == Move(s, dt)
           moved == Hover(u)
           r == MenuUpdate(dt)
<1>1. n \in MenuType /\ n.open = menu.open /\ n.select = menu.select /\ n.button = menu.button
  <2> DEFINE e == "Escape" \in held
  <2>1. e \in BOOLEAN
    OBVIOUS
  <2> HIDE DEF e
  <2>2. /\ [menu EXCEPT !.toggle = e] \in MenuType /\ [menu EXCEPT !.toggle = e].open = menu.open
        /\ [menu EXCEPT !.toggle = e].select = menu.select
        /\ [menu EXCEPT !.toggle = e].button = menu.button
    BY <2>1 DEF MenuInv, MenuType
  <2>. QED  BY <2>2 DEF e
<1>2. r = IF "Escape" \in held /\ ~menu.toggle THEN Toggle(s)
          ELSE IF ~menu.open THEN s
          ELSE IF Clicks(moved) THEN Click(moved) ELSE Select(moved)
  BY Zenon DEF MenuUpdate
<1> HIDE DEF n
<1>3. s \in StateType /\ s.menu = n /\ s.vfx = vfx /\ s.stored = stored /\ s.by = "nothing"
  BY <1>1 DEF MenuInv, StateType
<1> HIDE DEF s, r
<1>4. Faithful(s)
  BY <1>3, Zenon DEF MenuInv, SettingsSurvive, Faithful
<1>5. CASE "Escape" \in held /\ ~menu.toggle
  <2>1. r = Toggle(s)
    BY <1>2, <1>5
  <2>2. /\ r \in StateType /\ Faithful(r) /\ r.by = "nothing"
        /\ r.menu.open => r.menu.select /\ r.menu.button
    BY <2>1, <1>3, <1>4, ToggleEffect
  <2>. QED  BY <2>2 DEF r
<1>6. CASE ~("Escape" \in held /\ ~menu.toggle) /\ ~menu.open
  <2>1. r = s
    BY <1>2, <1>6, Zenon
  <2>. QED  BY <2>1, <1>1, <1>3, <1>4, <1>6 DEF r, Others
<1>7. CASE ~("Escape" \in held /\ ~menu.toggle) /\ menu.open
  <2>1. Idle(s, u)
    BY <1>3, MoveIdle
  <2>2. u \in StateType
    BY <2>1 DEF Idle
  <2>3. Idle(u, moved)
    BY <2>2, HoverIdle DEF MenuInv
  <2> HIDE DEF moved, u
  <2>4. /\ moved \in StateType /\ moved.vfx = s.vfx /\ moved.stored = s.stored
        /\ moved.by = "nothing" /\ moved.menu.select = menu.select
        /\ moved.menu.button = menu.button
    BY <2>1, <2>3, <1>1, <1>3, Zenon DEF Idle
  <2>5. Faithful(moved)
    BY <2>4, <1>4, Zenon DEF Faithful
  <2>6. press.key \in {"other", "spent"} => menu.select
    BY <1>7 DEF MenuInv
  <2>7. press.button \in {"other", "spent"} => menu.button
    BY <1>7 DEF MenuInv
  <2>8. MouseType
    BY DEF MenuInv
  <2>9. /\ press.key \in {"up", "menu"} \/ press.key \in {"other", "spent"}
        /\ press.button \in {"up", "menu"} \/ press.button \in {"other", "spent"}
    BY DEF MenuInv
  <2>10. CASE Clicks(moved)
    <3>1. r = Click(moved)
      BY <1>2, <1>7, <2>10, Zenon
    <3>2. mouse.row # 0 /\ mouse.down /\ ~menu.button
      BY <2>4, <2>10 DEF Clicks
    <3>3. /\ r \in StateType /\ Faithful(r) /\ r.by = "button"
          /\ r.menu.open => r.menu.button /\ r.menu.select = menu.select
      BY <2>4, <2>8, <3>1, <3>2, ClickEffect
    <3>4. press.button \in {"up", "menu"}
      BY <2>7, <2>9, <3>2
    <3>. QED  BY <3>2, <3>3, <3>4, <2>6, <1>7 DEF r, Others
  <2>11. CASE ~Clicks(moved)
    <3>1. r = Select(moved)
      BY <1>2, <1>7, <2>11, Zenon
    <3>2. /\ r \in StateType /\ Faithful(r)
          /\ r.by = "nothing" \/ (r.by = "key" /\ "Space" \in held /\ ~menu.select)
          /\ r.menu.open => /\ r.menu.select = ("Space" \in held)
                            /\ r.menu.button = (mouse.down /\ (menu.button \/ mouse.row # 0))
      BY <2>4, <2>5, <2>8, <3>1, SelectEffect
    <3>. QED  BY <3>2, <2>6, <2>7, <2>9, <1>7 DEF r, Others
  <2>. QED  BY <2>10, <2>11
<1>. QED  BY <1>5, <1>6, <1>7

LEMMA MenuInit == Init => MenuInv
<1> SUFFICES ASSUME Init PROVE MenuInv
  OBVIOUS
<1>1. menu = NewMenu /\ menu \in MenuType /\ ~menu.open
  BY NewMenuType DEF Init
<1>2. mouse = [row |-> 0, down |-> FALSE] /\ locked = TRUE
  BY DEF Init
<1>3. MouseType
  <2>1. 0 \in 0..RowCount
    BY RowsAre
  <2>. QED  BY <1>2, <2>1 DEF MouseType
<1>4. stored \in Nat
  <2>1. OtherBuild \in Nat
    BY PageAssumption, Zenon DEF PageAssumption
  <2>. QED  BY <2>1 DEF Init
<1>5. vfx = IF stored = 0 THEN Defaults ELSE UnpackSettings(stored, Defaults)
  BY Zenon DEF Init, LoadSettings
<1>6. vfx \in SaneSettings
  BY <1>4, <1>5, DefaultsSane, UnpackSane
<1>7. SettingsSurvive
  <2>1. CASE stored = 0
    <3>1. (0 \div 16777216) % 256 # 1
      OBVIOUS
    <3>2. (0 \div 2^24) % 256 # 1
      BY <3>1
    <3>. QED  BY <2>1, <3>2 DEF SettingsSurvive, VersionOf, kSettingsVersion
  <2>2. CASE stored # 0
    BY <1>5, <2>2, Zenon DEF SettingsSurvive
  <2>. QED  BY <2>1, <2>2
<1>8. press = [key |-> "up", button |-> "up"] /\ last = "nothing"
  BY DEF Init
<1>9. press.key = "up" /\ press.button = "up" /\ PressesAreMeant
  BY <1>8 DEF PressesAreMeant
<1>. QED  BY <1>1, <1>2, <1>3, <1>4, <1>6, <1>7, <1>8, <1>9 DEF MenuInv

LEMMA MenuReload == MenuInv /\ Reload => MenuInv'
<1> SUFFICES ASSUME MenuInv, Reload PROVE MenuInv'
  OBVIOUS
<1>1. menu' = NewMenu /\ menu' \in MenuType /\ ~menu'.open
  BY NewMenuType DEF Reload
<1>2. mouse' = [row |-> 0, down |-> FALSE] /\ locked' = TRUE
  BY DEF Reload
<1>3. MouseType'
  <2>1. 0 \in 0..RowCount
    BY RowsAre
  <2>. QED  BY <1>2, <2>1 DEF MouseType
<1>4. stored' \in Nat /\ stored' = stored
  BY DEF MenuInv, Reload
<1>5. vfx' = IF stored = 0 THEN Defaults ELSE UnpackSettings(stored, Defaults)
  BY Zenon DEF Reload, LoadSettings
<1>6. vfx' \in SaneSettings
  BY <1>4, <1>5, DefaultsSane, UnpackSane
<1>7. SettingsSurvive'
  <2>1. CASE stored = 0
    <3>1. (0 \div 16777216) % 256 # 1
      OBVIOUS
    <3>2. (0 \div 2^24) % 256 # 1
      BY <3>1
    <3>. QED  BY <2>1, <3>2, <1>4 DEF SettingsSurvive, VersionOf, kSettingsVersion
  <2>2. CASE stored # 0
    BY <1>4, <1>5, <2>2, Zenon DEF SettingsSurvive
  <2>. QED  BY <2>1, <2>2
<1>8. press' = [key |-> "up", button |-> "up"] /\ last' = "nothing"
  BY DEF Reload
<1>9. press'.key = "up" /\ press'.button = "up" /\ PressesAreMeant'
  BY <1>8 DEF PressesAreMeant
<1>. QED  BY <1>1, <1>2, <1>3, <1>4, <1>6, <1>7, <1>8, <1>9 DEF MenuInv

\* What becomes of a press in a frame.
LEMMA BeganEffect ==
    ASSUME NEW state \in {"up", "menu", "other", "spent"}, NEW down \in BOOLEAN
    PROVE  /\ Began(state, down) \in {"up", "menu", "other", "spent"}
           /\ down /\ menu.open /\ state \in {"up", "menu"} => Began(state, down) = "menu"
           /\ Began(state, down) \in {"other", "spent"} =>
                  down /\ Others(state)
<1>1. CASE ~down
  <2>1. Began(state, down) = "up"
    BY <1>1 DEF Began
  <2>. QED  BY <2>1, <1>1
<1>2. CASE down /\ state = "up"
  <2>1. Began(state, down) = IF menu.open THEN "menu" ELSE "other"
    BY <1>2 DEF Began
  <2>. QED  BY <2>1, <1>2 DEF Others
<1>3. CASE down /\ state # "up"
  <2>1. Began(state, down) = state
    BY <1>3 DEF Began
  <2>. QED  BY <2>1, <1>3 DEF Others
<1>. QED  BY <1>1, <1>2, <1>3

LEMMA MenuFrame ==
    ASSUME MenuInv, NEW dt \in Int, Frame(dt)
    PROVE  MenuInv'
<1> DEFINE s == MenuUpdate(dt)
           space == "Space" \in held
           now == [key |-> Began(press.key, space), button |-> Began(press.button, mouse.down)]
<1>1. /\ s \in StateType /\ Faithful(s)
      /\ s.by = "key" => menu.open /\ space /\ press.key \in {"up", "menu"}
      /\ s.by = "button" => menu.open /\ mouse.down /\ press.button \in {"up", "menu"}
      /\ s.menu.open =>
            /\ space /\ (s.by = "key" \/ Others(press.key)) => s.menu.select
            /\ mouse.down /\ (s.by = "button" \/ Others(press.button)) => s.menu.button
  BY UpdateEffect
<1>2. /\ menu' = s.menu /\ vfx' = s.vfx /\ stored' = s.stored /\ mouse' = mouse
      /\ last' = IF s.by = "nothing" THEN "nothing"
                 ELSE IF now[s.by] = "menu" THEN "deliberate" ELSE "stray"
      /\ press' = IF s.by = "nothing" THEN now ELSE [now EXCEPT ![s.by] = "spent"]
      /\ locked' = s.locked \/ locked' = ~s.locked
  BY Zenon DEF Frame
<1>3. space \in BOOLEAN /\ mouse.down \in BOOLEAN
  BY DEF MenuInv, MouseType
<1>4. /\ press.key \in {"up", "menu", "other", "spent"}
      /\ press.button \in {"up", "menu", "other", "spent"}
  BY DEF MenuInv
<1> HIDE DEF s, space
<1> DEFINE k == Began(press.key, space)
           b == Began(press.button, mouse.down)
<1>5. /\ k \in {"up", "menu", "other", "spent"}
      /\ space /\ menu.open /\ press.key \in {"up", "menu"} => k = "menu"
      /\ k \in {"other", "spent"} => space /\ Others(press.key)
  BY <1>3, <1>4, BeganEffect
<1>6. /\ b \in {"up", "menu", "other", "spent"}
      /\ mouse.down /\ menu.open /\ press.button \in {"up", "menu"} => b = "menu"
      /\ b \in {"other", "spent"} =>
            mouse.down /\ Others(press.button)
  BY <1>3, <1>4, BeganEffect
<1>7. now.key = k /\ now.button = b /\ now = [key |-> k, button |-> b]
  OBVIOUS
<1> HIDE DEF k, b, now
<1>8. s.by \in {"nothing", "key", "button"}
  BY <1>1 DEF StateType
<1>9. /\ press'.key \in {"up", "menu", "other", "spent"}
      /\ press'.button \in {"up", "menu", "other", "spent"}
      /\ press' = [key |-> press'.key, button |-> press'.button]
      /\ press'.key \in {"other", "spent"} => s.by = "key" \/ press'.key = k
      /\ press'.button \in {"other", "spent"} => s.by = "button" \/ press'.button = b
  <2>1. CASE s.by = "nothing"
    BY <2>1, <1>2, <1>5, <1>6, <1>7
  <2>2. CASE s.by = "key"
    <3>1. press' = [now EXCEPT !["key"] = "spent"]
      BY <2>2, <1>2
    <3>2. press' = [key |-> "spent", button |-> b]
      BY <3>1, <1>7
    <3>. QED  BY <3>2, <2>2, <1>6
  <2>3. CASE s.by = "button"
    <3>1. press' = [now EXCEPT !["button"] = "spent"]
      BY <2>3, <1>2
    <3>2. press' = [key |-> k, button |-> "spent"]
      BY <3>1, <1>7
    <3>. QED  BY <3>2, <2>3, <1>5
  <2>. QED  BY <2>1, <2>2, <2>3, <1>8
<1>10. PressesAreMeant'
  <2>1. CASE s.by = "nothing"
    BY <2>1, <1>2 DEF PressesAreMeant
  <2>2. CASE s.by = "key"
    <3>1. now[s.by] = k /\ k = "menu"
      BY <2>2, <1>1, <1>5, <1>7
    <3>2. last' = "deliberate"
      BY <3>1, <2>2, <1>2
    <3>. QED  BY <3>2 DEF PressesAreMeant
  <2>3. CASE s.by = "button"
    <3>1. now[s.by] = b /\ b = "menu"
      BY <2>3, <1>1, <1>6, <1>7
    <3>2. last' = "deliberate"
      BY <3>1, <2>3, <1>2
    <3>. QED  BY <3>2 DEF PressesAreMeant
  <2>. QED  BY <2>1, <2>2, <2>3, <1>8
<1>11. menu'.open /\ press'.key \in {"other", "spent"} => menu'.select
  <2> SUFFICES ASSUME menu'.open, press'.key \in {"other", "spent"} PROVE menu'.select
    OBVIOUS
  <2>1. CASE s.by = "key"
    BY <2>1, <1>1, <1>2
  <2>2. CASE press'.key = k
    BY <2>2, <1>1, <1>2, <1>5
  <2>. QED  BY <2>1, <2>2, <1>9
<1>12. menu'.open /\ press'.button \in {"other", "spent"} => menu'.button
  <2> SUFFICES ASSUME menu'.open, press'.button \in {"other", "spent"} PROVE menu'.button
    OBVIOUS
  <2>1. CASE s.by = "button"
    BY <2>1, <1>1, <1>2
  <2>2. CASE press'.button = b
    BY <2>2, <1>1, <1>2, <1>6
  <2>. QED  BY <2>1, <2>2, <1>9
<1>13. /\ menu' \in MenuType /\ vfx' \in SaneSettings /\ stored' \in Nat /\ locked' \in BOOLEAN
  BY <1>1, <1>2 DEF StateType
<1>14. SettingsSurvive'
  BY <1>1, <1>2, Zenon DEF SettingsSurvive, Faithful
<1>15. MouseType'
  BY <1>2 DEF MenuInv, MouseType
<1>. QED  BY <1>9, <1>10, <1>11, <1>12, <1>13, <1>14, <1>15 DEF MenuInv

\* What the player touches between two frames is not yet known to the menu.
LEMMA MenuTouched ==
    ASSUME MenuInv, MouseType', locked' \in BOOLEAN,
           UNCHANGED <<menu, vfx, stored, press, last>>
    PROVE  MenuInv'
  BY DEF MenuInv, SettingsSurvive, PressesAreMeant

\* The menu and the settings are as they should be in every state.
LEMMA MenuInvariance == Spec => []MenuInv
<1>1. Init => MenuInv
  BY MenuInit
<1>2. MenuInv /\ [Next]_vars => MenuInv'
  <2> SUFFICES ASSUME MenuInv, [Next]_vars PROVE MenuInv'
    OBVIOUS
  <2>m. MouseType /\ locked \in BOOLEAN
    BY DEF MenuInv
  <2>1. CASE \E k \in Keys : KeyDown(k) \/ KeyUp(k)
    <3>1. UNCHANGED <<mouse, locked, menu, vfx, stored, press, last>>
      BY <2>1 DEF KeyDown, KeyUp, Input
    <3>. QED  BY <3>1, <2>m, MenuTouched DEF MouseType
  <2>2. ASSUME NEW row \in 0..Len(Rows), PointerMoves(row) PROVE MenuInv'
    <3>1. /\ UNCHANGED <<locked, menu, vfx, stored, press, last>>
          /\ mouse' = [mouse EXCEPT !.row = row]
      BY <2>2 DEF PointerMoves, Input
    <3>2. row \in 0..RowCount
      BY RowsAre
    <3>3. MouseType'
      BY <3>1, <3>2, <2>m DEF MouseType
    <3>. QED  BY <3>1, <3>3, <2>m, MenuTouched
  <2>3. CASE Button
    <3>1. /\ UNCHANGED <<locked, menu, vfx, stored, press, last>>
          /\ mouse' = [mouse EXCEPT !.down = ~@]
      BY <2>3 DEF Button, Input
    <3>2. MouseType'
      BY <3>1, <2>m DEF MouseType
    <3>. QED  BY <3>1, <3>2, <2>m, MenuTouched
  <2>4. CASE LockLost
    <3>1. UNCHANGED <<mouse, menu, vfx, stored, press, last>> /\ locked' = FALSE
      BY <2>4 DEF LockLost
    <3>. QED  BY <3>1, <2>m, MenuTouched DEF MouseType
  <2>5. CASE Reload
    BY <2>5, MenuReload
  <2>6. CASE Deliver
    <3>1. UNCHANGED <<mouse, locked, menu, vfx, stored, press, last>>
      BY <2>6, Zenon DEF Deliver
    <3>. QED  BY <3>1, <2>m, MenuTouched DEF MouseType
  <2>7. ASSUME NEW dt \in Deltas, Frame(dt) PROVE MenuInv'
    <3>1. Deltas \subseteq Nat
      BY PageAssumption, Zenon DEF PageAssumption
    <3>2. dt \in Int
      BY <3>1
    <3>. QED  BY <2>7, <3>2, MenuFrame
  <2>8. CASE UNCHANGED vars
    <3>1. UNCHANGED <<mouse, locked, menu, vfx, stored, press, last>>
      BY <2>8 DEF vars
    <3>. QED  BY <3>1, <2>m, MenuTouched DEF MouseType
  <2>. QED  BY <2>1, <2>2, <2>3, <2>4, <2>5, <2>6, <2>7, <2>8, Zenon DEF Next
<1>. QED  BY <1>1, <1>2, PTL DEF Spec

\* The press that opened the menu selects nothing in it, and none selects twice
\* (GameMenu::update, PressesAreMeant).
THEOREM PressesStayMeant == Spec => []PressesAreMeant
<1>1. MenuInv => PressesAreMeant
  BY DEF MenuInv
<1>. QED  BY <1>1, MenuInvariance, PTL

\* A page that is loaded again looks as it did (packSettings and unpackSettings, for every
\* number of flags up to sixteen; SettingsSurvive).
THEOREM SettingsAreKept == Spec => []SettingsSurvive
<1>1. MenuInv => SettingsSurvive
  BY DEF MenuInv
<1>. QED  BY <1>1, MenuInvariance, PTL
-----------------------------------------------------------------------------
(* Following the server.  What is taken in one by one has a state after each. *)

\* f holds the states of c while it takes the first n entities of a snapshot.
IsSampling(f, c, entities, n) ==
    f = [i \in 0..n |-> IF i = 0 THEN c ELSE SampledEntity(f[i - 1], entities[i])]

LEMMA SampledExists ==
    ASSUME NEW c, NEW entities PROVE \A n \in Nat : \E f : IsSampling(f, c, entities, n)
<1> DEFINE S == {n \in Nat : \E f : IsSampling(f, c, entities, n)}
<1>1. 0 \in S
  <2> DEFINE f == [i \in 0..0 |-> c]
  <2>1. IsSampling(f, c, entities, 0)
    BY DEF IsSampling
  <2>. QED  BY <2>1
<1>2. ASSUME NEW k \in Nat, k \in S PROVE k + 1 \in S
  <2>1. PICK g : IsSampling(g, c, entities, k)
    BY <1>2
  <2> DEFINE h == [i \in 0..(k + 1) |-> IF i = k + 1 THEN SampledEntity(g[k], entities[k + 1]) ELSE g[i]]
  <2>2. \A i \in 0..k : g[i] = IF i = 0 THEN c ELSE SampledEntity(g[i - 1], entities[i])
    BY <2>1 DEF IsSampling
  <2>3. ASSUME NEW i \in 0..(k + 1)
        PROVE  h[i] = IF i = 0 THEN c ELSE SampledEntity(h[i - 1], entities[i])
    <3>1. CASE i = 0
      BY <3>1, <2>2
    <3>2. CASE i # 0 /\ i # k + 1
      <4>1. i \in 0..k /\ i - 1 \in 0..(k + 1) /\ i - 1 # k + 1
        BY <3>2
      <4>2. h[i] = g[i] /\ h[i - 1] = g[i - 1]
        BY <4>1, <3>2
      <4>. QED  BY <4>1, <4>2, <2>2, <3>2
    <3>3. CASE i = k + 1
      <4>1. h[i] = SampledEntity(g[k], entities[k + 1]) /\ i - 1 = k /\ h[k] = g[k] /\ i # 0
        BY <3>3
      <4>. QED  BY <4>1, <3>3
    <3>. QED  BY <3>1, <3>2, <3>3
  <2>4. h = [i \in 0..(k + 1) |-> h[i]]
    OBVIOUS
  <2> HIDE DEF h
  <2>5. IsSampling(h, c, entities, k + 1)
    BY <2>3, <2>4 DEF IsSampling
  <2>. QED  BY <2>5
<1> HIDE DEF S
<1>3. Nat \subseteq S
  BY <1>1, <1>2, Upwards
<1>. QED  BY <1>3 DEF S

LEMMA SampledRun ==
    ASSUME NEW c, NEW entities, Len(entities) \in Nat
    PROVE  \E f : /\ f[0] = c /\ Sampled(c, entities) = f[Len(entities)]
                 /\ \A i \in 1..Len(entities) : f[i] = SampledEntity(f[i - 1], entities[i])
<1> DEFINE N == Len(entities)
           f == CHOOSE f : IsSampling(f, c, entities, N)
<1>1. IsSampling(f, c, entities, N)
  BY SampledExists
<1>2. Sampled(c, entities) = f[N]
  BY DEF Sampled, IsSampling
<1> HIDE DEF f, N
<1>3. N \in Nat
  BY DEF N
<1>4. f[0] = c /\ \A i \in 1..N : f[i] = SampledEntity(f[i - 1], entities[i])
  BY <1>1, <1>3 DEF IsSampling
<1>. QED  BY <1>2, <1>4 DEF N

\* ... the first n frames.
IsHearing(f, c, frames, n) ==
    f = [i \in 0..n |-> IF i = 0 THEN c ELSE Applied(f[i - 1], frames[i])]

LEMMA HeardExists ==
    ASSUME NEW c, NEW frames PROVE \A n \in Nat : \E f : IsHearing(f, c, frames, n)
<1> DEFINE S == {n \in Nat : \E f : IsHearing(f, c, frames, n)}
<1>1. 0 \in S
  <2> DEFINE f == [i \in 0..0 |-> c]
  <2>1. IsHearing(f, c, frames, 0)
    BY DEF IsHearing
  <2>. QED  BY <2>1
<1>2. ASSUME NEW k \in Nat, k \in S PROVE k + 1 \in S
  <2>1. PICK g : IsHearing(g, c, frames, k)
    BY <1>2
  <2> DEFINE h == [i \in 0..(k + 1) |-> IF i = k + 1 THEN Applied(g[k], frames[k + 1]) ELSE g[i]]
  <2>2. \A i \in 0..k : g[i] = IF i = 0 THEN c ELSE Applied(g[i - 1], frames[i])
    BY <2>1 DEF IsHearing
  <2>3. ASSUME NEW i \in 0..(k + 1)
        PROVE  h[i] = IF i = 0 THEN c ELSE Applied(h[i - 1], frames[i])
    <3>1. CASE i = 0
      BY <3>1, <2>2
    <3>2. CASE i # 0 /\ i # k + 1
      <4>1. i \in 0..k /\ i - 1 \in 0..(k + 1) /\ i - 1 # k + 1
        BY <3>2
      <4>2. h[i] = g[i] /\ h[i - 1] = g[i - 1]
        BY <4>1, <3>2
      <4>. QED  BY <4>1, <4>2, <2>2, <3>2
    <3>3. CASE i = k + 1
      <4>1. h[i] = Applied(g[k], frames[k + 1]) /\ i - 1 = k /\ h[k] = g[k] /\ i # 0
        BY <3>3
      <4>. QED  BY <4>1, <3>3
    <3>. QED  BY <3>1, <3>2, <3>3
  <2>4. h = [i \in 0..(k + 1) |-> h[i]]
    OBVIOUS
  <2> HIDE DEF h
  <2>5. IsHearing(h, c, frames, k + 1)
    BY <2>3, <2>4 DEF IsHearing
  <2>. QED  BY <2>5
<1> HIDE DEF S
<1>3. Nat \subseteq S
  BY <1>1, <1>2, Upwards
<1>. QED  BY <1>3 DEF S

LEMMA HeardRun ==
    ASSUME NEW c, NEW frames, Len(frames) \in Nat
    PROVE  \E f : /\ f[0] = c /\ Heard(c, frames) = f[Len(frames)]
                 /\ \A i \in 1..Len(frames) : f[i] = Applied(f[i - 1], frames[i])
<1> DEFINE N == Len(frames)
           f == CHOOSE f : IsHearing(f, c, frames, N)
<1>1. IsHearing(f, c, frames, N)
  BY HeardExists
<1>2. Heard(c, frames) = f[N]
  BY DEF Heard, IsHearing
<1> HIDE DEF f, N
<1>3. N \in Nat
  BY DEF N
<1>4. f[0] = c /\ \A i \in 1..N : f[i] = Applied(f[i - 1], frames[i])
  BY <1>1, <1>3 DEF IsHearing
<1>. QED  BY <1>2, <1>4 DEF N

\* ... the first n steps of a frame.
IsAdvancing(f, c, frames, n) ==
    f = [i \in 0..n |-> IF i = 0 THEN c ELSE Stepped(f[i - 1], IF i = 1 THEN frames ELSE <<>>)]

LEMMA AdvancedExists ==
    ASSUME NEW c, NEW frames PROVE \A n \in Nat : \E f : IsAdvancing(f, c, frames, n)
<1> DEFINE S == {n \in Nat : \E f : IsAdvancing(f, c, frames, n)}
<1>1. 0 \in S
  <2> DEFINE f == [i \in 0..0 |-> c]
  <2>1. IsAdvancing(f, c, frames, 0)
    BY DEF IsAdvancing
  <2>. QED  BY <2>1
<1>2. ASSUME NEW k \in Nat, k \in S PROVE k + 1 \in S
  <2>1. PICK g : IsAdvancing(g, c, frames, k)
    BY <1>2
  <2> DEFINE h == [i \in 0..(k + 1) |->
                     IF i = k + 1 THEN Stepped(g[k], IF k + 1 = 1 THEN frames ELSE <<>>) ELSE g[i]]
  <2>2. \A i \in 0..k : g[i] = IF i = 0 THEN c ELSE Stepped(g[i - 1], IF i = 1 THEN frames ELSE <<>>)
    BY <2>1 DEF IsAdvancing
  <2>3. ASSUME NEW i \in 0..(k + 1)
        PROVE  h[i] = IF i = 0 THEN c ELSE Stepped(h[i - 1], IF i = 1 THEN frames ELSE <<>>)
    <3>1. CASE i = 0
      BY <3>1, <2>2
    <3>2. CASE i # 0 /\ i # k + 1
      <4>1. i \in 0..k /\ i - 1 \in 0..(k + 1) /\ i - 1 # k + 1
        BY <3>2
      <4>2. h[i] = g[i] /\ h[i - 1] = g[i - 1]
        BY <4>1, <3>2
      <4>. QED  BY <4>1, <4>2, <2>2, <3>2
    <3>3. CASE i = k + 1
      <4>1. h[i] = Stepped(g[k], IF k + 1 = 1 THEN frames ELSE <<>>) /\ i - 1 = k /\ h[k] = g[k] /\ i # 0
        BY <3>3
      <4>. QED  BY <4>1, <3>3
    <3>. QED  BY <3>1, <3>2, <3>3
  <2>4. h = [i \in 0..(k + 1) |-> h[i]]
    OBVIOUS
  <2> HIDE DEF h
  <2>5. IsAdvancing(h, c, frames, k + 1)
    BY <2>3, <2>4 DEF IsAdvancing
  <2>. QED  BY <2>5
<1> HIDE DEF S
<1>3. Nat \subseteq S
  BY <1>1, <1>2, Upwards
<1>. QED  BY <1>3 DEF S

LEMMA AdvancedRun ==
    ASSUME NEW N \in Nat
    PROVE  \E f : /\ f[0] = net /\ Advanced(N) = f[N]
                 /\ \A i \in 1..N : f[i] = Stepped(f[i - 1], IF i = 1 THEN inbox ELSE <<>>)
<1> DEFINE f == CHOOSE f : IsAdvancing(f, net, inbox, N)
<1>1. IsAdvancing(f, net, inbox, N)
  BY AdvancedExists
<1>2. Advanced(N) = f[N]
  BY DEF Advanced, IsAdvancing
<1> HIDE DEF f
<1>3. f[0] = net /\ \A i \in 1..N : f[i] = Stepped(f[i - 1], IF i = 1 THEN inbox ELSE <<>>)
  BY <1>1 DEF IsAdvancing
<1>. QED  BY <1>2, <1>3

SampleType == [t : Int, pos : Int]

\* Where a body is shown between two samples.
Between(p, q, target) ==
    Scale * p.pos + (Scale * (q.pos - p.pos) * (target - p.t)) \div (q.t - p.t)

LEMMA DivisionGrows ==
    ASSUME NEW a \in Int, NEW b \in Int, a <= b, NEW s \in Nat \ {0}
    PROVE  a \div s \in Int /\ a \div s <= b \div s
  OBVIOUS

LEMMA DivisionInverts == ASSUME NEW a \in Int, NEW s \in Nat \ {0} PROVE (a * s) \div s = a
  OBVIOUS

LEMMA ProductGrows ==
    ASSUME NEW d \in Nat, NEW a \in Int, NEW b \in Int, a <= b
    PROVE  d * a \in Int /\ d * a <= d * b
  OBVIOUS

\* Later is further, and never beyond the second sample before its time has come.
LEMMA BetweenGrows ==
    ASSUME NEW p \in SampleType, NEW q \in SampleType, p.pos <= q.pos, p.t < q.t,
           NEW target \in Int, NEW later \in Int, target <= later
    PROVE  /\ Between(p, q, target) \in Int
           /\ Between(p, q, target) <= Between(p, q, later)
<1> DEFINE d == Scale * (q.pos - p.pos)
           s == q.t - p.t
<1>1. /\ p.pos \in Int /\ q.pos \in Int /\ p.t \in Int /\ q.t \in Int
  BY DEF SampleType
<1>2. d \in Nat /\ s \in Nat \ {0} /\ Scale * p.pos \in Int
  BY <1>1 DEF Scale
<1>3. target - p.t \in Int /\ later - p.t \in Int /\ target - p.t <= later - p.t
  BY <1>1
<1> HIDE DEF d, s
<1> DEFINE a == d * (target - p.t)
           b == d * (later - p.t)
<1>4. a \in Int /\ b \in Int /\ a <= b
  BY <1>2, <1>3, ProductGrows
<1> HIDE DEF a, b
<1>5. a \div s \in Int /\ b \div s \in Int /\ a \div s <= b \div s
  BY <1>2, <1>4, DivisionGrows
<1>6. /\ Between(p, q, target) = Scale * p.pos + (a \div s)
      /\ Between(p, q, later) = Scale * p.pos + (b \div s)
  BY DEF Between, a, b, d, s
<1>. QED  BY <1>2, <1>5, <1>6

LEMMA BetweenTyped ==
    ASSUME NEW p \in SampleType, NEW q \in SampleType, p.t < q.t, NEW target \in Int
    PROVE  Between(p, q, target) \in Int
<1> DEFINE d == Scale * (q.pos - p.pos)
           s == q.t - p.t
           a == d * (target - p.t)
<1>1. /\ p.pos \in Int /\ q.pos \in Int /\ p.t \in Int /\ q.t \in Int
  BY DEF SampleType
<1>2. d \in Int /\ s \in Nat \ {0} /\ Scale * p.pos \in Int /\ target - p.t \in Int
  BY <1>1 DEF Scale
<1> HIDE DEF d, s
<1>3. a \in Int
  BY <1>2
<1> HIDE DEF a
<1>4. a \div s \in Int
  BY <1>2, <1>3, DivisionGrows
<1>5. Between(p, q, target) = Scale * p.pos + (a \div s)
  BY DEF Between, a, d, s
<1>. QED  BY <1>2, <1>4, <1>5

LEMMA BetweenStays ==
    ASSUME NEW p \in SampleType, NEW q \in SampleType, p.pos <= q.pos,
           NEW target \in Int, p.t <= target, target < q.t
    PROVE  /\ Scale * p.pos <= Between(p, q, target)
           /\ Between(p, q, target) <= Scale * q.pos
<1>1. /\ p.pos \in Int /\ q.pos \in Int /\ p.t \in Int /\ q.t \in Int /\ p.t < q.t
  BY DEF SampleType
<1>2. /\ Between(p, q, p.t) <= Between(p, q, target)
      /\ Between(p, q, target) <= Between(p, q, q.t)
      /\ Between(p, q, p.t) \in Int /\ Between(p, q, target) \in Int
      /\ Between(p, q, q.t) \in Int
  BY <1>1, BetweenGrows
<1> DEFINE d == Scale * (q.pos - p.pos)
           s == q.t - p.t
<1>3. d \in Int /\ s \in Nat \ {0} /\ p.t - p.t = 0
  BY <1>1 DEF Scale
<1>4. Between(p, q, p.t) = Scale * p.pos
  <2>1. Between(p, q, p.t) = Scale * p.pos + (d * (p.t - p.t)) \div s
    BY DEF Between
  <2> HIDE DEF d, s
  <2>2. d * (p.t - p.t) = 0 * s
    BY <1>3
  <2>3. (0 * s) \div s = 0
    BY <1>3, DivisionInverts, 0 \in Int
  <2>4. Scale * p.pos \in Int
    BY <1>1 DEF Scale
  <2>. QED  BY <2>1, <2>2, <2>3, <2>4
<1>5. Between(p, q, q.t) = Scale * q.pos
  <2>1. Between(p, q, q.t) = Scale * p.pos + (d * s) \div s
    BY DEF Between
  <2>2. Scale * p.pos + d = Scale * q.pos
    BY <1>1 DEF Scale
  <2> HIDE DEF d, s
  <2>3. (d * s) \div s = d
    BY <1>3, DivisionInverts
  <2>. QED  BY <2>1, <2>2, <2>3
<1>. QED  BY <1>2, <1>4, <1>5


RepType == [placed : BOOLEAN, collider : BOOLEAN, shown : Int, buf : Seq(SampleType)]

\* Samples further and further along.
Ordered(buf) == \A i, j \in 1..Len(buf) : i <= j => buf[i].pos <= buf[j].pos

\* ... none of them beyond a pose that is still to come.
Below(buf, P) == \A j \in 1..Len(buf) : \A p \in P : buf[j].pos <= p

\* Whenever these samples are followed from tau on, what is shown is not before x.
Behind(x, buf, tau) ==
    /\ \A j \in 2..Len(buf) : x <= Scale * buf[j].pos
    /\ Len(buf) >= 1 =>
          \/ x <= Scale * buf[1].pos
          \/ /\ Len(buf) >= 2 /\ buf[1].t < tau /\ buf[1].t < buf[2].t
             /\ x <= Between(buf[1], buf[2], tau)

LEMMA NoSamples ==
    ASSUME NEW x, NEW tau, NEW P
    PROVE  Behind(x, <<>>, tau) /\ Ordered(<<>>) /\ Below(<<>>, P)
  BY DEF Behind, Ordered, Below

LEMMA AppendIs ==
    ASSUME NEW buf \in Seq(SampleType), NEW e \in SampleType
    PROVE  /\ Append(buf, e) \in Seq(SampleType) /\ Len(buf) \in Nat
           /\ Len(Append(buf, e)) = Len(buf) + 1
           /\ \A j \in 1..Len(buf) : Append(buf, e)[j] = buf[j]
           /\ Append(buf, e)[Len(buf) + 1] = e
  OBVIOUS

LEMMA SamplesTyped ==
    ASSUME NEW buf \in Seq(SampleType)
    PROVE  /\ Len(buf) \in Nat
           /\ \A j \in 1..Len(buf) : buf[j] \in SampleType /\ buf[j].t \in Int /\ buf[j].pos \in Int
<1>1. Len(buf) \in Nat /\ \A j \in 1..Len(buf) : buf[j] \in SampleType
  OBVIOUS
<1>2. \A p \in SampleType : p.t \in Int /\ p.pos \in Int
  BY DEF SampleType
<1>. QED  BY <1>1, <1>2

LEMMA AppendBehind ==
    ASSUME NEW buf \in Seq(SampleType), NEW e \in SampleType, NEW x \in Int, NEW tau \in Int,
           Behind(x, buf, tau), x <= Scale * e.pos
    PROVE  Behind(x, Append(buf, e), tau)
<1> DEFINE b == Append(buf, e)
           n == Len(buf)
<1>1. n \in Nat /\ Len(b) = n + 1 /\ b[n + 1] = e /\ \A j \in 1..n : b[j] = buf[j]
  BY AppendIs
<1> HIDE DEF b
<1>2. ASSUME NEW j \in 2..Len(b) PROVE x <= Scale * b[j].pos
  <2>1. j = n + 1 \/ j \in 2..n
    BY <1>1
  <2>. QED  BY <1>1, <2>1 DEF Behind
<1>3. \/ x <= Scale * b[1].pos
      \/ /\ Len(b) >= 2 /\ b[1].t < tau /\ b[1].t < b[2].t
         /\ x <= Between(b[1], b[2], tau)
  <2>1. CASE n = 0
    BY <1>1, <2>1
  <2>2. CASE n >= 1
    <3>1. 1 \in 1..n /\ b[1] = buf[1]
      BY <1>1, <2>2
    <3>2. CASE x <= Scale * buf[1].pos
      BY <3>1, <3>2
    <3>3. CASE ~(x <= Scale * buf[1].pos)
      <4>1. n >= 2 /\ buf[1].t < tau /\ buf[1].t < buf[2].t /\ x <= Between(buf[1], buf[2], tau)
        BY <2>2, <3>3 DEF Behind
      <4>2. b[2] = buf[2] /\ Len(b) >= 2
        BY <1>1, <4>1
      <4>. QED  BY <3>1, <4>1, <4>2
    <3>. QED  BY <3>2, <3>3
  <2>. QED  BY <1>1, <2>1, <2>2
<1>. QED  BY <1>2, <1>3 DEF Behind, b

LEMMA AppendOrdered ==
    ASSUME NEW buf \in Seq(SampleType), NEW e \in SampleType, Ordered(buf),
           \A j \in 1..Len(buf) : buf[j].pos <= e.pos
    PROVE  Ordered(Append(buf, e))
<1> DEFINE b == Append(buf, e)
           n == Len(buf)
<1>1. n \in Nat /\ Len(b) = n + 1 /\ b[n + 1] = e /\ \A j \in 1..n : b[j] = buf[j]
  BY AppendIs
<1>2. e.pos \in Int
  BY DEF SampleType
<1> HIDE DEF b
<1>3. ASSUME NEW i \in 1..Len(b), NEW j \in 1..Len(b), i <= j PROVE b[i].pos <= b[j].pos
  <2>1. CASE j = n + 1
    <3>1. i = n + 1 \/ i \in 1..n
      BY <1>1
    <3>. QED  BY <1>1, <1>2, <2>1, <3>1
  <2>2. CASE j # n + 1
    <3>1. i \in 1..n /\ j \in 1..n
      BY <1>1, <1>3, <2>2
    <3>. QED  BY <1>1, <1>3, <3>1 DEF Ordered
  <2>. QED  BY <2>1, <2>2
<1>. QED  BY <1>3 DEF Ordered, b

LEMMA AppendBelow ==
    ASSUME NEW buf \in Seq(SampleType), NEW e \in SampleType, NEW P, Below(buf, P),
           \A p \in P : e.pos <= p
    PROVE  Below(Append(buf, e), P)
<1> DEFINE b == Append(buf, e)
           n == Len(buf)
<1>1. n \in Nat /\ Len(b) = n + 1 /\ b[n + 1] = e /\ \A j \in 1..n : b[j] = buf[j]
  BY AppendIs
<1> HIDE DEF b
<1>2. ASSUME NEW j \in 1..Len(b), NEW p \in P PROVE b[j].pos <= p
  <2>1. j = n + 1 \/ j \in 1..n
    BY <1>1
  <2>. QED  BY <1>1, <2>1 DEF Below
<1>. QED  BY <1>2 DEF Below, b

\* The oldest samples may go: what is from a later one on is as good.
LEMMA SuffixKeeps ==
    ASSUME NEW buf \in Seq(SampleType), NEW k \in 1..Len(buf)
    PROVE  LET b == SubSeq(buf, k, Len(buf))
           IN  /\ b \in Seq(SampleType) /\ Len(b) = Len(buf) - k + 1
               /\ \A j \in 1..Len(b) : b[j] = buf[k + j - 1]
               /\ Ordered(buf) => Ordered(b)
<1> DEFINE b == SubSeq(buf, k, Len(buf))
           n == Len(buf)
<1>1. n \in Nat /\ b \in Seq(SampleType) /\ Len(b) = n - k + 1
      /\ \A j \in 1..(n - k + 1) : b[j] = buf[k + j - 1]
  OBVIOUS
<1>2. k \in 1..n
  OBVIOUS
<1> HIDE DEF b
<1>3. \A j \in 1..Len(b) : k + j - 1 \in 1..n /\ b[j] = buf[k + j - 1]
  BY <1>1, <1>2
<1>4. ASSUME Ordered(buf), NEW i \in 1..Len(b), NEW j \in 1..Len(b), i <= j
      PROVE  b[i].pos <= b[j].pos
  <2>1. k + i - 1 <= k + j - 1
    BY <1>1, <1>2, <1>4
  <2>. QED  BY <1>3, <1>4, <2>1 DEF Ordered
<1>. QED  BY <1>1, <1>3, <1>4 DEF Ordered, b

LEMMA TailKeeps ==
    ASSUME NEW buf \in Seq(SampleType), Len(buf) >= 1, NEW tau \in Int
    PROVE  /\ Tail(buf) \in Seq(SampleType)
           /\ Ordered(buf) => Ordered(Tail(buf))
           /\ \A P : Below(buf, P) => Below(Tail(buf), P)
           /\ \A x \in Int : Behind(x, buf, tau) => Behind(x, Tail(buf), tau)
<1> DEFINE b == Tail(buf)
           n == Len(buf)
<1>1. n \in Nat /\ b \in Seq(SampleType) /\ Len(b) = n - 1 /\ \A j \in 1..(n - 1) : b[j] = buf[j + 1]
  OBVIOUS
<1>2. n >= 1
  OBVIOUS
<1> HIDE DEF b
<1>3. \A j \in 1..Len(b) : j + 1 \in 2..n /\ j + 1 \in 1..n /\ b[j] = buf[j + 1]
  BY <1>1, <1>2
<1>4. ASSUME NEW P, Below(buf, P) PROVE Below(b, P)
  BY <1>3, <1>4 DEF Below
<1>5. ASSUME Ordered(buf), NEW i \in 1..Len(b), NEW j \in 1..Len(b), i <= j
      PROVE  b[i].pos <= b[j].pos
  <2>1. i + 1 <= j + 1
    BY <1>1, <1>5
  <2>. QED  BY <1>3, <1>5, <2>1 DEF Ordered
<1>6. ASSUME NEW x \in Int, Behind(x, buf, tau) PROVE Behind(x, b, tau)
  <2>1. \A j \in 1..Len(b) : x <= Scale * b[j].pos
    BY <1>3, <1>6 DEF Behind
  <2>. QED  BY <1>1, <2>1 DEF Behind
<1>. QED  BY <1>1, <1>4, <1>5, <1>6 DEF Ordered, b

\* updateReplicated: the samples that are over are those before the last whose time has come.
IsTrim(buf, tau, k) ==
    /\ \A j \in 2..k : buf[j].t <= tau
    /\ k < Len(buf) => buf[k + 1].t > tau

LEMMA TrimmedIs ==
    ASSUME NEW buf \in Seq(SampleType), Len(buf) >= 1, NEW tau \in Int
    PROVE  \E k \in 1..Len(buf) : IsTrim(buf, tau, k) /\ Trimmed(buf, tau) = SubSeq(buf, k, Len(buf))
<1> DEFINE n == Len(buf)
           T == {k \in 1..n : k < n => buf[k + 1].t > tau}
<1>1. n \in Nat /\ n >= 1 /\ DOMAIN buf = 1..n /\ \A j \in 1..n : buf[j].t \in Int
  BY SamplesTyped
<1>2. n \in T /\ T \in SUBSET Nat
  BY <1>1
<1>3. PICK k \in T : \A m \in T : k <= m
  BY <1>2, LeastNumber
<1>4. k \in 1..n /\ (k < n => buf[k + 1].t > tau)
  BY <1>3
<1>5. ASSUME NEW j \in 2..k PROVE buf[j].t <= tau
  <2>1. j - 1 \in 1..n /\ j - 1 < k /\ (j - 1) + 1 = j /\ j \in 1..n
    BY <1>1, <1>4
  <2>2. j - 1 \notin T
    <3> HIDE DEF T
    <3>. QED  BY <1>3, <1>4, <2>1
  <2>3. ~(buf[j].t > tau)
    BY <2>1, <2>2
  <2>. QED  BY <1>1, <2>1, <2>3
<1>6. IsTrim(buf, tau, k)
  BY <1>4, <1>5 DEF IsTrim
<1> DEFINE first == CHOOSE m \in DOMAIN buf :
                       /\ \A j \in 2..m : buf[j].t <= tau
                       /\ m < Len(buf) => buf[m + 1].t > tau
<1>7. first \in 1..n /\ IsTrim(buf, tau, first)
  BY <1>1, <1>4, <1>6 DEF IsTrim
<1>8. Trimmed(buf, tau) = SubSeq(buf, first, n)
  BY DEF Trimmed
<1>. QED  BY <1>7, <1>8

\* Samples that are in order once the old ones are gone put the body nowhere before the
\* place it is then shown at.
Settled(rep, tau) == Ordered(rep.buf) => Behind(rep.shown, rep.buf, tau)

LEMMA PoseSettles ==
    ASSUME NEW buf \in Seq(SampleType), Len(buf) >= 1, NEW later \in Int
    PROVE  LET b == Trimmed(buf, later)
               y == PoseAt(b, later)
           IN  b \in Seq(SampleType) /\ y \in Int /\ (Ordered(b) => Behind(y, b, later))
<1>1. PICK k \in 1..Len(buf) : IsTrim(buf, later, k) /\ Trimmed(buf, later) = SubSeq(buf, k, Len(buf))
  BY TrimmedIs
<1> DEFINE b == Trimmed(buf, later)
           n == Len(b)
           y == PoseAt(b, later)
<1>2. /\ b \in Seq(SampleType) /\ n = Len(buf) - k + 1
      /\ \A j \in 1..n : b[j] = buf[k + j - 1]
  BY <1>1, SuffixKeeps
<1>3. Len(buf) \in Nat /\ n \in Nat /\ n >= 1
  BY <1>2, SamplesTyped
<1>4. n >= 2 => b[2].t > later
  BY <1>1, <1>2, <1>3 DEF IsTrim
<1>5. \A j \in 1..n : b[j] \in SampleType /\ b[j].pos \in Int /\ b[j].t \in Int
  BY <1>2, SamplesTyped
<1>6. Ordered(b) => /\ \A j \in 1..n : b[1].pos <= b[j].pos
                    /\ \A j \in 2..n : b[2].pos <= b[j].pos
  <2> HIDE DEF b
  <2>1. Ordered(b) => \A i, j \in 1..n : i <= j => b[i].pos <= b[j].pos
    BY DEF Ordered
  <2>2. 1 \in 1..n /\ \A j \in 1..n : 1 <= j
    BY <1>3
  <2>3. \A j \in 2..n : 2 \in 1..n /\ j \in 1..n /\ 2 <= j
    BY <1>3
  <2>. QED  BY <2>1, <2>2, <2>3
<1> HIDE DEF b
<1>7. CASE later <= b[1].t \/ n = 1
  <2>1. y = Scale * b[1].pos
    BY <1>7 DEF PoseAt
  <2>2. 1 \in 1..n /\ b[1].pos \in Int
    BY <1>3, <1>5
  <2>3. y \in Int
    BY <2>1, <2>2 DEF Scale
  <2>4. ASSUME Ordered(b) PROVE Behind(y, b, later)
    <3>1. \A j \in 1..n : b[1].pos <= b[j].pos /\ b[j].pos \in Int
      BY <1>5, <1>6, <2>4
    <3>2. \A j \in 1..n : y <= Scale * b[j].pos
      BY <2>1, <2>2, <3>1 DEF Scale
    <3>. QED  BY <1>3, <2>1, <2>3, <3>2 DEF Behind
  <2>. QED  BY <1>2, <2>3, <2>4 DEF b
<1>8. CASE ~(later <= b[1].t \/ n = 1)
  <2> DEFINE p == b[1]
             q == b[2]
  <2>1. /\ n >= 2 /\ p \in SampleType /\ q \in SampleType
        /\ p.t \in Int /\ q.t \in Int /\ p.t < later /\ later < q.t
    <3>1. n >= 2 /\ 1 \in 1..n /\ 2 \in 1..n
      <4>1. n \in Nat /\ n >= 1 /\ n # 1
        BY <1>3, <1>8
      <4> HIDE DEF n
      <4>. QED  BY <4>1
    <3>2. p \in SampleType /\ q \in SampleType /\ p.t \in Int /\ q.t \in Int
      BY <1>5, <3>1
    <3>. QED  BY <1>4, <1>8, <3>1, <3>2
  <2>2. y = Between(p, q, later)
    BY <1>8 DEF PoseAt, Between
  <2>3. y \in Int
    BY <2>1, <2>2, BetweenTyped
  <2> HIDE DEF y
  <2>4. ASSUME Ordered(b) PROVE Behind(y, b, later)
    <3>1. p.pos <= q.pos
      BY <1>6, <2>1, <2>4
    <3>2. y <= Scale * q.pos
      BY <2>1, <2>2, <3>1, BetweenStays
    <3>3. \A j \in 2..n : q.pos <= b[j].pos /\ b[j].pos \in Int
      BY <1>3, <1>5, <1>6, <2>4
    <3>4. q.pos \in Int
      BY <1>5, <2>1
    <3>5. \A j \in 2..n : y <= Scale * b[j].pos
      BY <2>3, <3>2, <3>3, <3>4 DEF Scale
    <3>. QED  BY <1>3, <2>1, <2>2, <2>3, <3>5 DEF Behind
  <2>. QED  BY <1>2, <2>3, <2>4 DEF b, y
<1>. QED  BY <1>7, <1>8 DEF b, y

\* A body is shown no further back than what was promised of its samples, and all that is
\* shown later is no further back than that.
Kept(x, buf, b, y, tau) ==
    /\ b \in Seq(SampleType) /\ Ordered(b)
    /\ y \in Int /\ x <= y
    /\ Behind(x, b, tau) /\ Behind(y, b, tau)

LEMMA FollowedKeeps ==
    ASSUME NEW buf \in Seq(SampleType), Len(buf) >= 1, Ordered(buf),
           NEW tau \in Int, NEW later \in Int, tau <= later,
           NEW x \in Int, Behind(x, buf, tau)
    PROVE  Kept(x, buf, Trimmed(buf, later), PoseAt(Trimmed(buf, later), later), later)
<1>1. PICK k \in 1..Len(buf) : IsTrim(buf, later, k) /\ Trimmed(buf, later) = SubSeq(buf, k, Len(buf))
  BY TrimmedIs
<1> DEFINE b == Trimmed(buf, later)
           n == Len(b)
           y == PoseAt(b, later)
<1>2. /\ b \in Seq(SampleType) /\ n = Len(buf) - k + 1 /\ Ordered(b)
      /\ \A j \in 1..n : b[j] = buf[k + j - 1]
  BY <1>1, SuffixKeeps
<1>3. Len(buf) \in Nat /\ n \in Nat /\ n >= 1 /\ b[1] = buf[k]
  BY <1>2, SamplesTyped
<1>4. n >= 2 => b[2].t > later /\ b[2] = buf[k + 1]
  BY <1>1, <1>2, <1>3 DEF IsTrim
<1>5. \A j \in 1..n : b[j] \in SampleType /\ b[j].pos \in Int /\ b[j].t \in Int
  BY <1>2, SamplesTyped
<1>6. /\ \A j \in 1..n : b[1].pos <= b[j].pos
      /\ \A j \in 2..n : b[2].pos <= b[j].pos
  <2> HIDE DEF b
  <2>2. \A i, j \in 1..n : i <= j => b[i].pos <= b[j].pos
    BY <1>2 DEF Ordered
  <2>3. 1 \in 1..n /\ \A j \in 1..n : 1 <= j
    BY <1>3
  <2>4. \A j \in 2..n : 2 \in 1..n /\ j \in 1..n /\ 2 <= j
    BY <1>3
  <2>. QED  BY <2>2, <2>3, <2>4
<1>7. \A j \in 2..n : x <= Scale * b[j].pos
  <2> SUFFICES ASSUME NEW j \in 2..n PROVE x <= Scale * b[j].pos
    OBVIOUS
  <2>1. b[j] = buf[k + j - 1] /\ k + j - 1 \in 2..Len(buf)
    BY <1>2, <1>3
  <2>. QED  BY <2>1 DEF Behind
<1>8. \/ x <= Scale * b[1].pos
      \/ k = 1 /\ n >= 2 /\ b[1].t < tau /\ b[1].t < b[2].t /\ x <= Between(b[1], b[2], tau)
  <2>1. CASE k >= 2
    <3>1. k \in 2..Len(buf)
      BY <2>1
    <3>. QED  BY <1>3, <3>1 DEF Behind
  <2>2. CASE k = 1
    <3>1. n = Len(buf) /\ (n >= 2 => b[2] = buf[2])
      BY <1>2, <1>3, <1>4, <2>2
    <3>. QED  BY <1>3, <2>2, <3>1 DEF Behind
  <2>. QED  BY <2>1, <2>2
<1> HIDE DEF b
<1>9. CASE later <= b[1].t \/ n = 1
  <2>1. y = Scale * b[1].pos
    BY <1>9 DEF PoseAt
  <2>2. x <= y
    <3>1. CASE x <= Scale * b[1].pos
      BY <2>1, <3>1
    <3>2. CASE ~(x <= Scale * b[1].pos)
      BY <1>3, <1>5, <1>8, <1>9, <3>2
    <3>. QED  BY <3>1, <3>2
  <2>3. y \in Int /\ \A j \in 1..n : y <= Scale * b[j].pos
    <3>1. 1 \in 1..n
      BY <1>3
    <3>2. b[1].pos \in Int /\ \A j \in 1..n : b[1].pos <= b[j].pos /\ b[j].pos \in Int
      BY <1>5, <1>6, <3>1
    <3>. QED  BY <2>1, <3>2 DEF Scale
  <2>4. Behind(y, b, later) /\ Behind(x, b, later)
    <3>1. \A j \in 1..n : x <= Scale * b[j].pos
      <4>1. \A j \in 1..n : Scale * b[j].pos \in Int
        BY <1>5 DEF Scale
      <4>. QED  BY <2>2, <2>3, <4>1
    <3>. QED  BY <1>3, <2>3, <3>1 DEF Behind
  <2>. QED  BY <1>2, <2>2, <2>3, <2>4 DEF Kept, b
<1>10. CASE ~(later <= b[1].t \/ n = 1)
  <2> DEFINE p == b[1]
             q == b[2]
  <2>1. /\ n >= 2 /\ p \in SampleType /\ q \in SampleType /\ p.pos <= q.pos
        /\ p.t \in Int /\ q.t \in Int /\ p.t < later /\ later < q.t
    <3>1. n >= 2 /\ 1 \in 1..n /\ 2 \in 1..n
      <4>1. n \in Nat /\ n >= 1 /\ n # 1
        BY <1>3, <1>10
      <4> HIDE DEF n
      <4>. QED  BY <4>1
    <3>2. p \in SampleType /\ q \in SampleType /\ p.pos <= q.pos /\ p.t \in Int /\ q.t \in Int
      BY <1>5, <1>6, <3>1
    <3>. QED  BY <1>4, <1>10, <3>1, <3>2
  <2>2. y = Between(p, q, later)
    BY <1>10 DEF PoseAt, Between
  <2> HIDE DEF y
  <2>3. y \in Int /\ Scale * p.pos <= y /\ y <= Scale * q.pos
    BY <2>1, <2>2, BetweenStays, BetweenGrows
  <2>4. \A j \in 2..n : y <= Scale * b[j].pos
    <3>1. \A j \in 2..n : q.pos <= b[j].pos /\ b[j].pos \in Int
      BY <1>3, <1>5, <1>6
    <3>2. q.pos \in Int
      BY <1>3, <1>5, <2>1
    <3>. QED  BY <2>3, <3>1, <3>2 DEF Scale
  <2>5. x <= y
    <3>1. CASE x <= Scale * p.pos
      <4>1. Scale * p.pos \in Int
        BY <1>5, <1>3 DEF Scale
      <4>. QED  BY <2>3, <3>1, <4>1
    <3>2. CASE x <= Between(p, q, tau)
      <4>1. Between(p, q, tau) \in Int /\ Between(p, q, tau) <= Between(p, q, later)
        BY <2>1, BetweenGrows
      <4>. QED  BY <2>2, <2>3, <3>2, <4>1
    <3>. QED  BY <1>8, <3>1, <3>2
  <2>6. Behind(y, b, later)
    BY <1>3, <2>1, <2>2, <2>3, <2>4 DEF Behind
  <2>7. Behind(x, b, later)
    BY <1>3, <1>7, <2>1, <2>2, <2>3, <2>5 DEF Behind
  <2>. QED  BY <1>2, <2>3, <2>4, <2>5, <2>6, <2>7 DEF Kept, b, y
<1>. QED  BY <1>9, <1>10

\* A body that has been shown no further back than x since it was shown at x, and will not
\* be if the poses still to come are P.
RepInv(rep, x, tau, P) ==
    /\ rep \in RepType /\ Ordered(rep.buf) /\ Below(rep.buf, P)
    /\ Behind(x, rep.buf, tau)
    /\ rep.placed => x <= rep.shown

LEMMA UnplacedType == Rep(FALSE) \in RepType
<1>1. <<>> \in Seq(SampleType) /\ 0 \in Int
  OBVIOUS
<1>. QED  BY <1>1 DEF Rep, RepType

LEMMA UnplacedRep ==
    ASSUME NEW x \in Int, NEW tau \in Int, NEW P
    PROVE  RepInv(Rep(FALSE), x, tau, P)
<1> DEFINE r == Rep(FALSE)
<1>1. r.placed = FALSE /\ r.buf = <<>> /\ r \in RepType
  BY UnplacedType DEF Rep
<1> HIDE DEF r
<1>2. RepInv(r, x, tau, P)
  BY <1>1, NoSamples DEF RepInv
<1>. QED  BY <1>2 DEF r

\* NetClient keeps so many samples of a body.
Newer(buf, e) == IF Len(Append(buf, e)) > MaxSamples THEN Tail(Append(buf, e)) ELSE Append(buf, e)

LEMMA NewerKeeps ==
    ASSUME NEW buf \in Seq(SampleType), NEW e \in SampleType, NEW tau \in Int
    PROVE  /\ Newer(buf, e) \in Seq(SampleType)
           /\ Ordered(buf) /\ (\A j \in 1..Len(buf) : buf[j].pos <= e.pos) => Ordered(Newer(buf, e))
           /\ \A P : Below(buf, P) /\ (\A p \in P : e.pos <= p) => Below(Newer(buf, e), P)
           /\ \A x \in Int : Behind(x, buf, tau) /\ x <= Scale * e.pos => Behind(x, Newer(buf, e), tau)
<1> DEFINE b == Append(buf, e)
<1>1. b \in Seq(SampleType) /\ Len(b) >= 1
  BY AppendIs
<1>2. /\ Ordered(buf) /\ (\A j \in 1..Len(buf) : buf[j].pos <= e.pos) => Ordered(b)
      /\ \A P : Below(buf, P) /\ (\A p \in P : e.pos <= p) => Below(b, P)
      /\ \A x \in Int : Behind(x, buf, tau) /\ x <= Scale * e.pos => Behind(x, b, tau)
  BY AppendBehind, AppendOrdered, AppendBelow
<1>3. Newer(buf, e) = Tail(b) \/ Newer(buf, e) = b
  BY DEF Newer
<1> HIDE DEF b
<1>4. /\ Tail(b) \in Seq(SampleType)
      /\ Ordered(b) => Ordered(Tail(b))
      /\ \A P : Below(b, P) => Below(Tail(b), P)
      /\ \A x \in Int : Behind(x, b, tau) => Behind(x, Tail(b), tau)
  BY <1>1, TailKeeps
<1>5. CASE Newer(buf, e) = b
  BY <1>1, <1>2, <1>5
<1>6. CASE Newer(buf, e) = Tail(b)
  BY <1>2, <1>4, <1>6
<1>. QED  BY <1>3, <1>5, <1>6

LEMMA RepTaken ==
    ASSUME NEW rep \in RepType, NEW e \in SampleType
    PROVE  LET r == [rep EXCEPT !.buf = Newer(rep.buf, e)]
           IN  /\ r \in RepType /\ r.buf = Newer(rep.buf, e)
               /\ r.shown = rep.shown /\ r.placed = rep.placed
<1>1. rep.buf \in Seq(SampleType)
  BY DEF RepType
<1> DEFINE b == Newer(rep.buf, e)
<1>2. b \in Seq(SampleType)
  BY <1>1, NewerKeeps, 0 \in Int
<1> HIDE DEF b
<1>3. LET r == [rep EXCEPT !.buf = b]
      IN  r \in RepType /\ r.buf = b /\ r.shown = rep.shown /\ r.placed = rep.placed
  BY <1>2 DEF RepType
<1>. QED  BY <1>3 DEF b

\* A pose that was to come, and no other that is to come is behind it.
Fits(p, x, P) == p \in P /\ x <= Scale * p /\ \A q \in P : p <= q

LEMMA RepSampled ==
    ASSUME NEW rep, NEW x \in Int, NEW tau \in Int, NEW P, RepInv(rep, x, tau, P),
           NEW e \in SampleType, Fits(e.pos, x, P)
    PROVE  RepInv([rep EXCEPT !.buf = Newer(rep.buf, e)], x, tau, P)
<1> DEFINE b == Newer(rep.buf, e)
           r == [rep EXCEPT !.buf = b]
<1>1. rep \in RepType /\ rep.buf \in Seq(SampleType)
  BY DEF RepInv, RepType
<1>2. \A j \in 1..Len(rep.buf) : rep.buf[j].pos <= e.pos
  BY DEF RepInv, Below, Fits
<1>3. Ordered(rep.buf) /\ Below(rep.buf, P) /\ Behind(x, rep.buf, tau)
      /\ x <= Scale * e.pos /\ \A p \in P : e.pos <= p
  BY DEF RepInv, Fits
<1>4. Ordered(b) /\ Below(b, P) /\ Behind(x, b, tau)
  BY <1>1, <1>2, <1>3, NewerKeeps
<1>5. r \in RepType /\ r.buf = b /\ r.shown = rep.shown /\ r.placed = rep.placed
  BY <1>1, RepTaken
<1>6. rep.placed => x <= rep.shown
  BY DEF RepInv
<1> HIDE DEF r, b
<1>7. RepInv(r, x, tau, P)
  BY <1>4, <1>5, <1>6 DEF RepInv
<1>. QED  BY <1>7 DEF r, b

LEMMA RepFollowed ==
    ASSUME NEW rep \in RepType, NEW later \in Int
    PROVE  /\ Followed(rep, later) \in RepType /\ Settled(Followed(rep, later), later)
           /\ \A x \in Int : \A tau \in Int : \A P :
                 RepInv(rep, x, tau, P) /\ tau <= later => RepInv(Followed(rep, later), x, later, {})
<1>1. rep.buf \in Seq(SampleType) /\ rep.shown \in Int
  BY DEF RepType
<1>2. CASE rep.buf = <<>>
  <2>1. Followed(rep, later) = rep
    BY <1>2 DEF Followed
  <2>2. \A x : Behind(x, rep.buf, later) /\ Below(rep.buf, {})
    BY <1>2, NoSamples
  <2>. QED  BY <2>1, <2>2 DEF RepInv, Settled
<1>3. CASE rep.buf # <<>>
  <2> DEFINE b == Trimmed(rep.buf, later)
             y == PoseAt(b, later)
             r == [rep EXCEPT !.buf = b, !.shown = y, !.placed = TRUE, !.collider = TRUE]
  <2>1. Followed(rep, later) = r
    BY <1>3 DEF Followed
  <2>2. Len(rep.buf) >= 1
    BY <1>1, <1>3
  <2>3. b \in Seq(SampleType) /\ y \in Int /\ (Ordered(b) => Behind(y, b, later))
    BY <1>1, <2>2, PoseSettles
  <2>4. ASSUME NEW x \in Int, NEW tau \in Int, NEW P, RepInv(rep, x, tau, P), tau <= later
        PROVE  Ordered(b) /\ x <= y /\ Behind(x, b, later)
    <3>1. Ordered(rep.buf) /\ Behind(x, rep.buf, tau)
      BY <2>4 DEF RepInv
    <3>2. Kept(x, rep.buf, b, y, later)
      BY <1>1, <2>2, <2>4, <3>1, FollowedKeeps
    <3>. QED  BY <3>2 DEF Kept
  <2> HIDE DEF b, y
  <2>5. r \in RepType /\ r.buf = b /\ r.shown = y
    BY <1>1, <2>3 DEF RepType
  <2> HIDE DEF r
  <2>6. Settled(r, later)
    BY <2>3, <2>5 DEF Settled
  <2>7. ASSUME NEW x \in Int, NEW tau \in Int, NEW P, RepInv(rep, x, tau, P), tau <= later
        PROVE  RepInv(r, x, later, {})
    <3>1. Below(b, {})
      BY DEF Below
    <3>. QED  BY <2>4, <2>5, <2>7, <3>1 DEF RepInv
  <2>. QED  BY <2>1, <2>5, <2>6, <2>7
<1>. QED  BY <1>2, <1>3

Replicas == UNION {[S -> RepType] : S \in SUBSET Nat}
NetType ==
    [time : Int, hello : BOOLEAN, joined : BOOLEAN, me : Nat, seq : Int, pos : Int, own : Int,
     reps : Replicas, names : SUBSET Nat]

\* A client, and what may come of the n-th body, which was shown at x when the frame began.
Faring(c, n, x, tau, P) ==
    /\ c \in NetType
    /\ n \in DOMAIN c.reps => RepInv(c.reps[n], x, tau, P)

\* c and d differ in what they make of the others.
AlikeAside(c, d) ==
    /\ d.time = c.time /\ d.joined = c.joined /\ d.me = c.me
    /\ d.pos = c.pos /\ d.own = c.own

LEMMA ReplicasAre ==
    /\ \A r \in Replicas : DOMAIN r \subseteq Nat /\ r \in [DOMAIN r -> RepType]
    /\ \A S \in SUBSET Nat : \A r \in [S -> RepType] : r \in Replicas
  BY DEF Replicas

LEMMA NetParts ==
    ASSUME NEW c \in NetType
    PROVE  /\ c.time \in Int /\ c.hello \in BOOLEAN /\ c.joined \in BOOLEAN /\ c.me \in Nat
           /\ c.seq \in Int /\ c.pos \in Int /\ c.own \in Int /\ c.names \subseteq Nat
           /\ c.reps \in Replicas
  BY DEF NetType

LEMMA RepsTyped ==
    ASSUME NEW c \in NetType
    PROVE  /\ DOMAIN c.reps \in SUBSET Nat
           /\ \A k \in DOMAIN c.reps : c.reps[k] \in RepType
           /\ c.reps \in [DOMAIN c.reps -> RepType]
<1>1. c.reps \in Replicas
  BY NetParts
<1>2. DOMAIN c.reps \subseteq Nat /\ c.reps \in [DOMAIN c.reps -> RepType]
  BY <1>1, ReplicasAre
<1>. QED  BY <1>2

\* With fewer poses to come.
LEMMA FewerToCome ==
    ASSUME NEW c, NEW n, NEW x, NEW tau, NEW P, NEW Q, Q \subseteq P, Faring(c, n, x, tau, P)
    PROVE  Faring(c, n, x, tau, Q)
BY DEF Faring, RepInv, Below

\* New replicas that are as they should be.
LEMMA WithReps ==
    ASSUME NEW c \in NetType, NEW n, NEW x, NEW later, NEW P,
           NEW S \in SUBSET Nat, NEW r, r = [k \in S |-> r[k]],
           \A k \in S : r[k] \in RepType, n \in S => RepInv(r[n], x, later, P)
    PROVE  /\ Faring([c EXCEPT !.reps = r], n, x, later, P)
           /\ AlikeAside(c, [c EXCEPT !.reps = r])
           /\ [c EXCEPT !.reps = r].reps = r
<1> DEFINE d == [c EXCEPT !.reps = r]
<1>1. r \in [S -> RepType]
  OBVIOUS
<1>2. r \in Replicas /\ DOMAIN r = S
  BY <1>1, ReplicasAre
<1>3. d \in NetType /\ d.reps = r /\ AlikeAside(c, d)
  BY <1>2 DEF NetType, AlikeAside
<1> HIDE DEF d
<1>4. Faring(d, n, x, later, P)
  BY <1>2, <1>3 DEF Faring
<1>. QED  BY <1>3, <1>4 DEF d

LEMMA WithNames ==
    ASSUME NEW c, NEW n, NEW x, NEW tau, NEW P, Faring(c, n, x, tau, P), NEW names \in SUBSET Nat
    PROVE  /\ Faring([c EXCEPT !.names = names], n, x, tau, P)
           /\ AlikeAside(c, [c EXCEPT !.names = names])
<1> DEFINE d == [c EXCEPT !.names = names]
<1>1. c \in NetType
  BY DEF Faring
<1>2. d \in NetType /\ d.reps = c.reps /\ AlikeAside(c, d)
  BY <1>1 DEF NetType, AlikeAside
<1> HIDE DEF d
<1>3. Faring(d, n, x, tau, P)
  BY <1>2 DEF Faring
<1>. QED  BY <1>2, <1>3 DEF d

LEMMA EnsuredInv ==
    ASSUME NEW c, NEW n, NEW x \in Int, NEW tau \in Int, NEW P, Faring(c, n, x, tau, P),
           NEW m \in Nat
    PROVE  Faring(Ensured(c, m), n, x, tau, P) /\ AlikeAside(c, Ensured(c, m))
<1>1. CASE m \in DOMAIN c.reps
  BY <1>1 DEF Ensured, AlikeAside
<1>2. CASE m \notin DOMAIN c.reps
  <2> DEFINE S == DOMAIN c.reps \union {m}
             r == [k \in S |-> IF k = m THEN Rep(FALSE) ELSE c.reps[k]]
  <2>1. Ensured(c, m) = [c EXCEPT !.reps = r]
    BY <1>2 DEF Ensured
  <2>2. c \in NetType
    BY DEF Faring
  <2>3. S \in SUBSET Nat /\ \A k \in DOMAIN c.reps : c.reps[k] \in RepType
    BY <2>2, RepsTyped
  <2>4. \A k \in S : r[k] \in RepType
    BY <2>3, UnplacedType
  <2>5. n \in S => RepInv(r[n], x, tau, P)
    <3>1. CASE n = m
      <4>1. RepInv(Rep(FALSE), x, tau, P)
        BY UnplacedRep
      <4>. QED  BY <3>1, <4>1
    <3>2. CASE n # m
      BY <3>2 DEF Faring
    <3>. QED  BY <3>1, <3>2
  <2>6. r = [k \in S |-> r[k]]
    OBVIOUS
  <2> HIDE DEF S, r
  <2>. QED  BY <2>1, <2>2, <2>3, <2>4, <2>5, <2>6, WithReps
<1>. QED  BY <1>1, <1>2

LEMMA RemovedInv ==
    ASSUME NEW c, NEW n, NEW x \in Int, NEW tau \in Int, NEW P, Faring(c, n, x, tau, P),
           NEW m \in Nat
    PROVE  Faring(RemoveRep(c, m), n, x, tau, P) /\ AlikeAside(c, RemoveRep(c, m))
<1> DEFINE S == DOMAIN c.reps \ {m}
           r == [k \in S |-> c.reps[k]]
           d == [c EXCEPT !.reps = r]
           names == d.names \ {m}
<1>1. c \in NetType
  BY DEF Faring
<1>2. S \in SUBSET Nat /\ \A k \in S : r[k] \in RepType
  BY <1>1, RepsTyped
<1>3. RemoveRep(c, m) = [d EXCEPT !.names = names]
  BY <1>1 DEF RemoveRep, NetType
<1>4. n \in S => RepInv(r[n], x, tau, P)
  BY DEF Faring
<1>5. r = [k \in S |-> r[k]]
  OBVIOUS
<1> HIDE DEF S, r
<1>6. Faring(d, n, x, tau, P) /\ AlikeAside(c, d)
  BY <1>1, <1>2, <1>4, <1>5, WithReps
<1> HIDE DEF d
<1>7. names \in SUBSET Nat
  BY <1>6, NetParts DEF Faring
<1> HIDE DEF names
<1>8. Faring([d EXCEPT !.names = names], n, x, tau, P) /\ AlikeAside(d, [d EXCEPT !.names = names])
  BY <1>6, <1>7, WithNames
<1>. QED  BY <1>3, <1>6, <1>8 DEF AlikeAside

\* An entity of a snapshot that is not the player's.
LEMMA OtherSampled ==
    ASSUME NEW c, NEW n, NEW x \in Int, NEW tau \in Int, NEW P, Faring(c, n, x, tau, P),
           NEW e, e.netId \in Nat, e.netId # c.me, e.pos \in Int,
           e.netId = n => Fits(e.pos, x, P)
    PROVE  Faring(SampledEntity(c, e), n, x, tau, P) /\ AlikeAside(c, SampledEntity(c, e))
<1> DEFINE m == e.netId
           d == IF m = Pal THEN Ensured(c, Pal) ELSE c
<1>1. Faring(d, n, x, tau, P) /\ AlikeAside(c, d)
  <2>1. CASE m = Pal
    BY <2>1, EnsuredInv
  <2>2. CASE m # Pal
    BY <2>2 DEF AlikeAside
  <2>. QED  BY <2>1, <2>2
<1>2. /\ m \notin DOMAIN d.reps => SampledEntity(c, e) = d
      /\ m \in DOMAIN d.reps =>
            SampledEntity(c, e) =
                [d EXCEPT !.reps[m].buf = Newer(d.reps[m].buf, [t |-> d.time, pos |-> e.pos])]
  BY DEF SampledEntity, Newer
<1> HIDE DEF d
<1>3. CASE m \notin DOMAIN d.reps
  BY <1>1, <1>2, <1>3
<1>4. CASE m \in DOMAIN d.reps
  <2> DEFINE s == [t |-> d.time, pos |-> e.pos]
             S == DOMAIN d.reps
             one == [d.reps[m] EXCEPT !.buf = Newer(d.reps[m].buf, s)]
             r == [d.reps EXCEPT ![m] = one]
  <2>1. d \in NetType /\ S \in SUBSET Nat /\ d.time \in Int
        /\ d.reps \in [S -> RepType] /\ \A k \in S : d.reps[k] \in RepType
    BY <1>1, NetParts, RepsTyped DEF Faring
  <2>2. s \in SampleType /\ s.pos = e.pos
    BY <2>1 DEF SampleType
  <2>3. SampledEntity(c, e) = [d EXCEPT !.reps = r]
    BY <1>2, <1>4, <2>1 DEF NetType
  <2> HIDE DEF s
  <2>4. one \in RepType
    BY <1>4, <2>1, <2>2, RepTaken
  <2>5. n = m => RepInv(one, x, tau, P)
    <3> SUFFICES ASSUME n = m PROVE RepInv(one, x, tau, P)
      OBVIOUS
    <3>1. RepInv(d.reps[m], x, tau, P) /\ Fits(s.pos, x, P)
      BY <1>1, <1>4, <2>2 DEF Faring
    <3>. QED  BY <2>2, <3>1, RepSampled
  <2>6. r = [k \in S |-> IF k = m THEN one ELSE d.reps[k]]
    <3> HIDE DEF one
    <3>. QED  BY <1>4, <2>1
  <2> HIDE DEF r, one
  <2>7. r = [k \in S |-> r[k]]
    BY <2>6
  <2>8. (\A k \in S : r[k] \in RepType) /\ (n \in S => RepInv(r[n], x, tau, P))
    BY <1>1, <2>1, <2>4, <2>5, <2>6 DEF Faring
  <2> HIDE DEF S
  <2>9. Faring([d EXCEPT !.reps = r], n, x, tau, P) /\ AlikeAside(d, [d EXCEPT !.reps = r])
    BY <2>1, <2>7, <2>8, WithReps
  <2>. QED  BY <1>1, <2>3, <2>9 DEF AlikeAside
<1>. QED  BY <1>3, <1>4

\* What a server may send.
IsRoom(entities) ==
    /\ Len(entities) = 4 /\ DOMAIN entities = 1..4
    /\ entities[1].netId = Me /\ entities[1].pos \in Int
    /\ \A i \in 2..4 : entities[i].netId \in Nat \ {Me} /\ entities[i].pos \in Int

Expected(m) ==
    \/ m = Welcome
    \/ /\ m.type \in {"PlayerJoin", "PlayerLeave", "SpawnEntity", "DespawnEntity"}
       /\ m.netId \in Nat \ {Me}
    \/ m.type = "Explosion" /\ m.speed \in Int
    \/ m.type = "Snapshot" /\ IsRoom(m.entities)

Listens(c) == c.joined => c.me = Me

Near(c) == Distance(c.pos, c.own) < HardSnapDistance

LEMMA Thresholds ==
    SnapDistance \in Nat /\ HardSnapDistance \in Nat /\ SnapDistance < HardSnapDistance
  BY PageAssumption, Zenon DEF PageAssumption

LEMMA QuarterNear ==
    ASSUME NEW p \in Int, NEW s \in Int, NEW h \in Int, Distance(p, s) < h
    PROVE  (3 * p + s) \div 4 \in Int /\ Distance((3 * p + s) \div 4, s) < h
<1>1. p < s => (3 * p + s) \div 4 >= p /\ (3 * p + s) \div 4 < s
  OBVIOUS
<1>2. p >= s => (3 * p + s) \div 4 <= p /\ (3 * p + s) \div 4 >= s
  OBVIOUS
<1> DEFINE r == (3 * p + s) \div 4
<1>3. r \in Int
  OBVIOUS
<1> HIDE DEF r
<1>4. (p < s => r >= p /\ r < s) /\ (p >= s => r <= p /\ r >= s)
  BY <1>1, <1>2 DEF r
<1>5. Distance(r, s) < h
  BY <1>3, <1>4 DEF Distance
<1>. QED  BY <1>3, <1>5 DEF r

LEMMA ReconciledNear ==
    ASSUME NEW p \in Int, NEW s \in Int
    PROVE  Reconciled(p, s) \in Int /\ Distance(Reconciled(p, s), s) < HardSnapDistance
<1>1. CASE Distance(p, s) <= SnapDistance
  <2>1. Reconciled(p, s) = p /\ Distance(p, s) \in Int
    BY <1>1 DEF Reconciled, Distance
  <2>. QED  BY <1>1, <2>1, Thresholds
<1>2. CASE ~(Distance(p, s) <= SnapDistance) /\ Distance(p, s) >= HardSnapDistance
  <2>1. Reconciled(p, s) = s /\ Distance(s, s) = 0
    BY <1>2 DEF Reconciled, Distance
  <2>. QED  BY <2>1, Thresholds
<1>3. CASE ~(Distance(p, s) <= SnapDistance) /\ ~(Distance(p, s) >= HardSnapDistance)
  <2>1. Reconciled(p, s) = (3 * p + s) \div 4
    BY <1>3 DEF Reconciled
  <2>2. Distance(p, s) \in Int
    BY DEF Distance
  <2>. QED  BY <1>3, <2>1, <2>2, Thresholds, QuarterNear
<1>. QED  BY <1>1, <1>2, <1>3

\* The player's own entity in a snapshot.
LEMMA OwnSampled ==
    ASSUME NEW c, NEW n, NEW x \in Int, NEW tau \in Int, NEW P, Faring(c, n, x, tau, P),
           NEW e, e.netId = c.me, e.pos \in Int
    PROVE  LET d == SampledEntity(c, e)
           IN  /\ Faring(d, n, x, tau, P) /\ Near(d)
               /\ d.time = c.time /\ d.joined = c.joined /\ d.me = c.me
<1> DEFINE p == Reconciled(c.pos, e.pos)
           d == [c EXCEPT !.pos = p, !.own = e.pos]
<1>1. c \in NetType /\ c.pos \in Int
  BY NetParts DEF Faring
<1>2. SampledEntity(c, e) = d
  BY <1>1 DEF SampledEntity, NetType
<1>3. p \in Int /\ Distance(p, e.pos) < HardSnapDistance
  BY <1>1, ReconciledNear
<1> HIDE DEF p
<1>4. /\ d \in NetType /\ d.pos = p /\ d.own = e.pos /\ d.reps = c.reps
      /\ d.time = c.time /\ d.joined = c.joined /\ d.me = c.me
  BY <1>1, <1>3 DEF NetType
<1> HIDE DEF d
<1>5. Faring(d, n, x, tau, P)
  BY <1>4 DEF Faring
<1>. QED  BY <1>2, <1>3, <1>4, <1>5 DEF Near

\* Where a snapshot has the n-th body fits.
AllFit(entities, n, x, P) ==
    \A i \in 1..4 : entities[i].netId = n => Fits(entities[i].pos, x, P)

LEMMA SnapshotTaken ==
    ASSUME NEW c, NEW n, NEW x \in Int, NEW tau \in Int, NEW P, Faring(c, n, x, tau, P),
           c.me = Me, NEW entities, IsRoom(entities), AllFit(entities, n, x, P)
    PROVE  LET d == Sampled(c, entities)
           IN  /\ Faring(d, n, x, tau, P) /\ Near(d)
               /\ d.time = c.time /\ d.joined = c.joined /\ d.me = c.me
<1>0. Len(entities) \in Nat
  BY DEF IsRoom
<1>1. Len(entities) = 4
  BY DEF IsRoom
<1>2. PICK f : /\ f[0] = c /\ Sampled(c, entities) = f[Len(entities)]
               /\ \A i \in 1..Len(entities) : f[i] = SampledEntity(f[i - 1], entities[i])
  BY <1>0, SampledRun
<1>3. /\ f[0] = c /\ Sampled(c, entities) = f[4]
      /\ f[1] = SampledEntity(f[0], entities[1]) /\ f[2] = SampledEntity(f[1], entities[2])
      /\ f[3] = SampledEntity(f[2], entities[3]) /\ f[4] = SampledEntity(f[3], entities[4])
  BY <1>1, <1>2
<1> DEFINE Other(e) == /\ e.netId \in Nat /\ e.netId # Me /\ e.pos \in Int
                       /\ e.netId = n => Fits(e.pos, x, P)
<1>4. /\ entities[1].netId = Me /\ entities[1].pos \in Int
      /\ Other(entities[2]) /\ Other(entities[3]) /\ Other(entities[4])
  <2>1. \A i \in 2..4 : entities[i].netId \in Nat \ {Me} /\ entities[i].pos \in Int /\ i \in 1..4
    BY DEF IsRoom
  <2>2. \A i \in 2..4 : Other(entities[i])
    BY <2>1 DEF AllFit
  <2> HIDE DEF Other
  <2>. QED  BY <2>2 DEF IsRoom
<1> DEFINE Good(d) == /\ Faring(d, n, x, tau, P) /\ Near(d)
                      /\ d.time = c.time /\ d.joined = c.joined /\ d.me = c.me
<1>5. Good(f[1])
  BY <1>3, <1>4, OwnSampled
<1>6. ASSUME NEW d, Good(d), NEW e, Other(e)
      PROVE  Good(SampledEntity(d, e))
  <2>1. Faring(SampledEntity(d, e), n, x, tau, P) /\ AlikeAside(d, SampledEntity(d, e))
    BY <1>6, OtherSampled
  <2>. QED  BY <1>6, <2>1 DEF AlikeAside, Near
<1> HIDE DEF Good, Other
<1>7. Good(f[2])
  BY <1>3, <1>4, <1>5, <1>6
<1>8. Good(f[3])
  BY <1>3, <1>4, <1>6, <1>7
<1>9. Good(f[4])
  BY <1>3, <1>4, <1>6, <1>8
<1>. QED  BY <1>3, <1>9 DEF Good

\* One frame of the server, as expected.
Takes(c, d, n, x, tau, P, type) ==
    /\ Faring(d, n, x, tau, P) /\ Listens(d) /\ d.time = c.time
    /\ c.joined \/ type = "ServerWelcome" => d.joined
    /\ type = "Snapshot" => IF c.joined THEN Near(d) ELSE d = c
    /\ type \notin {"Snapshot", "Explosion"} => d.pos = c.pos /\ d.own = c.own

LEMMA AppliedInv ==
    ASSUME NEW c, NEW n, NEW x \in Int, NEW tau \in Int, NEW P, Faring(c, n, x, tau, P),
           Listens(c), NEW frame, Expected(Decode(frame)),
           \A p \in Told(frame, n) : Fits(p, x, P)
    PROVE  Takes(c, Applied(c, frame), n, x, tau, P, Decode(frame).type)
<1> DEFINE m == Decode(frame)
           d == Applied(c, frame)
<1>1. c \in NetType /\ c.pos \in Int /\ c.joined \in BOOLEAN
  BY NetParts DEF Faring
<1>2. CASE m = Welcome
  <2>1. m.type = "ServerWelcome" /\ m.playerNetId = Me
    BY <1>2 DEF Welcome
  <2>2. d = [c EXCEPT !.joined = TRUE, !.me = Me]
    BY <2>1 DEF Applied
  <2> HIDE DEF d, m
  <2>0. Me \in Nat
    BY DEF Me
  <2>3. /\ d \in NetType /\ d.pos = c.pos /\ d.own = c.own /\ d.reps = c.reps /\ d.time = c.time
        /\ d.joined = TRUE /\ d.me = Me
    BY <1>1, <2>0, <2>2 DEF NetType
  <2>4. Faring(d, n, x, tau, P)
    BY <2>3 DEF Faring
  <2>6. Listens(d)
    BY <2>3 DEF Listens
  <2>7. Takes(c, d, n, x, tau, P, m.type)
    BY <2>1, <2>3, <2>4, <2>6 DEF Takes
  <2>. QED  BY <2>7 DEF d, m
<1>3. ASSUME d = c, m.type = "Snapshot" => ~c.joined, m.type # "ServerWelcome"
      PROVE  Takes(c, d, n, x, tau, P, m.type)
  <2> HIDE DEF d, m
  <2>. QED  BY <1>1, <1>3 DEF Takes
<1>4. CASE m.type = "Snapshot" /\ IsRoom(m.entities) /\ c.joined
  <2>1. d = Sampled(c, m.entities)
    BY <1>4 DEF Applied
  <2>2. AllFit(m.entities, n, x, P)
    <3>1. \A i \in 1..4 : m.entities[i].netId = n => m.entities[i].pos \in Told(frame, n)
      BY <1>4 DEF Told, IsRoom
    <3> HIDE DEF m
    <3>. QED  BY <3>1 DEF AllFit
  <2>3. c.me = Me
    BY <1>4 DEF Listens
  <2> DEFINE entities == m.entities
  <2>0. IsRoom(entities) /\ AllFit(entities, n, x, P) /\ d = Sampled(c, entities)
    BY <1>4, <2>1, <2>2
  <2> HIDE DEF d, m, entities
  <2>4. Faring(d, n, x, tau, P) /\ Near(d) /\ d.time = c.time /\ d.joined = c.joined /\ d.me = c.me
    BY <2>0, <2>3, SnapshotTaken
  <2>5. Listens(d)
    BY <2>3, <2>4 DEF Listens
  <2>6. Takes(c, d, n, x, tau, P, m.type)
    BY <1>4, <2>4, <2>5 DEF Takes
  <2>. QED  BY <2>6 DEF d, m
<1>5. CASE m.type = "Snapshot" /\ ~c.joined
  <2>1. d = c
    BY <1>5 DEF Applied
  <2>. QED  BY <1>3, <1>5, <2>1
<1>6. CASE m.type = "Explosion" /\ m.speed \in Int /\ c.joined
  <2> DEFINE v == c.pos + m.speed
  <2>1. d = [c EXCEPT !.pos = v]
    BY <1>1, <1>6 DEF Applied, NetType
  <2>2. v \in Int
    BY <1>1, <1>6
  <2> HIDE DEF d, m, v
  <2>3. /\ d \in NetType /\ d.reps = c.reps /\ d.time = c.time
        /\ d.joined = c.joined /\ d.me = c.me
    BY <1>1, <2>1, <2>2 DEF NetType
  <2>4. Faring(d, n, x, tau, P)
    BY <2>3 DEF Faring
  <2>5. Listens(d)
    BY <2>3 DEF Listens
  <2>6. Takes(c, d, n, x, tau, P, m.type)
    BY <1>6, <2>3, <2>4, <2>5 DEF Takes
  <2>. QED  BY <2>6 DEF d, m
<1>7. CASE m.type = "Explosion" /\ ~c.joined
  <2>1. d = c
    BY <1>7 DEF Applied
  <2>. QED  BY <1>3, <1>7, <2>1
<1>8. CASE /\ m.type \in {"PlayerJoin", "PlayerLeave", "SpawnEntity", "DespawnEntity"}
           /\ m.netId \in Nat \ {Me}
  <2>1. m.netId \in Nat
    BY <1>8
  <2>2. Faring(d, n, x, tau, P) /\ AlikeAside(c, d)
    <3>1. CASE m.type = "SpawnEntity"
      <4>1. d = Ensured(c, m.netId)
        BY <3>1 DEF Applied
      <4> HIDE DEF d, m
      <4>. QED  BY <2>1, <4>1, EnsuredInv
    <3>2. CASE m.type \in {"PlayerLeave", "DespawnEntity"}
      <4>1. d = RemoveRep(c, m.netId)
        BY <3>2 DEF Applied
      <4> HIDE DEF d, m
      <4>. QED  BY <2>1, <4>1, RemovedInv
    <3>3. CASE m.type = "PlayerJoin" /\ m.netId = c.me
      <4>1. d = c
        BY <3>3 DEF Applied
      <4>. QED  BY <4>1 DEF AlikeAside
    <3>4. CASE m.type = "PlayerJoin" /\ m.netId # c.me
      <4> DEFINE e == Ensured(c, m.netId)
                 names == e.names \union {m.netId}
      <4>1. Faring(e, n, x, tau, P) /\ AlikeAside(c, e)
        BY <2>1, EnsuredInv
      <4>2. e \in NetType /\ e.names \subseteq Nat
        BY <4>1, NetParts DEF Faring
      <4>3. d = [Ensured(c, m.netId) EXCEPT !.names = @ \union {m.netId}]
        BY <3>4 DEF Applied
      <4> HIDE DEF d, m, e
      <4>4. d = [e EXCEPT !.names = @ \union {m.netId}]
        BY <4>3 DEF e
      <4>5. d = [e EXCEPT !.names = names]
        BY <4>2, <4>4 DEF NetType
      <4>6. names \in SUBSET Nat
        BY <2>1, <4>2
      <4> HIDE DEF names
      <4>7. Faring([e EXCEPT !.names = names], n, x, tau, P)
            /\ AlikeAside(e, [e EXCEPT !.names = names])
        BY <4>1, <4>6, WithNames
      <4>. QED  BY <4>1, <4>5, <4>7 DEF AlikeAside
    <3>. QED  BY <1>8, <3>1, <3>2, <3>3, <3>4
  <2> HIDE DEF d, m
  <2>3. Listens(d)
    BY <2>2 DEF Listens, AlikeAside
  <2>4. Takes(c, d, n, x, tau, P, m.type)
    BY <1>8, <2>2, <2>3 DEF Takes, AlikeAside
  <2>. QED  BY <2>4 DEF d, m
<1>. QED  BY <1>1, <1>2, <1>4, <1>5, <1>6, <1>7, <1>8 DEF Expected

\* Frames that have come and not been taken yet.
Waiting(frames) == \A i \in 1..Len(frames) : Expected(Decode(frames[i]))

\* What the frames after the i-th tell of a body.
ToCome(frames, n, i) == UNION {Told(frames[k], n) : k \in (i + 1)..Len(frames)}

\* They tell of no pose behind x or behind one they told before.
Forward(frames, n, x) ==
    \A i, j \in 1..Len(frames) : i <= j =>
        \A p \in Told(frames[i], n), q \in Told(frames[j], n) : x <= Scale * p /\ p <= q

\* Among the first k of them is the welcome, if the client has not had it.
Met(c, frames, k) ==
    c.joined \/ \E j \in 1..k : Decode(frames[j]).type = "ServerWelcome"

\* Among the first k of them the client hears of its own player, and of no blast.
Heeds(c, frames, k) ==
    /\ \E i \in 1..k : Decode(frames[i]).type = "Snapshot" /\ Met(c, frames, i)
    /\ \A i \in 1..k : Decode(frames[i]).type # "Explosion"

\* The client after the first i of them.
HeardSoFar(c, d, frames, n, x, tau, i) ==
    /\ Faring(d, n, x, tau, ToCome(frames, n, i)) /\ Listens(d) /\ d.time = c.time
    /\ Met(c, frames, i) => d.joined
    /\ Heeds(c, frames, i) => Near(d)

LEMMA HeardInv ==
    ASSUME NEW c, NEW n, NEW x \in Int, NEW tau \in Int, NEW frames, Len(frames) \in Nat,
           Faring(c, n, x, tau, ToCome(frames, n, 0)), Listens(c), Waiting(frames),
           Forward(frames, n, x)
    PROVE  LET d == Heard(c, frames)
           IN  /\ Faring(d, n, x, tau, {}) /\ Listens(d)
               /\ d.time = c.time
               /\ Heeds(c, frames, Len(frames)) => Near(d)
               /\ Len(frames) = 0 => d = c
<1>1. PICK f : /\ f[0] = c /\ Heard(c, frames) = f[Len(frames)]
               /\ \A i \in 1..Len(frames) : f[i] = Applied(f[i - 1], frames[i])
  BY HeardRun
<1> DEFINE N == Len(frames)
           Q(i) == HeardSoFar(c, f[i], frames, n, x, tau, i)
           S == {i \in Nat : i <= N => Q(i)}
<1>2. 0 \in S
  <2>1. Met(c, frames, 0) => c.joined
    BY DEF Met
  <2>2. ~Heeds(c, frames, 0)
    BY DEF Heeds
  <2>3. Q(0)
    BY <1>1, <2>1, <2>2 DEF HeardSoFar
  <2>. QED  BY <2>3
<1>3. ASSUME NEW k \in Nat, k \in S PROVE k + 1 \in S
  <2> SUFFICES ASSUME k + 1 <= N PROVE Q(k + 1)
    OBVIOUS
  <2>0. N \in Nat
    OBVIOUS
  <2> DEFINE i == k + 1
             d == f[k]
             e == f[i]
             frame == frames[i]
             type == Decode(frame).type
             P == ToCome(frames, n, k)
  <2>1. i \in 1..N /\ i - 1 = k /\ k <= N
    BY <2>0
  <2>2. Q(k)
    BY <1>3, <2>1
  <2>3. e = Applied(d, frame) /\ Expected(Decode(frame))
    BY <1>1, <2>1 DEF Waiting
  <2>4. Faring(d, n, x, tau, P) /\ Listens(d) /\ d.time = c.time
    BY <2>2 DEF HeardSoFar
  <2>5. \A p \in Told(frame, n) : Fits(p, x, P)
    <3> SUFFICES ASSUME NEW p \in Told(frame, n) PROVE Fits(p, x, P)
      OBVIOUS
    <3>1. p \in P
      BY <2>1 DEF ToCome
    <3>2. x <= Scale * p
      <4>1. i \in 1..Len(frames) /\ i <= i
        BY <2>1
      <4> HIDE DEF i
      <4>. QED  BY <4>1, Zenon DEF Forward, frame
    <3>3. ASSUME NEW q \in P PROVE p <= q
      <4>1. PICK j \in (k + 1)..Len(frames) : q \in Told(frames[j], n)
        BY <3>3 DEF ToCome
      <4>2. j \in 1..Len(frames) /\ i <= j
        BY <2>0, <4>1
      <4>. QED  BY <2>1, <4>1, <4>2 DEF Forward
    <3> HIDE DEF P
    <3>. QED  BY <3>1, <3>2, <3>3 DEF Fits
  <2>6. Takes(d, e, n, x, tau, P, type)
    <3> HIDE DEF d, e, frame, P
    <3>1. Takes(d, Applied(d, frame), n, x, tau, P, Decode(frame).type)
      BY <2>3, <2>4, <2>5, AppliedInv
    <3>. QED  BY <2>3, <3>1
  <2>7. Faring(e, n, x, tau, ToCome(frames, n, i))
    <3>1. ToCome(frames, n, i) \subseteq P
      BY <2>0 DEF ToCome
    <3>2. Faring(e, n, x, tau, P)
      BY <2>6 DEF Takes
    <3> HIDE DEF P, e, i
    <3>. QED  BY <3>1, <3>2, FewerToCome
  <2>8. Met(c, frames, k) => d.joined
    BY <2>2 DEF HeardSoFar
  <2>9. Heeds(c, frames, k) => Near(d)
    BY <2>2 DEF HeardSoFar
  <2>10. Met(c, frames, i) => Met(c, frames, k) \/ type = "ServerWelcome"
    <3> SUFFICES ASSUME NEW j \in 1..i, Decode(frames[j]).type = "ServerWelcome"
                 PROVE  Met(c, frames, k) \/ type = "ServerWelcome"
      BY DEF Met
    <3>1. j = i \/ j \in 1..k
      OBVIOUS
    <3>. QED  BY <3>1 DEF Met
  <2>11. Heeds(c, frames, i) => type # "Explosion" /\ (type = "Snapshot" \/ Heeds(c, frames, k))
    <3> SUFFICES ASSUME Heeds(c, frames, i)
                 PROVE  type # "Explosion" /\ (type = "Snapshot" \/ Heeds(c, frames, k))
      OBVIOUS
    <3>1. PICK j \in 1..i : Decode(frames[j]).type = "Snapshot" /\ Met(c, frames, j)
      BY DEF Heeds
    <3>2. \A h \in 1..i : Decode(frames[h]).type # "Explosion"
      BY DEF Heeds
    <3>3. i \in 1..i /\ \A h \in 1..k : h \in 1..i
      OBVIOUS
    <3>4. j = i \/ j \in 1..k
      OBVIOUS
    <3>. QED  BY <3>1, <3>2, <3>3, <3>4 DEF Heeds
  <2> HIDE DEF d, e, P, frame, i
  <2>12. Listens(e) /\ e.time = c.time /\ (Met(c, frames, i) => e.joined)
    BY <2>4, <2>6, <2>8, <2>10 DEF Takes
  <2>13. ASSUME Heeds(c, frames, i) PROVE Near(e)
    <3>1. CASE type = "Snapshot" /\ d.joined
      BY <2>6, <3>1 DEF Takes
    <3>2. CASE type = "Snapshot" /\ ~d.joined
      <4>1. e = d /\ ~Met(c, frames, k)
        BY <2>6, <2>8, <3>2 DEF Takes
      <4>2. ~Met(c, frames, i)
        BY <2>10, <3>2, <4>1
      <4>3. PICK j \in 1..i : Met(c, frames, j)
        BY <2>13 DEF Heeds
      <4>4. Met(c, frames, i)
        <5>1. \A h \in 1..j : h \in 1..i
          BY <4>3 DEF i
        <5>. QED  BY <4>3, <5>1 DEF Met
      <4>. QED  BY <4>2, <4>4
    <3>3. CASE type # "Snapshot"
      <4>1. type # "Explosion" /\ Near(d)
        BY <2>9, <2>11, <2>13, <3>3
      <4>. QED  BY <2>6, <3>3, <4>1 DEF Takes, Near
    <3>. QED  BY <3>1, <3>2, <3>3
  <2>. QED  BY <2>7, <2>12, <2>13 DEF HeardSoFar, e, i
<1> HIDE DEF S
<1>4. Nat \subseteq S
  BY <1>2, <1>3, Upwards
<1>5. Q(N)
  <2>1. N \in Nat /\ N <= N
    OBVIOUS
  <2>2. N \in S
    BY <1>4
  <2> HIDE DEF Q, N
  <2>. QED  BY <2>1, <2>2 DEF S
<1>6. ToCome(frames, n, N) = {}
  BY DEF ToCome
<1>7. N = 0 => f[N] = c
  BY <1>1
<1>. QED  BY <1>1, <1>5, <1>6, <1>7 DEF HeardSoFar

\* A step of NetClient, by which the player may have walked one further.
StepDone(c, d, frames, n, x) ==
    /\ Faring(d, n, x, d.time - InterpDelay, {}) /\ Listens(d)
    /\ \A m \in DOMAIN d.reps : Settled(d.reps[m], d.time - InterpDelay)
    /\ d.time = c.time + 1
    /\ Heeds(c, frames, Len(frames)) => Near(d)
    /\ Len(frames) = 0 => d.own = c.own /\ Distance(d.pos, d.own) <= Distance(c.pos, c.own) + 1

LEMMA DelayNat == InterpDelay \in Nat
  BY PageAssumption, Zenon DEF PageAssumption

\* What has become of the bodies when the step is done.
AllOnward(c, later) ==
    [c EXCEPT !.reps = [m \in DOMAIN c.reps |-> Followed(c.reps[m], later)]]

AllSettled(d, later) == \A m \in DOMAIN d.reps : Settled(d.reps[m], later)

LEMMA AllFollowed ==
    ASSUME NEW c, NEW n, NEW x \in Int, NEW tau \in Int, Faring(c, n, x, tau, {}),
           NEW later \in Int, tau <= later
    PROVE  /\ Faring(AllOnward(c, later), n, x, later, {}) /\ AlikeAside(c, AllOnward(c, later))
           /\ AllSettled(AllOnward(c, later), later)
<1> DEFINE S == DOMAIN c.reps
           r == [m \in S |-> Followed(c.reps[m], later)]
           d == [c EXCEPT !.reps = r]
<1>1. c \in NetType /\ S \in SUBSET Nat /\ \A m \in S : c.reps[m] \in RepType
  BY RepsTyped DEF Faring
<1>2. \A m \in S : r[m] \in RepType /\ Settled(r[m], later)
  BY <1>1, RepFollowed
<1>3. n \in S => RepInv(r[n], x, later, {})
  <2> SUFFICES ASSUME n \in S PROVE RepInv(Followed(c.reps[n], later), x, later, {})
    OBVIOUS
  <2>1. RepInv(c.reps[n], x, tau, {})
    BY DEF Faring
  <2>. QED  BY <1>1, <2>1, RepFollowed
<1>4. r = [m \in S |-> r[m]]
  OBVIOUS
<1>5. DOMAIN r = S
  OBVIOUS
<1> HIDE DEF r, S
<1>6. Faring(d, n, x, later, {}) /\ AlikeAside(c, d) /\ d.reps = r
  <2>1. \A k \in S : r[k] \in RepType
    BY <1>2
  <2>2. r \in [S -> RepType]
    BY <1>4, <2>1
  <2>3. r \in Replicas
    BY <1>1, <2>2, ReplicasAre
  <2>4. c \in NetType
    BY <1>1
  <2>5. d \in NetType /\ d.reps = r /\ AlikeAside(c, d)
    BY <2>3, <2>4 DEF NetType, AlikeAside
  <2> HIDE DEF d
  <2>. QED  BY <1>3, <1>5, <2>5 DEF Faring
<1> HIDE DEF d
<1>7. AllSettled(d, later)
  BY <1>2, <1>5, <1>6 DEF AllSettled
<1>8. AllOnward(c, later) = d
  BY Zenon DEF AllOnward, d, r, S
<1>. QED  BY <1>6, <1>7, <1>8

LEMMA SteppedInv ==
    ASSUME online, NEW c, NEW n, NEW x \in Int, NEW frames, Len(frames) \in Nat,
           Faring(c, n, x, c.time - InterpDelay, ToCome(frames, n, 0)), Listens(c),
           Waiting(frames), Forward(frames, n, x)
    PROVE  StepDone(c, Stepped(c, frames), frames, n, x)
<1> DEFINE tau == c.time - InterpDelay
           P == ToCome(frames, n, 0)
           p == IF "W" \in held THEN c.pos + 1 ELSE c.pos
           walked == [c EXCEPT !.pos = IF "W" \in held THEN @ + 1 ELSE @]
           clock == [walked EXCEPT !.time = @ + 1, !.hello = TRUE]
           heard == Heard(clock, frames)
           told == IF heard.joined THEN [heard EXCEPT !.seq = @ + 1] ELSE heard
           later == told.time - InterpDelay
           r == [m \in DOMAIN told.reps |-> Followed(told.reps[m], later)]
           d == [told EXCEPT !.reps = r]
<1>1. c \in NetType /\ c.pos \in Int /\ c.time \in Int /\ c.own \in Int
  BY NetParts DEF Faring
<1>2. tau \in Int /\ p \in Int
  BY <1>1, DelayNat
<1>3. walked = [c EXCEPT !.pos = p]
  BY <1>1 DEF NetType
<1> HIDE DEF p, P
<1>4. /\ walked \in NetType /\ walked.pos = p /\ walked.time = c.time /\ walked.own = c.own
      /\ walked.reps = c.reps /\ walked.joined = c.joined /\ walked.me = c.me
  BY <1>1, <1>2, <1>3 DEF NetType
<1> HIDE DEF walked
<1>5. /\ clock \in NetType /\ clock.pos = p /\ clock.time = c.time + 1 /\ clock.own = c.own
      /\ clock.reps = c.reps /\ clock.joined = c.joined /\ clock.me = c.me
  <2> DEFINE t == walked.time + 1
  <2>1. t \in Int /\ t = c.time + 1
    BY <1>1, <1>4
  <2>2. clock = [walked EXCEPT !.time = t, !.hello = TRUE]
    BY <1>4 DEF NetType
  <2> HIDE DEF t, clock, heard, told, r, d, later
  <2>3. walked \in NetType
    BY <1>4
  <2>4. clock \in NetType /\ clock.time = t /\ clock.pos = walked.pos /\ clock.own = walked.own
        /\ clock.reps = walked.reps /\ clock.joined = walked.joined /\ clock.me = walked.me
    BY <2>1, <2>2, <2>3 DEF NetType
  <2>. QED  BY <1>4, <2>1, <2>4
<1> HIDE DEF clock
<1>6. Faring(clock, n, x, tau, P) /\ Listens(clock)
  BY <1>5 DEF Faring, Listens, P
<1>7. /\ Faring(heard, n, x, tau, {}) /\ Listens(heard) /\ heard.time = clock.time
      /\ Heeds(clock, frames, Len(frames)) => Near(heard)
      /\ Len(frames) = 0 => heard = clock
  <2> HIDE DEF tau
  <2>. QED  BY <1>2, <1>6, HeardInv DEF P
<1>8. Heeds(c, frames, Len(frames)) => Heeds(clock, frames, Len(frames))
  BY <1>5 DEF Heeds, Met
<1> HIDE DEF heard
<1>9. Faring(told, n, x, tau, {}) /\ AlikeAside(heard, told)
  <2>1. heard \in NetType
    BY <1>7 DEF Faring
  <2>2. told \in NetType /\ told.reps = heard.reps /\ AlikeAside(heard, told)
    BY <2>1 DEF NetType, AlikeAside
  <2> HIDE DEF told, tau
  <2>. QED  BY <1>7, <2>2 DEF Faring
<1> HIDE DEF told
<1>10. later \in Int /\ tau <= later
  BY <1>1, <1>2, <1>5, <1>7, <1>9, DelayNat DEF AlikeAside
<1> HIDE DEF tau, later
<1>11. /\ Faring(d, n, x, later, {}) /\ AlikeAside(told, d)
       /\ \A m \in DOMAIN d.reps : Settled(d.reps[m], later)
  <2>1. AllOnward(told, later) = d
    BY DEF AllOnward
  <2>2. tau \in Int /\ Faring(told, n, x, tau, {}) /\ later \in Int /\ tau <= later
    BY <1>2, <1>9, <1>10
  <2> HIDE DEF d, told
  <2>3. /\ Faring(AllOnward(told, later), n, x, later, {})
        /\ AlikeAside(told, AllOnward(told, later))
        /\ AllSettled(AllOnward(told, later), later)
    BY <2>2, AllFollowed
  <2>. QED  BY <2>1, <2>3 DEF AllSettled
<1>12. Stepped(c, frames) = d
  <2>1. d = [told EXCEPT !.reps = [m \in DOMAIN @ |-> Followed(@[m], told.time - InterpDelay)]]
    <3>1. told \in NetType
      BY <1>9 DEF Faring
    <3>. QED  BY <3>1 DEF NetType, later
  <2>2. Stepped(c, frames) =
          [told EXCEPT !.reps = [m \in DOMAIN @ |-> Followed(@[m], told.time - InterpDelay)]]
    BY Zenon DEF Stepped, told, heard, clock, walked
  <2>. QED  BY <2>1, <2>2
<1> HIDE DEF d
<1>13. d.time = c.time + 1 /\ d.pos = heard.pos /\ d.own = heard.own
  BY <1>5, <1>7, <1>9, <1>11 DEF AlikeAside
<1>14. Listens(d) /\ (Heeds(c, frames, Len(frames)) => Near(d))
  BY <1>7, <1>8, <1>9, <1>11, <1>13 DEF AlikeAside, Listens, Near
<1>15. ASSUME Len(frames) = 0
       PROVE  d.own = c.own /\ Distance(d.pos, d.own) <= Distance(c.pos, c.own) + 1
  <2>1. d.pos = p /\ d.own = c.own
    BY <1>5, <1>7, <1>13, <1>15
  <2>2. p = c.pos \/ p = c.pos + 1
    BY DEF p
  <2>. QED  BY <1>1, <2>1, <2>2 DEF Distance
<1>16. later = d.time - InterpDelay
  BY <1>9, <1>11 DEF later, AlikeAside
<1>17. StepDone(c, d, frames, n, x)
  BY <1>11, <1>13, <1>14, <1>15, <1>16 DEF StepDone
<1>. QED  BY <1>12, <1>17

LEMMA NothingWaits ==
    /\ IsSequence(<<>>) /\ Len(<<>>) = 0 /\ DOMAIN <<>> = {}
    /\ Waiting(<<>>) /\ \A n, x : Forward(<<>>, n, x) /\ ToCome(<<>>, n, 0) = {}
<1>1. <<>> \in Seq({})
  OBVIOUS
<1>2. Waiting(<<>>) /\ \A n, x : Forward(<<>>, n, x)
  BY DEF Waiting, Forward
<1>3. \A n : ToCome(<<>>, n, 0) = {}
  BY DEF ToCome
<1>. QED  BY <1>1, <1>2, <1>3 DEF IsSequence

\* The client after the first k steps of a frame.
AdvancedSoFar(d, n, x, k) ==
    /\ d.time = net.time + k
    /\ k = 0 => d = net
    /\ k > 0 => /\ Faring(d, n, x, d.time - InterpDelay, {}) /\ Listens(d)
                /\ \A m \in DOMAIN d.reps : Settled(d.reps[m], d.time - InterpDelay)
                /\ Heeds(net, inbox, Len(inbox)) =>
                      Distance(d.pos, d.own) < HardSnapDistance + k

LEMMA AdvancedInv ==
    ASSUME online, NEW n, NEW x \in Int, Len(inbox) \in Nat,
           Faring(net, n, x, net.time - InterpDelay, ToCome(inbox, n, 0)),
           Listens(net), Waiting(inbox), Forward(inbox, n, x), NEW N \in Nat
    PROVE  AdvancedSoFar(Advanced(N), n, x, N)
<1>1. PICK f : /\ f[0] = net /\ Advanced(N) = f[N]
               /\ \A i \in 1..N : f[i] = Stepped(f[i - 1], IF i = 1 THEN inbox ELSE <<>>)
  BY AdvancedRun
<1> DEFINE Q(i) == AdvancedSoFar(f[i], n, x, i)
           S == {i \in Nat : i <= N => Q(i)}
           heeds == Heeds(net, inbox, Len(inbox))
<1>2. net.time \in Int /\ net.pos \in Int /\ net.own \in Int
  BY NetParts DEF Faring
<1>3. 0 \in S
  <2>1. Q(0)
    BY <1>1, <1>2 DEF AdvancedSoFar
  <2>. QED  BY <2>1
<1>4. ASSUME NEW k \in Nat, k \in S PROVE k + 1 \in S
  <2> SUFFICES ASSUME k + 1 <= N PROVE Q(k + 1)
    OBVIOUS
  <2> DEFINE d == f[k]
             e == f[k + 1]
  <2>1. k + 1 \in 1..N /\ (k + 1) - 1 = k /\ k <= N
    OBVIOUS
  <2>2. AdvancedSoFar(d, n, x, k)
    BY <1>4, <2>1
  <2>3. e = Stepped(d, IF k = 0 THEN inbox ELSE <<>>)
    <3>1. k + 1 = 1 <=> k = 0
      OBVIOUS
    <3>. QED  BY <1>1, <2>1, <3>1
  <2> HIDE DEF d, e, heeds
  <2>4. CASE k = 0
    <3>1. d = net /\ e = Stepped(net, inbox)
      BY <2>2, <2>3, <2>4 DEF AdvancedSoFar
    <3>2. StepDone(net, e, inbox, n, x)
      BY <3>1, SteppedInv
    <3>3. heeds => Distance(e.pos, e.own) < HardSnapDistance + 1
      <4>1. e \in NetType
        BY <3>2 DEF StepDone, Faring
      <4>2. e.pos \in Int /\ e.own \in Int
        BY <4>1, NetParts
      <4>3. Distance(e.pos, e.own) \in Int
        BY <4>2 DEF Distance
      <4>4. heeds => Near(e)
        BY <3>2 DEF StepDone, heeds
      <4>. QED  BY <4>3, <4>4, Thresholds DEF Near
    <3>4. AdvancedSoFar(e, n, x, 1)
      BY <3>2, <3>3 DEF StepDone, AdvancedSoFar, heeds
    <3>. QED  BY <2>4, <3>4 DEF e
  <2>5. CASE k # 0
    <3>1. e = Stepped(d, <<>>) /\ k > 0
      BY <2>3, <2>5
    <3>2. /\ Faring(d, n, x, d.time - InterpDelay, {}) /\ Listens(d)
          /\ heeds => Distance(d.pos, d.own) < HardSnapDistance + k
          /\ d.time = net.time + k
      BY <2>2, <3>1 DEF AdvancedSoFar, heeds
    <3>3. StepDone(d, e, <<>>, n, x)
      <4>1. Len(<<>>) = 0 /\ 0 \in Nat /\ Waiting(<<>>) /\ Forward(<<>>, n, x)
            /\ ToCome(<<>>, n, 0) = {}
        BY NothingWaits
      <4> DEFINE none == <<>>
      <4>2. Len(none) \in Nat /\ Waiting(none) /\ Forward(none, n, x) /\ e = Stepped(d, none)
            /\ Faring(d, n, x, d.time - InterpDelay, ToCome(none, n, 0))
        BY <3>1, <3>2, <4>1
      <4> HIDE DEF none
      <4>3. StepDone(d, e, none, n, x)
        BY <3>2, <4>2, SteppedInv
      <4>. QED  BY <4>3 DEF none
    <3>4. /\ Faring(e, n, x, e.time - InterpDelay, {}) /\ Listens(e) /\ e.time = d.time + 1
          /\ \A m \in DOMAIN e.reps : Settled(e.reps[m], e.time - InterpDelay)
          /\ Distance(e.pos, e.own) <= Distance(d.pos, d.own) + 1
      BY <3>3, NothingWaits DEF StepDone
    <3>5. Distance(e.pos, e.own) \in Int /\ Distance(d.pos, d.own) \in Int
      <4>1. e.pos \in Int /\ e.own \in Int /\ d.pos \in Int /\ d.own \in Int
        BY <3>2, <3>4, NetParts DEF Faring
      <4>. QED  BY <4>1 DEF Distance
    <3>6. heeds => Distance(e.pos, e.own) < HardSnapDistance + (k + 1)
      BY <3>2, <3>4, <3>5, Thresholds
    <3>7. e.time = net.time + (k + 1)
      BY <1>2, <3>2, <3>4
    <3>8. AdvancedSoFar(e, n, x, k + 1)
      BY <3>4, <3>6, <3>7 DEF AdvancedSoFar, heeds
    <3>. QED  BY <3>8 DEF e
  <2>. QED  BY <2>4, <2>5
<1> HIDE DEF S
<1>5. Nat \subseteq S
  BY <1>3, <1>4, Upwards
<1>6. Q(N)
  <2>1. N \in S /\ N <= N
    BY <1>5
  <2> HIDE DEF Q
  <2>. QED  BY <2>1 DEF S
<1>. QED  BY <1>1, <1>6

\* Without a server there is nothing to follow.
LEMMA AdvancedAlone == ASSUME ~online, NEW N \in Nat PROVE Advanced(N) = net
<1>1. PICK f : /\ f[0] = net /\ Advanced(N) = f[N]
               /\ \A i \in 1..N : f[i] = Stepped(f[i - 1], IF i = 1 THEN inbox ELSE <<>>)
  BY AdvancedRun
<1> DEFINE S == {i \in Nat : i <= N => f[i] = net}
<1>2. 0 \in S
  BY <1>1
<1>3. ASSUME NEW k \in Nat, k \in S PROVE k + 1 \in S
  <2> SUFFICES ASSUME k + 1 <= N PROVE f[k + 1] = net
    OBVIOUS
  <2>1. k + 1 \in 1..N /\ (k + 1) - 1 = k /\ f[k] = net
    BY <1>3
  <2>2. f[k + 1] = Stepped(net, IF k + 1 = 1 THEN inbox ELSE <<>>)
    BY <1>1, <2>1
  <2>3. \A frames : Stepped(net, frames) = net
    BY Zenon DEF Stepped
  <2>. QED  BY <2>2, <2>3
<1> HIDE DEF S
<1>4. Nat \subseteq S
  BY <1>2, <1>3, Upwards
<1>5. N \in S /\ N <= N
  BY <1>4
<1>. QED  BY <1>1, <1>5 DEF S

-----------------------------------------------------------------------------
(* The frames that wait are a server's, and what is held of a body explains *)
(* where it is shown.                                                       *)

FollowInv ==
    /\ accum \in Nat
    /\ IsSequence(inbox) /\ Waiting(inbox)
    /\ net \in NetType /\ Listens(net)
    /\ \A n \in DOMAIN net.reps : Settled(net.reps[n], net.time - InterpDelay)

LEMMA OthersNat == /\ Crate \in Nat /\ Pal \in Nat /\ Ball \in Nat
                   /\ Crate # Me /\ Pal # Me /\ Ball # Me
<1>1. {Pal, Ball, Crate} \subseteq Nat \ {Me}
  BY PageAssumption, Zenon DEF PageAssumption
<1>. QED  BY <1>1

LEMMA NewNetInv ==
    /\ NewNet \in NetType /\ Listens(NewNet)
    /\ \A n \in DOMAIN NewNet.reps : Settled(NewNet.reps[n], NewNet.time - InterpDelay)
<1> DEFINE c == NewNet
           r == [n \in {Crate} |-> Rep(TRUE)]
<1>1. /\ c = [time |-> 0, hello |-> FALSE, joined |-> FALSE, me |-> 0, seq |-> 0, pos |-> 0,
              own |-> 0, reps |-> r, names |-> {}]
  BY DEF NewNet
<1>2. Rep(TRUE) \in RepType /\ Rep(TRUE).buf = <<>>
  <2>1. <<>> \in Seq(SampleType) /\ 0 \in Int
    OBVIOUS
  <2>. QED  BY <2>1 DEF Rep, RepType
<1>3. r \in Replicas /\ \A n \in DOMAIN r : r[n] = Rep(TRUE)
  <2>1. {Crate} \in SUBSET Nat /\ r \in [{Crate} -> RepType]
    BY <1>2, OthersNat
  <2>. QED  BY <2>1, ReplicasAre
<1>4. \A tau : Settled(Rep(TRUE), tau)
  BY <1>2, NoSamples DEF Settled
<1> HIDE DEF r
<1>5. c \in NetType /\ c.reps = r /\ c.joined = FALSE
  <2>1. 0 \in Int /\ 0 \in Nat /\ {} \in SUBSET Nat
    OBVIOUS
  <2>. QED  BY <1>1, <1>3, <2>1 DEF NetType
<1> HIDE DEF c
<1>6. Listens(c) /\ \A n \in DOMAIN c.reps : Settled(c.reps[n], c.time - InterpDelay)
  BY <1>3, <1>4, <1>5 DEF Listens
<1>. QED  BY <1>5, <1>6 DEF c

\* A snapshot of the room has the player and the others in it.
LEMMA SnapshotIsExpected ==
    ASSUME NEW pos \in Int, NEW at \in Int
    PROVE  Expected(SnapshotOf(<<Crate, Pal, Ball>>, pos, at))
<1> DEFINE x == Entity(Me, pos)
           s == <<x>>
           w == <<Crate, Pal, Ball>>
           t == [i \in DOMAIN w |-> Entity(w[i], at)]
           e == s \o t
           m == SnapshotOf(w, pos, at)
<1>1. m.type = "Snapshot" /\ m.entities = e
  BY DEF SnapshotOf
<1>2. IsSequence(s) /\ Len(s) = 1 /\ s[1] = x
  BY OneElement
<1>3. x.netId = Me /\ x.pos = pos
  BY DEF Entity
<1>4. DOMAIN w = 1..3 /\ w[1] = Crate /\ w[2] = Pal /\ w[3] = Ball
  OBVIOUS
<1>5. t = [i \in 1..3 |-> t[i]]
      /\ \A i \in 1..3 : t[i].netId \in Nat \ {Me} /\ t[i].pos = at
  <2>1. \A i \in 1..3 : w[i] \in Nat /\ w[i] # Me
    <3> SUFFICES ASSUME NEW i \in 1..3 PROVE w[i] \in Nat /\ w[i] # Me
      OBVIOUS
    <3>1. i = 1 \/ i = 2 \/ i = 3
      OBVIOUS
    <3> HIDE DEF w
    <3>. QED  BY <1>4, <3>1, OthersNat
  <2>2. \A i \in 1..3 : t[i] = Entity(w[i], at)
    BY <1>4
  <2>3. t = [i \in 1..3 |-> t[i]]
    BY <1>4
  <2> HIDE DEF w, t
  <2>. QED  BY <2>1, <2>2, <2>3 DEF Entity
<1> HIDE DEF x, s, w, t, m
<1>6. IsSequence(t) /\ Len(t) = 3
  BY <1>5, SequenceFrom, 3 \in Nat
<1>7. IsJoin(e, s, t)
  BY <1>2, <1>6, Joined
<1> HIDE DEF e
<1>8. IsSequence(e) /\ Len(e) = 4 /\ e[1] = x /\ \A k \in 1..3 : e[1 + k] = t[k]
  BY <1>2, <1>6, <1>7 DEF IsJoin
<1>9. \A i \in 2..4 : e[i].netId \in Nat \ {Me} /\ e[i].pos = at
  <2> SUFFICES ASSUME NEW i \in 2..4 PROVE e[i].netId \in Nat \ {Me} /\ e[i].pos = at
    OBVIOUS
  <2>1. i - 1 \in 1..3 /\ 1 + (i - 1) = i
    OBVIOUS
  <2>2. e[i] = t[i - 1]
    BY <1>8, <2>1
  <2>. QED  BY <1>5, <2>1, <2>2
<1>10. DOMAIN e = 1..4
  BY <1>8, SequenceShape
<1>11. IsRoom(e)
  BY <1>3, <1>8, <1>9, <1>10 DEF IsRoom
<1>12. Expected(m)
  BY <1>1, <1>11 DEF Expected
<1>. QED  BY <1>12 DEF m, w

LEMMA AllAreExpected ==
    ASSUME NEW m \in Snapshots \union News \union {Welcome}
    PROVE  Expected(m)
<1>1. CASE m \in Snapshots
  <2>1. PICK pos \in {SnapDistance + 1, 2 * HardSnapDistance}, at \in 0..sent :
               m = SnapshotOf(<<Crate, Pal, Ball>>, pos, at)
    BY <1>1 DEF Snapshots
  <2>2. pos \in Int /\ at \in Int
    BY Thresholds
  <2>. QED  BY <2>1, <2>2, SnapshotIsExpected
<1>2. CASE m = Lifecycle("PlayerLeave", Pal) \/ m = Lifecycle("DespawnEntity", Ball)
  <2>1. m.type \in {"PlayerLeave", "DespawnEntity"} /\ m.netId \in {Pal, Ball}
    BY <1>2 DEF Lifecycle
  <2>. QED  BY <2>1, OthersNat DEF Expected
<1>3. CASE m = [type |-> "PlayerJoin", netId |-> Pal, name |-> "pal"]
  <2>1. m.type = "PlayerJoin" /\ m.netId = Pal
    BY <1>3
  <2>. QED  BY <2>1, OthersNat DEF Expected
<1>4. CASE m = [type |-> "SpawnEntity", netId |-> Ball, kind |-> 0, scale |-> 1, color |-> 0]
  <2>1. m.type = "SpawnEntity" /\ m.netId = Ball
    BY <1>4
  <2>. QED  BY <2>1, OthersNat DEF Expected
<1>5. CASE m = [type |-> "Explosion", pos |-> 0, radius |-> 6, speed |-> HardSnapDistance,
                upBias |-> 0, spin |-> 8]
  <2>1. m.type = "Explosion" /\ m.speed = HardSnapDistance /\ HardSnapDistance \in Int
    BY <1>5, Thresholds
  <2>. QED  BY <2>1 DEF Expected
<1>6. CASE m = Welcome
  BY <1>6 DEF Expected
<1>. QED  BY <1>1, <1>2, <1>3, <1>4, <1>5, <1>6 DEF News

LEMMA FollowDeliver ==
    ASSUME FollowInv, Deliver
    PROVE  FollowInv' /\ net' = net /\ inbox' # <<>>
<1>1. PICK m \in Snapshots \union News \union {Welcome} :
             Message(m) /\ inbox' = Append(inbox, Encode(m))
  BY DeliverSends
<1>2. UNCHANGED <<accum, net>>
  BY Zenon DEF Deliver
<1> DEFINE f == Encode(m)
           n == Len(inbox)
<1>3. Decode(f) = m
  BY <1>1, DecodeInvertsEncode
<1>4. Expected(Decode(f))
  BY <1>3, AllAreExpected
<1> HIDE DEF f
<1>5. PICK T : inbox \in Seq(T)
  BY DEF FollowInv, IsSequence
<1> DEFINE U == T \union {f}
<1>6. inbox \in Seq(U) /\ f \in U
  BY <1>5, WiderSequence, T \subseteq U
<1> HIDE DEF U
<1>7. /\ inbox' \in Seq(U) /\ n \in Nat /\ Len(inbox') = n + 1 /\ inbox'[n + 1] = f
      /\ \A i \in 1..n : inbox'[i] = inbox[i]
  BY <1>1, <1>6 DEF f
<1>8. \A i \in 1..n : Expected(Decode(inbox[i]))
  BY DEF FollowInv, Waiting
<1> HIDE DEF n
<1>9. Waiting(inbox')
  <2> SUFFICES ASSUME NEW i \in 1..(n + 1) PROVE Expected(Decode(inbox'[i]))
    BY <1>7 DEF Waiting
  <2>1. i = n + 1 \/ i \in 1..n
    BY <1>7
  <2>. QED  BY <1>4, <1>7, <1>8, <2>1
<1>10. IsSequence(inbox')
  BY <1>7 DEF IsSequence
<1>11. inbox' # <<>>
  BY <1>7
<1>. QED  BY <1>2, <1>9, <1>10, <1>11 DEF FollowInv

\* Where nothing is taken, nothing moves.
LEMMA FollowIdle ==
    ASSUME FollowInv, net' = net, inbox' = inbox \/ inbox' # <<>>
    PROVE  NeverShownBack /\ StaysNear
<1>1. NeverShownBack
  <2> SUFFICES ASSUME NEW n \in DOMAIN net.reps PROVE ~(net.reps[n].shown < net.reps[n].shown)
    BY DEF NeverShownBack
  <2>1. net.reps[n].shown \in Int
    BY RepsTyped DEF FollowInv, RepType
  <2>. QED  BY <2>1
<1>2. StaysNear
  <2> SUFFICES ASSUME inbox' = <<>>, HearsOfItself PROVE FALSE
    BY Zenon DEF StaysNear
  <2>1. inbox = <<>>
    OBVIOUS
  <2>. QED  BY <2>1, NothingWaits DEF HearsOfItself
<1>. QED  BY <1>1, <1>2

LEMMA StepsNat ==
    ASSUME accum \in Nat, NEW dt \in Nat
    PROVE  StepsFor(dt) \in Nat /\ LeftOver(dt) \in Nat
<1>1. StepTime \in Nat /\ MaxAccum \in Nat
  <2>1. {StepTime, MaxAccum, InterpDelay, MaxSamples, MaxFrames, MaxTime} \subseteq Nat
    BY PageAssumption, Zenon DEF PageAssumption
  <2>. QED  BY <2>1
<1>2. StepTime > 0
  BY PageAssumption, Zenon DEF PageAssumption
<1> DEFINE total == IF accum + dt > MaxAccum THEN MaxAccum ELSE accum + dt
<1>3. total \in Nat
  BY <1>1
<1>4. StepsFor(dt) = total \div StepTime /\ LeftOver(dt) = total % StepTime
  BY DEF StepsFor, LeftOver
<1> HIDE DEF total
<1>. QED  BY <1>1, <1>2, <1>3, <1>4

\* What the client holds of a body, for the whole of a frame.
LEMMA FaresOnward ==
    ASSUME FollowInv, NEW n \in DOMAIN net.reps, Onward(n)
    PROVE  LET x == net.reps[n].shown
           IN  /\ x \in Int /\ Forward(inbox, n, x)
               /\ Faring(net, n, x, net.time - InterpDelay, ToCome(inbox, n, 0))
<1> DEFINE rep == net.reps[n]
           x == rep.shown
           P == ToCome(inbox, n, 0)
           tau == net.time - InterpDelay
<1>1. rep \in RepType /\ rep.buf \in Seq(SampleType) /\ x \in Int /\ net \in NetType
  BY RepsTyped DEF FollowInv, RepType
<1>2. DOMAIN rep.buf = 1..Len(rep.buf) /\ DOMAIN inbox = 1..Len(inbox)
  BY <1>1, SequenceShape DEF FollowInv
<1>3. Ordered(rep.buf)
  BY <1>2, Zenon DEF Onward, Ordered
<1>4. Settled(rep, tau)
  BY DEF FollowInv
<1>5. Forward(inbox, n, x)
  <2> SUFFICES ASSUME NEW i \in 1..Len(inbox), NEW j \in 1..Len(inbox), i <= j,
                      NEW p \in Told(inbox[i], n), NEW q \in Told(inbox[j], n)
               PROVE  x <= Scale * p /\ p <= q
    BY DEF Forward
  <2>. QED  BY <1>2, Zenon DEF Onward
<1>6. Below(rep.buf, P)
  <2> SUFFICES ASSUME NEW j \in 1..Len(rep.buf), NEW p \in P PROVE rep.buf[j].pos <= p
    BY DEF Below
  <2>1. PICK i \in (0 + 1)..Len(inbox) : p \in Told(inbox[i], n)
    BY DEF ToCome
  <2>2. i \in 1..Len(inbox)
    BY <2>1
  <2>. QED  BY <1>2, <2>1, <2>2, Zenon DEF Onward
<1> HIDE DEF rep, P, tau
<1>7. x <= x
  BY <1>1
<1>8. RepInv(rep, x, tau, P)
  BY <1>1, <1>3, <1>4, <1>6, <1>7 DEF RepInv, Settled
<1>. QED  BY <1>1, <1>5, <1>8 DEF Faring, rep, P, tau

\* No body has the number -1: what is said of it holds of every client.
LEMMA FaresAnyway ==
    ASSUME FollowInv
    PROVE  /\ Forward(inbox, -1, 0)
           /\ Faring(net, -1, 0, net.time - InterpDelay, ToCome(inbox, -1, 0))
<1>1. \A i \in 1..Len(inbox) : Told(inbox[i], -1) = {}
  <2> SUFFICES ASSUME NEW i \in 1..Len(inbox) PROVE Told(inbox[i], -1) = {}
    OBVIOUS
  <2> DEFINE m == Decode(inbox[i])
  <2>1. Expected(m)
    BY DEF FollowInv, Waiting
  <2>2. CASE m.type # "Snapshot"
    BY <2>2 DEF Told
  <2>3. CASE m.type = "Snapshot"
    <3>1. IsRoom(m.entities)
      BY <2>1, <2>3 DEF Expected, Welcome
    <3>2. \A k \in DOMAIN m.entities : m.entities[k].netId \in Nat
      <4> HIDE DEF m
      <4>1. DOMAIN m.entities = 1..4 /\ Me \in Nat
        BY <3>1 DEF IsRoom, Me
      <4>2. \A k \in 1..4 : k = 1 \/ k \in 2..4
        OBVIOUS
      <4>. QED  BY <3>1, <4>1, <4>2 DEF IsRoom
    <3>3. \A k \in DOMAIN m.entities : m.entities[k].netId # -1
      <4> HIDE DEF m
      <4>. QED  BY <3>2
    <3>. QED  BY <2>3, <3>3, Zenon DEF Told
  <2>. QED  BY <2>2, <2>3
<1>2. Forward(inbox, -1, 0)
  BY <1>1 DEF Forward
<1>3. -1 \notin DOMAIN net.reps
  BY RepsTyped DEF FollowInv
<1>. QED  BY <1>2, <1>3 DEF Faring, FollowInv

LEMMA FollowFrame ==
    ASSUME FollowInv, NEW dt \in Nat, Frame(dt)
    PROVE  FollowInv' /\ NeverShownBack /\ StaysNear
<1> DEFINE N == StepsFor(dt)
<1>1. UNCHANGED online
  BY Zenon DEF Frame
<1>2. \/ UNCHANGED <<accum, inbox, net>>
      \/ /\ accum' = LeftOver(dt) /\ net' = Advanced(N)
         /\ inbox' = IF online /\ N > 0 THEN <<>> ELSE inbox
  BY Zenon DEF Frame
<1>3. N \in Nat /\ LeftOver(dt) \in Nat
  BY StepsNat DEF FollowInv
<1>4. CASE UNCHANGED <<accum, inbox, net>>
  <2>1. FollowInv'
    BY <1>1, <1>4 DEF FollowInv
  <2>. QED  BY <1>4, <2>1, FollowIdle
<1>5. CASE ~UNCHANGED <<accum, inbox, net>> /\ (~online \/ N = 0)
  <2>0. accum' \in Nat /\ inbox' = inbox /\ net' = Advanced(N)
    BY <1>2, <1>3, <1>5
  <2> HIDE DEF N
  <2>1. net' = net
    <3>1. CASE ~online
      BY <1>3, <2>0, <3>1, AdvancedAlone
    <3>2. CASE N = 0
      <4>1. PICK f : f[0] = net /\ Advanced(N) = f[N]
        BY <1>3, AdvancedRun
      <4>. QED  BY <2>0, <3>2, <4>1
    <3>. QED  BY <1>5, <3>1, <3>2
  <2>2. FollowInv'
    BY <1>1, <2>0, <2>1 DEF FollowInv
  <2>. QED  BY <2>0, <2>1, <2>2, FollowIdle
<1>6. CASE ~UNCHANGED <<accum, inbox, net>> /\ online /\ N > 0
  <2> DEFINE d == Advanced(N)
  <2>1. accum' \in Nat /\ inbox' = <<>> /\ net' = d
    BY <1>2, <1>3, <1>6
  <2>2. Len(inbox) \in Nat /\ DOMAIN inbox = 1..Len(inbox) /\ Listens(net) /\ Waiting(inbox)
        /\ net \in NetType
    BY SequenceShape DEF FollowInv
  <2> HIDE DEF N, d
  <2>3. AdvancedSoFar(d, -1, 0, N)
    <3> DEFINE x == 0
               n == -1
    <3>1. x \in Int /\ Forward(inbox, n, x)
          /\ Faring(net, n, x, net.time - InterpDelay, ToCome(inbox, n, 0))
      BY FaresAnyway
    <3> HIDE DEF x, n
    <3>2. AdvancedSoFar(d, n, x, N)
      BY <1>3, <1>6, <2>2, <3>1, AdvancedInv DEF d
    <3>. QED  BY <3>2 DEF x, n
  <2>4. /\ d.time = net.time + N
        /\ d \in NetType /\ Listens(d)
        /\ \A m \in DOMAIN d.reps : Settled(d.reps[m], d.time - InterpDelay)
        /\ Heeds(net, inbox, Len(inbox)) => Distance(d.pos, d.own) < HardSnapDistance + N
    BY <1>6, <2>3 DEF AdvancedSoFar, Faring
  <2>5. FollowInv'
    <3>1. IsSequence(inbox') /\ Waiting(inbox')
      BY <2>1, NothingWaits
    <3>. QED  BY <2>1, <2>4, <3>1 DEF FollowInv
  <2>6. NeverShownBack
    <3> SUFFICES ASSUME NEW n \in DOMAIN net.reps \intersect DOMAIN d.reps, d.reps[n].placed,
                        Onward(n)
                 PROVE  ~(d.reps[n].shown < net.reps[n].shown)
      BY <2>1, Zenon DEF NeverShownBack
    <3> DEFINE x == net.reps[n].shown
    <3>1. x \in Int /\ Forward(inbox, n, x)
          /\ Faring(net, n, x, net.time - InterpDelay, ToCome(inbox, n, 0))
      BY FaresOnward
    <3> HIDE DEF x
    <3>2. AdvancedSoFar(d, n, x, N)
      BY <1>3, <1>6, <2>2, <3>1, AdvancedInv DEF d
    <3>3. Faring(d, n, x, d.time - InterpDelay, {})
      BY <1>6, <3>2 DEF AdvancedSoFar
    <3>4. x <= d.reps[n].shown /\ d.reps[n].shown \in Int
      BY <3>3 DEF Faring, RepInv, RepType
    <3>. QED  BY <3>1, <3>4 DEF x
  <2>7. StaysNear
    <3> SUFFICES ASSUME HearsOfItself, ~Hears("Explosion")
                 PROVE  Distance(d.pos, d.own) < HardSnapDistance + d.time - net.time
      BY <2>1, Zenon DEF StaysNear
    <3>1. Heeds(net, inbox, Len(inbox))
      <4>1. PICK i \in DOMAIN inbox :
                   Waits("Snapshot", i) /\ (net.joined \/ \E j \in 1..i : Waits("ServerWelcome", j))
        BY DEF HearsOfItself
      <4>2. Decode(inbox[i]).type = "Snapshot" /\ Met(net, inbox, i)
        BY <4>1 DEF Waits, Met
      <4>3. \A j \in 1..Len(inbox) : Decode(inbox[j]).type # "Explosion"
        BY <2>2 DEF Hears, Waits
      <4>. QED  BY <2>2, <4>1, <4>2, <4>3 DEF Heeds
    <3>2. d.time \in Int /\ net.time \in Int
      BY <2>2, <2>4, NetParts
    <3>3. HardSnapDistance + d.time - net.time = HardSnapDistance + N
      BY <1>3, <2>4, <3>2, Thresholds
    <3>. QED  BY <2>4, <3>1, <3>3
  <2>. QED  BY <2>5, <2>6, <2>7
<1>. QED  BY <1>3, <1>4, <1>5, <1>6

LEMMA FollowStep ==
    ASSUME FollowInv, [Next]_vars
    PROVE  FollowInv' /\ (sent' # 0 => NeverShownBack /\ StaysNear)
<1>1. ASSUME UNCHANGED <<online, accum, inbox, net, sent>>
      PROVE  FollowInv' /\ (sent' # 0 => NeverShownBack /\ StaysNear)
  <2>1. FollowInv'
    BY <1>1 DEF FollowInv
  <2>. QED  BY <1>1, <2>1, FollowIdle
<1>2. CASE \E k \in Keys : KeyDown(k) \/ KeyUp(k)
  <2>1. UNCHANGED <<online, accum, inbox, net, sent>>
    BY <1>2 DEF KeyDown, KeyUp, Input
  <2>. QED  BY <1>1, <2>1
<1>3. CASE (\E row \in 0..Len(Rows) : PointerMoves(row)) \/ Button
  <2>1. UNCHANGED <<online, accum, inbox, net, sent>>
    BY <1>3 DEF PointerMoves, Button, Input
  <2>. QED  BY <1>1, <2>1
<1>4. CASE LockLost
  <2>1. UNCHANGED <<online, accum, inbox, net, sent>>
    BY <1>4 DEF LockLost
  <2>. QED  BY <1>1, <2>1
<1>5. CASE Reload
  <2>1. accum' = 0 /\ inbox' = <<>> /\ net' = NewNet /\ sent' = 0 /\ online' = online
    BY <1>5 DEF Reload
  <2>3. FollowInv'
    BY <2>1, NewNetInv, NothingWaits DEF FollowInv
  <2>. QED  BY <2>1, <2>3
<1>6. CASE Deliver
  <2>1. FollowInv' /\ net' = net /\ inbox' # <<>>
    BY <1>6, FollowDeliver
  <2>. QED  BY <2>1, FollowIdle
<1>7. ASSUME NEW dt \in Deltas, Frame(dt)
      PROVE  FollowInv' /\ (sent' # 0 => NeverShownBack /\ StaysNear)
  <2>1. Deltas \subseteq Nat
    BY PageAssumption, Zenon DEF PageAssumption
  <2>2. dt \in Nat
    BY <2>1
  <2>. QED  BY <1>7, <2>2, FollowFrame
<1>8. CASE UNCHANGED vars
  <2>1. UNCHANGED <<online, accum, inbox, net, sent>>
    BY <1>8 DEF vars
  <2>. QED  BY <1>1, <2>1
<1>. QED  BY <1>2, <1>3, <1>4, <1>5, <1>6, <1>7, <1>8, Zenon DEF Next

\* A body that has only gone forward in what is held and heard of it is never shown further
\* back, however late and in whatever bulk and order the server's frames come, and a client
\* that hears of its own player and of no blast has it within the hard threshold, plus what
\* it walks meanwhile (processIncoming, updateReplicated, applyLocalReconcile;
\* ServerIsFollowed), for any number of frames, samples and steps.
THEOREM ServerStaysFollowed == Spec => ServerIsFollowed
<1>1. Init => FollowInv
  <2> SUFFICES ASSUME Init PROVE FollowInv
    OBVIOUS
  <2>1. accum = 0 /\ inbox = <<>> /\ net = NewNet
    BY DEF Init
  <2>. QED  BY <2>1, NewNetInv, NothingWaits DEF FollowInv
<1>2. FollowInv /\ [Next]_vars
        => FollowInv' /\ [sent' # 0 => NeverShownBack /\ StaysNear]_vars
  BY FollowStep
<1>. QED  BY <1>1, <1>2, PTL DEF Spec, ServerIsFollowed
=============================================================================
