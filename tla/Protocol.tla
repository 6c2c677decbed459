------------------------------ MODULE Protocol ------------------------------
(***************************************************************************)
(* The wire format (net/Protocol.hpp, Protocol.cpp, ByteIO.hpp).           *)
(*                                                                         *)
(* A message is a record with its type; a frame is its tag and the fields  *)
(* of its body, each with the kind the writer gave it.  A frame may be cut *)
(* short after any field.  A field read as another kind than it was        *)
(* written is garbage, and so is all that follows: it counts as no message.*)
(* Operators whose name ends in Fault are seeded bugs.                     *)
(***************************************************************************)
EXTENDS Integers, Sequences, SequencesExt

kProtocolVersion == 6
None == [type |-> "None"]

MsgType == <<"ClientHello", "ServerWelcome", "InputCommand", "Snapshot", "PlayerJoin",
             "PlayerLeave", "SpawnEntity", "DespawnEntity", "Explosion">>

\* writeBody: kind and name of each field, in order; of a snapshot, its head.
Writes == [
    ClientHello   |-> << <<"u16", "protocolVersion">>, <<"str", "name">> >>,
    ServerWelcome |-> << <<"u32", "playerNetId">>, <<"u32", "sceneId">>, <<"u16", "tickRate">> >>,
    InputCommand  |-> << <<"u32", "sequence">>, <<"u64", "keys">>, <<"f32", "lookYaw">>,
                         <<"f32", "lookPitch">>, <<"f32", "dt">> >>,
    Snapshot      |-> << <<"u32", "serverTick">>, <<"u32", "ackSeq">> >>,
    PlayerJoin    |-> << <<"u32", "netId">>, <<"str", "name">> >>,
    PlayerLeave   |-> << <<"u32", "netId">> >>,
    SpawnEntity   |-> << <<"u32", "netId">>, <<"u8", "kind">>, <<"vec3", "scale">>,
                         <<"vec4", "color">> >>,
    DespawnEntity |-> << <<"u32", "netId">> >>,
    Explosion     |-> << <<"vec3", "pos">>, <<"f32", "radius">>, <<"f32", "speed">>,
                         <<"f32", "upBias">>, <<"f32", "spin">> >> ]

WritesEntity == << <<"u32", "netId">>, <<"vec3", "pos">>, <<"quat", "rot">>, <<"vec3", "vel">> >>

Written(layout, m) == [i \in DOMAIN layout |-> <<layout[i][1], m[layout[i][2]]>>]

\* The entities of a snapshot, one after the other.
WrittenEntities(entities) ==
    LET n == Len(WritesEntity)
    IN  [k \in 1..(Len(entities) * n) |->
            Written(WritesEntity, entities[((k - 1) \div n) + 1])[((k - 1) % n) + 1]]

Encode(m) ==
    [tag |-> CHOOSE t \in DOMAIN MsgType : MsgType[t] = m.type,
     fields |-> Written(Writes[m.type], m) \o
        IF m.type # "Snapshot" THEN <<>>
        ELSE << <<"u16", Len(m.entities) % 65536>> >> \o WrittenEntities(m.entities)]

\* decode: the same by the reader's own account of the fields.
Reads == [
    ClientHello   |-> << <<"u16", "protocolVersion">>, <<"str", "name">> >>,
    ServerWelcome |-> << <<"u32", "playerNetId">>, <<"u32", "sceneId">>, <<"u16", "tickRate">> >>,
    InputCommand  |-> << <<"u32", "sequence">>, <<"u64", "keys">>, <<"f32", "lookYaw">>,
                         <<"f32", "lookPitch">>, <<"f32", "dt">> >>,
    Snapshot      |-> << <<"u32", "serverTick">>, <<"u32", "ackSeq">>, <<"u16", "count">> >>,
    PlayerJoin    |-> << <<"u32", "netId">>, <<"str", "name">> >>,
    PlayerLeave   |-> << <<"u32", "netId">> >>,
    SpawnEntity   |-> << <<"u32", "netId">>, <<"u8", "kind">>, <<"vec3", "scale">>,
                         <<"vec4", "color">> >>,
    DespawnEntity |-> << <<"u32", "netId">> >>,
    Explosion     |-> << <<"vec3", "pos">>, <<"f32", "radius">>, <<"f32", "speed">>,
                         <<"f32", "upBias">>, <<"f32", "spin">> >> ]

ReadsEntityFault == << <<"u32", "netId">>, <<"vec3", "vel">>, <<"quat", "rot">>, <<"vec3", "pos">> >>
ReadsEntity == << <<"u32", "netId">>, <<"vec3", "pos">>, <<"quat", "rot">>, <<"vec3", "vel">> >>

\* ByteReader: whether the fields from `at` on can be read as the layout, and as what.
Readable(layout, fields, at) ==
    /\ Len(fields) >= at + Len(layout)
    /\ \A i \in DOMAIN layout : fields[at + i][1] = layout[i][1]
Taken(layout, fields, at) ==
    [name \in {layout[i][2] : i \in DOMAIN layout} |->
        fields[at + (CHOOSE i \in DOMAIN layout : layout[i][2] = name)][2]]

ReadSnapshot(fields) ==
    LET head == Taken(Reads["Snapshot"], fields, 0)
        at(i) == Len(Reads["Snapshot"]) + (i - 1) * Len(ReadsEntity)
    IN  IF \A i \in 1..head.count : Readable(ReadsEntity, fields, at(i))
        THEN [type |-> "Snapshot", serverTick |-> head.serverTick, ackSeq |-> head.ackSeq,
              entities |-> [i \in 1..head.count |-> Taken(ReadsEntity, fields, at(i))]]
        ELSE None

\* No message: an unknown tag, or a frame cut short.
Decode(frame) ==
    IF frame.tag \notin DOMAIN MsgType THEN None
    ELSE LET type == MsgType[frame.tag] IN
         IF ~Readable(Reads[type], frame.fields, 0) THEN None
         ELSE IF type = "Snapshot" THEN ReadSnapshot(frame.fields)
         ELSE LET m == Taken(Reads[type], frame.fields, 0)
              IN  [name \in DOMAIN m \union {"type"} |-> IF name = "type" THEN type ELSE m[name]]

Cut(frame, n) == [frame EXCEPT !.fields = SubSeq(@, 1, n)]

\* What the writer put on the wire the reader takes for the same message, and no frame
\* that was cut short for any message.
Understood(frame) ==
    /\ LET m == Decode(frame) IN m # None /\ Encode(m) = frame
    /\ \A n \in 0..Len(frame.fields) - 1 : Decode(Cut(frame, n)) = None
=============================================================================
