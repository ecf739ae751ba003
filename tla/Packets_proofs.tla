---------------------------- MODULE Packets_proofs ----------------------------
(***************************************************************************)
(* What Packets.h owes to whoever sends a packet, for arrays of any size:  *)
(* Encode turns around exactly the fields that need it, and Decode turns   *)
(* them back.                                                              *)
(***************************************************************************)
EXTENDS Packets, TLAPS

\* The members of the structs that are wider than a byte.
LEMMA WideMembers ==
  /\ Wide(CountBytes) = {"Map_width", "Map_height", "block_count", "object_count",
                         "enemy_count", "boss_count"}
  /\ Wide(BlockBytes) = {"x", "y", "Block_rt"}
  /\ Wide(ObjectBytes) = {"x", "y", "obj_type", "Obj_rt"}
  /\ Wide(EnemyBytes) = {"x", "y", "enemy_rect", "direction", "move_state", "on_block"}
  /\ Wide(BossBytes) = {"x", "y", "boss_rect", "life", "attack_time"}
  /\ Wide(PointBytes) = {"x", "y"}
<1>1. Wide(CountBytes) = {"Map_width", "Map_height", "block_count", "object_count",
                          "enemy_count", "boss_count"}
  BY DEF Wide, CountBytes
<1>2. Wide(BlockBytes) = {"x", "y", "Block_rt"}
  BY DEF Wide, BlockBytes
<1>3. Wide(ObjectBytes) = {"x", "y", "obj_type", "Obj_rt"}
  BY DEF Wide, ObjectBytes
<1>4. Wide(EnemyBytes) = {"x", "y", "enemy_rect", "direction", "move_state", "on_block"}
  BY DEF Wide, EnemyBytes
<1>5. Wide(BossBytes) = {"x", "y", "boss_rect", "life", "attack_time"}
  BY DEF Wide, BossBytes
<1>6. Wide(PointBytes) = {"x", "y"}
  BY DEF Wide, PointBytes
<1> QED BY <1>1, <1>2, <1>3, <1>4, <1>5, <1>6

\* The same for the structs of a frame and of a report.
LEMMA WideStates ==
  /\ Wide(PlayerStateBytes) = {"pos", "life", "walk_state", "jump_state", "frame_counter", "dir"}
  /\ Wide(EnemyStateBytes) = {"pos", "dir", "move_state"}
  /\ Wide(BossStateBytes) = {"pos", "life", "attack_time", "dir"}
  /\ Wide(PlayerUpdateBytes) = {"size", "player_id", "pos", "walk_state", "jump_state",
                                "frame_counter", "dir", "life"}
<1>1. Wide(PlayerStateBytes) =
        {"pos", "life", "walk_state", "jump_state", "frame_counter", "dir"}
  BY DEF Wide, PlayerStateBytes
<1>2. Wide(EnemyStateBytes) = {"pos", "dir", "move_state"}
  BY DEF Wide, EnemyStateBytes
<1>3. Wide(BossStateBytes) = {"pos", "life", "attack_time", "dir"}
  BY DEF Wide, BossStateBytes
<1>4. Wide(PlayerUpdateBytes) = {"size", "player_id", "pos", "walk_state", "jump_state",
                                 "frame_counter", "dir", "life"}
  BY DEF Wide, PlayerUpdateBytes
<1> QED BY <1>1, <1>2, <1>3, <1>4

\* A list of plain fields may be written in two parts.
LEMMA PlainUnion ==
  ASSUME NEW A, NEW B
  PROVE  Plain(A \cup B) = Plain(A) \cup Plain(B)
BY DEF Plain

\* The loops over a map turn around every wide member of every element.
LEMMA MapConverted == Plain({"size"}) \cup WholeMap = WideMap
BY WideMembers DEF WholeMap, WideMap, WideHeader

\* Encode and Decode of every class name exactly the wide fields: a frame of 3
\* players and 32 enemies and a map of 160 blocks as well as an empty one.
THEOREM ConvertsWideFields == \A t \in PacketTypes : Converted[t] = WideFields(t)
<1> SUFFICES ASSUME NEW t \in PacketTypes PROVE Converted[t] = WideFields(t)
  OBVIOUS
<1>1. CASE t \in {"CS_UPLOAD_MAP", "SC_MAP_INFO", "SC_MAP_STATE"}
  <2>1. WideFields(t) = WideMap
    BY <1>1 DEF WideFields
  <2>2. Converted[t] = Plain({"size"}) \cup WholeMap
    BY <1>1 DEF Converted, UploadMap, MapInfo, MapState
  <2> QED BY <2>1, <2>2, MapConverted
<1>2. CASE t = "CS_PLAYER_UPDATE"
  <2>1. WideFields(t) = Plain(Wide(PlayerUpdateBytes))
    BY <1>2 DEF WideFields
  <2>2. Converted[t] = PlayerUpdate
    BY <1>2 DEF Converted
  <2> QED BY <2>1, <2>2, WideStates DEF PlayerUpdate
<1>3. CASE t = "SC_GAME_STATE"
  <2>1. WideFields(t) =
          WideHeader
            \cup Elements("players", MaxStarts, Wide(PlayerStateBytes))
            \cup Elements("enemies", MaxEnemies, Wide(EnemyStateBytes))
            \cup Members("boss", Wide(BossStateBytes))
    BY <1>3 DEF WideFields
  <2>2. Converted[t] = GameState
    BY <1>3 DEF Converted
  <2> QED BY <2>1, <2>2, WideStates DEF GameState, WideHeader
<1>4. CASE t = "SC_MAP_UPLOAD_RSP"
  BY <1>4 DEF WideFields, Converted, MapUploadResponse, WideHeader
<1>5. CASE t \in {"SC_EVENT", "CS_START_SESSION_REQ", "SC_DISCONNECT", "SC_PLAYER_JOIN",
                  "SC_ASSIGN_ID", "CS_END_SESSION_REQ"}
  <2>1. PICK name \in {"event_type", "map_type", "disconnected_player_id",
                       "joined_player_id", "player_id"} :
          WideFields(t) = WideHeader \cup Plain({name}) /\ Converted[t] = Plain({"size", name})
    <3>1. CASE t = "SC_EVENT"
      BY <3>1 DEF WideFields, Converted, Event
    <3>2. CASE t = "CS_START_SESSION_REQ"
      BY <3>2 DEF WideFields, Converted, StartSessionRequest
    <3>3. CASE t = "SC_DISCONNECT"
      BY <3>3 DEF WideFields, Converted, Disconnect
    <3>4. CASE t = "SC_PLAYER_JOIN"
      BY <3>4 DEF WideFields, Converted, PlayerJoin
    <3>5. CASE t \in {"SC_ASSIGN_ID", "CS_END_SESSION_REQ"}
      BY <3>5 DEF WideFields, Converted, AssignID, EndSessionRequest
    <3> QED BY <1>5, <3>1, <3>2, <3>3, <3>4, <3>5
  <2>2. {"size", name} = {"size"} \cup {name}
    OBVIOUS
  <2> QED BY <2>1, <2>2, PlainUnion DEF WideHeader
<1> QED BY <1>1, <1>2, <1>3, <1>4, <1>5 DEF PacketTypes, Converted

\* Turning a set of fields around twice leaves it as it was.
LEMMA TurnedTwice ==
  ASSUME NEW A, NEW B
  PROVE  SymDiff(SymDiff(A, B), B) = A
BY DEF SymDiff

\* What is sent is read as it was written, by a host of either byte order:
\* a packet filled in and encoded once has every wide field in network order,
\* and its Decode leaves none.
THEOREM EncodedOnce ==
  ASSUME NEW t \in PacketTypes, NEW content
  PROVE  ReadsAsWritten(Encode(Filled(t, content)))
<1> DEFINE p == Encode(Filled(t, content))
<1>1. p.type = t
  BY DEF Encode, Filled
<1>2. p.net = SymDiff({}, Converted[t])
  BY DEF Encode, Filled
<1>3. p.net = Converted[t]
  BY <1>2 DEF SymDiff
<1>4. Decode(p).net = SymDiff(p.net, Converted[t])
  BY <1>1 DEF Decode, Encode, Filled
<1>5. Decode(p).net = {}
  BY <1>3, <1>4 DEF SymDiff
<1> QED BY <1>1, <1>3, <1>5, ConvertsWideFields DEF ReadsAsWritten

\* The packet object that is sent, and what decoding leaves alone.
LEMMA EncodedForm ==
  ASSUME NEW t \in PacketTypes, NEW content
  PROVE  Encode(Filled(t, content)) = [type |-> t, body |-> content, net |-> Converted[t]]
<1>1. SymDiff({}, Converted[t]) = Converted[t]
  BY DEF SymDiff
<1> QED BY <1>1 DEF Encode, Filled

LEMMA DecodedForm ==
  ASSUME NEW T, NEW B, NEW N, NEW p \in [type : T, body : B, net : N]
  PROVE  Decode(p).type = p.type /\ Decode(p).body = p.body
BY DEF Decode

================================================================================
