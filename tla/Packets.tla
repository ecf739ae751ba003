-------------------------------- MODULE Packets --------------------------------
(***************************************************************************)
(* The packet classes of Packets.h as far as byte order goes.  A packet    *)
(* object is its type, what it carries, and the set of its fields that are *)
(* in network order at the moment: filled in it has none, and Encode and   *)
(* Decode turn each field they name around, so that doing it twice undoes  *)
(* it.  A field is <<name>>, <<struct, member>> or <<array, index, member>>;*)
(* a Point or a RECT counts as one field.                                  *)
(***************************************************************************)
EXTENDS Integers

CONSTANTS
  MaxBlocks,  \* elements of Map::blocks (160)
  MaxObjects, \* elements of Map::objects (160)
  MaxEnemies, \* elements of Map::enemys (32)
  MaxStarts   \* elements of Map::P_Start_Loc and of the players of a frame (3)

Plain(names) == {<<f>> : f \in names}
Members(struct, names) == {struct} \X names
Elements(array, n, names) == {array} \X (0 .. n - 1) \X names

--------------------------------------------------------------------------------
\* What Encode and Decode turn around, class by class.

AssignID == Plain({"size", "player_id"})
MapUploadResponse == Plain({"size"})
StartSessionRequest == Plain({"size", "map_type"})
EndSessionRequest == Plain({"size", "player_id"})
Event == Plain({"size", "event_type"})
Disconnect == Plain({"size", "disconnected_player_id"})
PlayerJoin == Plain({"size", "joined_player_id"})

PlayerUpdate ==
  Plain({"size", "player_id", "pos", "walk_state", "jump_state",
         "frame_counter", "dir", "life"})

GameState ==
  Plain({"size"})
    \cup Elements("players", MaxStarts,
           {"pos", "life", "walk_state", "jump_state", "frame_counter", "dir"})
    \cup Elements("enemies", MaxEnemies, {"pos", "dir", "move_state"})
    \cup Members("boss", {"pos", "life", "attack_time", "dir"})

\* The loops over a Map, which run over whole arrays whatever the counts say.
WholeMap ==
  Plain({"Map_width", "Map_height", "block_count", "object_count",
         "enemy_count", "boss_count"})
    \cup Elements("blocks", MaxBlocks, {"x", "y", "Block_rt"})
    \cup Elements("objects", MaxObjects, {"x", "y", "obj_type", "Obj_rt"})
    \cup Elements("enemys", MaxEnemies,
           {"x", "y", "enemy_rect", "direction", "move_state", "on_block"})
    \cup Members("boss", {"x", "y", "boss_rect", "life", "attack_time"})
    \cup Elements("P_Start_Loc", MaxStarts, {"x", "y"})

UploadMap == Plain({"size"}) \cup WholeMap
MapInfo == Plain({"size"}) \cup WholeMap
MapState == Plain({"size"}) \cup WholeMap

Converted ==
  [CS_UPLOAD_MAP |-> UploadMap, CS_START_SESSION_REQ |-> StartSessionRequest,
   CS_PLAYER_UPDATE |-> PlayerUpdate, CS_END_SESSION_REQ |-> EndSessionRequest,
   SC_ASSIGN_ID |-> AssignID, SC_MAP_UPLOAD_RSP |-> MapUploadResponse,
   SC_MAP_INFO |-> MapInfo, SC_GAME_STATE |-> GameState, SC_EVENT |-> Event,
   SC_DISCONNECT |-> Disconnect, SC_PLAYER_JOIN |-> PlayerJoin,
   SC_MAP_STATE |-> MapState]

PacketTypes == DOMAIN Converted

SymDiff(a, b) == (a \ b) \cup (b \ a)

\* A packet object as it is filled in, and what Encode and Decode make of it.
Filled(t, content) == [type |-> t, body |-> content, net |-> {}]
Encode(p) == [p EXCEPT !.net = SymDiff(@, Converted[p.type])]
Decode(p) == [p EXCEPT !.net = SymDiff(@, Converted[p.type])]

--------------------------------------------------------------------------------
\* What the structs declare: the width of each member in bytes.  Only a member
\* of one byte reads the same on both sides without a conversion.

PlayerStateBytes ==
  [is_connected |-> 1, pos |-> 8, life |-> 4, walk_state |-> 4,
   jump_state |-> 4, frame_counter |-> 4, dir |-> 4, window_move |-> 1]
EnemyStateBytes == [is_alive |-> 1, pos |-> 8, dir |-> 4, move_state |-> 4]
BossStateBytes ==
  [is_active |-> 1, pos |-> 8, life |-> 4, attack_time |-> 4, dir |-> 4]
PlayerUpdateBytes ==
  [size |-> 2, type |-> 1, player_id |-> 2, pos |-> 8, walk_state |-> 4,
   jump_state |-> 4, frame_counter |-> 4, dir |-> 4, p_window_mv |-> 1,
   down |-> 1, life |-> 4]
BlockBytes == [x |-> 4, y |-> 4, Block_rt |-> 16]
ObjectBytes == [x |-> 4, y |-> 4, obj_type |-> 4, Obj_rt |-> 16]
EnemyBytes ==
  [x |-> 4, y |-> 4, enemy_rect |-> 16, is_alive |-> 1, direction |-> 4,
   move_state |-> 4, on_block |-> 4]
BossBytes == [x |-> 4, y |-> 4, boss_rect |-> 16, life |-> 4, attack_time |-> 4]
PointBytes == [x |-> 4, y |-> 4]
CountBytes ==
  [Map_width |-> 4, Map_height |-> 4, block_count |-> 4, object_count |-> 4,
   enemy_count |-> 4, boss_count |-> 4]

Wide(bytes) == {f \in DOMAIN bytes : bytes[f] > 1}

\* The fields of a packet that a host of the other byte order would misread.
WideHeader == Plain({"size"})
WideMap ==
  WideHeader \cup Plain(Wide(CountBytes))
    \cup Elements("blocks", MaxBlocks, Wide(BlockBytes))
    \cup Elements("objects", MaxObjects, Wide(ObjectBytes))
    \cup Elements("enemys", MaxEnemies, Wide(EnemyBytes))
    \cup Members("boss", Wide(BossBytes))
    \cup Elements("P_Start_Loc", MaxStarts, Wide(PointBytes))
WideFields(t) ==
  CASE t \in {"CS_UPLOAD_MAP", "SC_MAP_INFO", "SC_MAP_STATE"} -> WideMap
    [] t = "CS_PLAYER_UPDATE" -> Plain(Wide(PlayerUpdateBytes))
    [] t = "SC_GAME_STATE" ->
         WideHeader
           \cup Elements("players", MaxStarts, Wide(PlayerStateBytes))
           \cup Elements("enemies", MaxEnemies, Wide(EnemyStateBytes))
           \cup Members("boss", Wide(BossStateBytes))
    [] t = "SC_MAP_UPLOAD_RSP" -> WideHeader
    [] t = "SC_EVENT" -> WideHeader \cup Plain({"event_type"})
    [] t = "CS_START_SESSION_REQ" -> WideHeader \cup Plain({"map_type"})
    [] t = "SC_DISCONNECT" -> WideHeader \cup Plain({"disconnected_player_id"})
    [] t = "SC_PLAYER_JOIN" -> WideHeader \cup Plain({"joined_player_id"})
    [] t \in {"SC_ASSIGN_ID", "CS_END_SESSION_REQ"} ->
         WideHeader \cup Plain({"player_id"})

\* On the wire every wide field is in network order, and what the receiver
\* makes of the packet has every field in its own order again.
ReadsAsWritten(p) == p.net = WideFields(p.type) /\ Decode(p).net = {}
================================================================================
