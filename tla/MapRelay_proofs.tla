---------------------------- MODULE MapRelay_proofs ----------------------------
(***************************************************************************)
(* Theorems about MapRelay, for any number of clients, packets of a        *)
(* default session, fights and sessions: the types, the bounds of the      *)
(* loops that send to every client, and the byte order of whatever is      *)
(* under way.                                                              *)
(***************************************************************************)
EXTENDS MapRelay, Packets_proofs

\* Packets that are read as they were written.
Written == {p \in Packet : ReadsAsWritten(p)}

ServerType == server_map \in Map /\ map_type \in Nat /\ game_loop_running \in BOOLEAN

\* Where the loops of the host's handler are: one round for each client, or
\* one for each map of each client.
HostType ==
  /\ hpc \in {"recv", "respond", "maps"} /\ hidx \in Nat
  /\ hpc = "recv" => hidx = 0
  /\ hpc = "respond" => hidx < MAX_PLAYERS
  /\ hpc = "maps" => hidx < MAX_PLAYERS * MapsEach

\* The packet is held for the length of one loop, encoded.
LoopType ==
  /\ lpc \in {"none", "top", "sync", "win"} /\ lidx \in Clients
  /\ pkt \in Packet \cup {None}
  /\ lpc = "sync" => pkt \in Written

FlagType ==
  /\ StartGame \in [Clients -> BOOLEAN] /\ Mapready \in [Clients -> BOOLEAN]
  /\ maprecvEvent \in [Clients -> BOOLEAN] /\ Win \in [Clients -> BOOLEAN]

ClientType ==
  /\ m_maps \in [Clients -> Map]
  /\ rpc \in [Clients -> {"recv", "stored", "event", "granted", "map"}]
  /\ gpc \in [Clients -> {"idle", "wait", "copy", "lower"}]
  /\ window \in [Clients -> {"title", "hidden", "game"}]
  /\ map \in [Clients -> [objects : Nat, blocks : Map]]

WireType ==
  up \in [Clients -> Seq(Written)] /\ down \in [Clients -> Seq(Written)]

BoundType == presses \in Nat /\ wins \in Nat

RelayInv ==
  /\ ServerType /\ HostType /\ LoopType /\ FlagType /\ ClientType /\ WireType
  /\ BoundType

--------------------------------------------------------------------------------
LEMMA ClientsAre ==
  /\ Clients = 0 .. MAX_PLAYERS - 1 /\ 0 \in Clients /\ Host \in Clients
  /\ MAX_PLAYERS \in Nat /\ MAX_PLAYERS > 0
BY PlayersAssumption DEF Clients, Host

LEMMA MapsEachAre == MapsEach \in {1, 2, 3, 4} /\ MapsEach \in {1, DefaultMaps}
BY DefaultAssumption DEF MapsEach

\* The loop over every map of every client is behind the loop over every
\* client, and it always has a first round.
LEMMA HasRounds == ASSUME NEW n \in {1, 2, 3, 4} PROVE 0 < MAX_PLAYERS * n
BY ClientsAre

LEMMA FirstRound == 0 < MAX_PLAYERS * MapsEach
BY HasRounds, MapsEachAre

LEMMA MapTypes ==
  /\ NoMap \in Map /\ \A n \in Nat : Drawn(n) \in Map
  /\ \A mm \in Map : mm.session \in Nat
BY DEF NoMap, Drawn, Map

\* A packet, encoded once, is read as it was written.
LEMMA EncodedWritten ==
  ASSUME NEW t \in PacketTypes, NEW mm \in Map, NEW n \in Nat
  PROVE  Encode(Filled(t, Body(mm, n))) \in Written
<1> DEFINE p == Encode(Filled(t, Body(mm, n)))
<1>1. p = [type |-> t, body |-> Body(mm, n), net |-> Converted[t]] BY EncodedForm
<1>2. ReadsAsWritten(p) BY EncodedOnce
<1>3. Body(mm, n) \in [map : Map, index : Nat] BY DEF Body
<1>4. Converted[t] \in SUBSET UNION {Converted[u] : u \in PacketTypes} OBVIOUS
<1>5. p \in Packet BY <1>1, <1>3, <1>4 DEF Packet
<1> QED BY <1>2, <1>5 DEF Written

LEMMA BlankWritten ==
  ASSUME NEW t \in PacketTypes
  PROVE  Encode(Filled(t, Blank)) \in Written
BY EncodedWritten, MapTypes DEF Blank

LEMMA TheTypes ==
  {"CS_START_SESSION_REQ", "CS_UPLOAD_MAP", "CS_END_SESSION_REQ", "SC_MAP_UPLOAD_RSP",
   "SC_MAP_INFO", "SC_MAP_STATE", "SC_EVENT"} \subseteq PacketTypes
BY DEF PacketTypes, Converted

\* What arrives decodes to what was filled in.
LEMMA HeadDecoded ==
  ASSUME NEW s \in Seq(Written), s # <<>>
  PROVE  /\ Decode(Head(s)).body.map \in Map /\ Decode(Head(s)).body.index \in Nat
         /\ Tail(s) \in Seq(Written)
<1>1. Head(s) \in Written /\ Tail(s) \in Seq(Written) OBVIOUS
<1>2. Head(s) \in Packet BY <1>1 DEF Written
<1>3. Decode(Head(s)).body = Head(s).body BY <1>2 DEF Packet, Decode
<1>4. Head(s).body \in [map : Map, index : Nat] BY <1>2 DEF Packet
<1> QED BY <1>1, <1>3, <1>4

\* One more packet on its way.
LEMMA SentDown ==
  ASSUME WireType, NEW k, NEW p \in Written, SendDown(k, p)
  PROVE  down' \in [Clients -> Seq(Written)]
<1>1. \A i \in Clients : Append(down[i], p) \in Seq(Written) BY DEF WireType
<1> QED BY <1>1 DEF SendDown, WireType

LEMMA SentUp ==
  ASSUME WireType, NEW k, NEW p \in Written, SendUp(k, p)
  PROVE  up' \in [Clients -> Seq(Written)]
<1>1. \A i \in Clients : Append(up[i], p) \in Seq(Written) BY DEF WireType
<1> QED BY <1>1 DEF SendUp, WireType

LEMMA TakenUp ==
  ASSUME WireType, NEW i \in Clients, up[i] # <<>>, Received(i)
  PROVE  /\ up' \in [Clients -> Seq(Written)]
         /\ Decode(Head(up[i])).body.map \in Map
         /\ Decode(Head(up[i])).body.index \in Nat
<1>1. up[i] \in Seq(Written) BY DEF WireType
<1> QED BY <1>1, HeadDecoded DEF Received, WireType

--------------------------------------------------------------------------------
LEMMA InitRelayInv == Init => RelayInv
<1> SUFFICES ASSUME Init PROVE RelayInv OBVIOUS
<1>1. ServerType BY MapTypes DEF Init, ServerType
<1>2. HostType BY DEF Init, HostType
<1>3. LoopType BY ClientsAre DEF Init, LoopType
<1>4. FlagType BY DEF Init, FlagType
<1>5. ClientType BY MapTypes DEF Init, ClientType
<1>6. WireType BY DEF Init, WireType
<1>7. BoundType BY DEF Init, BoundType
<1> QED BY <1>1, <1>2, <1>3, <1>4, <1>5, <1>6, <1>7 DEF RelayInv

\* What MapsEach is does not change unless the type of the map does.
LEMMA HostKept ==
  ASSUME HostType, UNCHANGED <<hpc, hidx, map_type>>
  PROVE  HostType'
BY DEF HostType, MapsEach

LEMMA StepPress ==
  ASSUME RelayInv, Press
  PROVE  RelayInv'
<1> USE DEF RelayInv
<1>1. CASE PressStart
  <2>1. ServerType' /\ HostType' /\ LoopType' /\ BoundType'
    BY <1>1, HostKept DEF PressStart, serverVars, threadVars, ServerType, LoopType, BoundType
  <2>2. FlagType' BY <1>1 DEF PressStart, FlagType
  <2>3. ClientType' BY <1>1 DEF PressStart, ClientType
  <2>4. Encode(Filled("CS_START_SESSION_REQ", Blank)) \in Written
    BY BlankWritten, TheTypes
  <2>5. SendUp(Host, Encode(Filled("CS_START_SESSION_REQ", Blank))) BY <1>1 DEF PressStart
  <2>6. up' \in [Clients -> Seq(Written)] BY <2>4, <2>5, SentUp
  <2>7. WireType' BY <1>1, <2>6 DEF PressStart, WireType
  <2> QED BY <2>1, <2>2, <2>3, <2>7
<1>2. CASE PressUpload
  <2>0. presses + 1 \in Nat /\ Drawn(presses + 1) \in Map BY MapTypes DEF BoundType
  <2>1. ServerType' /\ HostType' /\ LoopType' /\ BoundType'
    BY <1>2, HostKept DEF PressUpload, serverVars, threadVars, ServerType, LoopType, BoundType
  <2>2. FlagType' BY <1>2 DEF PressUpload, FlagType, flagVars
  <2>3. ClientType' BY <1>2, <2>0 DEF PressUpload, ClientType
  <2>4. Encode(Filled("CS_UPLOAD_MAP", Body(Drawn(presses + 1), 0))) \in Written
    BY <2>0, EncodedWritten, TheTypes
  <2>5. SendUp(Host, Encode(Filled("CS_UPLOAD_MAP", Body(Drawn(presses + 1), 0))))
    BY <1>2 DEF PressUpload
  <2>6. up' \in [Clients -> Seq(Written)] BY <2>4, <2>5, SentUp
  <2>7. WireType' BY <1>2, <2>6 DEF PressUpload, WireType
  <2> QED BY <2>1, <2>2, <2>3, <2>7
<1> QED BY <1>1, <1>2 DEF Press

\* A client opens the game on the map the recv thread has stored.
LEMMA OpenType ==
  ASSUME ClientType, NEW i \in Clients, Open(i), UNCHANGED <<m_maps, rpc>>
  PROVE  ClientType'
<1>1. m_maps[i] \in Map /\ m_maps[i].session \in Nat BY MapTypes DEF ClientType
<1> QED BY <1>1 DEF ClientType, Open

LEMMA StepGUI ==
  ASSUME RelayInv, NEW i \in Clients, GUI(i)
  PROVE  RelayInv'
<1> USE DEF RelayInv
<1>1. ServerType' /\ HostType' /\ LoopType' /\ BoundType'
  BY HostKept DEF GUI, StartTimer, GetMapWaits, GetMapWakes, GetMapCopies, StartTimerEnds,
     TimerProc, serverVars, threadVars, bounds, ServerType, LoopType, BoundType
<1>2. FlagType'
  BY DEF GUI, StartTimer, GetMapWaits, GetMapWakes, GetMapCopies, StartTimerEnds,
     TimerProc, FlagType, flagVars
<1>3. ClientType'
  <2>1. CASE StartTimer(i) BY <2>1, OpenType DEF StartTimer
  <2>2. CASE GetMapWaits(i) BY <2>2 DEF GetMapWaits, ClientType
  <2>3. CASE GetMapWakes(i) BY <2>3 DEF GetMapWakes, ClientType
  <2>4. CASE GetMapCopies(i) BY <2>4, OpenType DEF GetMapCopies
  <2>5. CASE StartTimerEnds(i) BY <2>5 DEF StartTimerEnds, ClientType
  <2>6. CASE TimerProc(i) BY <2>6 DEF TimerProc, ClientType, Synced
  <2> QED BY <2>1, <2>2, <2>3, <2>4, <2>5, <2>6 DEF GUI
<1>4. WireType'
  <2>1. CASE TimerProc(i)
    <3>1. Encode(Filled("CS_END_SESSION_REQ", Blank)) \in Written BY BlankWritten, TheTypes
    <3>2. Farewell(i) \in Seq(Written) BY <3>1 DEF Farewell
    <3>3. up[i] \in Seq(Written) BY DEF WireType
    <3>4. up[i] \o Farewell(i) \in Seq(Written) BY <3>2, <3>3
    <3> QED BY <2>1, <3>4 DEF TimerProc, WireType
  <2>2. CASE ~TimerProc(i)
    BY <2>2 DEF GUI, StartTimer, GetMapWaits, GetMapWakes, GetMapCopies, StartTimerEnds, WireType
  <2> QED BY <2>1, <2>2
<1> QED BY <1>1, <1>2, <1>3, <1>4

LEMMA StepRecv ==
  ASSUME RelayInv, NEW i \in Clients, RecvThread(i)
  PROVE  RelayInv'
<1> USE DEF RelayInv
<1>1. ServerType' /\ HostType' /\ LoopType' /\ BoundType'
  BY HostKept DEF RecvThread, Deliver, Raise, serverVars, threadVars, bounds,
     ServerType, LoopType, BoundType
<1>2. CASE Deliver(i)
  <2> DEFINE p == Decode(Head(down[i]))
  <2>1. down[i] \in Seq(Written) /\ down[i] # <<>> BY <1>2 DEF Deliver, WireType
  <2>2. p.body.map \in Map /\ Tail(down[i]) \in Seq(Written) BY <2>1, HeadDecoded
  <2>3. WireType' BY <1>2, <2>2 DEF Deliver, WireType
  <2>4. HandleMapInfo(i, p) \/ HandleMapUploadResponse(i, p)
          \/ HandleMapState(i, p) \/ HandleEvent(i, p)
    BY <1>2 DEF Deliver
  <2>5. UNCHANGED <<StartGame, Mapready, maprecvEvent, gpc, window, map>>
    BY <1>2 DEF Deliver, guiVars
  <2> HIDE DEF p
  <2>6. FlagType'
    BY <2>4, <2>5 DEF FlagType, HandleMapInfo, HandleMapUploadResponse, HandleMapState, HandleEvent
  <2>7. ClientType'
    <3>1. m_maps' \in [Clients -> Map]
      <4>1. CASE HandleMapInfo(i, p) BY <2>2, <4>1 DEF ClientType, HandleMapInfo
      <4>2. CASE HandleMapUploadResponse(i, p) BY <4>2 DEF ClientType, HandleMapUploadResponse
      <4>3. CASE HandleMapState(i, p) BY <2>2, <4>3 DEF ClientType, HandleMapState
      <4>4. CASE HandleEvent(i, p) BY <4>4 DEF ClientType, HandleEvent
      <4> QED BY <2>4, <4>1, <4>2, <4>3, <4>4
    <3>2. rpc' \in [Clients -> {"recv", "stored", "event", "granted", "map"}]
      BY <2>4 DEF ClientType, HandleMapInfo, HandleMapUploadResponse, HandleMapState, HandleEvent
    <3> QED BY <2>5, <3>1, <3>2 DEF ClientType
  <2> QED BY <1>1, <2>3, <2>6, <2>7
<1>3. CASE Raise(i)
  <2>1. WireType' BY <1>3 DEF Raise, WireType
  <2>2. rpc' \in [Clients -> {"recv", "stored", "event", "granted", "map"}]
    BY <1>3 DEF Raise, ClientType
  <2>3. ClientType' BY <1>3, <2>2 DEF Raise, ClientType, guiVars
  <2>4. Mapready' \in [Clients -> BOOLEAN] BY <1>3 DEF Raise, FlagType
  <2>5. StartGame' \in [Clients -> BOOLEAN] BY <1>3 DEF Raise, FlagType
  <2>6. Win' \in [Clients -> BOOLEAN] BY <1>3 DEF Raise, FlagType
  <2>7. maprecvEvent' \in [Clients -> BOOLEAN] BY <1>3 DEF Raise, FlagType, EventSet
  <2>8. FlagType' BY <2>4, <2>5, <2>6, <2>7 DEF FlagType
  <2> QED BY <1>1, <2>1, <2>3, <2>8
<1> QED BY <1>2, <1>3 DEF RecvThread

LEMMA StepHandler ==
  ASSUME RelayInv, NEW i \in Clients, Handler(i)
  PROVE  RelayInv'
<1> USE DEF RelayInv
<1>1. ServerType' /\ HostType' /\ LoopType' /\ BoundType'
  BY HostKept DEF Handler, EndLost, HandleEndSessionRequest, serverVars, threadVars, bounds,
     ServerType, LoopType, BoundType
<1>2. FlagType' /\ ClientType'
  BY DEF Handler, EndLost, HandleEndSessionRequest, flagVars, guiVars, FlagType, ClientType
<1>3. up[i] # <<>> /\ Received(i) /\ down' = down
  BY DEF Handler, EndLost, HandleEndSessionRequest
<1>4. WireType' BY <1>3, TakenUp DEF WireType
<1> QED BY <1>1, <1>2, <1>4

\* The server's answers to the host, one round of a loop at a time.
LEMMA StepRequests ==
  ASSUME RelayInv, Requests
  PROVE  RelayInv'
<1> USE DEF RelayInv
<1>1. FlagType' /\ ClientType' /\ BoundType'
  BY DEF Requests, HandleMapUpload, HandleStartSessionRequest, SendResponses, SendMaps,
     flagVars, guiVars, bounds, FlagType, ClientType, BoundType
<1>2. CASE HandleMapUpload
  <2>1. up' \in [Clients -> Seq(Written)] /\ Decode(Head(up[Host])).body.map \in Map
    BY <1>2, TakenUp, ClientsAre DEF HandleMapUpload
  <2>2. ServerType' BY <1>2, <2>1 DEF HandleMapUpload, ServerType, Edited
  <2>3. HostType' BY <1>2, ClientsAre DEF HandleMapUpload, HostType
  <2>4. LoopType' BY <1>2 DEF HandleMapUpload, LoopType
  <2>5. WireType' BY <1>2, <2>1 DEF HandleMapUpload, WireType
  <2> QED BY <1>1, <2>2, <2>3, <2>4, <2>5
<1>3. CASE HandleStartSessionRequest
  <2>1. up' \in [Clients -> Seq(Written)] /\ Decode(Head(up[Host])).body.index \in Nat
    BY <1>3, TakenUp, ClientsAre DEF HandleStartSessionRequest
  <2>2. Drawn(presses) \in Map BY MapTypes DEF BoundType
  <2>3. ServerType' BY <1>3, <2>1, <2>2 DEF HandleStartSessionRequest, ServerType
  <2>4. MapsEach' \in {1, 2, 3, 4} BY DefaultAssumption DEF MapsEach
  <2>5. 0 < MAX_PLAYERS * MapsEach' BY <2>4, HasRounds
  <2>6. hpc' = "maps" /\ hidx' = 0 BY <1>3 DEF HandleStartSessionRequest
  <2> HIDE DEF MapsEach
  <2>7. HostType' BY <2>5, <2>6 DEF HostType
  <2>8. LoopType' BY <1>3 DEF HandleStartSessionRequest, LoopType
  <2>9. WireType' BY <1>3, <2>1 DEF HandleStartSessionRequest, WireType
  <2> QED BY <1>1, <2>3, <2>7, <2>8, <2>9
<1>4. CASE SendResponses
  <2>1. Encode(Filled("SC_MAP_UPLOAD_RSP", Blank)) \in Written BY BlankWritten, TheTypes
  <2>2. down' \in [Clients -> Seq(Written)]
    BY <1>4, <2>1, SentDown DEF SendResponses
  <2>3. WireType' BY <1>4, <2>2 DEF SendResponses, WireType
  <2>4. ServerType' /\ LoopType'
    BY <1>4 DEF SendResponses, serverVars, ServerType, LoopType
  <2>5. MapsEach' = MapsEach BY <1>4 DEF SendResponses, serverVars, MapsEach
  <2>6. hidx \in Nat /\ hidx < MAX_PLAYERS /\ hpc = "respond"
    BY <1>4 DEF SendResponses, HostType
  <2>7. CASE hidx + 1 = MAX_PLAYERS
    <3>1. hpc' = "maps" /\ hidx' = 0 BY <1>4, <2>7 DEF SendResponses
    <3>2. 0 < MAX_PLAYERS * MapsEach' BY <2>5, FirstRound
    <3>3. HostType' BY <3>1, <3>2 DEF HostType
    <3> QED BY <1>1, <2>3, <2>4, <3>3
  <2>8. CASE hidx + 1 # MAX_PLAYERS
    <3>1. hpc' = "respond" /\ hidx' = hidx + 1 BY <1>4, <2>6, <2>8 DEF SendResponses
    <3>2. hidx + 1 < MAX_PLAYERS BY <2>6, <2>8, ClientsAre
    <3>3. HostType' BY <2>6, <3>1, <3>2 DEF HostType
    <3> QED BY <1>1, <2>3, <2>4, <3>3
  <2> QED BY <2>7, <2>8
<1>5. CASE SendMaps
  <2>0. hidx \in Nat BY DEF HostType
  <2>1. MapIndex \in Nat
    <3>1. hidx % DefaultMaps \in Nat BY <2>0, DefaultAssumption
    <3> QED BY <3>1 DEF MapIndex, Edited
  <2>2. Encode(Filled("SC_MAP_INFO", Body(server_map, MapIndex))) \in Written
    BY <2>1, EncodedWritten, TheTypes DEF ServerType
  <2>3. down' \in [Clients -> Seq(Written)] BY <1>5, <2>2, SentDown DEF SendMaps
  <2>4. WireType' BY <1>5, <2>3 DEF SendMaps, WireType
  <2>5. ServerType' BY <1>5 DEF SendMaps, ServerType
  <2>6. LoopType' BY <1>5 DEF SendMaps, LoopType
  <2>7. MapsEach' = MapsEach BY <1>5 DEF SendMaps, MapsEach
  <2>8. HostType' BY <1>5, <2>0, <2>7 DEF SendMaps, HostType
  <2> QED BY <1>1, <2>4, <2>5, <2>6, <2>8
<1> QED BY <1>2, <1>3, <1>4, <1>5 DEF Requests

\* One round of a loop of the game loop thread, whose packet is not encoded
\* again behind the send.
LEMMA RoundType ==
  ASSUME RelayInv, NEW p \in Written, lpc \in {"sync", "win"}, SendRound(p, pkt)
  PROVE  RelayInv'
<1> USE DEF RelayInv
<1>1. ServerType' /\ HostType' /\ FlagType' /\ ClientType' /\ BoundType'
  BY HostKept DEF SendRound, serverVars, flagVars, guiVars, bounds, ServerType,
     FlagType, ClientType, BoundType
<1>2. down' \in [Clients -> Seq(Written)] BY SentDown DEF SendRound
<1>3. WireType' BY <1>2 DEF SendRound, WireType
<1>4. LoopType'
  <2>1. CASE LoopOver BY <2>1, ClientsAre DEF SendRound, LoopType
  <2>2. CASE ~LoopOver
    <3>1. lidx + 1 \in Clients BY <2>2, ClientsAre DEF LoopOver, LoopType
    <3> QED BY <2>2, <3>1 DEF SendRound, LoopType
  <2> QED BY <2>1, <2>2
<1> QED BY <1>1, <1>3, <1>4

LEMMA StepLoop ==
  ASSUME RelayInv, Loop
  PROVE  RelayInv'
<1> USE DEF RelayInv
<1>1. CASE BossLogic
  <2>1. server_map' \in Map BY <1>1 DEF BossLogic, ServerType, Map
  <2>2. pkt' \in Written BY <1>1, <2>1, EncodedWritten, TheTypes DEF BossLogic
  <2>3. pkt' \in Packet BY <2>2 DEF Written
  <2>4. LoopType' BY <1>1, <2>2, <2>3 DEF BossLogic, LoopType
  <2>5. ServerType' BY <1>1, <2>1 DEF BossLogic, ServerType
  <2>6. HostType' /\ FlagType' /\ ClientType' /\ WireType' /\ BoundType'
    BY <1>1, HostKept DEF BossLogic, flagVars, guiVars, bounds, FlagType, ClientType,
       WireType, BoundType
  <2> QED BY <2>4, <2>5, <2>6
<1>2. CASE Wins
  BY <1>2, HostKept DEF Wins, serverVars, flagVars, guiVars, ServerType, LoopType,
     FlagType, ClientType, WireType, BoundType
<1>3. CASE LoopEnds
  BY <1>3, HostKept DEF LoopEnds, serverVars, flagVars, guiVars, bounds, ServerType,
     LoopType, FlagType, ClientType, WireType, BoundType
<1>4. CASE SyncMapState
  BY <1>4, RoundType DEF SyncMapState, AfterSend, LoopType
<1>5. CASE SendWin
  <2>1. Encode(Filled("SC_EVENT", Blank)) \in Written BY BlankWritten, TheTypes
  <2> QED BY <1>5, <2>1, RoundType DEF SendWin
<1> QED BY <1>1, <1>2, <1>3, <1>4, <1>5 DEF Loop

--------------------------------------------------------------------------------
\* Whatever is stored, sent or on its way is well formed, at any time, and the
\* loops over the clients and their maps are where they should be.
THEOREM MapRelaySafe == Spec => []RelayInv
<1>1. RelayInv /\ [Next]_vars => RelayInv'
  <2> SUFFICES ASSUME RelayInv, [Next]_vars PROVE RelayInv' OBVIOUS
  <2>1. CASE Press BY <2>1, StepPress
  <2>2. CASE Requests BY <2>2, StepRequests
  <2>3. CASE Loop BY <2>3, StepLoop
  <2>4. ASSUME NEW i \in Clients, GUI(i) PROVE RelayInv' BY <2>4, StepGUI
  <2>5. ASSUME NEW i \in Clients, RecvThread(i) PROVE RelayInv' BY <2>5, StepRecv
  <2>6. ASSUME NEW i \in Clients, Handler(i) PROVE RelayInv' BY <2>6, StepHandler
  <2>7. CASE UNCHANGED vars
    BY <2>7, HostKept DEF vars, serverVars, threadVars, flagVars, guiVars, bounds, RelayInv,
       ServerType, LoopType, FlagType, ClientType, WireType, BoundType
  <2> QED BY <2>1, <2>2, <2>3, <2>4, <2>5, <2>6, <2>7 DEF Next
<1> QED BY InitRelayInv, <1>1, PTL DEF Spec

\* The type invariant, with the bounds of the loops over the clients.
THEOREM MapRelayTypeCorrect == Spec => []TypeOK
<1>1. RelayInv => TypeOK
  <2> SUFFICES ASSUME RelayInv PROVE TypeOK OBVIOUS
  <2> USE DEF RelayInv
  <2>1. hidx \in 0 .. (MAX_PLAYERS * DefaultMaps) - 1
    <3>1. hidx \in Nat /\ hidx < MAX_PLAYERS * MapsEach
      <4>1. CASE hpc = "recv" BY <4>1, FirstRound DEF HostType
      <4>2. CASE hpc = "respond"
        <5>1. hidx \in Nat /\ hidx < MAX_PLAYERS BY <4>2 DEF HostType
        <5> QED BY <5>1, MapsEachAre, ClientsAre
      <4>3. CASE hpc = "maps" BY <4>3 DEF HostType
      <4> QED BY <4>1, <4>2, <4>3 DEF HostType
    <3>2. MAX_PLAYERS * MapsEach <= MAX_PLAYERS * DefaultMaps
      BY ClientsAre, MapsEachAre, DefaultAssumption
    <3>3. MAX_PLAYERS * DefaultMaps \in Nat /\ MAX_PLAYERS * MapsEach \in Nat
      BY ClientsAre, MapsEachAre, DefaultAssumption
    <3> QED BY <3>1, <3>2, <3>3
  <2>2. Written \subseteq Packet BY DEF Written
  <2>3. ASSUME NEW i \in Clients PROVE up[i] \in Seq(Packet) /\ down[i] \in Seq(Packet)
    <3>1. up[i] \in Seq(Written) /\ down[i] \in Seq(Written) BY DEF WireType
    <3> QED BY <2>2, <3>1
  <2>4. up \in [Clients -> Seq(Packet)] /\ down \in [Clients -> Seq(Packet)]
    BY <2>3 DEF WireType
  <2> QED BY <2>1, <2>4 DEF TypeOK, ServerType, HostType, LoopType, FlagType,
       ClientType, BoundType
<1> QED BY MapRelaySafe, <1>1, PTL

\* Every request, map and event is encoded once, the packet of SyncMapState
\* although one object serves for all clients.
THEOREM MapRelayOnTheWire == Spec => []OnTheWire
<1>1. RelayInv => OnTheWire
  <2> SUFFICES ASSUME RelayInv PROVE OnTheWire OBVIOUS
  <2>1. ASSUME NEW i \in Clients, NEW k \in 1 .. Len(up[i]) PROVE ReadsAsWritten(up[i][k])
    <3>1. up[i] \in Seq(Written) BY DEF RelayInv, WireType
    <3>2. up[i][k] \in Written BY <3>1, <2>1
    <3> QED BY <3>2 DEF Written
  <2>2. ASSUME NEW i \in Clients, NEW k \in 1 .. Len(down[i]) PROVE ReadsAsWritten(down[i][k])
    <3>1. down[i] \in Seq(Written) BY DEF RelayInv, WireType
    <3>2. down[i][k] \in Written BY <3>1, <2>2
    <3> QED BY <3>2 DEF Written
  <2> QED BY <2>1, <2>2 DEF OnTheWire
<1> QED BY MapRelaySafe, <1>1, PTL

\* BroadcastMapInfo's one counter for the clients and their maps never names a
\* client that does not exist.
THEOREM MapsGoToClients == Spec => [](hpc = "maps" => hidx \div MapsEach \in Clients)
<1>1. RelayInv => (hpc = "maps" => hidx \div MapsEach \in Clients)
  <2> SUFFICES ASSUME RelayInv, hpc = "maps" PROVE hidx \div MapsEach \in Clients OBVIOUS
  <2>1. hidx \in Nat /\ hidx < MAX_PLAYERS * MapsEach BY DEF RelayInv, HostType
  <2> HIDE DEF MapsEach
  <2>2. CASE MapsEach = 1 BY <2>1, <2>2, ClientsAre
  <2>3. CASE MapsEach = 2 BY <2>1, <2>3, ClientsAre
  <2>4. CASE MapsEach = 3 BY <2>1, <2>4, ClientsAre
  <2>5. CASE MapsEach = 4 BY <2>1, <2>5, ClientsAre
  <2> QED BY <2>2, <2>3, <2>4, <2>5, MapsEachAre
<1> QED BY MapRelaySafe, <1>1, PTL

--------------------------------------------------------------------------------
(* A default session is played on the whole map of the session.            *)

\* What the server sends in a default session, and what it sends first.
Sent(n) ==
  {p \in Packet : /\ p.type \in {"SC_MAP_INFO", "SC_MAP_STATE", "SC_EVENT"}
                  /\ p.type # "SC_EVENT" => p.body.map.session = n}
IsFirst(p) == p.type = "SC_MAP_INFO" /\ p.body.index = 0

Requested == {"CS_START_SESSION_REQ", "CS_UPLOAD_MAP"}
Ends == {p \in Packet : p.type = "CS_END_SESSION_REQ"}

\* Nothing is left of the last session with client i.
Quiet(i) ==
  /\ rpc[i] = "recv" /\ gpc[i] = "idle" /\ ~StartGame[i] /\ window[i] # "game"
  /\ down[i] = <<>>

\* The patient host has asked, and nobody does anything but the server.
Asked ==
  /\ hpc = "recv" /\ lpc = "none"
  /\ \A i \in Clients : Quiet(i) /\ (i # Host => up[i] = <<>>)
  /\ up[Host] # <<>> /\ Head(up[Host]).type \in Requested /\ Tail(up[Host]) = <<>>
  /\ Head(up[Host]).type = "CS_START_SESSION_REQ" => Head(up[Host]).body.index = 0

\* A client has the first map of the session, or is about to: while it has
\* not, the first map is the next packet it gets.
Fresh(i) == m_maps[i].session = server_map.session
Comes(i) ==
  \/ Fresh(i)
  \/ down[i] # <<>> /\ IsFirst(Head(down[i]))
  \/ down[i] = <<>> /\ hpc = "maps" /\ hidx <= i * DefaultMaps

\* What is under way, and what a client has done, belongs to the session.
Whole(i) ==
  /\ down[i] \in Seq(Sent(server_map.session))
  /\ rpc[i] \in {"recv", "stored", "event"}
  /\ rpc[i] # "recv" \/ gpc[i] # "idle" \/ StartGame[i] => Fresh(i)
  /\ window[i] = "game" => map[i].objects = server_map.session
  /\ Comes(i)

DefaultSession ==
  /\ \A i \in Clients : Whole(i)
  /\ lpc = "sync" => pkt \in Sent(server_map.session)

Answered ==
  /\ \A i \in Clients : up[i] \in Seq(Ends)
  /\ map_type = 0 => DefaultSession

\* The loop thread is started behind the last map.
InOrder ==
  /\ hpc # "recv" => lpc = "none"
  /\ hpc = "respond" => map_type = Edited

WholeInv == InOrder /\ (Asked \/ Answered)

--------------------------------------------------------------------------------
LEMMA EmptySeq == ASSUME NEW S PROVE <<>> \in Seq(S)
OBVIOUS

LEMMA OneSeq ==
  ASSUME NEW S, NEW e \in S
  PROVE  Append(<<>>, e) # <<>> /\ Tail(Append(<<>>, e)) = <<>>
<1>1. <<>> \in Seq(S) /\ Append(<<>>, e) = <<e>> OBVIOUS
<1>2. Tail(<<e>>) = <<>> OBVIOUS
<1> QED BY <1>1, <1>2

LEMMA EncodedFields ==
  ASSUME NEW t \in PacketTypes, NEW mm \in Map, NEW n \in Nat
  PROVE  LET p == Encode(Filled(t, Body(mm, n)))
         IN  p \in Packet /\ p.type = t /\ p.body.map = mm /\ p.body.index = n
<1> DEFINE p == Encode(Filled(t, Body(mm, n)))
<1>1. p = [type |-> t, body |-> Body(mm, n), net |-> Converted[t]] BY EncodedForm
<1>2. p \in Packet BY EncodedWritten DEF Written
<1>3. Body(mm, n).map = mm /\ Body(mm, n).index = n BY DEF Body
<1> QED BY <1>1, <1>2, <1>3

\* A packet decoded has the type and the body it was sent with.
LEMMA DecodedFields ==
  ASSUME NEW p \in Packet
  PROVE  Decode(p).type = p.type /\ Decode(p).body = p.body
BY DEF Packet, Decode

LEMMA HeadIsPacket ==
  ASSUME WireType, NEW i \in Clients
  PROVE  /\ up[i] # <<>> => Head(up[i]) \in Packet
         /\ down[i] # <<>> => Head(down[i]) \in Packet
<1>1. up[i] \in Seq(Written) /\ down[i] \in Seq(Written) BY DEF WireType
<1>2. up[i] # <<>> => Head(up[i]) \in Written BY <1>1
<1>3. down[i] # <<>> => Head(down[i]) \in Written BY <1>1
<1> QED BY <1>2, <1>3 DEF Written

LEMMA InitWholeInv == Init => WholeInv
<1> SUFFICES ASSUME Init PROVE WholeInv OBVIOUS
<1>1. InOrder BY DEF Init, InOrder
<1>2. Answered
  <2>1. ASSUME NEW i \in Clients PROVE Whole(i) /\ up[i] \in Seq(Ends)
    <3>1. Fresh(i) BY DEF Init, Fresh
    <3>2. down[i] = <<>> /\ up[i] = <<>> BY DEF Init
    <3>3. rpc[i] = "recv" /\ window[i] = "title" BY DEF Init
    <3> QED BY <3>1, <3>2, <3>3 DEF Whole, Comes
  <2> QED BY <2>1 DEF Init, Answered, DefaultSession
<1> QED BY <1>1, <1>2 DEF WholeInv

\* Only when everything is over the host asks for a session ...
LEMMA PressAsks ==
  ASSUME RelayInv, Press
  PROVE  Asked' /\ InOrder'
<1>1. Over BY DEF Press
<1>2. up[Host] = <<>> /\ Host \in Clients BY <1>1, ClientsAre DEF Over
<1>3. \A i \in Clients : up'[i] = IF i = Host THEN Append(up[Host], Head(up'[Host])) ELSE up[i]
  <2>1. CASE PressStart
    BY <2>1, <1>2 DEF PressStart, SendUp, RelayInv, WireType
  <2>2. CASE PressUpload
    BY <2>2, <1>2 DEF PressUpload, SendUp, RelayInv, WireType
  <2> QED BY <2>1, <2>2 DEF Press
<1>4. /\ Head(up'[Host]).type \in Requested
      /\ Head(up'[Host]).type = "CS_START_SESSION_REQ" => Head(up'[Host]).body.index = 0
  <2>1. CASE PressStart
    <3>1. up'[Host] = Append(<<>>, Encode(Filled("CS_START_SESSION_REQ", Blank)))
      BY <2>1, <1>2 DEF PressStart, SendUp, RelayInv, WireType
    <3>2. Head(up'[Host]) = Encode(Filled("CS_START_SESSION_REQ", Body(NoMap, 0)))
      BY <3>1 DEF Blank
    <3> QED BY <3>2, EncodedFields, MapTypes, TheTypes DEF Requested
  <2>2. CASE PressUpload
    <3>0. Drawn(presses + 1) \in Map BY MapTypes DEF RelayInv, BoundType
    <3> DEFINE req == Encode(Filled("CS_UPLOAD_MAP", Body(Drawn(presses + 1), 0)))
    <3>1. up'[Host] = Append(<<>>, req)
      BY <2>2, <1>2 DEF PressUpload, SendUp, RelayInv, WireType
    <3>2. Head(up'[Host]) = req BY <3>1
    <3>3. req.type = "CS_UPLOAD_MAP" BY <3>0, EncodedFields, TheTypes
    <3> QED BY <3>2, <3>3 DEF Requested
  <2> QED BY <2>1, <2>2 DEF Press
<1>5. up'[Host] # <<>> /\ Tail(up'[Host]) = <<>>
  <2> DEFINE req == Head(up'[Host])
  <2>1. up'[Host] = Append(<<>>, req) BY <1>2, <1>3
  <2>2. req \in {req} OBVIOUS
  <2> HIDE DEF req
  <2> QED BY <2>1, <2>2, OneSeq
<1>6. hpc' = "recv" /\ lpc' = "none"
  BY <1>1 DEF Over, Press, PressStart, PressUpload, threadVars
<1>7. ASSUME NEW i \in Clients PROVE Quiet(i)' /\ (i # Host => up'[i] = <<>>)
  <2>1. rpc[i] = "recv" /\ gpc[i] = "idle" /\ ~StartGame[i] /\ down[i] = <<>> /\ up[i] = <<>>
    BY <1>1 DEF Over
  <2>2. window[i] = "title" BY <1>1 DEF Over, Press, PressStart, PressUpload
  <2>3. rpc' = rpc /\ gpc' = gpc /\ down' = down
    BY DEF Press, PressStart, PressUpload
  <2>4. window'[i] # "game"
    BY <2>2 DEF Press, PressStart, PressUpload, RelayInv, ClientType
  <2>5. ~StartGame'[i]
    BY <2>1 DEF Press, PressStart, PressUpload, flagVars, RelayInv, FlagType
  <2> QED BY <1>3, <2>1, <2>3, <2>4, <2>5 DEF Quiet
<1> QED BY <1>4, <1>5, <1>6, <1>7 DEF Asked, InOrder

\* ... and then nothing but the server's handler can move.
LEMMA AskedAlone ==
  ASSUME RelayInv, Asked, Next
  PROVE  HandleMapUpload \/ HandleStartSessionRequest
<1>1. Host \in Clients BY ClientsAre
<1>2. ~Press BY <1>1 DEF Press, Over, Asked
<1>3. ~Loop BY DEF Loop, BossLogic, Wins, LoopEnds, SyncMapState, SendWin, Asked
<1>4. ~SendResponses /\ ~SendMaps BY DEF SendResponses, SendMaps, Asked
<1>5. ASSUME NEW i \in Clients PROVE ~GUI(i) /\ ~RecvThread(i) /\ ~Handler(i)
  <2>1. Quiet(i) /\ (i # Host => up[i] = <<>>) BY DEF Asked
  <2>2. ~GUI(i)
    BY <2>1 DEF Quiet, GUI, StartTimer, GetMapWaits, GetMapWakes, GetMapCopies,
       StartTimerEnds, TimerProc
  <2>3. ~RecvThread(i) BY <2>1 DEF Quiet, RecvThread, Deliver, Raise
  <2>4. ~Handler(i)
    BY <2>1 DEF Asked, Requested, Handler, EndLost, HandleEndSessionRequest
  <2> QED BY <2>2, <2>3, <2>4
<1> QED BY <1>2, <1>3, <1>4, <1>5 DEF Next, Requests

\* The request is taken over; nothing is under way to anybody yet.
LEMMA AskedAnswered ==
  ASSUME RelayInv, Asked, HandleMapUpload \/ HandleStartSessionRequest
  PROVE  InOrder' /\ Answered'
<1>1. Host \in Clients BY ClientsAre
<1>2. ASSUME NEW i \in Clients PROVE up'[i] = <<>>
  BY <1>1 DEF Asked, HandleMapUpload, HandleStartSessionRequest, Received, RelayInv, WireType
<1>3. ASSUME NEW i \in Clients PROVE up'[i] \in Seq(Ends)
  BY <1>2, EmptySeq
<1>4. CASE HandleMapUpload
  <2>1. InOrder' BY <1>4 DEF HandleMapUpload, Asked, InOrder
  <2>2. map_type' # 0 BY <1>4 DEF HandleMapUpload, Edited
  <2> QED BY <1>3, <2>1, <2>2 DEF Answered
<1>5. CASE HandleStartSessionRequest
  <2>1. InOrder' BY <1>5 DEF HandleStartSessionRequest, Asked, InOrder
  <2>2. ASSUME NEW i \in Clients PROVE Whole(i)'
    <3>1. Quiet(i) BY DEF Asked
    <3>2. UNCHANGED <<down, rpc, gpc, StartGame, window>>
      BY <1>5 DEF HandleStartSessionRequest, flagVars, guiVars
    <3>3. hpc' = "maps" /\ hidx' = 0 BY <1>5 DEF HandleStartSessionRequest
    <3>4. 0 <= i * DefaultMaps
      <4>1. i \in Nat BY ClientsAre
      <4> QED BY <4>1, DefaultAssumption
    <3>5. Comes(i)' BY <3>1, <3>2, <3>3, <3>4 DEF Comes, Quiet
    <3>6. down'[i] \in Seq(Sent(server_map'.session)) BY <3>1, <3>2, EmptySeq DEF Quiet
    <3> QED BY <3>1, <3>2, <3>5, <3>6 DEF Whole, Quiet
  <2>3. lpc' # "sync" BY <1>5 DEF HandleStartSessionRequest, Asked
  <2> QED BY <1>3, <2>1, <2>2, <2>3 DEF Answered, DefaultSession
<1> QED BY <1>4, <1>5

--------------------------------------------------------------------------------
LEMMA NextSent ==
  ASSUME NEW n, NEW s \in Seq(Sent(n)), s # <<>>
  PROVE  Head(s) \in Sent(n) /\ Tail(s) \in Seq(Sent(n))
OBVIOUS

LEMMA AppendedTo ==
  ASSUME NEW S, NEW s \in Seq(S), NEW e \in S
  PROVE  /\ Append(s, e) \in Seq(S) /\ Append(s, e) # <<>>
         /\ Head(Append(s, e)) = IF s = <<>> THEN e ELSE Head(s)
<1>1. Len(Append(s, e)) = Len(s) + 1 /\ Len(s) \in Nat OBVIOUS
<1>2. Append(s, e) # <<>> BY <1>1
<1> QED BY <1>2

\* The client opens the game on the map it has: the whole of it, or GetMap
\* still waits for a map that is fresh already.
LEMMA WholeGUI ==
  ASSUME RelayInv, InOrder, Answered, NEW i \in Clients, GUI(i)
  PROVE  InOrder' /\ Answered'
<1>1. UNCHANGED <<server_map, map_type, hpc, hidx, lpc, pkt, m_maps, rpc, down>>
  BY DEF GUI, StartTimer, GetMapWaits, GetMapWakes, GetMapCopies, StartTimerEnds, TimerProc,
     serverVars, threadVars
<1>2. ASSUME NEW j \in Clients PROVE up'[j] \in Seq(Ends)
  <2>1. up[j] \in Seq(Ends) BY DEF Answered
  <2>2. CASE TimerProc(i)
    <3>1. Encode(Filled("CS_END_SESSION_REQ", Body(NoMap, 0))) \in Ends
      BY EncodedFields, MapTypes, TheTypes DEF Ends
    <3>2. Farewell(i) \in Seq(Ends) BY <3>1 DEF Farewell, Blank
    <3>3. up[j] \o Farewell(i) \in Seq(Ends) BY <2>1, <3>2
    <3>4. up'[j] \in {up[j], up[j] \o Farewell(i)}
      BY <2>2 DEF TimerProc, RelayInv, WireType
    <3> QED BY <2>1, <3>3, <3>4
  <2>3. CASE ~TimerProc(i)
    BY <2>1, <2>3 DEF GUI, StartTimer, GetMapWaits, GetMapWakes, GetMapCopies, StartTimerEnds
  <2> QED BY <2>2, <2>3
<1>3. ASSUME map_type = 0, NEW j \in Clients PROVE Whole(j)'
  <2>1. Whole(j) BY <1>3 DEF Answered, DefaultSession
  <2>2. Fresh(j)' = Fresh(j) /\ Comes(j)' BY <1>1, <2>1 DEF Fresh, Comes, Whole
  <2>3. StartGame'[j] => StartGame[j]
    BY DEF GUI, StartTimer, GetMapWaits, GetMapWakes, GetMapCopies, StartTimerEnds, TimerProc,
       flagVars, RelayInv, FlagType
  <2>4. gpc'[j] # "idle" => gpc[j] # "idle" \/ StartGame[j]
    BY DEF GUI, StartTimer, GetMapWaits, GetMapWakes, GetMapCopies, StartTimerEnds, TimerProc,
       Open, RelayInv, ClientType
  <2>5. window'[j] = "game" => map'[j].objects = server_map.session
    <3>1. CASE i = j /\ Open(j)
      <4>1. Fresh(j)
        BY <3>1, <2>1 DEF GUI, StartTimer, GetMapWaits, GetMapWakes, GetMapCopies,
           StartTimerEnds, TimerProc, Open, Whole, RelayInv, ClientType
      <4>2. map'[j].objects = m_maps[j].session BY <3>1 DEF Open, RelayInv, ClientType
      <4> QED BY <4>1, <4>2 DEF Fresh
    <3>2. CASE ~(i = j /\ Open(j))
      <4>1. window'[j] = "game" => window[j] = "game"
        BY <3>2 DEF GUI, StartTimer, GetMapWaits, GetMapWakes, GetMapCopies, StartTimerEnds,
           TimerProc, Open, RelayInv, ClientType
      <4>2. map'[j].objects = map[j].objects
        BY <3>2 DEF GUI, StartTimer, GetMapWaits, GetMapWakes, GetMapCopies, StartTimerEnds,
           TimerProc, Open, Synced, RelayInv, ClientType
      <4> QED BY <4>1, <4>2, <2>1 DEF Whole
    <3> QED BY <3>1, <3>2
  <2> QED BY <1>1, <2>1, <2>2, <2>3, <2>4, <2>5 DEF Whole
<1> QED BY <1>1, <1>2, <1>3 DEF InOrder, Answered, DefaultSession

\* A client has the first map before anything raises StartGame.
LEMMA WholeRecv ==
  ASSUME RelayInv, InOrder, Answered, NEW i \in Clients, RecvThread(i)
  PROVE  InOrder' /\ Answered'
<1>1. UNCHANGED <<server_map, map_type, hpc, hidx, lpc, pkt, gpc, window, map, up>>
  BY DEF RecvThread, Deliver, Raise, serverVars, threadVars, guiVars
<1>2. ASSUME map_type = 0, NEW j \in Clients PROVE Whole(j)'
  <2>1. Whole(j) BY <1>2 DEF Answered, DefaultSession
  <2>2. CASE i # j
    <3>1. /\ down'[j] = down[j] /\ rpc'[j] = rpc[j] /\ m_maps'[j] = m_maps[j]
          /\ StartGame'[j] = StartGame[j]
      BY <2>2 DEF RecvThread, Deliver, Raise, HandleMapInfo, HandleMapUploadResponse,
         HandleMapState, HandleEvent, RelayInv, WireType, ClientType, FlagType
    <3>2. Fresh(j)' = Fresh(j) /\ Comes(j)' BY <1>1, <2>1, <3>1 DEF Fresh, Comes, Whole
    <3> QED BY <1>1, <2>1, <3>1, <3>2 DEF Whole
  <2>3. CASE i = j /\ Deliver(j)
    <3> DEFINE n == server_map.session
               p == Head(down[j])
    <3>1. down[j] # <<>> /\ down[j] \in Seq(Sent(n)) BY <2>1, <2>3 DEF Deliver, Whole
    <3>2. p \in Sent(n) /\ Tail(down[j]) \in Seq(Sent(n)) BY <3>1, NextSent
    <3>3. p \in Packet /\ Decode(p).type = p.type /\ Decode(p).body = p.body
      BY <3>2, DecodedFields DEF Sent
    <3>4. p.type \in {"SC_MAP_INFO", "SC_MAP_STATE", "SC_EVENT"} BY <3>2 DEF Sent
    <3>5. p.type # "SC_EVENT" => p.body.map.session = n BY <3>2 DEF Sent
    <3>6. down'[j] = Tail(down[j]) /\ rpc[j] = "recv" /\ StartGame' = StartGame
      BY <2>3 DEF Deliver, RelayInv, WireType
    <3>7. Fresh(j) \/ IsFirst(p) BY <2>1, <3>1 DEF Whole, Comes
    <3>8. \/ HandleMapInfo(j, Decode(p)) \/ HandleMapUploadResponse(j, Decode(p))
          \/ HandleMapState(j, Decode(p)) \/ HandleEvent(j, Decode(p))
      BY <2>3 DEF Deliver
    <3> HIDE DEF p
    <3>9. m_maps'[j].session = n /\ rpc'[j] \in {"recv", "stored"}
      <4>1. CASE HandleMapInfo(j, Decode(p))
        BY <4>1, <3>3, <3>5, <3>7 DEF HandleMapInfo, IsFirst, Fresh, RelayInv, ClientType
      <4>2. CASE HandleMapUploadResponse(j, Decode(p))
        BY <4>2, <3>3, <3>4 DEF HandleMapUploadResponse
      <4>3. CASE HandleMapState(j, Decode(p))
        BY <4>3, <3>3, <3>5, <3>6 DEF HandleMapState, RelayInv, ClientType
      <4>4. CASE HandleEvent(j, Decode(p))
        BY <4>4, <3>3, <3>6, <3>7 DEF HandleEvent, IsFirst, Fresh
      <4> QED BY <3>8, <4>1, <4>2, <4>3, <4>4
    <3>10. Fresh(j)' /\ Comes(j)' BY <1>1, <3>9 DEF Fresh, Comes
    <3> QED BY <1>1, <2>1, <3>2, <3>6, <3>9, <3>10 DEF Whole
  <2>4. CASE i = j /\ Raise(j)
    <3>1. down' = down /\ m_maps' = m_maps /\ rpc[j] # "recv" BY <2>4 DEF Raise
    <3>2. rpc'[j] \in {"recv", "event"}
      BY <2>1, <2>4, <3>1 DEF Raise, Whole, RelayInv, ClientType
    <3>3. Fresh(j) BY <2>1, <3>1 DEF Whole
    <3>4. Fresh(j)' /\ Comes(j)' BY <1>1, <3>1, <3>3 DEF Fresh, Comes
    <3> QED BY <1>1, <2>1, <3>1, <3>2, <3>4 DEF Whole
  <2> QED BY <2>2, <2>3, <2>4 DEF RecvThread
<1> QED BY <1>1, <1>2 DEF InOrder, Answered, DefaultSession

LEMMA WholeHandler ==
  ASSUME RelayInv, InOrder, Answered, NEW i \in Clients, Handler(i)
  PROVE  InOrder' /\ Answered'
<1>1. UNCHANGED <<server_map, map_type, hpc, hidx, lpc, pkt, gpc, window, map, down,
                  m_maps, rpc, StartGame>>
  BY DEF Handler, EndLost, HandleEndSessionRequest, serverVars, threadVars, guiVars, flagVars
<1>2. ASSUME NEW j \in Clients PROVE up'[j] \in Seq(Ends)
  <2>1. up[i] # <<>> /\ Received(i) BY DEF Handler, EndLost, HandleEndSessionRequest
  <2>2. up[j] \in Seq(Ends) /\ up[i] \in Seq(Ends) BY DEF Answered
  <2>3. Tail(up[i]) \in Seq(Ends) BY <2>1, <2>2
  <2> QED BY <2>1, <2>2, <2>3 DEF Received, RelayInv, WireType
<1>3. ASSUME NEW j \in Clients, Whole(j) PROVE Whole(j)'
  BY <1>1, <1>3 DEF Whole, Comes, Fresh
<1> QED BY <1>1, <1>2, <1>3 DEF InOrder, Answered, DefaultSession

\* A packet of the session on its way to client k: it is the first map, or
\* there is one before it.
LEMMA WholeSend ==
  ASSUME RelayInv, NEW k \in Clients, NEW p \in Sent(server_map.session), SendDown(k, p),
         UNCHANGED <<server_map, gpc, window, map, m_maps, rpc, StartGame>>,
         NEW j \in Clients, Whole(j),
         j = k => Fresh(j) \/ down[j] # <<>> \/ IsFirst(p),
         j # k => Comes(j)'
  PROVE  Whole(j)'
<1>1. down[j] \in Seq(Sent(server_map.session)) BY DEF Whole
<1>2. CASE j # k
  <2>1. down'[j] = down[j] BY <1>2 DEF SendDown, RelayInv, WireType
  <2> QED BY <1>2, <2>1 DEF Whole, Fresh
<1>3. CASE j = k
  <2>1. down'[j] = Append(down[j], p) BY <1>3 DEF SendDown, RelayInv, WireType
  <2>2. Append(down[j], p) \in Seq(Sent(server_map.session)) BY <1>1, AppendedTo
  <2>3. Append(down[j], p) # <<>> BY <1>1, AppendedTo
  <2>4. Head(Append(down[j], p)) = IF down[j] = <<>> THEN p ELSE Head(down[j])
    BY <1>1, AppendedTo
  <2>5. Fresh(j)' = Fresh(j) BY DEF Fresh
  <2>6. Comes(j)'
    <3>1. CASE Fresh(j) BY <3>1, <2>5 DEF Comes
    <3>2. CASE ~Fresh(j) /\ down[j] # <<>>
      <4>1. IsFirst(Head(down[j])) BY <3>2 DEF Whole, Comes
      <4>2. IsFirst(Head(down'[j])) BY <3>2, <4>1, <2>1, <2>4
      <4> QED BY <2>1, <2>3, <4>2 DEF Comes, IsFirst
    <3>3. CASE ~Fresh(j) /\ down[j] = <<>>
      <4>1. IsFirst(Head(down'[j])) BY <1>3, <3>3, <2>1, <2>4
      <4> QED BY <2>1, <2>3, <4>1 DEF Comes, IsFirst
    <3> QED BY <3>1, <3>2, <3>3
  <2> QED BY <2>1, <2>2, <2>5, <2>6 DEF Whole
<1> QED BY <1>2, <1>3

\* While the maps are sent, whose turn is behind that of client j.
LEMMA TurnOf ==
  ASSUME NEW j \in Clients, NEW h \in Nat, h <= j * DefaultMaps
  PROVE  /\ h \div DefaultMaps = j => h % DefaultMaps = 0
         /\ h \div DefaultMaps # j => h + 1 <= j * DefaultMaps
         /\ h \div DefaultMaps # j => h + 1 < MAX_PLAYERS * DefaultMaps
<1>1. j \in Nat /\ MAX_PLAYERS \in Nat /\ j < MAX_PLAYERS BY ClientsAre
<1>2. CASE DefaultMaps = 1 BY <1>1, <1>2
<1>3. CASE DefaultMaps = 2 BY <1>1, <1>3
<1>4. CASE DefaultMaps = 3 BY <1>1, <1>4
<1>5. CASE DefaultMaps = 4 BY <1>1, <1>5
<1> QED BY <1>2, <1>3, <1>4, <1>5, DefaultAssumption

LEMMA WholeRequests ==
  ASSUME RelayInv, InOrder, Answered, Requests
  PROVE  InOrder' /\ Answered'
<1>1. ~HandleMapUpload /\ ~HandleStartSessionRequest
  <2>1. up[Host] \in Seq(Ends) BY ClientsAre DEF Answered
  <2>2. up[Host] # <<>> => Head(up[Host]) \in Ends BY <2>1
  <2> QED BY <2>2 DEF HandleMapUpload, HandleStartSessionRequest, Ends
<1>2. CASE SendResponses
  <2>1. map_type' = Edited /\ lpc' = "none" /\ up' = up
    BY <1>2 DEF SendResponses, InOrder, serverVars
  <2>2. InOrder' BY <2>1 DEF InOrder
  <2> QED BY <2>1, <2>2 DEF Answered, Edited
<1>3. CASE SendMaps
  <2>1. UNCHANGED <<server_map, map_type, up, pkt, gpc, window, map, m_maps, rpc, StartGame>>
    BY <1>3 DEF SendMaps, flagVars, guiVars
  <2>2. InOrder'
    <3>1. lpc = "none" BY <1>3 DEF SendMaps, InOrder
    <3> QED BY <1>3, <3>1 DEF SendMaps, InOrder
  <2>3. lpc' # "sync" BY <1>3 DEF SendMaps, InOrder
  <2>4. ASSUME map_type = 0, NEW j \in Clients PROVE Whole(j)'
    <3> DEFINE k == hidx \div DefaultMaps
               n == server_map.session
               p == Encode(Filled("SC_MAP_INFO", Body(server_map, MapIndex)))
    <3>1. Whole(j) BY <2>4 DEF Answered, DefaultSession
    <3>2. MapsEach = DefaultMaps /\ MapIndex = hidx % DefaultMaps
      BY <2>4 DEF MapsEach, MapIndex
    <3>3. hidx \in Nat /\ hpc = "maps" /\ hidx < MAX_PLAYERS * DefaultMaps
      BY <1>3, <3>2 DEF SendMaps, RelayInv, HostType
    <3>4. k \in Clients
      <4>1. CASE DefaultMaps = 1 BY <3>3, <4>1, ClientsAre
      <4>2. CASE DefaultMaps = 2 BY <3>3, <4>2, ClientsAre
      <4>3. CASE DefaultMaps = 3 BY <3>3, <4>3, ClientsAre
      <4>4. CASE DefaultMaps = 4 BY <3>3, <4>4, ClientsAre
      <4> QED BY <4>1, <4>2, <4>3, <4>4, DefaultAssumption
    <3>5. hidx % DefaultMaps \in Nat BY <3>3, DefaultAssumption
    <3>6. p \in Packet /\ p.type = "SC_MAP_INFO" /\ p.body.map = server_map
          /\ p.body.index = hidx % DefaultMaps
      BY <3>2, <3>5, EncodedFields, TheTypes DEF RelayInv, ServerType
    <3>7. SendDown(k, p) BY <1>3, <3>2 DEF SendMaps
    <3> HIDE DEF p, k
    <3>8. p \in Sent(n) BY <3>6 DEF Sent
    <3>9. ASSUME j = k PROVE Fresh(j) \/ down[j] # <<>> \/ IsFirst(p)
      <4> SUFFICES ASSUME ~Fresh(j), down[j] = <<>> PROVE IsFirst(p) OBVIOUS
      <4>1. hidx <= j * DefaultMaps BY <3>1 DEF Whole, Comes
      <4>2. hidx % DefaultMaps = 0 BY <3>3, <3>9, <4>1, TurnOf DEF k
      <4> QED BY <3>6, <4>2 DEF IsFirst
    <3>10. ASSUME j # k PROVE Comes(j)'
      <4>1. down'[j] = down[j] BY <3>7, <3>10 DEF SendDown, RelayInv, WireType
      <4>2. Fresh(j)' = Fresh(j) BY <2>1 DEF Fresh
      <4>3. CASE Fresh(j) \/ down[j] # <<>>
        BY <4>1, <4>2, <4>3, <3>1 DEF Whole, Comes, IsFirst
      <4>4. CASE ~Fresh(j) /\ down[j] = <<>>
        <5>1. hidx <= j * DefaultMaps BY <3>1, <4>4 DEF Whole, Comes
        <5>2. /\ hidx + 1 <= j * DefaultMaps
              /\ hidx + 1 < MAX_PLAYERS * DefaultMaps
          BY <3>3, <3>10, <5>1, TurnOf DEF k
        <5>3. hpc' = "maps" /\ hidx' = hidx + 1 BY <1>3, <3>2, <3>3, <5>2 DEF SendMaps
        <5> QED BY <4>1, <4>4, <5>2, <5>3 DEF Comes
      <4> QED BY <4>3, <4>4
    <3> QED BY <2>1, <3>1, <3>4, <3>7, <3>8, <3>9, <3>10, WholeSend
  <2> QED BY <2>1, <2>2, <2>3, <2>4 DEF Answered, DefaultSession
<1> QED BY <1>1, <1>2, <1>3 DEF Requests

\* One round of a loop of the game loop thread: every client had its maps.
LEMMA WholeRound ==
  ASSUME RelayInv, InOrder, Answered, lpc \in {"sync", "win"},
         NEW p \in Packet, map_type = 0 => p \in Sent(server_map.session), SendRound(p, pkt)
  PROVE  InOrder' /\ Answered'
<1>1. UNCHANGED <<server_map, map_type, hpc, hidx, up, gpc, window, map, m_maps, rpc, StartGame>>
  BY DEF SendRound, serverVars, flagVars, guiVars
<1>2. hpc = "recv" BY DEF InOrder, RelayInv, HostType
<1>3. InOrder' BY <1>1, <1>2 DEF InOrder
<1>4. ASSUME map_type = 0, NEW j \in Clients PROVE Whole(j)'
  <2>1. Whole(j) BY <1>4 DEF Answered, DefaultSession
  <2>2. Fresh(j) \/ down[j] # <<>> BY <1>2, <2>1 DEF Whole, Comes
  <2>3. SendDown(lidx, p) /\ lidx \in Clients BY DEF SendRound, RelayInv, LoopType
  <2>4. ASSUME j # lidx PROVE Comes(j)'
    <3>1. down'[j] = down[j] BY <2>3, <2>4 DEF SendDown, RelayInv, WireType
    <3> QED BY <1>1, <2>1, <2>2, <3>1 DEF Whole, Comes, Fresh, IsFirst
  <2>5. p \in Sent(server_map.session) BY <1>4
  <2> QED BY <1>1, <2>1, <2>2, <2>3, <2>4, <2>5, WholeSend
<1>5. map_type = 0 /\ lpc' = "sync" => pkt' \in Sent(server_map'.session)
  BY <1>1 DEF SendRound, Answered, DefaultSession
<1> QED BY <1>1, <1>3, <1>4, <1>5 DEF Answered, DefaultSession

LEMMA WholeLoop ==
  ASSUME RelayInv, InOrder, Answered, Loop
  PROVE  InOrder' /\ Answered'
<1>1. CASE BossLogic
  <2>1. server_map' \in Map /\ server_map'.session = server_map.session
    BY <1>1 DEF BossLogic, RelayInv, ServerType, Map
  <2>2. pkt' \in Packet /\ pkt'.type = "SC_MAP_STATE" /\ pkt'.body.map = server_map'
    BY <1>1, <2>1, EncodedFields, TheTypes DEF BossLogic
  <2>3. pkt' \in Sent(server_map'.session) BY <2>2 DEF Sent
  <2>4. UNCHANGED <<map_type, hpc, hidx, up, down, gpc, window, map, m_maps, rpc, StartGame>>
    BY <1>1 DEF BossLogic, flagVars, guiVars
  <2>5. ASSUME NEW j \in Clients, Whole(j) PROVE Whole(j)'
    BY <2>1, <2>4, <2>5 DEF Whole, Comes, Fresh
  <2>6. InOrder'
    <3>1. hpc = "recv" BY <1>1 DEF BossLogic, InOrder, RelayInv, HostType
    <3> QED BY <2>4, <3>1 DEF InOrder
  <2> QED BY <2>3, <2>4, <2>5, <2>6 DEF Answered, DefaultSession
<1>2. CASE Wins \/ LoopEnds
  <2>1. UNCHANGED <<server_map, map_type, hpc, hidx, up, down, gpc, window, map, m_maps, rpc,
                    StartGame>>
    BY <1>2 DEF Wins, LoopEnds, serverVars, flagVars, guiVars
  <2>2. ASSUME NEW j \in Clients, Whole(j) PROVE Whole(j)'
    BY <2>1, <2>2 DEF Whole, Comes, Fresh
  <2>3. InOrder' /\ lpc' # "sync" BY <1>2, <2>1 DEF Wins, LoopEnds, InOrder
  <2> QED BY <2>1, <2>2, <2>3 DEF Answered, DefaultSession
<1>3. CASE SyncMapState
  <2>1. lpc = "sync" /\ SendRound(pkt, pkt) BY <1>3 DEF SyncMapState, AfterSend
  <2>2. pkt \in Packet BY <2>1 DEF RelayInv, LoopType, Written
  <2>3. map_type = 0 => pkt \in Sent(server_map.session)
    BY <2>1 DEF Answered, DefaultSession
  <2> QED BY <2>1, <2>2, <2>3, WholeRound
<1>4. CASE SendWin
  <2> DEFINE p == Encode(Filled("SC_EVENT", Body(NoMap, 0)))
  <2>1. p \in Packet /\ p.type = "SC_EVENT" BY EncodedFields, MapTypes, TheTypes
  <2>2. lpc = "win" /\ SendRound(p, pkt) BY <1>4 DEF SendWin, Blank
  <2> HIDE DEF p
  <2>3. p \in Sent(server_map.session) BY <2>1 DEF Sent
  <2> QED BY <2>1, <2>2, <2>3, WholeRound
<1> QED BY <1>1, <1>2, <1>3, <1>4 DEF Loop

LEMMA WholeStutter ==
  ASSUME WholeInv, UNCHANGED vars
  PROVE  WholeInv'
<1>1. UNCHANGED <<server_map, map_type, hpc, hidx, lpc, pkt, up, down, gpc, window, map, m_maps,
                  rpc, StartGame>>
  BY DEF vars, serverVars, threadVars, flagVars, guiVars
<1>2. InOrder' = InOrder BY <1>1 DEF InOrder
<1>3. ASSUME NEW j \in Clients PROVE Whole(j)' = Whole(j) /\ Quiet(j)' = Quiet(j)
  BY <1>1 DEF Whole, Comes, Fresh, Quiet
<1>4. Asked => Asked' BY <1>1, <1>3 DEF Asked
<1>5. Answered => Answered' BY <1>1, <1>3 DEF Answered, DefaultSession
<1> QED BY <1>2, <1>4, <1>5 DEF WholeInv

LEMMA WholeStep ==
  ASSUME RelayInv, WholeInv, [Next]_vars
  PROVE  WholeInv'
<1>1. CASE UNCHANGED vars BY <1>1, WholeStutter
<1>2. CASE Asked /\ Next
  BY <1>2, AskedAlone, AskedAnswered DEF WholeInv
<1>3. CASE Answered /\ Next
  <2>0. InOrder BY DEF WholeInv
  <2>1. CASE Press BY <2>1, PressAsks DEF WholeInv
  <2>2. CASE Requests BY <1>3, <2>0, <2>2, WholeRequests DEF WholeInv
  <2>3. CASE Loop BY <1>3, <2>0, <2>3, WholeLoop DEF WholeInv
  <2>4. ASSUME NEW i \in Clients, GUI(i) PROVE WholeInv'
    BY <1>3, <2>0, <2>4, WholeGUI DEF WholeInv
  <2>5. ASSUME NEW i \in Clients, RecvThread(i) PROVE WholeInv'
    BY <1>3, <2>0, <2>5, WholeRecv DEF WholeInv
  <2>6. ASSUME NEW i \in Clients, Handler(i) PROVE WholeInv'
    BY <1>3, <2>0, <2>6, WholeHandler DEF WholeInv
  <2> QED BY <1>3, <2>1, <2>2, <2>3, <2>4, <2>5, <2>6 DEF Next
<1> QED BY <1>1, <1>2, <1>3 DEF WholeInv

\* In a default session everybody plays on the whole map of the session, for
\* any number of clients, of maps and of sessions before it.
THEOREM DefaultMapIsWhole == Spec => []DefaultMapWhole
<1>1. RelayInv /\ WholeInv /\ [Next]_vars => WholeInv' BY WholeStep
<1>2. WholeInv => DefaultMapWhole
  <2> SUFFICES ASSUME WholeInv, NEW i \in Clients, InPlay(i), map_type = 0
               PROVE  map[i].objects = server_map.session
    BY DEF DefaultMapWhole
  <2>1. window[i] = "game" BY DEF InPlay
  <2>2. ~Asked BY <2>1 DEF Asked, Quiet
  <2>3. Whole(i) BY <2>2 DEF WholeInv, Answered, DefaultSession
  <2> QED BY <2>1, <2>3 DEF Whole
<1>3. Spec => []WholeInv BY InitWholeInv, MapRelaySafe, <1>1, PTL DEF Spec
<1> QED BY <1>2, <1>3, PTL

================================================================================
