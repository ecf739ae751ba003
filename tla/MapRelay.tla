------------------------------- MODULE MapRelay -------------------------------
(***************************************************************************)
(* How a map gets from the server to every client.  The host asks for a    *)
(* session or uploads a map; the server's handler stores it and sends it   *)
(* to everybody; each client's recv thread stores what arrives and raises  *)
(* flags, for which StartTimer on its GUI thread polls to fetch the map    *)
(* with GetMap and open the game; at every tick TimerProc takes over the   *)
(* blocks; on a boss map the game loop changes them and broadcasts them.   *)
(*                                                                         *)
(* The client's flags are written by both of its threads without a lock;   *)
(* the code is cut between the writes the other thread can tell apart.     *)
(* Packets go through Encode and Decode as Packets has them.  A map is the *)
(* session it belongs to and the number of changes the boss fight has made *)
(* to its blocks.  Reports and frames are PlayerRelay's, stages and        *)
(* leaving early ServerSession's.                                          *)
(***************************************************************************)
EXTENDS Packets, Sequences

CONSTANTS
  MAX_PLAYERS,  \* number of clients; client 0 is the host
  DefaultMaps,  \* packets SC_MAP_INFO of a default session (4)
  Fights,       \* bound: the sessions whose boss changes blocks ...
  MaxSteps,     \* bound: ... and in how many frames it does
  MaxPress,     \* bound: sessions the host asks for
  UpBound,      \* packets under way from a client
  DownBound     \* packets a connection holds before send blocks

ASSUME PlayersAssumption == MAX_PLAYERS \in Nat \ {0}
ASSUME DefaultAssumption == DefaultMaps \in 1 .. 4
ASSUME RelayBounds ==
  /\ MaxSteps \in Nat /\ MaxPress \in Nat
  /\ UpBound \in Nat \ {0} /\ DownBound \in Nat \ {0}

Clients == 0 .. MAX_PLAYERS - 1
Host == 0
Edited == 99                       \* the map index, and type, of an upload

\* A map: the session it was made for and the changes to its blocks.
Map == [session : Nat, step : Nat]
NoMap == [session |-> 0, step |-> 0]
Drawn(s) == [session |-> s, step |-> 0]

VARIABLES
  \* the server
  server_map, map_type, game_loop_running,
  hpc, hidx,                 \* the host's recv thread: place, loop index
  lpc, lidx, pkt,            \* the game loop thread: place, loop index, packet
  \* each client
  StartGame, Mapready, maprecvEvent, Win,
  m_maps,                    \* m_maps[0]
  rpc, gpc,                  \* its recv thread, its GUI thread
  window, map,               \* what it shows; the GUI's own map
  presses,                   \* bound: sessions asked for
  wins,                      \* bound: sessions won; one win is sent for each
  up, down                   \* the packets under way

serverVars == <<server_map, map_type, game_loop_running>>
threadVars == <<hpc, hidx, lpc, lidx, pkt>>
flagVars == <<StartGame, Mapready, maprecvEvent, Win>>
guiVars == <<gpc, window, map>>
bounds == <<presses, wins>>
vars == <<serverVars, threadVars, flagVars, m_maps, rpc, guiVars, bounds, up, down>>

\* What a packet carries: a map, and an index or a type of map.
Body(m, n) == [map |-> m, index |-> n]
Blank == Body(NoMap, 0)
None == [type |-> "none", body |-> Blank, net |-> {}]

Init ==
  /\ server_map = NoMap /\ map_type = 0 /\ game_loop_running = FALSE
  /\ hpc = "recv" /\ hidx = 0 /\ lpc = "none" /\ lidx = 0 /\ pkt = None
  /\ StartGame = [i \in Clients |-> FALSE]
  /\ Mapready = [i \in Clients |-> FALSE]
  /\ maprecvEvent = [i \in Clients |-> FALSE]
  /\ Win = [i \in Clients |-> FALSE]
  /\ m_maps = [i \in Clients |-> NoMap]
  /\ rpc = [i \in Clients |-> "recv"] /\ gpc = [i \in Clients |-> "idle"]
  /\ window = [i \in Clients |-> "title"]
  /\ map = [i \in Clients |-> [objects |-> 0, blocks |-> NoMap]]
  /\ presses = 0 /\ wins = 0
  /\ up = [i \in Clients |-> <<>>] /\ down = [i \in Clients |-> <<>>]

Room(i) == Len(down[i]) < DownBound
SendUp(i, p) == up' = [up EXCEPT ![i] = Append(@, p)]
SendDown(i, p) == down' = [down EXCEPT ![i] = Append(@, p)]

--------------------------------------------------------------------------------
\* The GUI thread of a client.

\* The start button of the host: SendStartSessionRequestPacket.
PressStart ==
  /\ gpc[Host] = "idle" /\ window[Host] = "title" /\ presses < MaxPress
  /\ presses' = presses + 1
  /\ window' = [window EXCEPT ![Host] = "hidden"]
  /\ Mapready' = [Mapready EXCEPT ![Host] = FALSE]
  /\ StartGame' = [StartGame EXCEPT ![Host] = FALSE]
  /\ maprecvEvent' = [maprecvEvent EXCEPT ![Host] = FALSE]
  /\ SendUp(Host, Encode(Filled("CS_START_SESSION_REQ", Blank)))
  /\ UNCHANGED <<serverVars, threadVars, Win, m_maps, rpc, gpc, map, wins, down>>

\* The key s in the editor: the title is shown again and the map uploaded.
PressUpload ==
  /\ gpc[Host] = "idle" /\ window[Host] = "title" /\ presses < MaxPress
  /\ presses' = presses + 1
  /\ map' = [map EXCEPT ![Host] =
               [objects |-> presses + 1, blocks |-> Drawn(presses + 1)]]
  /\ SendUp(Host, Encode(Filled("CS_UPLOAD_MAP", Body(Drawn(presses + 1), 0))))
  /\ UNCHANGED <<serverVars, threadVars, flagVars, m_maps, rpc, gpc, window,
                 wins, down>>

\* GetMap's copy, and the player and the windows StartTimer makes of it.
Open(i) ==
  /\ map' = [map EXCEPT ![i] =
               [objects |-> m_maps[i].session, blocks |-> m_maps[i]]]
  /\ window' = [window EXCEPT ![i] = "game"]
  /\ gpc' = [gpc EXCEPT ![i] = "lower"]

\* StartTimer finds StartGame raised.  Its test, that of Mapready in GetMap and
\* the copy are one step: the recv thread never lowers either flag ...
StartTimer(i) ==
  /\ gpc[i] = "idle" /\ StartGame[i] /\ Mapready[i]
  /\ Open(i)
  /\ UNCHANGED <<serverVars, threadVars, flagVars, m_maps, rpc, bounds, up, down>>

\* ... but without a map GetMap waits ...
GetMapWaits(i) ==
  /\ gpc[i] = "idle" /\ StartGame[i] /\ ~Mapready[i]
  /\ gpc' = [gpc EXCEPT ![i] = "wait"]
  /\ window' = [window EXCEPT ![i] = IF @ = "title" THEN "hidden" ELSE @]
  /\ UNCHANGED <<serverVars, threadVars, flagVars, m_maps, rpc, map, bounds,
                 up, down>>

\* ... and the wait takes the event back.
GetMapWakes(i) ==
  /\ gpc[i] = "wait" /\ maprecvEvent[i]
  /\ maprecvEvent' = [maprecvEvent EXCEPT ![i] = FALSE]
  /\ gpc' = [gpc EXCEPT ![i] = "copy"]
  /\ UNCHANGED <<serverVars, threadVars, StartGame, Mapready, Win, m_maps, rpc,
                 window, map, bounds, up, down>>

GetMapCopies(i) ==
  /\ gpc[i] = "copy"
  /\ Open(i)
  /\ UNCHANGED <<serverVars, threadVars, flagVars, m_maps, rpc, bounds, up, down>>

\* In the end StartTimer lowers StartGame, whoever has raised it meanwhile.
StartTimerEnds(i) ==
  /\ gpc[i] = "lower"
  /\ StartGame' = [StartGame EXCEPT ![i] = FALSE]
  /\ gpc' = [gpc EXCEPT ![i] = "idle"]
  /\ UNCHANGED <<serverVars, threadVars, Mapready, maprecvEvent, Win, m_maps,
                 rpc, window, map, bounds, up, down>>

\* ClientSystem::SyncMapState: blocks, enemies and boss, but no objects.
SyncedNever(m, held) == m
Synced(m, held) == [m EXCEPT !.blocks = held]

\* The packet of a client that has won.
Farewell(i) == IF Win[i] THEN <<Encode(Filled("CS_END_SESSION_REQ", Blank))>> ELSE <<>>

\* TimerProc: a won game is left with a request to end the session, and in
\* every tick the blocks are refreshed.
TimerProc(i) ==
  /\ gpc[i] = "idle" /\ window[i] = "game" /\ Len(up[i]) < UpBound
  /\ up' = [up EXCEPT ![i] = @ \o Farewell(i)]
  /\ Win' = [Win EXCEPT ![i] = FALSE]
  /\ window' = [window EXCEPT ![i] = IF Win[i] THEN "title" ELSE @]
  /\ map' = [map EXCEPT ![i] = Synced(@, m_maps[i])]
  /\ UNCHANGED <<serverVars, threadVars, StartGame, Mapready, maprecvEvent,
                 m_maps, rpc, gpc, bounds, down>>

--------------------------------------------------------------------------------
\* The recv thread of a client.

\* What a handler does under the lock, or in one statement.
HandleMapInfo(i, p) ==
  /\ p.type = "SC_MAP_INFO"
  /\ rpc' = [rpc EXCEPT ![i] = "stored"]
  /\ m_maps' = [m_maps EXCEPT ![i] = IF p.body.index \in {0, Edited} THEN p.body.map ELSE @]
  /\ UNCHANGED Win

HandleMapUploadResponse(i, p) ==
  /\ p.type = "SC_MAP_UPLOAD_RSP"
  /\ rpc' = [rpc EXCEPT ![i] = "granted"]
  /\ UNCHANGED <<m_maps, Win>>

HandleMapState(i, p) ==
  /\ p.type = "SC_MAP_STATE"
  /\ m_maps' = [m_maps EXCEPT ![i] = p.body.map]
  /\ UNCHANGED <<rpc, Win>>

HandleEvent(i, p) ==
  /\ p.type = "SC_EVENT"
  /\ Win' = [Win EXCEPT ![i] = TRUE]
  /\ UNCHANGED <<m_maps, rpc>>

\* ProcessPacket.
Deliver(i) ==
  /\ rpc[i] = "recv" /\ down[i] # <<>>
  /\ down' = [down EXCEPT ![i] = Tail(@)]
  /\ LET p == Decode(Head(down[i])) IN
       \/ HandleMapInfo(i, p) \/ HandleMapUploadResponse(i, p)
       \/ HandleMapState(i, p) \/ HandleEvent(i, p)
  /\ UNCHANGED <<serverVars, threadVars, StartGame, Mapready, maprecvEvent,
                 guiVars, bounds, up>>

\* SetEvent, at the end of HandleMapInfo.
EventNever(pc) == FALSE
EventSet(pc) == pc = "event"

\* What HandleMapInfo and HandleMapUploadResponse do outside the lock, one
\* write after the other: where the thread is, and where it goes.
Raise(i) ==
  /\ rpc[i] # "recv"
  /\ rpc' = [rpc EXCEPT ![i] =
               CASE @ = "stored" -> "event" [] @ = "granted" -> "map"
                 [] OTHER -> "recv"]
  /\ Mapready' = [Mapready EXCEPT ![i] = @ \/ rpc[i] \in {"stored", "map"}]
  /\ StartGame' = [StartGame EXCEPT ![i] = @ \/ rpc[i] \in {"stored", "granted"}]
  /\ Win' = [Win EXCEPT ![i] = @ /\ rpc[i] # "event"]
  /\ maprecvEvent' = [maprecvEvent EXCEPT ![i] = @ \/ EventSet(rpc[i])]
  /\ UNCHANGED <<serverVars, threadVars, m_maps, guiVars, bounds, up, down>>

--------------------------------------------------------------------------------
\* The recv threads of the server.

Received(i) == up' = [up EXCEPT ![i] = Tail(@)]

\* A request to end that was read together with the report before it is lost.
EndLost(i) ==
  /\ up[i] # <<>> /\ Head(up[i]).type = "CS_END_SESSION_REQ"
  /\ Received(i)
  /\ UNCHANGED <<serverVars, threadVars, flagVars, m_maps, rpc, guiVars, bounds, down>>

HandleEndSessionRequest(i) ==
  /\ up[i] # <<>> /\ Head(up[i]).type = "CS_END_SESSION_REQ"
  /\ i = Host => hpc = "recv"
  /\ Received(i)
  /\ game_loop_running' = FALSE
  /\ UNCHANGED <<server_map, map_type, threadVars, flagVars,
                 m_maps, rpc, guiVars, bounds, down>>

HandleMapUpload ==
  /\ hpc = "recv" /\ up[Host] # <<>> /\ Head(up[Host]).type = "CS_UPLOAD_MAP"
  /\ Received(Host)
  /\ server_map' = Decode(Head(up[Host])).body.map
  /\ map_type' = Edited
  /\ hpc' = "respond" /\ hidx' = 0
  /\ UNCHANGED <<game_loop_running, lpc, lidx, pkt, flagVars, m_maps, rpc,
                 guiVars, bounds, down>>

\* The request is decoded by the handler itself; the maps are made afresh.
HandleStartSessionRequest ==
  /\ hpc = "recv" /\ up[Host] # <<>>
  /\ Head(up[Host]).type = "CS_START_SESSION_REQ"
  /\ Received(Host)
  /\ map_type' = Decode(Head(up[Host])).body.index
  /\ server_map' = Drawn(presses)
  /\ hpc' = "maps" /\ hidx' = 0
  /\ UNCHANGED <<game_loop_running, lpc, lidx, pkt, flagVars,
                 m_maps, rpc, guiVars, bounds, down>>

SendResponses ==
  /\ hpc = "respond" /\ Room(hidx)
  /\ SendDown(hidx, Encode(Filled("SC_MAP_UPLOAD_RSP", Blank)))
  /\ IF hidx + 1 = MAX_PLAYERS THEN hpc' = "maps" /\ hidx' = 0
     ELSE hidx' = hidx + 1 /\ UNCHANGED hpc
  /\ UNCHANGED <<serverVars, lpc, lidx, pkt, flagVars, m_maps, rpc, guiVars,
                 bounds, up>>

\* BroadcastMapInfo, and the second loop of HandleMapUpload: a fresh packet
\* for every client and every map, and StartGameLoop behind the last.
MapsEach == IF map_type = 0 THEN DefaultMaps ELSE 1
MapIndexFromOne == IF map_type = 0 THEN (hidx % DefaultMaps) + 1 ELSE Edited
MapIndex == IF map_type = 0 THEN hidx % DefaultMaps ELSE Edited

SendMaps ==
  /\ hpc = "maps" /\ Room(hidx \div MapsEach)
  /\ SendDown(hidx \div MapsEach,
       Encode(Filled("SC_MAP_INFO", Body(server_map, MapIndex))))
  /\ IF hidx + 1 < MAX_PLAYERS * MapsEach
     THEN hidx' = hidx + 1 /\ UNCHANGED <<hpc, lpc, game_loop_running>>
     ELSE /\ hpc' = "recv" /\ hidx' = 0
          /\ game_loop_running' = TRUE /\ lpc' = "top"
  /\ UNCHANGED <<server_map, map_type, lidx, pkt, flagVars,
                 m_maps, rpc, guiVars, bounds, up>>

--------------------------------------------------------------------------------
\* The game loop thread.

\* An uploaded map may have a boss and a flag that wins; of the default maps,
\* of which the module stays at the first, only the last one has a boss.
Winnable == map_type = Edited \/ DefaultMaps = 1

\* A frame begins while the flag is up.  BossLogic moves the blocks, and
\* SyncMapState encodes one packet for all ...
BossLogic ==
  /\ lpc = "top" /\ game_loop_running /\ Winnable
  /\ server_map.session \in Fights /\ server_map.step < MaxSteps
  /\ server_map' = [server_map EXCEPT !.step = @ + 1]
  /\ pkt' = Encode(Filled("SC_MAP_STATE", Body(server_map', 0)))
  /\ lpc' = "sync"
  /\ UNCHANGED <<map_type, game_loop_running, hpc, hidx, lidx,
                 flagVars, m_maps, rpc, guiVars, bounds, up, down>>

\* ... or the boss is beaten, or somebody is at the flag.
Wins ==
  /\ lpc = "top" /\ game_loop_running /\ Winnable /\ wins < presses
  /\ lpc' = "win" /\ wins' = presses
  /\ UNCHANGED <<serverVars, hpc, hidx, lidx, pkt, flagVars, m_maps, rpc, guiVars,
                 presses, up, down>>

\* The flag is down.
LoopEnds ==
  /\ lpc = "top" /\ ~game_loop_running
  /\ lpc' = "none"
  /\ UNCHANGED <<serverVars, hpc, hidx, lidx, pkt, flagVars, m_maps, rpc, guiVars,
                 bounds, up, down>>

\* What is left of the packet behind a send that might encode it again.
EncodedInPlace(p) == Encode(p)
AfterSend(p) == p

\* The loop over the clients is through.
LoopOverLate == lidx = MAX_PLAYERS
LoopOver == lidx + 1 = MAX_PLAYERS

\* One round of it: what is sent, and what is left of the packet.
SendRound(p, left) ==
  /\ Room(lidx) /\ SendDown(lidx, p)
  /\ IF LoopOver THEN lpc' = "top" /\ lidx' = 0 /\ pkt' = None
     ELSE lidx' = lidx + 1 /\ pkt' = left /\ UNCHANGED lpc
  /\ UNCHANGED <<serverVars, hpc, hidx, flagVars, m_maps, rpc, guiVars, bounds, up>>

SyncMapState == lpc = "sync" /\ SendRound(pkt, AfterSend(pkt))
SendWin == lpc = "win" /\ SendRound(Encode(Filled("SC_EVENT", Blank)), pkt)

Loop ==
  \/ BossLogic \/ Wins \/ LoopEnds \/ SyncMapState \/ SendWin

--------------------------------------------------------------------------------
\* A patient host begins a session when the last one is over for everybody.
Over ==
  /\ lpc = "none" /\ hpc = "recv"
  /\ \A i \in Clients :
       /\ rpc[i] = "recv" /\ gpc[i] = "idle" /\ ~StartGame[i]
       /\ i # Host => window[i] = "title"
       /\ up[i] = <<>> /\ down[i] = <<>>

Press == Over /\ (PressStart \/ PressUpload)

GUI(i) ==
  \/ StartTimer(i) \/ GetMapWaits(i) \/ GetMapWakes(i) \/ GetMapCopies(i)
  \/ StartTimerEnds(i) \/ TimerProc(i)
RecvThread(i) == Deliver(i) \/ Raise(i)
Handler(i) == EndLost(i) \/ HandleEndSessionRequest(i)
Requests ==
  \/ HandleMapUpload \/ HandleStartSessionRequest \/ SendResponses \/ SendMaps

Next ==
  \/ Press \/ Requests \/ Loop
  \/ \E i \in Clients : GUI(i) \/ RecvThread(i) \/ Handler(i)

\* Every thread goes on while it can; nobody need press a button or move.
Fairness ==
  /\ WF_vars(Loop)
  /\ \A i \in Clients :
       /\ WF_vars(GUI(i)) /\ WF_vars(RecvThread(i))
       /\ WF_vars(Handler(i) \/ (i = Host /\ Requests))

Spec == Init /\ [][Next]_vars
FairSpec == Spec /\ Fairness

--------------------------------------------------------------------------------
InPlay(i) == game_loop_running /\ window[i] = "game"

\* A packet object: its type, its body, and field names in network order.
Packet ==
  [type : PacketTypes, body : [map : Map, index : Nat],
   net : SUBSET UNION {Converted[t] : t \in PacketTypes}]

\* The types of the variables; the loops over the clients stay in bounds, and
\* the packet that is held is one, or none.
TypeOK ==
  /\ server_map \in Map /\ map_type \in Nat /\ game_loop_running \in BOOLEAN
  /\ hpc \in {"recv", "respond", "maps"} /\ hidx \in 0 .. (MAX_PLAYERS * DefaultMaps) - 1
  /\ lpc \in {"none", "top", "sync", "win"} /\ lidx \in Clients
  /\ pkt \in Packet \cup {None}
  /\ {StartGame, Mapready, maprecvEvent, Win} \subseteq [Clients -> BOOLEAN]
  /\ m_maps \in [Clients -> Map]
  /\ rpc \in [Clients -> {"recv", "stored", "event", "granted", "map"}]
  /\ gpc \in [Clients -> {"idle", "wait", "copy", "lower"}]
  /\ window \in [Clients -> {"title", "hidden", "game"}]
  /\ map \in [Clients -> [objects : Nat, blocks : Map]]
  /\ presses \in Nat /\ wins \in Nat
  /\ up \in [Clients -> Seq(Packet)] /\ down \in [Clients -> Seq(Packet)]

\* Whatever is under way has every wide field in network order, and the one
\* who decodes it gets every field back: a packet is encoded once, whether a
\* copy is made for each client or one serves for all.
OnTheWire ==
  \A i \in Clients :
    /\ \A k \in 1 .. Len(up[i]) : ReadsAsWritten(up[i][k])
    /\ \A k \in 1 .. Len(down[i]) : ReadsAsWritten(down[i][k])

\* Whatever the boss fight does to the blocks, again and again every player in
\* the game runs on the server's blocks (the bound on the changes ends them).
MapsSettle == \A i \in Clients : []<>(InPlay(i) => map[i].blocks = server_map)

\* GetMap's wait on the GUI thread ends: whoever finds Mapready down is woken
\* by a map that is still to come.
GuiReturns == \A i \in Clients : gpc[i] = "wait" ~> gpc[i] # "wait"

\* In a default session everybody who is in the game plays on the whole map of
\* this session, the objects included, which no later packet brings up to date:
\* StartGame is raised behind the map, by whichever of the maps comes first.
DefaultMapWhole ==
  \A i \in Clients : InPlay(i) /\ map_type = 0 => map[i].objects = server_map.session
================================================================================
