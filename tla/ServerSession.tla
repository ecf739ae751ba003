----------------------------- MODULE ServerSession -----------------------------
(***************************************************************************)
(* Game sessions: the recv threads of ServerSystem handling the requests   *)
(* that start, feed and end a session, the game loop threads that decide   *)
(* when a stage is cleared or the game won, and the part of every client   *)
(* that follows: the recv thread (HandleMapInfo, HandleEvent) and the      *)
(* timers of the GUI thread (StartTimer, TimerProc).  The players stay     *)
(* connected; coming and going is the business of ServerConn.              *)
(*                                                                         *)
(* None of the session variables is locked.  The code is cut at its writes *)
(* of now_map, map_type, server_map, getFlag and game_loop_running and at  *)
(* its sends; ++now_map is a read and a write.  The collision test of a    *)
(* frame reads everything in one step.  Where a player is matters only as  *)
(* far as somebody is at a flag: the place "at the flag of map n" is n.    *)
(***************************************************************************)
EXTENDS Integers, Sequences

CONSTANTS MAX_PLAYERS,  \* the number of clients; client 0 is the host
          LastMap,      \* index of the boss map, 3 in the code
          Overlap,      \* pairs <<m, n>>: m's flag is where n's flag is too
          Loops,        \* the threads StartGameLoop may ever launch
          Runners,      \* bound: the players who ever get to a flag
          Quitters,     \* the players who may leave a game early
          MaxPress,     \* bound: how often the host starts a session
          MaxRead,      \* packets that one recv() may return together
          UpBound,      \* packets under way from a client
          DownBound     \* packets a connection holds before send blocks

ASSUME SizeAssumption == MAX_PLAYERS \in Nat \ {0} /\ LastMap \in Nat
ASSUME WhoAssumption == Runners \cup Quitters \subseteq 0 .. MAX_PLAYERS - 1
ASSUME ReadAssumption == MaxRead \in Nat \ {0}
ASSUME PressAssumption == MaxPress \in Nat
ASSUME BoundAssumption == UpBound \in Nat /\ UpBound >= 2 /\ DownBound \in Nat \ {0}

Players == 0 .. MAX_PLAYERS - 1
Host == 0
Maps == 0 .. LastMap
Edit == LastMap + 1         \* the place of the flag of an uploaded map
Away == -1                  \* not at a flag
Places == Maps \cup {Edit, Away}

\* Packets of a client, and packets of the server.  The four SC_MAP_INFO of a
\* default session arrive as one "maps": each of them resets the client alike.
Update(pl) == [type |-> "update", place |-> pl]
Request(t) == [type |-> t, place |-> Away]
Ups == [type : {"start", "upload", "end", "update"}, place : Places]
Downs == {"rsp", "maps", "edit", "clear", "win"}

VARIABLES
  now_map, map_type, getFlag, game_loop_running,
  server_map,             \* what each server_map[n] holds: "default" or "edit"
  at,                     \* server_players: the place each player reported last
  hpc, hidx,              \* the host's recv thread: place, loop index
  lpc, lidx, lreg,        \* game loop threads: place, loop index, now_map as read
  screen,                 \* each client shows the title, nothing or the game
  idx, ctype, sel,        \* current_map_index, map_type, selected_map
  StartGame, Win,
  presses,                \* bound: how many sessions the host has asked for
  up, down                \* the packets under way

session == <<now_map, map_type, getFlag, game_loop_running, server_map, at>>
handler == <<hpc, hidx>>
loops == <<lpc, lidx, lreg>>
clients == <<screen, idx, ctype, sel, StartGame, Win, presses>>
vars == <<session, handler, loops, clients, up, down>>

TypeOK ==
  /\ now_map \in Nat /\ map_type \in {0, 99}
  /\ getFlag \in BOOLEAN /\ game_loop_running \in BOOLEAN
  /\ server_map \in [Maps -> {"default", "edit"}]
  /\ at \in [Players -> Places]
  /\ hpc \in {"recv", "make", "reset", "maps", "rsp", "edit", "launch", "flag"}
  /\ hidx \in 0 .. MAX_PLAYERS
  /\ lpc \in [Loops -> {"none", "top", "collide", "clear", "read", "write",
                        "win", "boss", "bosswin"}]
  /\ lidx \in [Loops -> 0 .. MAX_PLAYERS] /\ lreg \in [Loops -> Nat]
  /\ screen \in [Players -> {"title", "hidden", "game"}]
  /\ idx \in [Players -> Maps] /\ ctype \in [Players -> {0, 99}]
  /\ sel \in [Players -> Maps \cup {99}]
  /\ StartGame \in [Players -> BOOLEAN] /\ Win \in [Players -> BOOLEAN]
  /\ presses \in 0 .. MaxPress
  /\ up \in [Players -> Seq(Ups)] /\ down \in [Players -> Seq(Downs)]

\* Everybody is connected and sees the title; no session has been started.
Init ==
  /\ now_map = 0 /\ map_type = 0 /\ getFlag = FALSE /\ game_loop_running = FALSE
  /\ server_map = [n \in Maps |-> "default"]
  /\ at = [p \in Players |-> Away]
  /\ hpc = "recv" /\ hidx = 0
  /\ lpc = [l \in Loops |-> "none"] /\ lidx = [l \in Loops |-> 0]
  /\ lreg = [l \in Loops |-> 0]
  /\ screen = [p \in Players |-> "title"]
  /\ idx = [p \in Players |-> 0] /\ ctype = [p \in Players |-> 0]
  /\ sel = [p \in Players |-> 0]
  /\ StartGame = [p \in Players |-> FALSE] /\ Win = [p \in Players |-> FALSE]
  /\ presses = 0
  /\ up = [p \in Players |-> <<>>] /\ down = [p \in Players |-> <<>>]

CanSend(p) == Len(down[p]) < DownBound
SendDown(p, m) == down' = [down EXCEPT ![p] = Append(@, m)]

------------------------------------------------------------------------------
(* The recv threads.  DoRecv hands ProcessPacket the first packet of what   *)
(* recv() returned; whatever came with it in the same read is dropped.      *)

Received(p, t) ==
  /\ up[p] # <<>> /\ Head(up[p]).type = t
  /\ p = Host => hpc = "recv"
  /\ \E k \in 1 .. MaxRead :
       /\ k <= Len(up[p])
       /\ up' = [up EXCEPT ![p] = SubSeq(@, k + 1, Len(@))]

HandlePlayerUpdate(p) ==
  /\ Received(p, "update")
  /\ at' = [at EXCEPT ![p] = Head(up[p]).place]
  /\ UNCHANGED <<now_map, map_type, getFlag, game_loop_running, server_map,
                 handler, loops, clients, down>>

HandleEndSession(p) ==
  /\ Received(p, "end")
  /\ game_loop_running' = FALSE
  /\ UNCHANGED <<now_map, map_type, getFlag, server_map, at, handler, loops,
                 clients, down>>

\* HandleStartSessionRequest; only the host's client ever sends a request.
HandleStart ==
  /\ Received(Host, "start")
  /\ map_type' = 0 /\ hpc' = "make"
  /\ UNCHANGED <<now_map, getFlag, game_loop_running, server_map, at, hidx, loops,
                 clients, down>>

MakeDefaultMap ==
  /\ hpc = "make" /\ hpc' = "reset"
  /\ server_map' = [n \in Maps |-> "default"]
  /\ UNCHANGED <<now_map, map_type, getFlag, game_loop_running, at, hidx, loops,
                 clients, up, down>>

ResetMap ==
  /\ hpc = "reset" /\ hpc' = "maps" /\ hidx' = 0
  /\ now_map' = 0
  /\ UNCHANGED <<map_type, getFlag, game_loop_running, server_map, at, loops,
                 clients, up, down>>

\* HandleMapUpload: the map in play is replaced, everybody is put at its start.
HandleMapUpload ==
  /\ Received(Host, "upload")
  /\ server_map' = [n \in Maps |-> IF n = now_map THEN "edit" ELSE server_map[n]]
  /\ map_type' = 99
  /\ at' = [p \in Players |-> Away]
  /\ hpc' = "rsp" /\ hidx' = 0
  /\ UNCHANGED <<now_map, getFlag, game_loop_running, loops, clients, down>>

\* One packet for each client, then on to the next place.
SendAll(packet, there) ==
  /\ IF hidx = MAX_PLAYERS
       THEN hpc' = there /\ hidx' = 0 /\ UNCHANGED down
       ELSE CanSend(hidx) /\ SendDown(hidx, packet) /\ hidx' = hidx + 1 /\ UNCHANGED hpc
  /\ UNCHANGED <<session, loops, clients, up>>

\* Everybody is told that the upload succeeded before the map is sent.
SendResponses == hpc = "rsp" /\ SendAll("rsp", "edit")

\* Mutant: the last client is forgotten.
SendMapsShort ==
  /\ hpc \in {"maps", "edit"}
  /\ IF hidx = MAX_PLAYERS - 1
       THEN hpc' = "launch" /\ hidx' = 0 /\ UNCHANGED down
       ELSE CanSend(hidx) /\ SendDown(hidx, hpc) /\ hidx' = hidx + 1 /\ UNCHANGED hpc
  /\ UNCHANGED <<session, loops, clients, up>>

\* BroadcastMapInfo, and the loop of HandleMapUpload that sends the map.
SendMaps == hpc \in {"maps", "edit"} /\ SendAll(hpc, "launch")

\* StartGameLoop: the flag is raised and the thread launched ...
StartGameLoop ==
  /\ hpc = "launch"
  /\ IF game_loop_running
       THEN hpc' = "recv" /\ UNCHANGED <<game_loop_running, lpc>>
       ELSE /\ game_loop_running' = TRUE /\ hpc' = "flag"
            /\ \E l \in Loops : lpc[l] = "none" /\ lpc' = [lpc EXCEPT ![l] = "top"]
  /\ UNCHANGED <<now_map, map_type, getFlag, server_map, at, hidx, lidx, lreg,
                 clients, up, down>>

\* ... and getFlag is cleared after that.
ClearFlag ==
  /\ hpc = "flag" /\ hpc' = "recv" /\ getFlag' = FALSE
  /\ UNCHANGED <<now_map, map_type, game_loop_running, server_map, at, hidx, loops,
                 clients, up, down>>

Handler ==
  \/ MakeDefaultMap \/ ResetMap \/ SendResponses \/ SendMaps
  \/ StartGameLoop \/ ClearFlag
Recv(p) == HandlePlayerUpdate(p) \/ HandleEndSession(p)
Requests == HandleStart \/ HandleMapUpload

------------------------------------------------------------------------------
(* A game loop thread.                                                      *)

Goto(l, pc) == lpc' = [lpc EXCEPT ![l] = pc]

\* The thread tests the flag of its loop and goes on, or ends.
LoopTop(l) ==
  /\ lpc[l] = "top"
  /\ Goto(l, IF game_loop_running THEN "collide" ELSE "none")
  /\ UNCHANGED <<session, handler, lidx, lreg, clients, up, down>>

\* The flag of the map in play is at place pl; the boss map has none.
FlagAt(n, pl) ==
  IF server_map[n] = "edit" THEN pl = Edit
  ELSE n # LastMap /\ (pl = n \/ <<pl, n>> \in Overlap)

Touches(p) == now_map \in Maps /\ FlagAt(now_map, at[p])

\* There is a stage after the one in play.
StageLeft == now_map < LastMap

\* CheckAllCollisions.  On an uploaded map the first to reach the flag wins.
CollideWin(l) ==
  /\ lpc[l] = "collide" /\ map_type # 0 /\ ~getFlag /\ \E p \in Players : Touches(p)
  /\ getFlag' = TRUE /\ Goto(l, "win")
  /\ UNCHANGED <<now_map, map_type, game_loop_running, server_map, at, handler,
                 lidx, lreg, clients, up, down>>

\* Mutant: every flag clears a stage, whatever is being played.
CollideClearAlways(l) ==
  /\ lpc[l] = "collide" /\ ~getFlag /\ \E p \in Players : Touches(p)
  /\ Goto(l, "clear")
  /\ UNCHANGED <<session, handler, lidx, lreg, clients, up, down>>

CollideClear(l) ==
  /\ lpc[l] = "collide" /\ map_type = 0 /\ ~getFlag /\ \E p \in Players : Touches(p)
  /\ StageLeft /\ Goto(l, "clear")
  /\ UNCHANGED <<session, handler, lidx, lreg, clients, up, down>>

CollideNone(l) ==
  /\ lpc[l] = "collide"
  /\ \/ getFlag
     \/ map_type = 0 /\ ~StageLeft
     \/ \A p \in Players : ~Touches(p)
  /\ Goto(l, "boss")
  /\ UNCHANGED <<session, handler, lidx, lreg, clients, up, down>>

\* The event goes to one client at a time.
Broadcast(l, here, packet, there) ==
  /\ lpc[l] = here
  /\ IF lidx[l] = MAX_PLAYERS
       THEN Goto(l, there) /\ lidx' = [lidx EXCEPT ![l] = 0] /\ UNCHANGED down
       ELSE /\ CanSend(lidx[l]) /\ SendDown(lidx[l], packet)
            /\ lidx' = [lidx EXCEPT ![l] = @ + 1] /\ UNCHANGED lpc
  /\ UNCHANGED <<session, handler, lreg, clients, up>>

\* ++now_map.
ReadMap(l) ==
  /\ lpc[l] = "read" /\ Goto(l, "write")
  /\ lreg' = [lreg EXCEPT ![l] = now_map]
  /\ UNCHANGED <<session, handler, lidx, clients, up, down>>

WriteMap(l) ==
  /\ lpc[l] = "write" /\ Goto(l, "boss")
  /\ now_map' = lreg[l] + 1 /\ lreg' = [lreg EXCEPT ![l] = 0]
  /\ UNCHANGED <<map_type, getFlag, game_loop_running, server_map, at, handler,
                 lidx, clients, up, down>>

\* BossLogic, on the boss map and on an uploaded map that has a boss: when it
\* has no lives left, whoever stomps on it wins, in this frame and in every
\* later one.  Then the frame is sent and the thread sleeps until the next.
BossFalls(l) ==
  /\ lpc[l] = "boss" /\ now_map \in Maps
  /\ now_map = LastMap \/ server_map[now_map] = "edit"
  /\ Goto(l, "bosswin")
  /\ UNCHANGED <<session, handler, lidx, lreg, clients, up, down>>

FrameEnd(l) ==
  /\ lpc[l] = "boss" /\ Goto(l, "top")
  /\ UNCHANGED <<session, handler, lidx, lreg, clients, up, down>>

Loop(l) ==
  \/ LoopTop(l) \/ CollideWin(l) \/ CollideClear(l) \/ CollideNone(l)
  \/ Broadcast(l, "clear", "clear", "read") \/ ReadMap(l) \/ WriteMap(l)
  \/ Broadcast(l, "win", "win", "boss")
  \/ BossFalls(l) \/ Broadcast(l, "bosswin", "win", "top") \/ FrameEnd(l)

------------------------------------------------------------------------------
(* The clients.                                                             *)

\* Mutants: the index of the map is taken from the packet; it is kept.
IdxFromPacket(i, m) ==
  CASE m = "maps" -> 0
    [] m = "edit" -> 99
    [] m = "clear" -> IF i < LastMap THEN i + 1 ELSE i
    [] OTHER -> i
IdxKept(i, m) == IF m = "clear" /\ i < LastMap THEN i + 1 ELSE i

\* current_map_index after a packet.
IdxAfter(i, m) ==
  CASE m \in {"maps", "edit"} -> 0
    [] m = "clear" -> IF i < LastMap THEN i + 1 ELSE i
    [] OTHER -> i

\* HandleMapInfo, HandleMapUploadResponse and HandleEvent.
Deliver(p) ==
  /\ down[p] # <<>>
  /\ LET m == Head(down[p]) IN
     /\ idx' = [idx EXCEPT ![p] = IdxAfter(@, m)]
     /\ Win' = [Win EXCEPT ![p] = m = "win" \/ (@ /\ m \in {"clear", "rsp"})]
     /\ ctype' = [ctype EXCEPT ![p] =
          CASE m = "maps" -> 0 [] m = "edit" -> 99 [] OTHER -> @]
     /\ StartGame' = [StartGame EXCEPT ![p] = @ \/ m \in {"rsp", "maps", "edit"}]
  /\ down' = [down EXCEPT ![p] = Tail(@)]
  /\ UNCHANGED <<session, handler, loops, screen, sel, presses, up>>

\* StartTimer opens the game window.
StartTimer(p) ==
  /\ StartGame[p]
  /\ StartGame' = [StartGame EXCEPT ![p] = FALSE]
  /\ screen' = [screen EXCEPT ![p] = "game"]
  /\ sel' = [sel EXCEPT ![p] = ctype[p]]
  /\ UNCHANGED <<session, handler, loops, idx, ctype, Win, presses, up, down>>

\* Where a player on the selected map may be after a move.
MayReach(p, s) == IF p \in Runners THEN {Away, IF s = 99 THEN Edit ELSE s} ELSE {Away}

\* Mutant: who has won only closes the window.
FarewellNone(p) == <<>>

\* The packet a player sends who has won.
Farewell(p) == IF Win[p] THEN <<Request("end")>> ELSE <<>>

\* TimerProc: a win ends the session and closes the window, then the map the
\* server switched to is taken over from its start, and the place is reported,
\* the last time when the player has just lost the last life.
TimerProc(p) ==
  /\ screen[p] = "game" /\ Len(up[p]) + 2 <= UpBound
  /\ LET s == IF Win[p] THEN 0 ELSE sel[p]
         switch == idx[p] # s /\ s # 99
     IN
     /\ sel' = [sel EXCEPT ![p] = IF switch THEN idx[p] ELSE s]
     /\ \E pl \in IF switch THEN {Away} ELSE MayReach(p, sel[p]) :
          up' = [up EXCEPT ![p] = @ \o Farewell(p) \o <<Update(pl)>>]
     /\ \E dies \in BOOLEAN :
          /\ dies => p \in Quitters
          /\ screen' = [screen EXCEPT ![p] = IF Win[p] \/ dies THEN "title" ELSE @]
  /\ Win' = [Win EXCEPT ![p] = FALSE]
  /\ UNCHANGED <<session, handler, loops, idx, ctype, StartGame, presses, down>>

\* The Q key closes the game window and tells nobody.
Quit(p) ==
  /\ p \in Quitters /\ screen[p] = "game"
  /\ screen' = [screen EXCEPT ![p] = "title"]
  /\ UNCHANGED <<session, handler, loops, idx, ctype, sel, StartGame, Win, presses,
                 up, down>>

\* The host's start button.
PressStart ==
  /\ screen[Host] = "title" /\ Len(up[Host]) < UpBound
  /\ presses < MaxPress /\ presses' = presses + 1
  /\ screen' = [screen EXCEPT ![Host] = "hidden"]
  /\ sel' = [sel EXCEPT ![Host] = 0] /\ idx' = [idx EXCEPT ![Host] = 0]
  /\ StartGame' = [StartGame EXCEPT ![Host] = FALSE]
  /\ up' = [up EXCEPT ![Host] = Append(@, Request("start"))]
  /\ UNCHANGED <<session, handler, loops, ctype, Win, down>>

\* The host's S key in the editor.
PressUpload ==
  /\ screen[Host] = "title" /\ Len(up[Host]) < UpBound
  /\ presses < MaxPress /\ presses' = presses + 1
  /\ sel' = [sel EXCEPT ![Host] = 99]
  /\ up' = [up EXCEPT ![Host] = Append(@, Request("upload"))]
  /\ UNCHANGED <<session, handler, loops, screen, idx, ctype, StartGame, Win, down>>

Client(p) == Deliver(p) \/ StartTimer(p) \/ TimerProc(p) \/ Quit(p)
Press == PressStart \/ PressUpload

------------------------------------------------------------------------------
Serve ==
  \/ Requests \/ Handler
  \/ \E l \in Loops : Loop(l)
  \/ \E p \in Players : Recv(p) \/ Client(p)

Next == Serve \/ Press
Spec == Init /\ [][Next]_vars

\* A patient host begins a session only when the last one is over: no game
\* loop thread is left, and no request of the host is still on its way.
Over ==
  /\ ~game_loop_running /\ \A l \in Loops : lpc[l] = "none"
  /\ hpc = "recv"
  /\ \A k \in 1 .. Len(up[Host]) : up[Host][k].type \notin {"start", "upload"}

PatientNext == Serve \/ (Over /\ Press)
PatientSpec == Init /\ [][PatientNext]_vars

\* The recv thread of client p; the host's also handles requests.
RecvThread(p) == Recv(p) \/ (p = Host /\ (Requests \/ Handler))

\* Every thread that can run runs, and so do the clients' timers; nobody need
\* press a button or leave.
Fairness ==
  /\ \A l \in Loops : WF_vars(Loop(l))
  /\ \A p \in Players :
       WF_vars(RecvThread(p)) /\ WF_vars(Deliver(p)) /\ WF_vars(StartTimer(p))
       /\ WF_vars(TimerProc(p))

FairPatientSpec == PatientSpec /\ Fairness

------------------------------------------------------------------------------
(* Properties.                                                              *)

\* now_map indexes server_map[4] in every frame; with several requests and
\* stages cleared by anyone it stays within the array.
StageInRange == now_map \in Maps

\* The index of client p once it has handled everything under way to it.
Ahead(i, packets) ==
  LET after[k \in 0 .. Len(packets)] ==
        IF k = 0 THEN i ELSE IdxAfter(after[k - 1], packets[k])
  IN after[Len(packets)]
IdxAhead(p) == Ahead(idx[p], down[p])

\* No request is being handled and no stage is being cleared.
Still ==
  hpc = "recv" /\ \A l \in Loops : lpc[l] \notin {"clear", "read", "write"}

\* In a default session every player who is playing is on, or will have
\* switched to, the very map on which the server tests collisions: stages are
\* announced as often as now_map is counted up.
StageSync ==
  Still /\ map_type = 0 =>
    \A p \in Players : screen[p] = "game" => IdxAhead(p) = now_map

\* game_loop_running says "whether the game loop is running"
\* (ServerSystem.h line 113), and StartGameLoop returns when it is: never do
\* two game loop threads work on the session.
OneGameLoop == \A k, l \in Loops : lpc[k] # "none" /\ lpc[l] # "none" => k = l

\* CheckAllCollisions stops after a cleared stage "to prevent checking against
\* new map with old coords" (ServerSystem.cpp line 450): the player whose
\* touch clears stage n has reported being at the flag of n.
NoStaleClear ==
  (\E l \in Loops : lpc[l] = "collide") /\ map_type = 0 /\ ~getFlag /\ StageLeft =>
    \A p \in Players : Touches(p) => at[p] = now_map

\* A request that starts a session brings every player who stays into the game.
StartReachesAll ==
  \A p \in Players \ Quitters : (hpc \in {"maps", "rsp", "edit"}) ~> (screen[p] = "game")

\* When the game is won the session ends: game loops do not run on without
\* players.
WinEndsSession ==
  (\E l \in Loops : lpc[l] \in {"win", "bosswin"}) ~> ~game_loop_running

==============================================================================
