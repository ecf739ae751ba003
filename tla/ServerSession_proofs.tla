------------------------- MODULE ServerSession_proofs -------------------------
(***************************************************************************)
(* Theorems about ServerSession, for any number of players, maps, threads  *)
(* and packets: the type invariant; as long as one game loop thread works  *)
(* at a time now_map never leaves the array of maps, whatever the requests *)
(* do under the thread; and a patient host never has two threads, while    *)
(* the players of its default sessions are on the stage the server plays.  *)
(* What the packets under way amount to is proved by an induction.         *)
(***************************************************************************)
EXTENDS ServerSession, SequenceTheorems, WellFoundedInduction, TLAPS

------------------------------------------------------------------------------
(* Packets and channels are well typed.                                     *)

LEMMA UpTypes ==
  /\ \A t \in {"start", "upload", "end", "update"} : Request(t) \in Ups
  /\ \A pl \in Places : Update(pl) \in Ups
BY DEF Request, Update, Ups, Places, Away

\* What is left of a sequence after its first k elements.
LEMMA Rest ==
  ASSUME NEW S, NEW s \in Seq(S), NEW k \in Nat, k <= Len(s)
  PROVE  /\ SubSeq(s, k + 1, Len(s)) \in Seq(S)
         /\ Len(SubSeq(s, k + 1, Len(s))) + k = Len(s)
         /\ \A i \in 1 .. Len(SubSeq(s, k + 1, Len(s))) :
              SubSeq(s, k + 1, Len(s))[i] = s[i + k]
<1> DEFINE n == Len(s)  r == SubSeq(s, k + 1, n)
<1>1. n \in Nat /\ \A i \in k + 1 .. n : s[i] \in S BY LenProperties
<1>2. k + 1 \in Int /\ n \in Int BY <1>1
<1> HIDE DEF n
<1>3. /\ r \in Seq(S)
      /\ Len(r) = IF k + 1 <= n THEN n - (k + 1) + 1 ELSE 0
      /\ \A i \in 1 .. n - (k + 1) + 1 : r[i] = s[(k + 1) + i - 1]
  BY <1>1, <1>2, SubSeqProperties
<1>4. k <= n BY DEF n
<1> HIDE DEF r
<1>5. Len(r) = n - k BY <1>1, <1>3, <1>4
<1>6. \A i \in 1 .. Len(r) : r[i] = s[i + k]
  <2> TAKE i \in 1 .. Len(r)
  <2>1. i \in 1 .. n - (k + 1) + 1 /\ (k + 1) + i - 1 = i + k BY <1>1, <1>5
  <2> QED BY <1>3, <2>1
<1>7. Len(r) + k = n BY <1>1, <1>5
<1>8. r \in Seq(S) BY <1>3
<1> QED BY <1>6, <1>7, <1>8, Zenon DEF n, r

\* A received packet leaves a shorter, well typed channel.
LEMMA ReceivedType ==
  ASSUME TypeOK, NEW p \in Players, NEW t, Received(p, t)
  PROVE  /\ up' \in [Players -> Seq(Ups)]
         /\ Head(up[p]) \in Ups /\ Head(up[p]).type = t
<1>1. up[p] \in Seq(Ups) /\ up[p] # <<>> BY DEF TypeOK, Received
<1>2. PICK k \in 1 .. MaxRead :
        k <= Len(up[p]) /\ up' = [up EXCEPT ![p] = SubSeq(@, k + 1, Len(@))]
  BY DEF Received
<1>3. SubSeq(up[p], k + 1, Len(up[p])) \in Seq(Ups)
  BY <1>1, <1>2, Rest, ReadAssumption
<1>4. Head(up[p]) \in Ups BY <1>1
<1> QED BY <1>2, <1>3, <1>4 DEF TypeOK, Received

LEMMA SendDownType ==
  ASSUME TypeOK, NEW p \in Players, NEW m \in Downs, SendDown(p, m)
  PROVE  down' \in [Players -> Seq(Downs)]
<1>1. Append(down[p], m) \in Seq(Downs) BY DEF TypeOK
<1> QED BY <1>1 DEF TypeOK, SendDown

LEMMA InitType == Init => TypeOK
<1> SUFFICES ASSUME Init PROVE TypeOK OBVIOUS
<1>1. 0 \in Maps /\ 0 \in 0 .. MAX_PLAYERS /\ 0 \in 0 .. MaxPress
  BY SizeAssumption, PressAssumption DEF Maps
<1>2. <<>> \in Seq(Ups) /\ <<>> \in Seq(Downs) OBVIOUS
<1> QED BY <1>1, <1>2 DEF Init, TypeOK, Places

\* The recv threads.
LEMMA ServerType ==
  ASSUME TypeOK, Requests \/ Handler \/ (\E p \in Players : Recv(p)) PROVE TypeOK'
<1> USE DEF session, handler, loops, clients
<1>0. 0 \in 0 .. MAX_PLAYERS /\ Host \in Players /\ 0 \in Nat
  BY SizeAssumption DEF Host, Players
<1>1. ASSUME NEW p \in Players, HandlePlayerUpdate(p) PROVE TypeOK'
  <2>1. Received(p, "update") BY <1>1 DEF HandlePlayerUpdate
  <2>2. up' \in [Players -> Seq(Ups)] /\ Head(up[p]).place \in Places
    BY <2>1, ReceivedType DEF Ups
  <2> QED BY <1>1, <2>2 DEF HandlePlayerUpdate, TypeOK
<1>2. ASSUME NEW p \in Players, HandleEndSession(p) PROVE TypeOK'
  <2>1. Received(p, "end") BY <1>2 DEF HandleEndSession
  <2>2. up' \in [Players -> Seq(Ups)] BY <2>1, ReceivedType
  <2> QED BY <1>2, <2>2 DEF HandleEndSession, TypeOK
<1>3. CASE HandleStart
  <2>1. up' \in [Players -> Seq(Ups)] BY <1>3, <1>0, ReceivedType DEF HandleStart
  <2> QED BY <1>3, <2>1 DEF HandleStart, TypeOK
<1>4. CASE HandleMapUpload
  <2>1. up' \in [Players -> Seq(Ups)] BY <1>4, <1>0, ReceivedType DEF HandleMapUpload
  <2>2. server_map' \in [Maps -> {"default", "edit"}]
    BY <1>4 DEF HandleMapUpload, TypeOK
  <2>3. at' \in [Players -> Places] BY <1>4 DEF HandleMapUpload, Places
  <2> QED BY <1>4, <1>0, <2>1, <2>2, <2>3 DEF HandleMapUpload, TypeOK
<1>5. CASE MakeDefaultMap BY <1>5 DEF MakeDefaultMap, TypeOK
<1>6. CASE ResetMap BY <1>6, <1>0 DEF ResetMap, TypeOK
<1>s. ASSUME NEW m \in Downs, NEW b \in {"edit", "launch"}, SendAll(m, b) PROVE TypeOK'
  <2>1. CASE hidx = MAX_PLAYERS BY <1>s, <2>1, <1>0 DEF SendAll, TypeOK
  <2>2. CASE hidx # MAX_PLAYERS
    <3>1. hidx \in Players /\ hidx + 1 \in 0 .. MAX_PLAYERS
      BY <2>2, SizeAssumption DEF TypeOK, Players
    <3>2. down' \in [Players -> Seq(Downs)]
      BY <1>s, <2>2, <3>1, SendDownType DEF SendAll
    <3>3. hidx' \in 0 .. MAX_PLAYERS /\ hpc' = hpc
          /\ UNCHANGED <<session, loops, clients, up>>
      BY <1>s, <2>2, <3>1 DEF SendAll
    <3> QED BY <3>2, <3>3 DEF TypeOK
  <2> QED BY <2>1, <2>2
<1>7. CASE SendMaps BY <1>7, <1>s DEF SendMaps, Downs
<1>10. CASE SendResponses BY <1>10, <1>s DEF SendResponses, Downs
<1>8. CASE StartGameLoop
  <2>1. CASE game_loop_running BY <1>8, <2>1 DEF StartGameLoop, TypeOK
  <2>2. CASE ~game_loop_running
    <3>1. PICK l \in Loops : lpc' = [lpc EXCEPT ![l] = "top"]
      BY <1>8, <2>2 DEF StartGameLoop
    <3>2. lpc' \in [Loops -> {"none", "top", "collide", "clear", "read", "write",
                              "win", "boss", "bosswin"}]
      BY <3>1 DEF TypeOK
    <3>3. game_loop_running' \in BOOLEAN /\ hpc' = "flag"
      BY <1>8, <2>2 DEF StartGameLoop
    <3> QED BY <1>8, <3>2, <3>3 DEF StartGameLoop, TypeOK
  <2> QED BY <2>1, <2>2
<1>9. CASE ClearFlag BY <1>9 DEF ClearFlag, TypeOK
<1> QED BY <1>1, <1>2, <1>3, <1>4, <1>5, <1>6, <1>7, <1>8, <1>9, <1>10
       DEF Requests, Handler, Recv

\* A broadcast of a game loop thread.
LEMMA BroadcastType ==
  ASSUME TypeOK, NEW l \in Loops, NEW a, NEW m \in Downs,
         NEW b \in {"read", "boss", "top"}, Broadcast(l, a, m, b)
  PROVE  TypeOK'
<1> USE DEF session, handler, clients
<1>0. 0 \in 0 .. MAX_PLAYERS BY SizeAssumption
<1>u. UNCHANGED <<session, handler, lreg, clients, up>> BY DEF Broadcast
<1>1. CASE lidx[l] = MAX_PLAYERS
  <2>1. /\ lidx' = [lidx EXCEPT ![l] = 0] /\ UNCHANGED down
        /\ lpc' = [lpc EXCEPT ![l] = b]
    BY <1>1 DEF Broadcast, Goto
  <2>2. lidx' \in [Loops -> 0 .. MAX_PLAYERS] BY <2>1, <1>0 DEF TypeOK
  <2>3. lpc' \in [Loops -> {"none", "top", "collide", "clear", "read", "write",
                            "win", "boss", "bosswin"}]
    BY <2>1 DEF TypeOK
  <2> QED BY <1>u, <2>1, <2>2, <2>3 DEF TypeOK
<1>2. CASE lidx[l] # MAX_PLAYERS
  <2>u. lidx' = [lidx EXCEPT ![l] = lidx[l] + 1] /\ UNCHANGED lpc
    BY <1>2 DEF Broadcast
  <2>1. lidx[l] \in Players /\ lidx[l] + 1 \in 0 .. MAX_PLAYERS
    BY <1>2, SizeAssumption DEF TypeOK, Players
  <2>2. down' \in [Players -> Seq(Downs)]
    BY <1>2, <2>1, SendDownType DEF Broadcast
  <2>3. lidx' \in [Loops -> 0 .. MAX_PLAYERS] BY <2>u, <2>1 DEF TypeOK
  <2> QED BY <1>u, <2>u, <2>2, <2>3 DEF TypeOK
<1> QED BY <1>1, <1>2

\* The game loop threads.
LEMMA LoopType ==
  ASSUME TypeOK, NEW l \in Loops, Loop(l) PROVE TypeOK'
<1> USE DEF session, handler, loops, clients, Goto
<1>1. CASE LoopTop(l) BY <1>1 DEF LoopTop, TypeOK
<1>2. CASE CollideWin(l) BY <1>2 DEF CollideWin, TypeOK
<1>3. CASE CollideClear(l) BY <1>3 DEF CollideClear, TypeOK
<1>4. CASE CollideNone(l) BY <1>4 DEF CollideNone, TypeOK
<1>5. CASE Broadcast(l, "clear", "clear", "read") BY <1>5, BroadcastType DEF Downs
<1>6. CASE ReadMap(l) BY <1>6 DEF ReadMap, TypeOK
<1>7. CASE WriteMap(l) BY <1>7 DEF WriteMap, TypeOK
<1>8. CASE Broadcast(l, "win", "win", "boss") BY <1>8, BroadcastType DEF Downs
<1>9. CASE BossFalls(l) BY <1>9 DEF BossFalls, TypeOK
<1>10. CASE Broadcast(l, "bosswin", "win", "top") BY <1>10, BroadcastType DEF Downs
<1>11. CASE FrameEnd(l) BY <1>11 DEF FrameEnd, TypeOK
<1> QED BY <1>1, <1>2, <1>3, <1>4, <1>5, <1>6, <1>7, <1>8, <1>9, <1>10, <1>11 DEF Loop

\* The clients and their buttons.
LEMMA ClientType ==
  ASSUME TypeOK, NEW p \in Players, Client(p) PROVE TypeOK'
<1> USE DEF session, handler, loops
<1>1. CASE Deliver(p)
  <2>1. down[p] \in Seq(Downs) /\ down[p] # <<>> BY <1>1 DEF Deliver, TypeOK
  <2>2. Head(down[p]) \in Downs /\ Tail(down[p]) \in Seq(Downs) BY <2>1
  <2>3. down' \in [Players -> Seq(Downs)] BY <1>1, <2>2 DEF Deliver, TypeOK
  <2>4. \A i \in Maps : IdxAfter(i, Head(down[p])) \in Maps
    BY <2>2, SizeAssumption DEF IdxAfter, Maps, Downs
  <2>5. idx' \in [Players -> Maps] BY <1>1, <2>4 DEF Deliver, TypeOK
  <2>6. Win' \in [Players -> BOOLEAN] BY <1>1 DEF Deliver, TypeOK
  <2>7. StartGame' \in [Players -> BOOLEAN]
    <3>1. StartGame' = [StartGame EXCEPT ![p] =
                          StartGame[p] \/ Head(down[p]) \in {"rsp", "maps", "edit"}]
      BY <1>1 DEF Deliver
    <3> QED BY <3>1 DEF TypeOK
  <2>8. ctype' \in [Players -> {0, 99}]
    <3>1. ctype' = [ctype EXCEPT ![p] =
            CASE Head(down[p]) = "maps" -> 0 [] Head(down[p]) = "edit" -> 99
              [] OTHER -> ctype[p]]
      BY <1>1 DEF Deliver
    <3> QED BY <3>1 DEF TypeOK
  <2>u. UNCHANGED <<session, handler, loops, screen, sel, presses, up>>
    BY <1>1 DEF Deliver
  <2> QED BY <2>u, <2>3, <2>5, <2>6, <2>7, <2>8 DEF TypeOK
<1>2. CASE StartTimer(p)
  <2>1. \A c \in {0, 99} : c \in Maps \cup {99} BY SizeAssumption DEF Maps
  <2> QED BY <1>2, <2>1 DEF StartTimer, TypeOK
<1>3. CASE TimerProc(p)
  <2>1. \A s \in Maps \cup {99} : MayReach(p, s) \subseteq Places /\ Away \in Places
    BY DEF MayReach, Places
  <2>2. Farewell(p) \in Seq(Ups) BY UpTypes DEF Farewell
  <2>3. PICK pl \in Places : up' = [up EXCEPT ![p] = @ \o Farewell(p) \o <<Update(pl)>>]
    <3>0. sel[p] \in Maps \cup {99} BY DEF TypeOK
    <3>1. MayReach(p, sel[p]) \subseteq Places
      BY <3>0 DEF MayReach, Places
    <3>2. PICK S : S \subseteq Places
            /\ \E pl \in S : up' = [up EXCEPT ![p] = @ \o Farewell(p) \o <<Update(pl)>>]
      <4>1. CASE idx[p] # (IF Win[p] THEN 0 ELSE sel[p]) /\ (IF Win[p] THEN 0 ELSE sel[p]) # 99
        <5>1. {Away} \subseteq Places BY <2>1
        <5> QED BY <1>3, <4>1, <5>1 DEF TimerProc
      <4>2. CASE ~(idx[p] # (IF Win[p] THEN 0 ELSE sel[p]) /\ (IF Win[p] THEN 0 ELSE sel[p]) # 99)
        BY <1>3, <4>2, <3>1 DEF TimerProc
      <4> QED BY <4>1, <4>2
    <3> QED BY <3>2
  <2>4. up[p] \o Farewell(p) \o <<Update(pl)>> \in Seq(Ups)
    BY <2>2, UpTypes DEF TypeOK
  <2>5. up' \in [Players -> Seq(Ups)] BY <2>3, <2>4 DEF TypeOK
  <2>6. 0 \in Maps BY SizeAssumption DEF Maps
  <2>7. sel' \in [Players -> Maps \cup {99}] BY <1>3, <2>6 DEF TimerProc, TypeOK
  <2>8. screen' \in [Players -> {"title", "hidden", "game"}]
    BY <1>3 DEF TimerProc, TypeOK
  <2> QED BY <1>3, <2>5, <2>7, <2>8 DEF TimerProc, TypeOK
<1>4. CASE Quit(p) BY <1>4 DEF Quit, TypeOK
<1> QED BY <1>1, <1>2, <1>3, <1>4 DEF Client

LEMMA PressType ==
  ASSUME TypeOK, Press PROVE TypeOK'
<1> USE DEF session, handler, loops
<1>0. Host \in Players /\ 0 \in Maps BY SizeAssumption DEF Host, Players, Maps
<1>1. presses' \in 0 .. MaxPress
  BY PressAssumption DEF Press, PressStart, PressUpload, TypeOK
<1>2. CASE PressStart
  <2>1. Append(up[Host], Request("start")) \in Seq(Ups) BY <1>0, UpTypes DEF TypeOK
  <2> QED BY <1>0, <1>1, <1>2, <2>1 DEF PressStart, TypeOK
<1>3. CASE PressUpload
  <2>1. Append(up[Host], Request("upload")) \in Seq(Ups) BY <1>0, UpTypes DEF TypeOK
  <2> QED BY <1>0, <1>1, <1>3, <2>1 DEF PressUpload, TypeOK
<1> QED BY <1>2, <1>3 DEF Press

LEMMA TypeStep == TypeOK /\ [Next]_vars => TypeOK'
<1> SUFFICES ASSUME TypeOK, [Next]_vars PROVE TypeOK' OBVIOUS
<1>1. CASE UNCHANGED vars
  BY <1>1 DEF vars, session, handler, loops, clients, TypeOK
<1>2. CASE Requests \/ Handler \/ (\E p \in Players : Recv(p)) BY <1>2, ServerType
<1>3. CASE \E l \in Loops : Loop(l) BY <1>3, LoopType
<1>4. CASE \E p \in Players : Client(p) BY <1>4, ClientType
<1>5. CASE Press BY <1>5, PressType
<1> QED BY <1>1, <1>2, <1>3, <1>4, <1>5 DEF Next, Serve

\* Every reachable state is well typed: indices stay within the arrays they
\* index on the clients, and the channels hold packets only.
THEOREM TypeCorrect == Spec => []TypeOK
BY InitType, TypeStep, PTL DEF Spec

------------------------------------------------------------------------------
(* The map in play.                                                         *)

\* A thread that is clearing a stage has seen that there is a next one, and
\* what it read for ++now_map was not the last map.
Clearing ==
  /\ now_map \in Maps
  /\ \A l \in Loops :
       /\ lpc[l] \in {"clear", "read"} => now_map < LastMap
       /\ lpc[l] = "write" => lreg[l] < LastMap

LEMMA ClearingStep ==
  TypeOK /\ OneGameLoop /\ Clearing /\ [Next]_vars => Clearing'
<1> SUFFICES ASSUME TypeOK, OneGameLoop, Clearing, [Next]_vars PROVE Clearing'
  OBVIOUS
<1> USE DEF session, handler, loops
<1>n. now_map \in Nat /\ LastMap \in Nat /\ now_map <= LastMap
  BY SizeAssumption DEF TypeOK, Clearing, Maps
<1>1. ASSUME UNCHANGED <<now_map, lpc, lreg>> PROVE Clearing' BY <1>1 DEF Clearing
<1>2. CASE UNCHANGED vars BY <1>2, <1>1 DEF vars
<1>3. CASE Requests BY <1>3, <1>1 DEF Requests, HandleStart, HandleMapUpload
<1>4. CASE Handler
  <2>1. CASE MakeDefaultMap BY <2>1, <1>1 DEF MakeDefaultMap
  <2>2. CASE ResetMap
    <3>1. now_map' = 0 /\ UNCHANGED <<lpc, lreg>> BY <2>2 DEF ResetMap
    <3> QED BY <3>1, <1>n DEF Clearing, Maps
  <2>3. CASE SendMaps \/ SendResponses
    BY <2>3, <1>1 DEF SendMaps, SendResponses, SendAll
  <2>4. CASE StartGameLoop
    <3>1. CASE game_loop_running BY <2>4, <3>1, <1>1 DEF StartGameLoop
    <3>2. CASE ~game_loop_running
      <4>1. PICK k \in Loops : lpc' = [lpc EXCEPT ![k] = "top"]
        BY <2>4, <3>2 DEF StartGameLoop
      <4>2. UNCHANGED <<now_map, lreg>> BY <2>4 DEF StartGameLoop
      <4> QED BY <4>1, <4>2 DEF Clearing, TypeOK
    <3> QED BY <3>1, <3>2
  <2>5. CASE ClearFlag BY <2>5, <1>1 DEF ClearFlag
  <2> QED BY <1>4, <2>1, <2>2, <2>3, <2>4, <2>5 DEF Handler
<1>5. ASSUME NEW l \in Loops, Loop(l) PROVE Clearing'
  <2> USE DEF Goto
  <2>0. lpc \in [Loops -> {"none", "top", "collide", "clear", "read", "write",
                          "win", "boss", "bosswin"}] /\ lreg \in [Loops -> Nat]
    BY DEF TypeOK
  <2>q. ASSUME NEW b, b \notin {"clear", "read", "write"}, UNCHANGED <<now_map, lreg>>,
               lpc' = [lpc EXCEPT ![l] = b]
        PROVE Clearing'
    BY <2>q, <2>0 DEF Clearing
  <2>1. CASE LoopTop(l) BY <2>1, <2>q DEF LoopTop
  <2>2. CASE CollideWin(l) BY <2>2, <2>q DEF CollideWin
  <2>3. CASE CollideClear(l)
    <3>1. now_map < LastMap /\ UNCHANGED <<now_map, lreg>>
          /\ lpc' = [lpc EXCEPT ![l] = "clear"]
      BY <2>3 DEF CollideClear, StageLeft
    <3> QED BY <3>1, <2>0 DEF Clearing
  <2>4. CASE CollideNone(l) BY <2>4, <2>q DEF CollideNone
  <2>5. ASSUME NEW a, NEW m, NEW b, Broadcast(l, a, m, b),
               b \in {"boss", "top"} \/ (a = "clear" /\ b = "read")
        PROVE Clearing'
    <3>1. UNCHANGED <<now_map, lreg>> /\ lpc[l] = a BY <2>5 DEF Broadcast
    <3>2. UNCHANGED lpc \/ lpc' = [lpc EXCEPT ![l] = b] BY <2>5 DEF Broadcast
    <3>3. CASE b \in {"boss", "top"} BY <3>1, <3>2, <3>3, <1>1, <2>q
    <3>4. CASE a = "clear" /\ b = "read"
      <4>1. now_map < LastMap BY <3>1, <3>4 DEF Clearing
      <4> QED BY <3>1, <3>2, <3>4, <4>1, <2>0 DEF Clearing
    <3> QED BY <2>5, <3>3, <3>4
  <2>6. CASE ReadMap(l)
    <3>1. now_map < LastMap BY <2>6 DEF ReadMap, Clearing
    <3>2. lpc' = [lpc EXCEPT ![l] = "write"] /\ lreg' = [lreg EXCEPT ![l] = now_map]
          /\ UNCHANGED now_map
      BY <2>6 DEF ReadMap
    <3> QED BY <3>1, <3>2, <2>0 DEF Clearing
  <2>7. CASE WriteMap(l)
    <3>1. lreg[l] < LastMap /\ lreg[l] \in Nat BY <2>7, <2>0 DEF WriteMap, Clearing
    <3>2. now_map' \in Maps BY <2>7, <3>1, <1>n DEF WriteMap, Maps
    <3>3. \A k \in Loops : k # l => lpc[k] = "none" BY <2>7 DEF WriteMap, OneGameLoop
    <3>4. lpc' = [lpc EXCEPT ![l] = "boss"] BY <2>7 DEF WriteMap
    <3> QED BY <3>2, <3>3, <3>4, <2>0 DEF Clearing
  <2>8. CASE BossFalls(l) BY <2>8, <2>q DEF BossFalls
  <2>9. CASE FrameEnd(l) BY <2>9, <2>q DEF FrameEnd
  <2> QED BY <1>5, <2>1, <2>2, <2>3, <2>4, <2>5, <2>6, <2>7, <2>8, <2>9 DEF Loop
<1>6. ASSUME NEW p \in Players, Recv(p) \/ Client(p) PROVE Clearing'
  BY <1>6, <1>1 DEF Recv, HandlePlayerUpdate, HandleEndSession, Client, Deliver,
     StartTimer, TimerProc, Quit
<1>7. CASE Press BY <1>7, <1>1 DEF Press, PressStart, PressUpload
<1> QED BY <1>2, <1>3, <1>4, <1>5, <1>6, <1>7 DEF Next, Serve

\* As long as game loop threads do not work side by side, now_map is always
\* an index of server_map, for any number of players and maps: neither a
\* request that resets it in the middle of a ++now_map nor a lost update
\* takes it past the boss map.
THEOREM StageStaysInRange == Spec /\ []OneGameLoop => []StageInRange
<1>1. Init => Clearing
  BY SizeAssumption DEF Init, Clearing, Maps
<1>2. Clearing => StageInRange BY DEF Clearing, StageInRange
<1> QED BY <1>1, <1>2, TypeCorrect, ClearingStep, PTL DEF Spec

------------------------------------------------------------------------------
(* A patient host.                                                          *)

Asks(m) == m.type \in {"start", "upload"}

\* No thread is left of any session.
Quiet == ~game_loop_running /\ \A l \in Loops : lpc[l] = "none"

\* At most one request is on its way, and while it is, or is being handled, no
\* game loop thread is left.
OneRequest ==
  /\ \A j, k \in 1 .. Len(up[Host]) : Asks(up[Host][j]) /\ Asks(up[Host][k]) => j = k
  /\ \A k \in 1 .. Len(up[Host]) : Asks(up[Host][k]) => Quiet /\ hpc = "recv"
  /\ hpc \in {"make", "reset", "maps", "rsp", "edit", "launch"} => Quiet

PatientInv == TypeOK /\ OneRequest /\ OneGameLoop

\* What is received and dropped leaves only later packets behind.
LEMMA Shortened ==
  ASSUME TypeOK, NEW p \in Players, NEW t, Received(p, t)
  PROVE  /\ p # Host => up'[Host] = up[Host]
         /\ p = Host => \E d \in Nat \ {0} :
              /\ Len(up'[Host]) + d = Len(up[Host])
              /\ \A i \in 1 .. Len(up'[Host]) : up'[Host][i] = up[Host][i + d]
<1>0. Host \in Players BY SizeAssumption DEF Host, Players
<1>1. up \in [Players -> Seq(Ups)] BY DEF TypeOK
<1>2. PICK k \in 1 .. MaxRead :
        k <= Len(up[p]) /\ up' = [up EXCEPT ![p] = SubSeq(@, k + 1, Len(@))]
  BY DEF Received
<1>3. k \in Nat \ {0} BY ReadAssumption
<1>4. CASE p # Host
  <2>1. up'[Host] = up[Host] BY <1>0, <1>1, <1>2, <1>4
  <2> QED BY <1>4, <2>1
<1>5. CASE p = Host
  <2>1. up'[Host] = SubSeq(up[Host], k + 1, Len(up[Host])) BY <1>0, <1>1, <1>2, <1>5
  <2>2. up[Host] \in Seq(Ups) /\ k <= Len(up[Host]) BY <1>0, <1>1, <1>2, <1>5
  <2>3. /\ Len(SubSeq(up[Host], k + 1, Len(up[Host]))) + k = Len(up[Host])
        /\ \A i \in 1 .. Len(SubSeq(up[Host], k + 1, Len(up[Host]))) :
             SubSeq(up[Host], k + 1, Len(up[Host]))[i] = up[Host][i + k]
    BY <1>3, <2>2, Rest
  <2>4. /\ Len(up'[Host]) + k = Len(up[Host])
        /\ \A i \in 1 .. Len(up'[Host]) : up'[Host][i] = up[Host][i + k]
    BY <2>1, <2>3
  <2>5. \E d \in Nat \ {0} :
          /\ Len(up'[Host]) + d = Len(up[Host])
          /\ \A i \in 1 .. Len(up'[Host]) : up'[Host][i] = up[Host][i + d]
    <3> WITNESS k \in Nat \ {0}
    <3> QED BY <2>4
  <2> QED BY <1>5, <2>5
<1> QED BY <1>4, <1>5

\* Receiving keeps the requests that are left unique ...
LEMMA KeepsUnique ==
  ASSUME PatientInv, NEW p \in Players, NEW t, Received(p, t)
  PROVE  /\ \A j, k \in 1 .. Len(up'[Host]) :
              Asks(up'[Host][j]) /\ Asks(up'[Host][k]) => j = k
         /\ \A k \in 1 .. Len(up'[Host]) : Asks(up'[Host][k]) => Quiet /\ hpc = "recv"
<1>0. Host \in Players BY SizeAssumption DEF Host, Players
<1>1. TypeOK /\ OneRequest BY DEF PatientInv
<1>2. Len(up[Host]) \in Nat BY <1>0, <1>1 DEF TypeOK
<1>3. PICK d \in Nat :
        /\ Len(up'[Host]) + d = Len(up[Host])
        /\ \A i \in 1 .. Len(up'[Host]) : up'[Host][i] = up[Host][i + d]
  <2>1. CASE p = Host BY <1>1, <2>1, Shortened
  <2>2. CASE p # Host
    <3>1. up'[Host] = up[Host] BY <1>1, <2>2, Shortened
    <3>2. up[Host] \in Seq(Ups) BY <1>0, <1>1 DEF TypeOK
    <3>3. \E d \in Nat :
            /\ Len(up'[Host]) + d = Len(up[Host])
            /\ \A i \in 1 .. Len(up'[Host]) : up'[Host][i] = up[Host][i + d]
      <4> WITNESS 0 \in Nat
      <4> QED BY <3>1, <3>2
    <3> QED BY <3>3
  <2> QED BY <2>1, <2>2
<1>4. Len(up'[Host]) \in Nat
  <2>1. up' \in [Players -> Seq(Ups)] BY <1>1, ReceivedType
  <2> QED BY <2>1, <1>0
<1>5. \A i \in 1 .. Len(up'[Host]) : i + d \in 1 .. Len(up[Host])
  BY <1>2, <1>3, <1>4
<1>6. ASSUME NEW j \in 1 .. Len(up'[Host]), NEW k \in 1 .. Len(up'[Host]),
             Asks(up'[Host][j]), Asks(up'[Host][k])
      PROVE  j = k
  <2>1. j + d = k + d BY <1>1, <1>3, <1>5, <1>6 DEF OneRequest
  <2> QED BY <2>1, <1>4
<1>7. ASSUME NEW k \in 1 .. Len(up'[Host]), Asks(up'[Host][k])
      PROVE  Quiet /\ hpc = "recv"
  BY <1>1, <1>3, <1>5, <1>7 DEF OneRequest
<1> QED BY <1>6, <1>7

\* ... and taking the request leaves none.
LEMMA TakesLast ==
  ASSUME PatientInv, NEW t \in {"start", "upload"}, Received(Host, t)
  PROVE  Quiet /\ \A k \in 1 .. Len(up'[Host]) : ~Asks(up'[Host][k])
<1>0. Host \in Players BY SizeAssumption DEF Host, Players
<1>1. TypeOK /\ OneRequest BY DEF PatientInv
<1>2. up[Host] \in Seq(Ups) /\ up[Host] # <<>> /\ Head(up[Host]).type = t
  BY <1>0, <1>1 DEF TypeOK, Received
<1>3. 1 \in 1 .. Len(up[Host]) /\ Asks(up[Host][1]) BY <1>2 DEF Asks
<1>4. Quiet BY <1>1, <1>3 DEF OneRequest
<1>5. PICK d \in Nat \ {0} :
        /\ Len(up'[Host]) + d = Len(up[Host])
        /\ \A i \in 1 .. Len(up'[Host]) : up'[Host][i] = up[Host][i + d]
  BY <1>0, <1>1, Shortened
<1>6. Len(up'[Host]) \in Nat
  <2>1. up' \in [Players -> Seq(Ups)] BY <1>0, <1>1, ReceivedType
  <2> QED BY <2>1, <1>0
<1>7. ASSUME NEW k \in 1 .. Len(up'[Host]), Asks(up'[Host][k]) PROVE FALSE
  <2>1. k + d \in 1 .. Len(up[Host]) /\ k + d # 1 BY <1>2, <1>5, <1>6
  <2> QED BY <1>1, <1>3, <1>5, <1>7, <2>1 DEF OneRequest
<1> QED BY <1>4, <1>7

\* A step that leaves the host's requests, its recv thread and the loops alone.
Undisturbed == UNCHANGED <<up[Host], hpc, game_loop_running, lpc>>

LEMMA UndisturbedStep ==
  ASSUME PatientInv, Undisturbed PROVE OneRequest' /\ OneGameLoop'
BY DEF PatientInv, OneRequest, OneGameLoop, Undisturbed, Quiet, Asks

\* The recv threads.
LEMMA PatientRecv ==
  ASSUME PatientInv, Requests \/ (\E p \in Players : Recv(p))
  PROVE  OneRequest' /\ OneGameLoop'
<1> USE DEF session, handler, loops, clients
<1>1. ASSUME NEW p \in Players, HandlePlayerUpdate(p)
      PROVE  OneRequest' /\ OneGameLoop'
  <2>1. Received(p, "update") /\ UNCHANGED <<hpc, game_loop_running, lpc>>
    BY <1>1 DEF HandlePlayerUpdate
  <2>2. /\ \A j, k \in 1 .. Len(up'[Host]) :
             Asks(up'[Host][j]) /\ Asks(up'[Host][k]) => j = k
        /\ \A k \in 1 .. Len(up'[Host]) : Asks(up'[Host][k]) => Quiet /\ hpc = "recv"
    BY <2>1, KeepsUnique
  <2> QED BY <2>1, <2>2 DEF PatientInv, OneRequest, OneGameLoop, Quiet, Asks
<1>2. ASSUME NEW p \in Players, HandleEndSession(p)
      PROVE  OneRequest' /\ OneGameLoop'
  <2>1. Received(p, "end") /\ UNCHANGED <<hpc, lpc>> /\ game_loop_running' = FALSE
    BY <1>2 DEF HandleEndSession
  <2>2. /\ \A j, k \in 1 .. Len(up'[Host]) :
             Asks(up'[Host][j]) /\ Asks(up'[Host][k]) => j = k
        /\ \A k \in 1 .. Len(up'[Host]) : Asks(up'[Host][k]) => Quiet /\ hpc = "recv"
    BY <2>1, KeepsUnique
  <2> QED BY <2>1, <2>2 DEF PatientInv, OneRequest, OneGameLoop, Quiet, Asks
<1>3. CASE Requests
  <2>1. PICK t \in {"start", "upload"} : Received(Host, t)
    BY <1>3 DEF Requests, HandleStart, HandleMapUpload
  <2>2. Quiet /\ \A k \in 1 .. Len(up'[Host]) : ~Asks(up'[Host][k])
    BY <2>1, TakesLast
  <2>3. UNCHANGED <<game_loop_running, lpc>>
    BY <1>3 DEF Requests, HandleStart, HandleMapUpload
  <2> QED BY <2>2, <2>3 DEF PatientInv, OneRequest, OneGameLoop, Quiet, Asks
<1> QED BY <1>1, <1>2, <1>3 DEF Recv

\* While a request is handled no other one is on its way.
LEMMA PatientHandler ==
  ASSUME PatientInv, Handler PROVE OneRequest' /\ OneGameLoop'
<1> USE DEF session, handler, loops, clients
<1>1. hpc # "recv" /\ UNCHANGED up
  BY DEF Handler, MakeDefaultMap, ResetMap, SendMaps, SendResponses, SendAll,
     StartGameLoop, ClearFlag
<1>2. \A k \in 1 .. Len(up[Host]) : ~Asks(up[Host][k])
  BY <1>1 DEF PatientInv, OneRequest
<1>3. \A k \in 1 .. Len(up'[Host]) : ~Asks(up'[Host][k]) BY <1>1, <1>2 DEF Asks
<1>4. CASE MakeDefaultMap \/ ResetMap \/ SendMaps \/ SendResponses
  <2>1. Quiet
    BY <1>4 DEF MakeDefaultMap, ResetMap, SendMaps, SendResponses, PatientInv, OneRequest
  <2>2. UNCHANGED <<game_loop_running, lpc>>
    BY <1>4 DEF MakeDefaultMap, ResetMap, SendMaps, SendResponses, SendAll
  <2> QED BY <1>3, <2>1, <2>2 DEF PatientInv, OneRequest, OneGameLoop, Quiet, Asks
<1>5. CASE StartGameLoop
  <2>1. Quiet BY <1>5 DEF StartGameLoop, PatientInv, OneRequest
  <2>2. PICK l \in Loops : hpc' = "flag" /\ lpc' = [lpc EXCEPT ![l] = "top"]
    BY <1>5, <2>1 DEF StartGameLoop, Quiet
  <2>3. \A k \in Loops : k # l => lpc'[k] = "none"
    BY <2>1, <2>2 DEF Quiet, PatientInv, TypeOK
  <2>4. OneGameLoop' BY <2>3 DEF OneGameLoop
  <2>5. OneRequest' BY <1>3, <2>2 DEF OneRequest, Asks
  <2> QED BY <2>4, <2>5
<1>6. CASE ClearFlag
  <2>1. hpc' = "recv" /\ UNCHANGED <<game_loop_running, lpc>>
    BY <1>6 DEF ClearFlag
  <2> QED BY <1>3, <2>1 DEF PatientInv, OneRequest, OneGameLoop, Asks
<1> QED BY <1>4, <1>5, <1>6 DEF Handler

\* The one thread there is stays the only one.
LEMMA PatientLoop ==
  ASSUME PatientInv, NEW l \in Loops, Loop(l) PROVE OneRequest' /\ OneGameLoop'
<1> USE DEF session, handler, loops, clients, Goto
<1>1. /\ lpc[l] # "none" /\ UNCHANGED <<up, hpc>>
      /\ \E b : lpc' = [lpc EXCEPT ![l] = b]
  <2>0. lpc = [lpc EXCEPT ![l] = lpc[l]] BY DEF PatientInv, TypeOK
  <2>1. ASSUME NEW a, NEW m, NEW b, a # "none", Broadcast(l, a, m, b)
        PROVE  /\ lpc[l] # "none" /\ UNCHANGED <<up, hpc>>
               /\ \E c : lpc' = [lpc EXCEPT ![l] = c]
    BY <2>0, <2>1 DEF Broadcast
  <2>2. CASE LoopTop(l) \/ CollideWin(l) \/ CollideClear(l) \/ CollideNone(l)
    BY <2>2 DEF LoopTop, CollideWin, CollideClear, CollideNone
  <2>3. CASE ReadMap(l) \/ WriteMap(l) \/ BossFalls(l) \/ FrameEnd(l)
    BY <2>3 DEF ReadMap, WriteMap, BossFalls, FrameEnd
  <2> QED BY <2>1, <2>2, <2>3 DEF Loop
<1>2. \A k \in Loops : k # l => lpc[k] = "none" BY <1>1 DEF PatientInv, OneGameLoop
<1>3. \A k \in Loops : k # l => lpc'[k] = "none" BY <1>1, <1>2 DEF PatientInv, TypeOK
<1>4. OneGameLoop' BY <1>3 DEF OneGameLoop
<1>5. ~Quiet BY <1>1 DEF Quiet
<1>6. /\ \A k \in 1 .. Len(up[Host]) : ~Asks(up[Host][k])
      /\ hpc \notin {"make", "reset", "maps", "rsp", "edit", "launch"}
  BY <1>5 DEF PatientInv, OneRequest
<1>7. OneRequest' BY <1>1, <1>6 DEF OneRequest, Asks
<1> QED BY <1>4, <1>7

\* A player's packets are no requests; the host's button makes one, when
\* there is none.
LEMMA PatientClient ==
  ASSUME PatientInv, NEW p \in Players, Client(p) PROVE OneRequest' /\ OneGameLoop'
<1> USE DEF session, handler, loops
<1>0. Host \in Players BY SizeAssumption DEF Host, Players
<1>1. CASE Deliver(p) \/ StartTimer(p) \/ Quit(p)
  BY <1>1, UndisturbedStep DEF Deliver, StartTimer, Quit, Undisturbed
<1>2. CASE TimerProc(p)
  <2>1. UNCHANGED <<hpc, game_loop_running, lpc>> BY <1>2 DEF TimerProc
  <2>2. PICK pl : up' = [up EXCEPT ![p] = @ \o Farewell(p) \o <<Update(pl)>>]
    BY <1>2 DEF TimerProc
  <2>3. CASE p # Host
    <3>1. UNCHANGED up[Host] BY <2>2, <2>3, <1>0 DEF PatientInv, TypeOK
    <3> QED BY <2>1, <3>1, UndisturbedStep DEF Undisturbed
  <2>4. CASE p = Host
    <3>1. up[Host] \in Seq(Ups) BY <1>0 DEF PatientInv, TypeOK
    <3>2. up'[Host] = up[Host] \o Farewell(p) \o <<Update(pl)>>
      BY <2>2, <2>4, <1>0 DEF PatientInv, TypeOK
    <3>3. /\ Len(up[Host]) \in Nat
          /\ \A k \in 1 .. Len(up[Host]) : up'[Host][k] = up[Host][k]
          /\ \A k \in 1 .. Len(up'[Host]) :
               k \in 1 .. Len(up[Host]) \/ ~Asks(up'[Host][k])
      <4>1. CASE Farewell(p) = <<>>
        <5>1. up'[Host] = Append(up[Host], Update(pl)) BY <3>1, <3>2, <4>1
        <5> QED BY <3>1, <5>1 DEF Asks, Update
      <4>2. CASE Farewell(p) = <<Request("end")>>
        <5>1. up'[Host] = Append(Append(up[Host], Request("end")), Update(pl))
          BY <3>1, <3>2, <4>2
        <5> QED BY <3>1, <5>1 DEF Asks, Update, Request
      <4> QED BY <4>1, <4>2 DEF Farewell
    <3>4. OneRequest'
      BY <2>1, <3>3 DEF PatientInv, OneRequest, Quiet, Asks
    <3> QED BY <2>1, <3>4 DEF PatientInv, OneGameLoop
  <2> QED BY <2>3, <2>4
<1> QED BY <1>1, <1>2 DEF Client

LEMMA PatientPress ==
  ASSUME PatientInv, Over, Press PROVE OneRequest' /\ OneGameLoop'
<1> USE DEF session, handler, loops
<1>0. Host \in Players /\ up[Host] \in Seq(Ups)
  BY SizeAssumption DEF Host, Players, PatientInv, TypeOK
<1>1. Quiet /\ hpc = "recv" /\ \A k \in 1 .. Len(up[Host]) : ~Asks(up[Host][k])
  BY DEF Over, Quiet, Asks
<1>2. UNCHANGED <<hpc, game_loop_running, lpc>> BY DEF Press, PressStart, PressUpload
<1>3. PICK t : up'[Host] = Append(up[Host], Request(t))
  <2>1. CASE PressStart
    <3>1. up'[Host] = Append(up[Host], Request("start"))
      BY <1>0, <2>1 DEF PressStart, PatientInv, TypeOK
    <3> QED BY <3>1
  <2>2. CASE PressUpload
    <3>1. up'[Host] = Append(up[Host], Request("upload"))
      BY <1>0, <2>2 DEF PressUpload, PatientInv, TypeOK
    <3> QED BY <3>1
  <2> QED BY <2>1, <2>2 DEF Press
<1>4. \A k \in 1 .. Len(up'[Host]) : Asks(up'[Host][k]) => k = Len(up[Host]) + 1
  <2>1. \A k \in 1 .. Len(up[Host]) : up'[Host][k] = up[Host][k] BY <1>0, <1>3
  <2> QED BY <1>0, <1>1, <1>3, <2>1
<1>5. OneRequest' BY <1>1, <1>2, <1>4 DEF OneRequest, Quiet, Asks
<1> QED BY <1>2, <1>5 DEF PatientInv, OneGameLoop

LEMMA PatientStep == PatientInv /\ [PatientNext]_vars => PatientInv'
<1> SUFFICES ASSUME PatientInv, [PatientNext]_vars PROVE PatientInv' OBVIOUS
<1>1. TypeOK'
  BY TypeStep DEF PatientInv, PatientNext, Next
<1>2. CASE UNCHANGED vars
  BY <1>2, UndisturbedStep, <1>1
  DEF vars, session, handler, loops, Undisturbed, PatientInv
<1>3. CASE Requests \/ (\E p \in Players : Recv(p))
  BY <1>1, <1>3, PatientRecv DEF PatientInv
<1>4. CASE Handler BY <1>1, <1>4, PatientHandler DEF PatientInv
<1>5. CASE \E l \in Loops : Loop(l) BY <1>1, <1>5, PatientLoop DEF PatientInv
<1>6. CASE \E p \in Players : Client(p) BY <1>1, <1>6, PatientClient DEF PatientInv
<1>7. CASE Over /\ Press BY <1>1, <1>7, PatientPress DEF PatientInv
<1> QED BY <1>2, <1>3, <1>4, <1>5, <1>6, <1>7 DEF PatientNext, Serve

\* A host that begins a session only when nothing is left of the last one
\* never has two game loop threads, however many requests to end the session
\* its players send.
THEOREM PatientOneLoop == PatientSpec => []OneGameLoop
<1>1. Init => PatientInv
  <2> SUFFICES ASSUME Init PROVE PatientInv OBVIOUS
  <2>1. up[Host] = <<>> BY SizeAssumption DEF Init, Host, Players
  <2>2. hpc = "recv" /\ \A l \in Loops : lpc[l] = "none" BY DEF Init
  <2> QED BY <2>1, <2>2, InitType DEF PatientInv, OneRequest, OneGameLoop
<1>2. PatientInv => OneGameLoop BY DEF PatientInv
<1> QED BY <1>1, <1>2, PatientStep, PTL DEF PatientSpec

\* So for a patient host now_map never leaves the array of maps.
THEOREM PatientStageInRange == PatientSpec => []StageInRange
<1>1. [PatientNext]_vars => [Next]_vars BY DEF PatientNext, Next
<1>2. PatientSpec => Spec BY <1>1, PTL DEF PatientSpec, Spec
<1> QED BY <1>2, PatientOneLoop, StageStaysInRange, PTL


------------------------------------------------------------------------------
(* What the packets under way make of the index of a map.                   *)

\* Induction over the naturals, stated with sets: a set of naturals that is not
\* empty has a least element, and a set with 0 and the successor of each of its
\* members has them all.
LEMMA LeastElement ==
  ASSUME NEW T, T \subseteq Nat, T # {}
  PROVE  \E n \in T : \A m \in T : n <= m
<1> DEFINE R == {p \in Nat \X Nat : p[1] < p[2]}
<1>1. R = OpToRel(<, Nat) BY DEF OpToRel
<1>2. IsWellFoundedOn(R, Nat) BY <1>1, NatLessThanWellFounded
<1>3. PICK n \in T : \A m \in T : ~(<<m, n>> \in R)
  <2> HIDE DEF R
  <2> QED BY <1>2, WFMin
<1>4. ASSUME NEW m \in T PROVE n <= m
  <2>1. ~(<<m, n>> \in R) BY <1>3
  <2>2. <<m, n>> \in Nat \X Nat OBVIOUS
  <2>3. ~(m < n) BY <2>1, <2>2
  <2> QED BY <2>3
<1> QED BY <1>4

LEMMA Induction ==
  ASSUME NEW S, 0 \in S, \A n \in Nat : n \in S => n + 1 \in S
  PROVE  \A n \in Nat : n \in S
<1> SUFFICES ASSUME NEW k \in Nat, k \notin S PROVE FALSE OBVIOUS
<1> DEFINE T == {n \in Nat : n \notin S}
<1>1. PICK n \in T : \A m \in T : n <= m BY LeastElement
<1>2. n - 1 \in Nat BY <1>1
<1>3. n - 1 \in S BY <1>1, <1>2
<1> QED BY <1>1, <1>2, <1>3

LEMMA IdxAfterType ==
  ASSUME NEW i \in Maps, NEW m \in Downs PROVE IdxAfter(i, m) \in Maps
BY SizeAssumption DEF IdxAfter, Maps, Downs

\* f lists the indices a client has, beginning with i, while it handles the
\* first n of the packets s.
Run(f, i, s, n) ==
  /\ f \in [0 .. n -> Maps] /\ f[0] = i
  /\ \A k \in 1 .. n : f[k] = IdxAfter(f[k - 1], s[k])

LEMMA LongerRun ==
  ASSUME NEW i \in Maps, NEW s \in Seq(Downs), NEW n \in Nat, n + 1 <= Len(s),
         NEW f, Run(f, i, s, n)
  PROVE  \E g : Run(g, i, s, n + 1)
<1> DEFINE x == IdxAfter(f[n], s[n + 1])
           g == [k \in 0 .. n + 1 |-> IF k = n + 1 THEN x ELSE f[k]]
<1>1. f \in [0 .. n -> Maps] /\ f[0] = i /\ n \in 0 .. n BY DEF Run
<1>2. s[n + 1] \in Downs OBVIOUS
<1>3. x \in Maps BY <1>1, <1>2, IdxAfterType
<1> HIDE DEF x
<1>4. g \in [0 .. n + 1 -> Maps] BY <1>1, <1>3
<1>5. g[0] = i BY <1>1
<1>6. ASSUME NEW k \in 1 .. n + 1 PROVE g[k] = IdxAfter(g[k - 1], s[k])
  <2>1. k - 1 \in 0 .. n + 1 /\ k - 1 # n + 1 /\ k \in 0 .. n + 1 OBVIOUS
  <2>2. g[k - 1] = f[k - 1] BY <2>1
  <2>3. CASE k = n + 1
    <3>1. k - 1 = n /\ g[k] = x BY <2>1, <2>3
    <3> QED BY <2>2, <2>3, <3>1 DEF x
  <2>4. CASE k # n + 1
    <3>1. k \in 1 .. n /\ g[k] = f[k] BY <2>1, <2>4
    <3> QED BY <2>2, <3>1 DEF Run
  <2> QED BY <2>3, <2>4
<1> HIDE DEF g
<1> QED BY <1>4, <1>5, <1>6 DEF Run

LEMMA RunExists ==
  ASSUME NEW i \in Maps, NEW s \in Seq(Downs)
  PROVE  \E f : Run(f, i, s, Len(s))
<1> DEFINE S == {n \in Nat : n <= Len(s) => \E f : Run(f, i, s, n)}
<1>1. 0 \in S
  <2>1. Run([k \in 0 .. 0 |-> i], i, s, 0) BY DEF Run
  <2> QED BY <2>1
<1>2. ASSUME NEW n \in Nat, n \in S PROVE n + 1 \in S
  <2> SUFFICES ASSUME n + 1 <= Len(s) PROVE \E g : Run(g, i, s, n + 1) OBVIOUS
  <2>1. n <= Len(s) OBVIOUS
  <2>2. PICK f : Run(f, i, s, n) BY <1>2, <2>1
  <2> QED BY <2>2, LongerRun
<1> HIDE DEF S
<1>3. \A n \in Nat : n \in S BY <1>1, <1>2, Induction
<1>4. Len(s) \in Nat OBVIOUS
<1> QED BY <1>3, <1>4 DEF S

\* The index a client has in the end is the last one of any such list.
LEMMA RunValue ==
  ASSUME NEW i \in Maps, NEW s \in Seq(Downs), NEW f, Run(f, i, s, Len(s))
  PROVE  Ahead(i, s) = f[Len(s)] /\ Ahead(i, s) \in Maps
<1> DEFINE n == Len(s)
           Steps(h) == [k \in 0 .. n |-> IF k = 0 THEN i ELSE IdxAfter(h[k - 1], s[k])]
           g == CHOOSE h : h = Steps(h)
<1>n. n \in Nat /\ n \in 0 .. n OBVIOUS
<1>1. f = Steps(f)
  <2>1. f \in [0 .. n -> Maps] /\ f[0] = i /\ \A k \in 1 .. n : f[k] = IdxAfter(f[k - 1], s[k])
    BY DEF Run
  <2>2. f = [k \in 0 .. n |-> f[k]] BY <2>1
  <2>3. \A k \in 0 .. n : k = 0 \/ k \in 1 .. n BY <1>n
  <2>4. \A k \in 0 .. n : f[k] = IF k = 0 THEN i ELSE IdxAfter(f[k - 1], s[k])
    BY <2>1, <2>3
  <2>5. [k \in 0 .. n |-> f[k]] = Steps(f) BY <2>4
  <2> QED BY <2>2, <2>5
<1>2. g = Steps(g) BY <1>1
<1>3. Ahead(i, s) = g[n] BY DEF Ahead
<1> HIDE DEF g
<1>4. g[0] = i /\ \A k \in 1 .. n : g[k] = IdxAfter(g[k - 1], s[k])
  <2>1. 0 \in 0 .. n /\ \A k \in 1 .. n : k \in 0 .. n /\ k # 0 BY <1>n
  <2>2. \A k \in 0 .. n : g[k] = IF k = 0 THEN i ELSE IdxAfter(g[k - 1], s[k]) BY <1>2
  <2> QED BY <2>1, <2>2
<1> DEFINE S == {k \in Nat : k <= n => g[k] = f[k]}
<1>5. 0 \in S BY <1>4 DEF Run
<1>6. ASSUME NEW k \in Nat, k \in S PROVE k + 1 \in S
  <2> SUFFICES ASSUME k + 1 <= n PROVE g[k + 1] = f[k + 1] OBVIOUS
  <2>1. k + 1 \in 1 .. n /\ (k + 1) - 1 = k /\ k <= n BY <1>n
  <2>2. g[k + 1] = IdxAfter(g[k], s[k + 1]) BY <1>4, <2>1
  <2>3. f[k + 1] = IdxAfter(f[k], s[k + 1]) BY <2>1 DEF Run
  <2> QED BY <1>6, <2>1, <2>2, <2>3
<1> HIDE DEF S
<1>7. \A k \in Nat : k \in S BY <1>5, <1>6, Induction
<1>8. g[n] = f[n] BY <1>7, <1>n DEF S
<1>9. f[n] \in Maps BY <1>n DEF Run
<1> QED BY <1>3, <1>8, <1>9

LEMMA AheadType ==
  ASSUME NEW i \in Maps, NEW s \in Seq(Downs) PROVE Ahead(i, s) \in Maps
BY RunExists, RunValue

LEMMA AheadEmpty ==
  ASSUME NEW i \in Maps PROVE Ahead(i, <<>>) = i
<1>1. <<>> \in Seq(Downs) /\ Len(<<>>) = 0 OBVIOUS
<1>2. PICK f : Run(f, i, <<>>, Len(<<>>)) BY <1>1, RunExists
<1> QED BY <1>1, <1>2, RunValue DEF Run

\* One more packet is handled last.
LEMMA AheadAppend ==
  ASSUME NEW i \in Maps, NEW s \in Seq(Downs), NEW m \in Downs
  PROVE  Ahead(i, Append(s, m)) = IdxAfter(Ahead(i, s), m)
<1> DEFINE t == Append(s, m)
<1>1. /\ t \in Seq(Downs) /\ Len(t) = Len(s) + 1 /\ Len(s) \in Nat
      /\ t[Len(s) + 1] = m /\ \A k \in 1 .. Len(s) : t[k] = s[k]
  OBVIOUS
<1> HIDE DEF t
<1>2. PICK g : Run(g, i, t, Len(t)) BY <1>1, RunExists
<1> DEFINE f == [k \in 0 .. Len(s) |-> g[k]]
<1>3. Run(f, i, s, Len(s))
  <2>1. g \in [0 .. Len(s) + 1 -> Maps] /\ g[0] = i
        /\ \A k \in 1 .. Len(s) + 1 : g[k] = IdxAfter(g[k - 1], t[k])
    BY <1>1, <1>2 DEF Run
  <2>2. \A k \in 0 .. Len(s) : k \in 0 .. Len(s) + 1 BY <1>1
  <2>3. f \in [0 .. Len(s) -> Maps] /\ f[0] = i BY <1>1, <2>1, <2>2
  <2>4. ASSUME NEW k \in 1 .. Len(s) PROVE f[k] = IdxAfter(f[k - 1], s[k])
    <3>1. k \in 0 .. Len(s) /\ k - 1 \in 0 .. Len(s) /\ k \in 1 .. Len(s) + 1 BY <1>1
    <3>2. f[k] = g[k] /\ f[k - 1] = g[k - 1] BY <3>1
    <3> QED BY <1>1, <2>1, <3>1, <3>2
  <2> HIDE DEF f
  <2> QED BY <2>3, <2>4 DEF Run
<1>4. Ahead(i, t) = g[Len(s) + 1] BY <1>1, <1>2, RunValue
<1>5. Ahead(i, s) = g[Len(s)]
  <2>1. Len(s) \in 0 .. Len(s) BY <1>1
  <2>2. f[Len(s)] = g[Len(s)] BY <2>1
  <2> HIDE DEF f
  <2> QED BY <1>3, <2>2, RunValue
<1>6. g[Len(s) + 1] = IdxAfter(g[Len(s)], t[Len(s) + 1])
  <2>1. Len(s) + 1 \in 1 .. Len(t) /\ (Len(s) + 1) - 1 = Len(s) BY <1>1
  <2> QED BY <1>2, <2>1 DEF Run
<1> QED BY <1>1, <1>4, <1>5, <1>6 DEF t

\* The first packet is handled first.
LEMMA AheadTail ==
  ASSUME NEW i \in Maps, NEW s \in Seq(Downs), s # <<>>
  PROVE  Ahead(i, s) = Ahead(IdxAfter(i, Head(s)), Tail(s))
<1> DEFINE t == Tail(s)
<1>1. /\ t \in Seq(Downs) /\ Len(s) = Len(t) + 1 /\ Len(t) \in Nat /\ Head(s) = s[1]
      /\ s[1] \in Downs /\ \A k \in 1 .. Len(t) : t[k] = s[k + 1]
  OBVIOUS
<1> HIDE DEF t
<1>2. PICK g : Run(g, i, s, Len(s)) BY RunExists
<1>3. g \in [0 .. Len(t) + 1 -> Maps] /\ g[0] = i
      /\ \A k \in 1 .. Len(t) + 1 : g[k] = IdxAfter(g[k - 1], s[k])
  BY <1>1, <1>2 DEF Run
<1> DEFINE j == IdxAfter(i, s[1])
           f == [k \in 0 .. Len(t) |-> g[k + 1]]
<1>4. j \in Maps BY <1>1, IdxAfterType
<1>5. g[1] = j
  <2>1. 1 \in 1 .. Len(t) + 1 /\ 1 - 1 = 0 BY <1>1
  <2> QED BY <1>3, <2>1
<1> HIDE DEF j
<1>6. Run(f, j, t, Len(t))
  <2>1. \A k \in 0 .. Len(t) : k + 1 \in 0 .. Len(t) + 1 BY <1>1
  <2>2. f \in [0 .. Len(t) -> Maps] BY <1>3, <2>1
  <2>3. f[0] = j
    <3>1. 0 \in 0 .. Len(t) /\ 0 + 1 = 1 BY <1>1
    <3> QED BY <1>5, <3>1
  <2>4. ASSUME NEW k \in 1 .. Len(t) PROVE f[k] = IdxAfter(f[k - 1], t[k])
    <3>1. /\ k \in 0 .. Len(t) /\ k - 1 \in 0 .. Len(t) /\ (k - 1) + 1 = k
          /\ k + 1 \in 1 .. Len(t) + 1 /\ (k + 1) - 1 = k
      BY <1>1
    <3>2. f[k] = g[k + 1] /\ f[k - 1] = g[k] BY <3>1
    <3>3. g[k + 1] = IdxAfter(g[k], s[k + 1]) BY <1>3, <3>1
    <3> QED BY <1>1, <3>2, <3>3
  <2> HIDE DEF f
  <2> QED BY <2>2, <2>3, <2>4 DEF Run
<1>7. Ahead(j, t) = g[Len(t) + 1]
  <2>1. Len(t) \in 0 .. Len(t) BY <1>1
  <2>2. f[Len(t)] = g[Len(t) + 1] BY <2>1
  <2> HIDE DEF f
  <2> QED BY <1>1, <1>4, <1>6, <2>2, RunValue
<1>8. Ahead(i, s) = g[Len(t) + 1] BY <1>1, <1>2, RunValue
<1> QED BY <1>1, <1>7, <1>8 DEF j, t

\* A map on its way wipes out what the client had before.
Resets == {"maps", "edit"}

LEMMA AheadReset ==
  ASSUME NEW i \in Maps, NEW j \in Maps, NEW s \in Seq(Downs),
         NEW r \in 1 .. Len(s), s[r] \in Resets
  PROVE  Ahead(i, s) = Ahead(j, s)
<1>n. Len(s) \in Nat OBVIOUS
<1>1. PICK f : Run(f, i, s, Len(s)) BY RunExists
<1>2. PICK g : Run(g, j, s, Len(s)) BY RunExists
<1> DEFINE S == {k \in Nat : r <= k /\ k <= Len(s) => f[k] = g[k]}
<1>3. 0 \in S OBVIOUS
<1>4. ASSUME NEW k \in Nat, k \in S PROVE k + 1 \in S
  <2> SUFFICES ASSUME r <= k + 1, k + 1 <= Len(s) PROVE f[k + 1] = g[k + 1] OBVIOUS
  <2>1. k + 1 \in 1 .. Len(s) /\ (k + 1) - 1 = k /\ k <= Len(s) BY <1>n
  <2>2. f[k + 1] = IdxAfter(f[k], s[k + 1]) BY <1>1, <2>1 DEF Run
  <2>3. g[k + 1] = IdxAfter(g[k], s[k + 1]) BY <1>2, <2>1 DEF Run
  <2>4. CASE r = k + 1 BY <2>2, <2>3, <2>4 DEF IdxAfter, Resets
  <2>5. CASE r # k + 1
    <3>1. r <= k BY <2>5
    <3>2. f[k] = g[k] BY <1>4, <2>1, <3>1
    <3> QED BY <2>2, <2>3, <3>2
  <2> QED BY <2>4, <2>5
<1> HIDE DEF S
<1>5. \A k \in Nat : k \in S BY <1>3, <1>4, Induction
<1>6. r <= Len(s) BY <1>n
<1>7. f[Len(s)] = g[Len(s)] BY <1>5, <1>n, <1>6 DEF S
<1> QED BY <1>1, <1>2, <1>7, RunValue

------------------------------------------------------------------------------
(* The stages of a patient host's sessions.                                 *)

\* The thread has announced to p the next stage it has not yet counted.
Told(p) ==
  \E l \in Loops : lpc[l] \in {"read", "write"} \/ (lpc[l] = "clear" /\ p < lidx[l])
Stage(p) == now_map + (IF Told(p) THEN 1 ELSE 0)

\* The host has pressed the button, the answer is not yet under way, and nothing
\* left of the last session can open the game window.
Waits ==
  /\ hpc = "recv" /\ Quiet /\ screen[Host] = "hidden" /\ ~StartGame[Host]
  /\ \A k \in 1 .. Len(down[Host]) : down[Host][k] \notin Resets \cup {"rsp"}

\* In a default session everybody is, or will be, on the stage announced.
Keeping ==
  map_type = 0 /\ hpc \in {"recv", "launch", "flag"} =>
    \A p \in Players : IdxAhead(p) = Stage(p) \/ (p = Host /\ Waits)

\* While the maps go out, those who were sent theirs are back at the first one.
Resetting ==
  /\ hpc = "maps" => now_map = 0 /\ \A p \in Players : p < hidx => IdxAhead(p) = 0
  /\ hpc \in {"rsp", "edit"} => map_type # 0

\* A response to the host is followed by the map.
Trailing(s) ==
  \A k \in 1 .. Len(s) : s[k] = "rsp" => \E m \in 1 .. Len(s) : k < m /\ s[m] \in Resets
Followed == hpc # "rsp" /\ (hpc = "edit" => hidx # 0) => Trailing(down[Host])

\* A broadcast begins with the first client; ++now_map writes what it read.
Counting ==
  \A l \in Loops :
    /\ lpc[l] \notin {"clear", "win", "bosswin"} => lidx[l] = 0
    /\ lpc[l] = "write" => lreg[l] = now_map

SyncInv == Keeping /\ Resetting /\ Followed /\ Counting

LEMMA TrailingAppend ==
  ASSUME NEW s \in Seq(Downs), NEW m \in Downs, (Trailing(s) /\ m # "rsp") \/ m \in Resets
  PROVE  Trailing(Append(s, m))
<1> DEFINE t == Append(s, m)
<1>1. /\ Len(t) = Len(s) + 1 /\ Len(s) \in Nat
      /\ t[Len(s) + 1] = m /\ \A k \in 1 .. Len(s) : t[k] = s[k]
  OBVIOUS
<1> HIDE DEF t
<1> SUFFICES ASSUME NEW k \in 1 .. Len(t), t[k] = "rsp"
             PROVE  \E r \in 1 .. Len(t) : k < r /\ t[r] \in Resets
  BY DEF Trailing, t
<1>2. m # "rsp" BY DEF Resets
<1>3. k \in 1 .. Len(s) /\ s[k] = "rsp"
  <2>1. k # Len(s) + 1 BY <1>1, <1>2
  <2>2. k \in 1 .. Len(s) BY <1>1, <2>1
  <2> QED BY <1>1, <2>2
<1>4. CASE m \in Resets
  <2>1. Len(s) + 1 \in 1 .. Len(t) /\ k < Len(s) + 1 BY <1>1, <1>3
  <2> QED BY <1>1, <1>4, <2>1
<1>5. CASE Trailing(s)
  <2>1. PICK r \in 1 .. Len(s) : k < r /\ s[r] \in Resets BY <1>3, <1>5 DEF Trailing
  <2>2. r \in 1 .. Len(t) /\ t[r] = s[r] BY <1>1
  <2> QED BY <2>1, <2>2
<1> QED BY <1>4, <1>5

LEMMA TrailingTail ==
  ASSUME NEW s \in Seq(Downs), s # <<>>, Trailing(s)
  PROVE  Trailing(Tail(s))
<1> DEFINE t == Tail(s)
<1>1. Len(s) = Len(t) + 1 /\ Len(t) \in Nat /\ \A k \in 1 .. Len(t) : t[k] = s[k + 1]
  OBVIOUS
<1> HIDE DEF t
<1> SUFFICES ASSUME NEW k \in 1 .. Len(t), t[k] = "rsp"
             PROVE  \E r \in 1 .. Len(t) : k < r /\ t[r] \in Resets
  BY DEF Trailing, t
<1>2. k + 1 \in 1 .. Len(s) /\ s[k + 1] = "rsp" BY <1>1
<1>3. PICK r \in 1 .. Len(s) : k + 1 < r /\ s[r] \in Resets BY <1>2 DEF Trailing
<1>4. r - 1 \in 1 .. Len(t) /\ k < r - 1 /\ (r - 1) + 1 = r BY <1>1, <1>3
<1>5. t[r - 1] = s[r] BY <1>1, <1>4
<1> QED BY <1>3, <1>4, <1>5

LEMMA AheadKnown ==
  ASSUME TypeOK, NEW p \in Players
  PROVE  down[p] \in Seq(Downs) /\ idx[p] \in Maps /\ IdxAhead(p) \in Maps
<1>1. down[p] \in Seq(Downs) /\ idx[p] \in Maps BY DEF TypeOK
<1> QED BY <1>1, AheadType DEF IdxAhead

LEMMA HostIsPlayer ==
  Host \in Players /\ Host = 0 /\ MAX_PLAYERS \in Nat /\ MAX_PLAYERS > 0
BY SizeAssumption DEF Host, Players

\* A packet that is sent changes what its client will come to.
LEMMA AheadSend ==
  ASSUME TypeOK, NEW p \in Players, NEW m \in Downs, SendDown(p, m), UNCHANGED idx
  PROVE  /\ IdxAhead(p)' = IdxAfter(IdxAhead(p), m)
         /\ \A q \in Players : q # p => IdxAhead(q)' = IdxAhead(q)
         /\ p = Host => down'[Host] = Append(down[Host], m)
         /\ p # Host => down'[Host] = down[Host]
<1>1. down'[p] = Append(down[p], m) /\ \A q \in Players : q # p => down'[q] = down[q]
  BY DEF SendDown, TypeOK
<1>2. Ahead(idx[p], Append(down[p], m)) = IdxAfter(Ahead(idx[p], down[p]), m)
  BY AheadKnown, AheadAppend
<1>3. IdxAhead(p)' = IdxAfter(IdxAhead(p), m) BY <1>1, <1>2 DEF IdxAhead
<1>4. \A q \in Players : q # p => IdxAhead(q)' = IdxAhead(q) BY <1>1 DEF IdxAhead
<1> QED BY <1>1, <1>3, <1>4, HostIsPlayer

\* A step that leaves the stages, the threads and the packets alone.
Stays ==
  /\ UNCHANGED <<now_map, map_type, hpc, hidx, lpc, lidx, lreg, idx, down>>
  /\ Waits => Waits'

LEMMA SyncStays == SyncInv /\ Stays => SyncInv'
<1> SUFFICES ASSUME SyncInv, Stays PROVE SyncInv' OBVIOUS
<1>1. UNCHANGED <<now_map, map_type, hpc, hidx, lpc, lidx, lreg, idx, down>> BY DEF Stays
<1>2. \A p \in Players : IdxAhead(p)' = IdxAhead(p) /\ Stage(p)' = Stage(p)
  BY <1>1 DEF IdxAhead, Stage, Told
<1>3. Keeping' BY <1>1, <1>2 DEF SyncInv, Keeping, Stays
<1>4. Resetting' BY <1>1, <1>2 DEF SyncInv, Resetting
<1>5. Followed' BY <1>1 DEF SyncInv, Followed
<1>6. Counting' BY <1>1 DEF SyncInv, Counting
<1> QED BY <1>3, <1>4, <1>5, <1>6 DEF SyncInv

LEMMA SyncRequests ==
  ASSUME SyncInv, Requests \/ (\E p \in Players : Recv(p)) PROVE SyncInv'
<1> USE DEF handler, loops, clients
<1>1. ASSUME NEW p \in Players, Recv(p) PROVE SyncInv'
  <2>1. /\ UNCHANGED <<now_map, map_type, hpc, hidx, lpc, lidx, lreg, idx, down>>
        /\ UNCHANGED <<screen, StartGame>>
        /\ game_loop_running' \in {game_loop_running, FALSE}
    BY <1>1 DEF Recv, HandlePlayerUpdate, HandleEndSession
  <2>2. Waits => Waits' BY <2>1 DEF Waits, Quiet
  <2> QED BY <2>1, <2>2, SyncStays DEF Stays
<1>2. CASE Requests
  <2>1. /\ hpc = "recv" /\ hpc' \in {"make", "rsp"} /\ (hpc' = "rsp" => map_type' # 0)
        /\ UNCHANGED <<now_map, loops, down>>
    BY <1>2 DEF Requests, HandleStart, HandleMapUpload, Received
  <2>2. Trailing(down'[Host]) BY <2>1 DEF SyncInv, Followed
  <2>3. Counting' BY <2>1 DEF SyncInv, Counting
  <2> QED BY <2>1, <2>2, <2>3 DEF SyncInv, Keeping, Resetting, Followed
<1> QED BY <1>1, <1>2

\* One step of BroadcastMapInfo or of the loop that sends an uploaded map.
LEMMA SyncMaps ==
  ASSUME PatientInv, SyncInv, SendMaps PROVE SyncInv'
<1> USE DEF session, loops, clients
<1>0. TypeOK /\ Quiet BY DEF PatientInv, OneRequest, SendMaps
<1>1. /\ hpc \in {"maps", "edit"} /\ SendAll(hpc, "launch")
      /\ UNCHANGED <<now_map, map_type, loops, idx>>
  BY DEF SendMaps, SendAll
<1>2. Counting' BY <1>1 DEF SyncInv, Counting
<1>3. CASE hidx = MAX_PLAYERS
  <2>1. hpc' = "launch" /\ UNCHANGED down BY <1>1, <1>3 DEF SendAll
  <2>2. \A p \in Players : IdxAhead(p)' = IdxAhead(p) BY <1>1, <2>1 DEF IdxAhead
  <2>3. Trailing(down'[Host]) BY <1>1, <1>3, <2>1, HostIsPlayer DEF SyncInv, Followed
  <2>4. Keeping'
    <3> SUFFICES ASSUME map_type = 0, NEW p \in Players PROVE IdxAhead(p)' = Stage(p)'
      BY <1>1 DEF Keeping
    <3>1. hpc = "maps" BY <1>1 DEF SyncInv, Resetting
    <3>2. p < hidx BY <1>3, HostIsPlayer DEF Players
    <3>3. IdxAhead(p) = 0 /\ now_map = 0 BY <3>1, <3>2 DEF SyncInv, Resetting
    <3>4. ~Told(p)' BY <1>0, <1>1 DEF Told, Quiet
    <3>5. Stage(p)' = 0 + 0 BY <1>1, <3>3, <3>4 DEF Stage
    <3> QED BY <2>2, <3>3, <3>5
  <2> QED BY <1>2, <2>1, <2>3, <2>4 DEF SyncInv, Resetting, Followed
<1>4. CASE hidx # MAX_PLAYERS
  <2>1. hidx \in Players BY <1>0, <1>4, HostIsPlayer DEF TypeOK, Players
  <2>h. PICK h \in Players : h = hidx BY <2>1
  <2>2. SendDown(h, hpc) /\ hidx' = h + 1 /\ hpc' = hpc BY <1>1, <1>4, <2>h DEF SendAll
  <2>3. hpc \in Downs /\ hpc \in Resets BY <1>1 DEF Downs, Resets
  <2>4. /\ IdxAhead(h)' = IdxAfter(IdxAhead(h), hpc)
        /\ \A q \in Players : q # h => IdxAhead(q)' = IdxAhead(q)
        /\ h = Host => down'[Host] = Append(down[Host], hpc)
        /\ h # Host => down'[Host] = down[Host]
    BY <1>0, <1>1, <2>2, <2>3, AheadSend
  <2>5. IdxAfter(IdxAhead(h), hpc) = 0 BY <1>1 DEF IdxAfter
  <2>6. Resetting'
    <3>1. hpc = "edit" => map_type # 0 BY DEF SyncInv, Resetting
    <3>2. ASSUME hpc = "maps", NEW p \in Players, p < h + 1 PROVE IdxAhead(p)' = 0
      <4>1. CASE p = h BY <2>4, <2>5, <4>1
      <4>2. CASE p # h
        <5>1. p < h BY <3>2, <4>2 DEF Players
        <5>2. IdxAhead(p) = 0 BY <2>h, <3>2, <5>1 DEF SyncInv, Resetting
        <5> QED BY <2>4, <4>2, <5>2
      <4> QED BY <4>1, <4>2
    <3>3. hpc = "maps" => now_map = 0 BY DEF SyncInv, Resetting
    <3> QED BY <1>1, <2>2, <3>1, <3>2, <3>3 DEF Resetting
  <2>7. Trailing(down'[Host])
    <3>1. down[Host] \in Seq(Downs) BY <1>0, AheadKnown, HostIsPlayer
    <3>2. CASE h = Host BY <2>3, <2>4, <3>1, <3>2, TrailingAppend
    <3>3. CASE h # Host
      <4>1. hidx # 0 BY <2>h, <3>3, HostIsPlayer
      <4> QED BY <1>1, <2>4, <3>3, <4>1 DEF SyncInv, Followed
    <3> QED BY <3>2, <3>3
  <2> QED BY <1>1, <1>2, <2>2, <2>6, <2>7 DEF SyncInv, Keeping, Followed
<1> QED BY <1>3, <1>4

\* The other steps of a handler.
LEMMA SyncHandler ==
  ASSUME PatientInv, SyncInv, Handler PROVE SyncInv'
<1> USE DEF session, loops, clients
<1>1. CASE MakeDefaultMap
  <2>1. hpc = "make" /\ hpc' = "reset" /\ UNCHANGED <<now_map, loops, down>>
    BY <1>1 DEF MakeDefaultMap
  <2>2. Trailing(down'[Host]) BY <2>1 DEF SyncInv, Followed
  <2>3. Counting' BY <2>1 DEF SyncInv, Counting
  <2> QED BY <2>1, <2>2, <2>3 DEF SyncInv, Keeping, Resetting, Followed
<1>2. CASE ResetMap
  <2>1. hpc = "reset" /\ hpc' = "maps" /\ hidx' = 0 /\ now_map' = 0
        /\ UNCHANGED <<loops, down>>
    BY <1>2 DEF ResetMap
  <2>2. Trailing(down'[Host]) BY <2>1 DEF SyncInv, Followed
  <2>3. \A l \in Loops : lpc[l] = "none" BY <2>1 DEF PatientInv, OneRequest, Quiet
  <2>4. Counting' BY <2>1, <2>3 DEF SyncInv, Counting
  <2>5. Resetting'
    <3>1. \A p \in Players : ~(p < hidx') BY <2>1, HostIsPlayer DEF Players
    <3> QED BY <2>1, <3>1 DEF Resetting
  <2> QED BY <2>1, <2>2, <2>4, <2>5 DEF SyncInv, Keeping, Followed
<1>3. CASE SendResponses
  <2>1. hpc = "rsp" /\ hpc' \in {"rsp", "edit"} /\ (hpc' = "edit" => hidx' = 0)
        /\ UNCHANGED <<now_map, map_type, loops>>
    BY <1>3 DEF SendResponses, SendAll
  <2>2. map_type # 0 BY <2>1 DEF SyncInv, Resetting
  <2>3. Counting' BY <2>1 DEF SyncInv, Counting
  <2> QED BY <2>1, <2>2, <2>3 DEF SyncInv, Keeping, Resetting, Followed
<1>4. CASE StartGameLoop \/ ClearFlag
  <2>1. /\ hpc \in {"launch", "flag"} /\ hpc' \in {"recv", "flag"}
        /\ UNCHANGED <<now_map, map_type, hidx, lidx, lreg, idx, down>>
    BY <1>4 DEF StartGameLoop, ClearFlag
  <2>2. UNCHANGED lpc
        \/ \E l \in Loops : lpc[l] = "none" /\ lpc' = [lpc EXCEPT ![l] = "top"]
    BY <1>4 DEF StartGameLoop, ClearFlag
  <2>3. \A k \in Loops :
          lpc'[k] = lpc[k] \/ (lpc[k] = "none" /\ lpc'[k] = "top")
    BY <2>2 DEF PatientInv, TypeOK
  <2>4. Trailing(down'[Host]) BY <2>1 DEF SyncInv, Followed
  <2>5. Counting' BY <2>1, <2>3 DEF SyncInv, Counting
  <2>6. \A p \in Players : Told(p)' <=> Told(p) BY <2>1, <2>3 DEF Told
  <2>7. \A p \in Players : IdxAhead(p)' = IdxAhead(p) /\ Stage(p)' = Stage(p)
    BY <2>1, <2>6 DEF IdxAhead, Stage
  <2>8. Keeping'
    <3> SUFFICES ASSUME map_type = 0, NEW p \in Players PROVE IdxAhead(p)' = Stage(p)'
      BY <2>1 DEF Keeping
    <3>1. IdxAhead(p) = Stage(p) BY <2>1 DEF SyncInv, Keeping, Waits
    <3> QED BY <2>7, <3>1
  <2> QED BY <2>1, <2>4, <2>5, <2>8 DEF SyncInv, Resetting, Followed
<1> QED BY <1>1, <1>2, <1>3, <1>4, SyncMaps DEF Handler

\* What a step of the one game loop thread may rely on.
LEMMA Alone ==
  ASSUME PatientInv, SyncInv, NEW l \in Loops, lpc[l] # "none"
  PROVE  /\ hpc \in {"recv", "flag"} /\ Trailing(down[Host])
         /\ \A k \in Loops : k # l => lpc[k] = "none"
         /\ \A p \in Players :
              Told(p) <=> lpc[l] \in {"read", "write"} \/ (lpc[l] = "clear" /\ p < lidx[l])
         /\ map_type = 0 => \A p \in Players : IdxAhead(p) = Stage(p)
<1>1. ~Quiet BY DEF Quiet
<1>2. hpc \in {"recv", "flag"} BY <1>1 DEF PatientInv, TypeOK, OneRequest
<1>3. Trailing(down[Host]) BY <1>2 DEF SyncInv, Followed
<1>4. \A k \in Loops : k # l => lpc[k] = "none" BY DEF PatientInv, OneGameLoop
<1>5. \A p \in Players :
        Told(p) <=> lpc[l] \in {"read", "write"} \/ (lpc[l] = "clear" /\ p < lidx[l])
  BY <1>4 DEF Told
<1>6. map_type = 0 => \A p \in Players : IdxAhead(p) = Stage(p)
  BY <1>1, <1>2 DEF SyncInv, Keeping, Waits
<1> QED BY <1>2, <1>3, <1>4, <1>5, <1>6

\* What such a step has to keep, where it goes on at b with the index x.
LEMMA AloneStep ==
  ASSUME PatientInv, SyncInv, NEW l \in Loops, lpc[l] # "none",
         UNCHANGED <<map_type, hpc, hidx>>, NEW b, NEW x,
         lpc' = [lpc EXCEPT ![l] = b], lidx' = [lidx EXCEPT ![l] = x],
         b \notin {"clear", "win", "bosswin"} => x = 0,
         b = "write" => lreg'[l] = now_map',
         \A k \in Loops : k # l => lreg'[k] = lreg[k],
         Trailing(down'[Host]),
         map_type = 0 => \A p \in Players : IdxAhead(p)' =
           now_map' + (IF b \in {"read", "write"} \/ (b = "clear" /\ p < x) THEN 1 ELSE 0)
  PROVE  SyncInv'
<1>0. /\ hpc \in {"recv", "flag"} /\ \A k \in Loops : k # l => lpc[k] = "none"
  BY Alone
<1>1. /\ lpc'[l] = b /\ lidx'[l] = x
      /\ \A k \in Loops : k # l => lpc'[k] = "none" /\ lidx'[k] = lidx[k]
  BY <1>0 DEF PatientInv, TypeOK
<1>2. \A p \in Players : Told(p)' <=> b \in {"read", "write"} \/ (b = "clear" /\ p < x)
  BY <1>1 DEF Told
<1>3. Keeping' BY <1>2 DEF Keeping, Stage
<1>4. Counting' BY <1>0, <1>1 DEF SyncInv, Counting
<1> QED BY <1>0, <1>3, <1>4 DEF SyncInv, Resetting, Followed

LEMMA SyncBroadcast ==
  ASSUME PatientInv, Clearing, SyncInv, NEW l \in Loops, NEW a, NEW m, NEW b,
         \/ a = "clear" /\ m = "clear" /\ b = "read"
         \/ a \in {"win", "bosswin"} /\ m = "win" /\ b \in {"boss", "top"},
         Broadcast(l, a, m, b)
  PROVE  SyncInv'
<1> USE DEF session, handler, clients, Goto
<1>0. TypeOK /\ lpc[l] = a /\ a # "none" BY DEF PatientInv, Broadcast
<1>1. /\ hpc \in {"recv", "flag"} /\ Trailing(down[Host])
      /\ \A p \in Players :
           Told(p) <=> lpc[l] \in {"read", "write"} \/ (lpc[l] = "clear" /\ p < lidx[l])
      /\ map_type = 0 => \A p \in Players : IdxAhead(p) = Stage(p)
  BY <1>0, Alone
<1>2. UNCHANGED <<now_map, map_type, hpc, hidx, lreg, idx>> BY DEF Broadcast
<1>3. now_map \in Nat /\ lidx[l] \in 0 .. MAX_PLAYERS BY <1>0 DEF TypeOK
<1>4. CASE lidx[l] = MAX_PLAYERS
  <2>1. /\ lpc' = [lpc EXCEPT ![l] = b] /\ lidx' = [lidx EXCEPT ![l] = 0] /\ UNCHANGED down
    BY <1>4 DEF Broadcast
  <2>2. ASSUME map_type = 0, NEW p \in Players
        PROVE  IdxAhead(p)' =
                 now_map' + (IF b \in {"read", "write"} \/ (b = "clear" /\ p < 0) THEN 1 ELSE 0)
    <3>1. p < lidx[l] BY <1>4, HostIsPlayer DEF Players
    <3>2. Told(p) <=> a = "clear" BY <1>0, <1>1, <3>1
    <3>3. IdxAhead(p) = now_map + (IF a = "clear" THEN 1 ELSE 0)
      BY <1>1, <2>2, <3>2 DEF Stage
    <3>4. IdxAhead(p)' = IdxAhead(p) BY <1>2, <2>1 DEF IdxAhead
    <3>5. a = "clear" <=> b \in {"read", "write"} OBVIOUS
    <3>6. b # "clear" OBVIOUS
    <3> QED BY <1>2, <3>3, <3>4, <3>5, <3>6
  <2> QED BY <1>0, <1>1, <1>2, <2>1, <2>2, AloneStep
<1>5. CASE lidx[l] # MAX_PLAYERS
  <2>1. lidx[l] \in Players BY <1>3, <1>5, HostIsPlayer DEF Players
  <2>2. PICK h \in Players : h = lidx[l] BY <2>1
  <2>3. SendDown(h, m) /\ lidx' = [lidx EXCEPT ![l] = h + 1] /\ UNCHANGED lpc
    BY <1>5, <2>2 DEF Broadcast
  <2>4. m \in Downs /\ m # "rsp" BY DEF Downs
  <2>5. /\ IdxAhead(h)' = IdxAfter(IdxAhead(h), m)
        /\ \A q \in Players : q # h => IdxAhead(q)' = IdxAhead(q)
        /\ h = Host => down'[Host] = Append(down[Host], m)
        /\ h # Host => down'[Host] = down[Host]
    BY <1>0, <1>2, <2>3, <2>4, AheadSend
  <2>6. Trailing(down'[Host])
    <3>1. down[Host] \in Seq(Downs) BY <1>0, AheadKnown, HostIsPlayer
    <3> QED BY <1>1, <2>4, <2>5, <3>1, TrailingAppend
  <2>7. lpc' = [lpc EXCEPT ![l] = a] BY <1>0, <2>3 DEF TypeOK
  <2>8. ASSUME map_type = 0, NEW p \in Players
        PROVE  IdxAhead(p)' =
                 now_map' + (IF a \in {"read", "write"} \/ (a = "clear" /\ p < h + 1) THEN 1 ELSE 0)
    <3>1. IdxAhead(p) = now_map + (IF a = "clear" /\ p < h THEN 1 ELSE 0)
      <4>1. Told(p) <=> a = "clear" /\ p < h BY <1>0, <1>1, <2>2
      <4> QED BY <1>1, <2>8, <4>1 DEF Stage
    <3>2. p \in Nat /\ h \in Nat BY DEF Players
    <3>3. CASE p # h
      <4>1. p < h + 1 <=> p < h BY <3>2, <3>3
      <4>2. IdxAhead(p)' = IdxAhead(p) BY <2>5, <3>3
      <4>3. a \notin {"read", "write"} OBVIOUS
      <4> QED BY <1>2, <3>1, <4>1, <4>2, <4>3
    <3>4. CASE p = h
      <4>1. IdxAhead(p) = now_map BY <1>3, <3>1, <3>2, <3>4
      <4>2. IdxAhead(p)' = IdxAfter(now_map, m) BY <2>5, <3>4, <4>1
      <4>3. CASE a = "clear"
        <5>1. now_map < LastMap BY <1>0, <4>3 DEF Clearing
        <5>2. IdxAfter(now_map, m) = now_map + 1 BY <4>3, <5>1 DEF IdxAfter
        <5>3. p < h + 1 BY <3>2, <3>4
        <5> QED BY <1>2, <4>2, <4>3, <5>2, <5>3
      <4>4. CASE a # "clear"
        <5>1. m = "win" /\ a \notin {"read", "write"} BY <4>4
        <5>2. IdxAfter(now_map, m) = now_map BY <5>1 DEF IdxAfter
        <5>3. now_map = now_map + 0 BY <1>3
        <5> QED BY <1>2, <4>2, <4>4, <5>1, <5>2, <5>3
      <4> QED BY <4>3, <4>4
    <3> QED BY <3>3, <3>4
  <2> QED BY <1>0, <1>2, <2>3, <2>6, <2>7, <2>8, AloneStep
<1> QED BY <1>4, <1>5

\* The other steps of a thread.
LEMMA SyncLoop ==
  ASSUME PatientInv, Clearing, SyncInv, NEW l \in Loops, Loop(l) PROVE SyncInv'
<1> USE DEF session, handler, clients, Goto
<1>0. TypeOK BY DEF PatientInv
<1>q. ASSUME NEW b, b \notin {"read", "write"}, lpc[l] \in {"top", "collide", "boss"},
             lpc' = [lpc EXCEPT ![l] = b],
             UNCHANGED <<now_map, map_type, hpc, hidx, lidx, lreg, idx, down>>
      PROVE  SyncInv'
  <2>1. /\ Trailing(down[Host])
        /\ \A p \in Players :
             Told(p) <=> lpc[l] \in {"read", "write"} \/ (lpc[l] = "clear" /\ p < lidx[l])
        /\ map_type = 0 => \A p \in Players : IdxAhead(p) = Stage(p)
    BY <1>q, Alone
  <2>2. lidx[l] = 0 BY <1>q DEF SyncInv, Counting
  <2>3. lidx' = [lidx EXCEPT ![l] = 0] BY <1>0, <1>q, <2>2 DEF TypeOK
  <2>4. ASSUME map_type = 0, NEW p \in Players
        PROVE  IdxAhead(p)' =
                 now_map' + (IF b \in {"read", "write"} \/ (b = "clear" /\ p < 0) THEN 1 ELSE 0)
    <3>1. ~Told(p) BY <1>q, <2>1
    <3>2. IdxAhead(p)' = now_map + 0 BY <1>q, <2>1, <2>4, <3>1 DEF IdxAhead, Stage
    <3>3. ~(p < 0) BY DEF Players
    <3> QED BY <1>q, <3>2, <3>3
  <2>5. \A k \in Loops : k # l => lreg'[k] = lreg[k] BY <1>q
  <2>6. lpc[l] # "none" /\ Trailing(down'[Host]) BY <1>q, <2>1
  <2> QED BY <1>q, <2>3, <2>4, <2>5, <2>6, AloneStep
<1>1. CASE LoopTop(l)
  <2>1. PICK b \in {"collide", "none"} : lpc' = [lpc EXCEPT ![l] = b]
    BY <1>1 DEF LoopTop
  <2> QED BY <1>1, <2>1, <1>q DEF LoopTop
<1>2. CASE CollideWin(l) BY <1>2, <1>q DEF CollideWin
<1>3. CASE CollideClear(l) BY <1>3, <1>q DEF CollideClear
<1>4. CASE CollideNone(l) BY <1>4, <1>q DEF CollideNone
<1>5. CASE Broadcast(l, "clear", "clear", "read") BY <1>5, SyncBroadcast
<1>6. CASE ReadMap(l)
  <2>1. /\ lpc[l] = "read" /\ lpc' = [lpc EXCEPT ![l] = "write"]
        /\ lreg' = [lreg EXCEPT ![l] = now_map]
        /\ UNCHANGED <<now_map, map_type, hpc, hidx, lidx, idx, down>>
    BY <1>6 DEF ReadMap
  <2>2. /\ Trailing(down[Host])
        /\ \A p \in Players :
             Told(p) <=> lpc[l] \in {"read", "write"} \/ (lpc[l] = "clear" /\ p < lidx[l])
        /\ map_type = 0 => \A p \in Players : IdxAhead(p) = Stage(p)
    BY <2>1, Alone
  <2>3. lidx[l] = 0 BY <2>1 DEF SyncInv, Counting
  <2>4. lidx' = [lidx EXCEPT ![l] = 0] BY <1>0, <2>1, <2>3 DEF TypeOK
  <2>5. lreg'[l] = now_map /\ \A k \in Loops : k # l => lreg'[k] = lreg[k]
    BY <1>0, <2>1 DEF TypeOK
  <2>6. ASSUME map_type = 0, NEW p \in Players PROVE IdxAhead(p)' = now_map' + 1
    <3>1. Told(p) BY <2>1, <2>2
    <3> QED BY <2>1, <2>2, <2>6, <3>1 DEF IdxAhead, Stage
  <2> QED BY <2>1, <2>2, <2>4, <2>5, <2>6, AloneStep
<1>7. CASE WriteMap(l)
  <2>1. /\ lpc[l] = "write" /\ lpc' = [lpc EXCEPT ![l] = "boss"]
        /\ now_map' = lreg[l] + 1 /\ lreg' = [lreg EXCEPT ![l] = 0]
        /\ UNCHANGED <<map_type, hpc, hidx, lidx, idx, down>>
    BY <1>7 DEF WriteMap
  <2>2. /\ Trailing(down[Host])
        /\ \A p \in Players :
             Told(p) <=> lpc[l] \in {"read", "write"} \/ (lpc[l] = "clear" /\ p < lidx[l])
        /\ map_type = 0 => \A p \in Players : IdxAhead(p) = Stage(p)
    BY <2>1, Alone
  <2>3. lidx[l] = 0 /\ lreg[l] = now_map BY <2>1 DEF SyncInv, Counting
  <2>4. lidx' = [lidx EXCEPT ![l] = 0] BY <1>0, <2>1, <2>3 DEF TypeOK
  <2>5. \A k \in Loops : k # l => lreg'[k] = lreg[k] BY <1>0, <2>1 DEF TypeOK
  <2>6. ASSUME map_type = 0, NEW p \in Players PROVE IdxAhead(p)' = now_map' + 0
    <3>1. Told(p) BY <2>1, <2>2
    <3>2. IdxAhead(p)' = now_map + 1 BY <2>1, <2>2, <2>6, <3>1 DEF IdxAhead, Stage
    <3>3. now_map' = now_map + 1 /\ now_map \in Nat BY <1>0, <2>1, <2>3 DEF TypeOK
    <3> QED BY <3>2, <3>3
  <2> QED BY <2>1, <2>2, <2>4, <2>5, <2>6, AloneStep
<1>8. CASE Broadcast(l, "win", "win", "boss") BY <1>8, SyncBroadcast
<1>9. CASE BossFalls(l) BY <1>9, <1>q DEF BossFalls
<1>10. CASE Broadcast(l, "bosswin", "win", "top") BY <1>10, SyncBroadcast
<1>11. CASE FrameEnd(l) BY <1>11, <1>q DEF FrameEnd
<1> QED BY <1>1, <1>2, <1>3, <1>4, <1>5, <1>6, <1>7, <1>8, <1>9, <1>10, <1>11 DEF Loop

\* A packet that is handled was counted on already.
LEMMA SyncDeliver ==
  ASSUME PatientInv, SyncInv, NEW p \in Players, Deliver(p) PROVE SyncInv'
<1> USE DEF session, handler, loops
<1>0. TypeOK /\ Host \in Players BY HostIsPlayer DEF PatientInv
<1> DEFINE m == Head(down[p])
<1>1. /\ down[p] # <<>> /\ down[p] \in Seq(Downs) /\ idx[p] \in Maps
      /\ idx' = [idx EXCEPT ![p] = IdxAfter(idx[p], m)]
      /\ down' = [down EXCEPT ![p] = Tail(down[p])]
      /\ StartGame' = [StartGame EXCEPT ![p] =
                         StartGame[p] \/ m \in {"rsp", "maps", "edit"}]
      /\ UNCHANGED <<now_map, map_type, hpc, hidx, lpc, lidx, lreg, screen,
                     game_loop_running>>
  BY <1>0, AheadKnown DEF Deliver
<1>2. /\ idx'[p] = IdxAfter(idx[p], m) /\ down'[p] = Tail(down[p])
      /\ \A q \in Players : q # p => idx'[q] = idx[q] /\ down'[q] = down[q]
  BY <1>0, <1>1 DEF TypeOK
<1>3. IdxAhead(p)' = IdxAhead(p)
  <2>1. Ahead(idx[p], down[p]) = Ahead(IdxAfter(idx[p], m), Tail(down[p]))
    BY <1>1, AheadTail
  <2> HIDE DEF m
  <2> QED BY <1>2, <2>1 DEF IdxAhead
<1>4. \A q \in Players : IdxAhead(q)' = IdxAhead(q)
  <2> HIDE DEF m
  <2>1. \A q \in Players : q # p => IdxAhead(q)' = IdxAhead(q) BY <1>2 DEF IdxAhead
  <2> QED BY <1>3, <2>1
<1>5. \A q \in Players : Stage(q)' = Stage(q) BY <1>1 DEF Stage, Told
<1>6. Waits => Waits'
  <2> SUFFICES ASSUME Waits PROVE Waits' OBVIOUS
  <2>1. CASE p # Host
    <3>1. down'[Host] = down[Host] BY <1>0, <1>2, <2>1
    <3>2. StartGame'[Host] = StartGame[Host] BY <1>0, <1>1, <2>1 DEF TypeOK
    <3> QED BY <1>1, <3>1, <3>2 DEF Waits, Quiet
  <2>2. CASE p = Host
    <3>1. /\ Len(down[p]) = Len(Tail(down[p])) + 1 /\ Len(Tail(down[p])) \in Nat
          /\ m = down[p][1]
          /\ \A k \in 1 .. Len(Tail(down[p])) : Tail(down[p])[k] = down[p][k + 1]
      BY <1>1
    <3>2. \A k \in 1 .. Len(down[p]) : down[p][k] \notin Resets \cup {"rsp"}
      BY <2>2 DEF Waits
    <3>3. 1 \in 1 .. Len(down[p]) BY <3>1
    <3>4. m \notin {"rsp", "maps", "edit"} BY <3>1, <3>2, <3>3 DEF Resets
    <3>5. ~StartGame'[Host]
      <4> HIDE DEF m
      <4>1. ~StartGame[p] BY <2>2 DEF Waits
      <4>2. StartGame'[p] = (StartGame[p] \/ m \in {"rsp", "maps", "edit"})
        BY <1>0, <1>1 DEF TypeOK
      <4> QED BY <2>2, <3>4, <4>1, <4>2
    <3>6. \A k \in 1 .. Len(down'[Host]) : down'[Host][k] \notin Resets \cup {"rsp"}
      <4>1. \A k \in 1 .. Len(Tail(down[p])) : k + 1 \in 1 .. Len(down[p]) BY <3>1
      <4>2. \A k \in 1 .. Len(Tail(down[p])) : Tail(down[p])[k] \notin Resets \cup {"rsp"}
        BY <3>1, <3>2, <4>1
      <4> HIDE DEF m
      <4>3. down'[Host] = Tail(down[p]) BY <1>2, <2>2
      <4> QED BY <4>2, <4>3
    <3> QED BY <1>1, <3>5, <3>6 DEF Waits, Quiet
  <2> QED BY <2>1, <2>2
<1>7. Keeping' BY <1>1, <1>4, <1>5, <1>6 DEF SyncInv, Keeping
<1>8. Resetting' BY <1>1, <1>4 DEF SyncInv, Resetting
<1>9. Followed'
  <2>1. Trailing(down[Host]) => Trailing(down'[Host])
    BY <1>0, <1>1, <1>2, TrailingTail
  <2> QED BY <1>1, <2>1 DEF SyncInv, Followed
<1>10. Counting' BY <1>1 DEF SyncInv, Counting
<1> QED BY <1>7, <1>8, <1>9, <1>10 DEF SyncInv

LEMMA SyncClient ==
  ASSUME PatientInv, SyncInv, NEW p \in Players, Client(p) PROVE SyncInv'
<1> USE DEF session, handler, loops
<1>0. TypeOK /\ Host \in Players BY HostIsPlayer DEF PatientInv
<1>1. CASE StartTimer(p)
  <2>1. /\ UNCHANGED <<now_map, map_type, hpc, hidx, lpc, lidx, lreg, idx, down,
                       game_loop_running>>
        /\ StartGame[p] /\ StartGame' = [StartGame EXCEPT ![p] = FALSE]
        /\ screen' = [screen EXCEPT ![p] = "game"]
    BY <1>1 DEF StartTimer
  <2>2. Waits => p # Host BY <2>1 DEF Waits
  <2>3. p # Host => screen'[Host] = screen[Host] /\ StartGame'[Host] = StartGame[Host]
    <3>1. screen \in [Players -> {"title", "hidden", "game"}] BY <1>0 DEF TypeOK
    <3>2. StartGame \in [Players -> BOOLEAN] BY <1>0 DEF TypeOK
    <3>3. p # Host => screen'[Host] = screen[Host] BY <1>0, <2>1, <3>1
    <3>4. p # Host => StartGame'[Host] = StartGame[Host] BY <1>0, <2>1, <3>2, Zenon
    <3> QED BY <3>3, <3>4
  <2>4. Waits => Waits' BY <2>1, <2>2, <2>3 DEF Waits, Quiet
  <2> QED BY <2>1, <2>4, SyncStays DEF Stays
<1>2. CASE TimerProc(p) \/ Quit(p)
  <2>1. /\ UNCHANGED <<now_map, map_type, hpc, hidx, lpc, lidx, lreg, idx, down,
                       game_loop_running, StartGame>>
        /\ screen[p] = "game" /\ \E c : screen' = [screen EXCEPT ![p] = c]
    BY <1>2 DEF TimerProc, Quit
  <2>2. Waits => p # Host BY <2>1 DEF Waits
  <2>3. Waits => UNCHANGED screen[Host] BY <1>0, <2>1, <2>2 DEF TypeOK
  <2>4. Waits => Waits' BY <2>1, <2>3 DEF Waits, Quiet
  <2> QED BY <2>1, <2>4, SyncStays DEF Stays
<1> QED BY <1>1, <1>2, SyncDeliver DEF Client

\* The button puts the host's own index back before the server is asked.
LEMMA SyncPress ==
  ASSUME PatientInv, SyncInv, Over, Press PROVE SyncInv'
<1> USE DEF session, handler, loops
<1>0. TypeOK /\ Host \in Players BY HostIsPlayer DEF PatientInv
<1>1. CASE PressUpload
  <2>1. /\ UNCHANGED <<now_map, map_type, hpc, hidx, lpc, lidx, lreg, idx, down,
                       game_loop_running, StartGame, screen>>
    BY <1>1 DEF PressUpload
  <2>2. Waits => Waits' BY <2>1 DEF Waits, Quiet
  <2> QED BY <2>1, <2>2, SyncStays DEF Stays
<1>2. CASE PressStart
  <2>1. /\ UNCHANGED <<now_map, map_type, hpc, hidx, lpc, lidx, lreg, down,
                       game_loop_running>>
        /\ screen[Host] = "title" /\ screen'[Host] = "hidden" /\ ~StartGame'[Host]
        /\ idx' = [idx EXCEPT ![Host] = 0]
    BY <1>0, <1>2 DEF PressStart, TypeOK
  <2>2. hpc = "recv" /\ Quiet /\ ~Waits BY <2>1 DEF Over, Quiet, Waits
  <2>3. Trailing(down[Host]) BY <2>2 DEF SyncInv, Followed
  <2>4. \A q \in Players : q # Host => IdxAhead(q)' = IdxAhead(q)
    BY <1>0, <2>1 DEF IdxAhead, TypeOK
  <2>5. \A q \in Players : Stage(q)' = Stage(q) BY <2>1 DEF Stage, Told
  <2>6. IdxAhead(Host)' = IdxAhead(Host) \/ Waits'
    <3>1. CASE \E r \in 1 .. Len(down[Host]) : down[Host][r] \in Resets
      <4>1. idx[Host] \in Maps /\ idx'[Host] \in Maps /\ down[Host] \in Seq(Downs)
        BY <1>0, <2>1, SizeAssumption DEF TypeOK, Maps
      <4>2. Ahead(idx[Host], down[Host]) = Ahead(idx'[Host], down[Host])
        BY <3>1, <4>1, AheadReset
      <4> QED BY <2>1, <4>2 DEF IdxAhead
    <3>2. CASE ~\E r \in 1 .. Len(down[Host]) : down[Host][r] \in Resets
      <4>1. \A k \in 1 .. Len(down[Host]) : down[Host][k] \notin Resets \cup {"rsp"}
        BY <2>3, <3>2 DEF Trailing
      <4> QED BY <2>1, <2>2, <4>1 DEF Waits, Quiet
    <3> QED BY <3>1, <3>2
  <2>7. Keeping'
    <3> SUFFICES ASSUME map_type = 0, NEW q \in Players
                 PROVE  IdxAhead(q)' = Stage(q)' \/ (q = Host /\ Waits')
      BY <2>1 DEF Keeping
    <3>1. IdxAhead(q) = Stage(q) BY <2>2 DEF SyncInv, Keeping
    <3>2. CASE q = Host BY <2>5, <2>6, <3>1, <3>2
    <3>3. CASE q # Host BY <2>4, <2>5, <3>1, <3>3
    <3> QED BY <3>2, <3>3
  <2>8. Followed' BY <2>1, <2>3 DEF Followed
  <2>9. Resetting' BY <2>1, <2>2 DEF SyncInv, Resetting
  <2>10. Counting' BY <2>1 DEF SyncInv, Counting
  <2> QED BY <2>7, <2>8, <2>9, <2>10 DEF SyncInv
<1> QED BY <1>1, <1>2 DEF Press

LEMMA SyncStep ==
  PatientInv /\ Clearing /\ SyncInv /\ [PatientNext]_vars => SyncInv'
<1> SUFFICES ASSUME PatientInv, Clearing, SyncInv, [PatientNext]_vars PROVE SyncInv'
  OBVIOUS
<1>1. CASE UNCHANGED vars
  <2>1. Waits => Waits'
    BY <1>1 DEF vars, session, handler, loops, clients, Waits, Quiet
  <2> QED BY <1>1, <2>1, SyncStays DEF vars, session, handler, loops, clients, Stays
<1>2. CASE Requests \/ (\E p \in Players : Recv(p)) BY <1>2, SyncRequests
<1>3. CASE Handler BY <1>3, SyncHandler
<1>4. CASE \E l \in Loops : Loop(l) BY <1>4, SyncLoop
<1>5. CASE \E p \in Players : Client(p) BY <1>5, SyncClient
<1>6. CASE Over /\ Press BY <1>6, SyncPress
<1> QED BY <1>1, <1>2, <1>3, <1>4, <1>5, <1>6 DEF PatientNext, Serve

LEMMA InitSync == Init => SyncInv
<1> SUFFICES ASSUME Init PROVE SyncInv OBVIOUS
<1>1. /\ now_map = 0 /\ hpc = "recv" /\ lpc = [l \in Loops |-> "none"]
      /\ lidx = [l \in Loops |-> 0] /\ idx = [p \in Players |-> 0]
      /\ down = [p \in Players |-> <<>>]
  BY DEF Init
<1>2. 0 \in Maps BY SizeAssumption DEF Maps
<1>3. ASSUME NEW p \in Players PROVE IdxAhead(p) = Stage(p)
  <2>1. IdxAhead(p) = 0 BY <1>1, <1>2, AheadEmpty DEF IdxAhead
  <2>2. ~Told(p) BY <1>1 DEF Told
  <2>3. Stage(p) = 0 + 0 BY <1>1, <2>2 DEF Stage
  <2> QED BY <2>1, <2>3
<1>4. Trailing(down[Host]) BY <1>1, HostIsPlayer DEF Trailing
<1>5. Counting BY <1>1 DEF Counting
<1> QED BY <1>1, <1>3, <1>4, <1>5 DEF SyncInv, Keeping, Resetting, Followed

\* With a patient host every player in the game of a default session is on, or
\* will have switched to, the map on which the server tests collisions, for any
\* number of players, stages and packets under way.
THEOREM PatientStagesInSync == PatientSpec => []StageSync
<1>1. Init => PatientInv /\ Clearing /\ SyncInv
  <2> SUFFICES ASSUME Init PROVE PatientInv /\ Clearing BY InitSync
  <2>1. up[Host] = <<>> BY HostIsPlayer DEF Init
  <2>2. hpc = "recv" /\ \A l \in Loops : lpc[l] = "none" BY DEF Init
  <2>3. PatientInv BY <2>1, <2>2, InitType DEF PatientInv, OneRequest, OneGameLoop
  <2>4. Clearing BY <2>2, SizeAssumption DEF Init, Clearing, Maps
  <2> QED BY <2>3, <2>4
<1>2. PatientInv /\ Clearing /\ SyncInv /\ [PatientNext]_vars
        => PatientInv' /\ Clearing' /\ SyncInv'
  <2>1. [PatientNext]_vars => [Next]_vars BY DEF PatientNext, Next
  <2> QED BY <2>1, PatientStep, ClearingStep, SyncStep DEF PatientInv
<1>3. PatientInv /\ Clearing /\ SyncInv => StageSync
  <2> SUFFICES ASSUME PatientInv, SyncInv, Still, map_type = 0,
                      NEW p \in Players, screen[p] = "game"
               PROVE  IdxAhead(p) = now_map
    BY DEF StageSync
  <2>1. hpc = "recv" /\ ~Told(p) BY DEF Still, Told
  <2>2. Waits => p # Host BY DEF Waits
  <2>3. IdxAhead(p) = now_map + 0 BY <2>1, <2>2 DEF SyncInv, Keeping, Stage
  <2>4. now_map \in Nat BY DEF PatientInv, TypeOK
  <2> QED BY <2>3, <2>4
<1> QED BY <1>1, <1>2, <1>3, PTL DEF PatientSpec
==============================================================================
