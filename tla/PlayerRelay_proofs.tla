--------------------------- MODULE PlayerRelay_proofs ---------------------------
(***************************************************************************)
(* Theorems about PlayerRelay, for any number of players and places: the   *)
(* types, the loop indices among them, and the byte order of whatever is   *)
(* under way.                                                              *)
(***************************************************************************)
EXTENDS PlayerRelay, Packets_proofs

\* Packets that are read as they were written.
UpWritten == {p \in UpPacket : ReadsAsWritten(p)}
DownWritten == {p \in DownPacket : ReadsAsWritten(p)}

\* The frame in the making is not encoded: only the copies are.
Frame == [type : {"SC_GAME_STATE"}, body : [Clients -> Place], net : {{}}]

ServerType ==
  /\ x \in [Clients -> Xs] /\ y \in [Clients -> Ys]
  /\ hpc \in [Clients -> {"recv", "x", "y"}] /\ hreg \in [Clients -> Place]
LoopType == lpc \in {"collide", "fill", "send"} /\ lidx \in Clients /\ pkt \in Frame
ClientType ==
  /\ player \in [Clients -> Place] /\ players \in [Clients -> [Clients -> Place]]
  /\ Die \in [Clients -> BOOLEAN]
WireType ==
  up \in [Clients -> Seq(UpWritten)] /\ down \in [Clients -> Seq(DownWritten)]

RelayInv == ServerType /\ LoopType /\ ClientType /\ WireType

--------------------------------------------------------------------------------
LEMMA ClientsAre == Clients = 0 .. MAX_PLAYERS - 1 /\ 0 \in Clients /\ MAX_PLAYERS \in Nat
BY PlayersAssumption DEF Clients

LEMMA StartIsPlace == Start \in Place /\ AtStart \in [Clients -> Place]
BY PlacesAssumption DEF Place, AtStart

\* A report or a kill, encoded once, is read as it was written.
LEMMA ReportWritten ==
  ASSUME NEW pos \in Place
  PROVE  Encode(Filled("CS_PLAYER_UPDATE", pos)) \in UpWritten
<1>1. "CS_PLAYER_UPDATE" \in PacketTypes BY DEF PacketTypes, Converted
<1> DEFINE p == Encode(Filled("CS_PLAYER_UPDATE", pos))
<1>2. p = [type |-> "CS_PLAYER_UPDATE", body |-> pos, net |-> Converted["CS_PLAYER_UPDATE"]]
  BY <1>1, EncodedForm
<1>3. ReadsAsWritten(p) BY <1>1, EncodedOnce
<1>4. Converted["CS_PLAYER_UPDATE"] \in SUBSET Fields BY <1>1 DEF Fields
<1>5. p \in UpPacket BY <1>2, <1>4 DEF UpPacket
<1> QED BY <1>3, <1>5 DEF UpWritten

LEMMA SentWritten ==
  ASSUME NEW t \in {"SC_GAME_STATE", "SC_EVENT"}, NEW body \in [Clients -> Place]
  PROVE  Encode(Filled(t, body)) \in DownWritten
<1>1. t \in PacketTypes BY DEF PacketTypes, Converted
<1> DEFINE p == Encode(Filled(t, body))
<1>2. p = [type |-> t, body |-> body, net |-> Converted[t]] BY <1>1, EncodedForm
<1>3. ReadsAsWritten(p) BY <1>1, EncodedOnce
<1>4. Converted[t] \in SUBSET Fields BY <1>1 DEF Fields
<1>5. p \in DownPacket BY <1>2, <1>4 DEF DownPacket
<1> QED BY <1>3, <1>5 DEF DownWritten

LEMMA FrameWritten ==
  ASSUME NEW p \in Frame
  PROVE  Encode(p) \in DownWritten
<1>1. p = Filled("SC_GAME_STATE", p.body) BY DEF Frame, Filled
<1>2. p.body \in [Clients -> Place] BY DEF Frame
<1>3. Encode(Filled("SC_GAME_STATE", p.body)) \in DownWritten BY <1>2, SentWritten
<1> QED BY <1>1, <1>3

\* What arrives decodes to what was filled in.
LEMMA ReportDecoded ==
  ASSUME NEW s \in Seq(UpWritten), s # <<>>
  PROVE  Decode(Head(s)).body \in Place /\ Tail(s) \in Seq(UpWritten)
<1>1. Head(s) \in UpWritten /\ Tail(s) \in Seq(UpWritten) OBVIOUS
<1>2. Head(s) \in UpPacket BY <1>1 DEF UpWritten
<1>3. Decode(Head(s)).body = Head(s).body BY <1>2 DEF UpPacket, Decode
<1>4. Head(s).body \in Place BY <1>2 DEF UpPacket
<1> QED BY <1>1, <1>3, <1>4

LEMMA FrameDecoded ==
  ASSUME NEW s \in Seq(DownWritten), s # <<>>
  PROVE  Decode(Head(s)).body \in [Clients -> Place] /\ Tail(s) \in Seq(DownWritten)
<1>1. Head(s) \in DownWritten /\ Tail(s) \in Seq(DownWritten) OBVIOUS
<1>2. Head(s) \in DownPacket BY <1>1 DEF DownWritten
<1>3. Decode(Head(s)).body = Head(s).body BY <1>2 DEF DownPacket, Decode
<1>4. Head(s).body \in [Clients -> Place] BY <1>2 DEF DownPacket
<1> QED BY <1>1, <1>3, <1>4

\* The loops over the players stay among them.
LEMMA NextPlayerType ==
  ASSUME lidx \in Clients, NEW here \in {"collide", "fill", "send"},
         NEW there \in {"collide", "fill", "send"}, NextPlayer(here, there)
  PROVE  lpc' \in {"collide", "fill", "send"} /\ lidx' \in Clients
BY ClientsAre DEF NextPlayer

--------------------------------------------------------------------------------
LEMMA InitRelayInv == Init => RelayInv
<1> SUFFICES ASSUME Init PROVE RelayInv OBVIOUS
<1>1. Start[1] \in Xs /\ Start[2] \in Ys BY PlacesAssumption
<1>2. ServerType BY <1>1, StartIsPlace DEF Init, ServerType
<1>3. LoopType BY ClientsAre, StartIsPlace DEF Init, LoopType, Frame, Filled
<1>4. ClientType BY StartIsPlace DEF Init, ClientType
<1>5. WireType BY DEF Init, WireType
<1> QED BY <1>2, <1>3, <1>4, <1>5 DEF RelayInv

LEMMA StepTimer ==
  ASSUME RelayInv, NEW i \in Clients, TimerProc(i)
  PROVE  RelayInv'
<1> USE DEF RelayInv, ServerType, LoopType, ClientType, WireType
<1>1. PICK pos \in {IF Die[i] THEN Start ELSE player[i]}
                     \cup (IF i \in Movers THEN Places ELSE {}) :
        /\ player' = [player EXCEPT ![i] = pos]
        /\ \/ Len(up[i]) < UpBound /\ up' = [up EXCEPT ![i] = @ \o Reported(i, pos)]
           \/ up[i] # <<>> /\ UNCHANGED up
  BY DEF TimerProc
<1>2. pos \in Place
  BY StartIsPlace, PlacesAssumption DEF Place
<1>3. player' \in [Clients -> Place] BY <1>1, <1>2
<1>4. up' \in [Clients -> Seq(UpWritten)]
  <2>1. CASE UNCHANGED up BY <2>1
  <2>2. CASE up' = [up EXCEPT ![i] = @ \o Reported(i, pos)]
    <3>1. Reported(i, pos) \in Seq(UpWritten) BY <1>2, ReportWritten DEF Reported
    <3>2. up[i] \in Seq(UpWritten) OBVIOUS
    <3>3. up[i] \o Reported(i, pos) \in Seq(UpWritten) BY <3>1, <3>2
    <3> QED BY <2>2, <3>3
  <2> QED BY <1>1, <2>1, <2>2
<1>5. Die' \in [Clients -> BOOLEAN] BY DEF TimerProc
<1> QED BY <1>3, <1>4, <1>5 DEF TimerProc, server, handler, loop

LEMMA StepRecv ==
  ASSUME RelayInv, NEW i \in Clients, RecvThread(i)
  PROVE  RelayInv'
<1> USE DEF RelayInv, ServerType, LoopType, ClientType, WireType
<1>1. down[i] \in Seq(DownWritten) /\ down[i] # <<>>
  BY DEF RecvThread, HandleGameState, HandleEvent
<1>2. down' = [down EXCEPT ![i] = Tail(@)]
  BY DEF RecvThread, HandleGameState, HandleEvent
<1>3. down' \in [Clients -> Seq(DownWritten)] BY <1>1, <1>2, FrameDecoded
<1>4. CASE HandleGameState(i)
  <2>1. Decode(Head(down[i])).body \in [Clients -> Place] BY <1>1, FrameDecoded
  <2>2. Taken(i, players[i], Decode(Head(down[i])).body) \in [Clients -> Place]
    BY <2>1 DEF Taken
  <2>3. players' \in [Clients -> [Clients -> Place]] BY <1>4, <2>2 DEF HandleGameState
  <2> QED BY <1>3, <1>4, <2>3 DEF HandleGameState, server, handler, loop
<1>5. CASE HandleEvent(i)
  BY <1>3, <1>5 DEF HandleEvent, server, handler, loop
<1> QED BY <1>4, <1>5 DEF RecvThread

LEMMA StepHandler ==
  ASSUME RelayInv, NEW i \in Clients, Handler(i)
  PROVE  RelayInv'
<1> USE DEF RelayInv, ServerType, LoopType, ClientType, WireType
<1>1. CASE HandlePlayerUpdate(i)
  <2> DEFINE pos == Decode(Head(up[i])).body
  <2>1. up[i] \in Seq(UpWritten) /\ up[i] # <<>> BY <1>1 DEF HandlePlayerUpdate
  <2>2. pos \in Place /\ Tail(up[i]) \in Seq(UpWritten) BY <2>1, ReportDecoded
  <2>3. pos[1] \in Xs /\ pos[2] \in Ys BY <2>2 DEF Place
  <2>4. up' \in [Clients -> Seq(UpWritten)] BY <1>1, <2>2 DEF HandlePlayerUpdate
  <2>5. hreg' \in [Clients -> Place] BY <1>1, <2>2 DEF HandlePlayerUpdate
  <2> HIDE DEF pos
  <2>6. /\ hpc' \in [Clients -> {"recv", "x", "y"}]
        /\ x' \in [Clients -> Xs] /\ y' \in [Clients -> Ys]
    BY <1>1, <2>3 DEF HandlePlayerUpdate, pos
  <2> QED BY <1>1, <2>4, <2>5, <2>6 DEF HandlePlayerUpdate, loop
<1>2. CASE StoreRest(i)
  <2>1. hreg[i][1] \in Xs /\ hreg[i][2] \in Ys BY DEF Place
  <2>2. x' \in [Clients -> Xs] /\ y' \in [Clients -> Ys] BY <1>2, <2>1 DEF StoreRest
  <2>3. hreg' \in [Clients -> Place] BY <1>2, StartIsPlace DEF StoreRest
  <2>4. hpc' \in [Clients -> {"recv", "x", "y"}] BY <1>2 DEF StoreRest
  <2> QED BY <1>2, <2>2, <2>3, <2>4 DEF StoreRest, loop
<1> QED BY <1>1, <1>2 DEF Handler

LEMMA StepLoop ==
  ASSUME RelayInv, Loop
  PROVE  RelayInv'
<1> USE DEF RelayInv, ServerType, LoopType, ClientType, WireType
<1>0. down[lidx] \in Seq(DownWritten) OBVIOUS
<1>1. CASE CheckAllCollisions
  <2>1. lpc' \in {"collide", "fill", "send"} /\ lidx' \in Clients
    BY <1>1, NextPlayerType DEF CheckAllCollisions
  <2>2. Encode(Filled("SC_EVENT", AtStart)) \in DownWritten BY SentWritten, StartIsPlace
  <2>3. down' \in [Clients -> Seq(DownWritten)]
    <3>1. CASE UNCHANGED down BY <3>1
    <3>2. CASE down' = [down EXCEPT ![lidx] = Append(@, Encode(Filled("SC_EVENT", AtStart)))]
      <4>1. Append(down[lidx], Encode(Filled("SC_EVENT", AtStart))) \in Seq(DownWritten)
        BY <1>0, <2>2
      <4> QED BY <3>2, <4>1
    <3> QED BY <1>1, <3>1, <3>2 DEF CheckAllCollisions
  <2> QED BY <1>1, <2>1, <2>3 DEF CheckAllCollisions, server, handler
<1>2. CASE BroadcastGameState
  <2>1. lpc' \in {"collide", "fill", "send"} /\ lidx' \in Clients
    BY <1>2, NextPlayerType DEF BroadcastGameState
  <2>2. <<x[lidx], y[lidx]>> \in Place BY DEF Place
  <2>3. [pkt.body EXCEPT ![lidx] = <<x[lidx], y[lidx]>>] \in [Clients -> Place]
    BY <2>2 DEF Frame
  <2>4. pkt' = [pkt EXCEPT !.body = [pkt.body EXCEPT ![lidx] = <<x[lidx], y[lidx]>>]]
    BY <1>2 DEF BroadcastGameState, Frame
  <2>5. pkt' \in Frame BY <2>3, <2>4 DEF Frame
  <2> QED BY <1>2, <2>1, <2>5 DEF BroadcastGameState, server, handler
<1>3. CASE SendFrame
  <2>1. lpc' \in {"collide", "fill", "send"} /\ lidx' \in Clients
    BY <1>3, NextPlayerType DEF SendFrame
  <2>2. Encode(pkt) \in DownWritten BY FrameWritten
  <2>3. Append(down[lidx], Encode(pkt)) \in Seq(DownWritten) BY <1>0, <2>2
  <2>4. down' \in [Clients -> Seq(DownWritten)] BY <1>3, <2>3 DEF SendFrame
  <2>5. Filled("SC_GAME_STATE", AtStart) \in Frame BY StartIsPlace DEF Filled, Frame
  <2>6. pkt' \in Frame BY <1>3, <2>5 DEF SendFrame, AfterSend
  <2> QED BY <1>3, <2>1, <2>4, <2>6 DEF SendFrame, server, handler
<1> QED BY <1>1, <1>2, <1>3 DEF Loop

--------------------------------------------------------------------------------
\* Whatever is stored, filled in or on its way is well formed, at any time.
THEOREM RelaySafe == Spec => []RelayInv
<1>1. RelayInv /\ [Next]_vars => RelayInv'
  <2> SUFFICES ASSUME RelayInv, [Next]_vars PROVE RelayInv' OBVIOUS
  <2>1. CASE Loop BY <2>1, StepLoop
  <2>2. ASSUME NEW i \in Clients, TimerProc(i) PROVE RelayInv' BY <2>2, StepTimer
  <2>3. ASSUME NEW i \in Clients, RecvThread(i) PROVE RelayInv' BY <2>3, StepRecv
  <2>4. ASSUME NEW i \in Clients, Handler(i) PROVE RelayInv' BY <2>4, StepHandler
  <2>5. CASE UNCHANGED vars
    BY <2>5 DEF vars, server, handler, loop, RelayInv, ServerType, LoopType, ClientType, WireType
  <2> QED BY <2>1, <2>2, <2>3, <2>4, <2>5 DEF Next
<1> QED BY InitRelayInv, <1>1, PTL DEF Spec

\* The type invariant; the loops of the game loop never leave the players.
THEOREM RelayTypeCorrect == Spec => []TypeOK
<1>1. RelayInv => TypeOK
  <2> SUFFICES ASSUME RelayInv PROVE TypeOK OBVIOUS
  <2>1. ASSUME NEW i \in Clients
        PROVE  up[i] \in Seq(UpPacket) /\ down[i] \in Seq(DownPacket)
    <3>1. up[i] \in Seq(UpWritten) /\ down[i] \in Seq(DownWritten)
      BY DEF RelayInv, WireType
    <3>2. UpWritten \subseteq UpPacket /\ DownWritten \subseteq DownPacket
      BY DEF UpWritten, DownWritten
    <3> QED BY <3>1, <3>2
  <2>2. up \in [Clients -> Seq(UpPacket)] /\ down \in [Clients -> Seq(DownPacket)]
    BY <2>1 DEF RelayInv, WireType
  <2>3. pkt \in DownPacket BY DEF RelayInv, LoopType, Frame, DownPacket
  <2> QED BY <2>2, <2>3 DEF TypeOK, RelayInv, ServerType, LoopType, ClientType
<1> QED BY RelaySafe, <1>1, PTL

\* Reports, kills and frames are encoded once each, the frame although one
\* packet serves for all players.
THEOREM RelayOnTheWire == Spec => []OnTheWire
<1>1. RelayInv => OnTheWire
  <2> SUFFICES ASSUME RelayInv PROVE OnTheWire OBVIOUS
  <2>1. ASSUME NEW i \in Clients, NEW k \in 1 .. Len(up[i]) PROVE ReadsAsWritten(up[i][k])
    <3>1. up[i] \in Seq(UpWritten) BY DEF RelayInv, WireType
    <3>2. up[i][k] \in UpWritten BY <3>1, <2>1
    <3> QED BY <3>2 DEF UpWritten
  <2>2. ASSUME NEW i \in Clients, NEW k \in 1 .. Len(down[i]) PROVE ReadsAsWritten(down[i][k])
    <3>1. down[i] \in Seq(DownWritten) BY DEF RelayInv, WireType
    <3>2. down[i][k] \in DownWritten BY <3>1, <2>2
    <3> QED BY <3>2 DEF DownWritten
  <2>3. pkt.net = {} BY DEF RelayInv, LoopType, Frame
  <2> QED BY <2>1, <2>2, <2>3 DEF OnTheWire
<1> QED BY RelaySafe, <1>1, PTL

================================================================================
