------------------------------- MODULE PlayerRelay -------------------------------
(***************************************************************************)
(* How the players of a running game get to see each other.  TimerProc     *)
(* reports a client's own player at every tick; the recv thread the server *)
(* has for the client stores the report field by field; the game loop      *)
(* reads the fields, tests the rectangles against an enemy, and broadcasts *)
(* a frame, which everybody takes over except for oneself.  Whoever ran    *)
(* into the enemy is told to start over.                                   *)
(*                                                                         *)
(* Nothing of this is locked: a frame may be put together from the fields  *)
(* of different reports, and the test sees one half of an old rectangle    *)
(* and one of a new.  The place of a player is a pair, stored one half     *)
(* after the other, in whichever order the build has them; its rectangle   *)
(* is made of the same halves, and touches the enemy at the places in      *)
(* Danger.  The loop looks at one player in one step.  Lives, spikes,      *)
(* flags and the end of the game are ServerSession's, maps MapRelay's.     *)
(***************************************************************************)
EXTENDS Packets, Sequences

CONSTANTS
  MAX_PLAYERS,  \* number of clients, all of them in the game
  Xs, Ys,       \* the coordinates
  Start,        \* P_Start_Loc[0]
  Places,       \* bound: where the users take their players
  Movers,       \* bound: the players who move
  Danger,       \* the places at the enemy
  UpBound,      \* reports under way from a client before send blocks
  DownBound     \* packets under way to a client before send blocks

ASSUME PlayersAssumption == MAX_PLAYERS \in Nat \ {0}
ASSUME PlacesAssumption == Start \in Xs \X Ys /\ Places \subseteq Xs \X Ys
ASSUME RelayBounds ==
  UpBound \in Nat \ {0} /\ DownBound \in Nat \ {0}

Clients == 0 .. MAX_PLAYERS - 1
Place == Xs \X Ys

VARIABLES
  x, y,                 \* server_players: x, y and player_rt with them
  hpc, hreg,            \* recv thread of client i: its place, the report it holds
  lpc, lidx, pkt,       \* game loop: its place, loop index, packet
  player,               \* each client: the GUI's own player
  players, Die,         \* each client: players[] and the flag
  up, down              \* the packets under way

server == <<x, y>>
handler == <<hpc, hreg>>
loop == <<lpc, lidx, pkt>>
vars == <<server, handler, loop, player, players, Die, up, down>>

AtStart == [i \in Clients |-> Start]

\* The map has been opened by everybody and the players are at its start.
Init ==
  /\ x = [i \in Clients |-> Start[1]] /\ y = [i \in Clients |-> Start[2]]
  /\ hpc = [i \in Clients |-> "recv"]
  /\ hreg = AtStart
  /\ lpc = "collide" /\ lidx = 0
  /\ pkt = Filled("SC_GAME_STATE", AtStart)
  /\ player = AtStart
  /\ players = [i \in Clients |-> AtStart]
  /\ Die = [i \in Clients |-> FALSE]
  /\ up = [i \in Clients |-> <<>>] /\ down = [i \in Clients |-> <<>>]

--------------------------------------------------------------------------------
\* What the tick reports: the player, moved or not.
ReportedIfMoved(i, pos) ==
  IF pos = player[i] THEN <<>> ELSE <<Encode(Filled("CS_PLAYER_UPDATE", pos))>>
Reported(i, pos) == <<Encode(Filled("CS_PLAYER_UPDATE", pos))>>

\* TimerProc: who was killed is back at the start, but may move on in the same
\* tick.  A report sent while another is unread may be read together with it;
\* the server looks at the first packet of a read, and the report is lost.
TimerProc(i) ==
  /\ \E pos \in {IF Die[i] THEN Start ELSE player[i]}
                 \cup (IF i \in Movers THEN Places ELSE {}) :
       /\ player' = [player EXCEPT ![i] = pos]
       /\ \/ Len(up[i]) < UpBound /\ up' = [up EXCEPT ![i] = @ \o Reported(i, pos)]
          \/ up[i] # <<>> /\ UNCHANGED up
  /\ Die' = [Die EXCEPT ![i] = FALSE]
  /\ UNCHANGED <<server, handler, loop, players, down>>

\* HandleGameState takes over everybody but oneself.
Taken(i, old, new) == [j \in Clients |-> IF j = i THEN old[j] ELSE new[j]]

HandleGameState(i) ==
  /\ down[i] # <<>> /\ Head(down[i]).type = "SC_GAME_STATE"
  /\ down' = [down EXCEPT ![i] = Tail(@)]
  /\ players' = [players EXCEPT ![i] = Taken(i, @, Decode(Head(down[i])).body)]
  /\ UNCHANGED <<server, handler, loop, player, Die, up>>

\* HandleEvent, for DIE.
HandleEvent(i) ==
  /\ down[i] # <<>> /\ Head(down[i]).type = "SC_EVENT"
  /\ down' = [down EXCEPT ![i] = Tail(@)]
  /\ Die' = [Die EXCEPT ![i] = TRUE]
  /\ UNCHANGED <<server, handler, loop, player, players, up>>

--------------------------------------------------------------------------------
\* HandlePlayerUpdate stores the report, one half ...
HandlePlayerUpdate(i) ==
  /\ hpc[i] = "recv" /\ up[i] # <<>>
  /\ up' = [up EXCEPT ![i] = Tail(@)]
  /\ LET pos == Decode(Head(up[i])).body IN
       /\ hreg' = [hreg EXCEPT ![i] = pos]
       /\ \/ hpc' = [hpc EXCEPT ![i] = "y"] /\ x' = [x EXCEPT ![i] = pos[1]] /\ UNCHANGED y
          \/ hpc' = [hpc EXCEPT ![i] = "x"] /\ y' = [y EXCEPT ![i] = pos[2]] /\ UNCHANGED x
  /\ UNCHANGED <<loop, player, players, Die, down>>

\* ... and then the other.
StoreRest(i) ==
  /\ hpc[i] # "recv" /\ hpc' = [hpc EXCEPT ![i] = "recv"]
  /\ x' = [x EXCEPT ![i] = hreg[i][1]] /\ y' = [y EXCEPT ![i] = hreg[i][2]]
  /\ hreg' = [hreg EXCEPT ![i] = Start]
  /\ UNCHANGED <<loop, player, players, Die, up, down>>

--------------------------------------------------------------------------------
\* The game loop.

\* On to the next player, or to another place behind the last.
NextPlayerLate(here, there) ==
  IF lidx = MAX_PLAYERS THEN lpc' = there /\ lidx' = 0
  ELSE lpc' = here /\ lidx' = lidx + 1
NextPlayer(here, there) ==
  IF lidx + 1 = MAX_PLAYERS THEN lpc' = there /\ lidx' = 0
  ELSE lpc' = here /\ lidx' = lidx + 1

\* CheckAllCollisions tells whoever touches the enemy.
Touches(i) == <<x[i], y[i]>> \in Danger

CheckAllCollisions ==
  /\ lpc = "collide"
  /\ IF Touches(lidx)
       THEN /\ Len(down[lidx]) < DownBound
            /\ down' = [down EXCEPT ![lidx] =
                          Append(@, Encode(Filled("SC_EVENT", AtStart)))]
       ELSE UNCHANGED down
  /\ NextPlayer("collide", "fill")
  /\ UNCHANGED <<server, handler, pkt, player, players, Die, up>>

\* BroadcastGameState fills in one player after the other ...
BroadcastGameState ==
  /\ lpc = "fill"
  /\ pkt' = [pkt EXCEPT !.body[lidx] = <<x[lidx], y[lidx]>>]
  /\ NextPlayer("fill", "send")
  /\ UNCHANGED <<server, handler, player, players, Die, up, down>>

\* ... and sends an encoded copy of its packet to each client.
EncodedInPlace(p) == Encode(p)
AfterSend(p) == p

SendFrame ==
  /\ lpc = "send" /\ Len(down[lidx]) < DownBound
  /\ down' = [down EXCEPT ![lidx] = Append(@, Encode(pkt))]
  /\ pkt' = IF lidx + 1 = MAX_PLAYERS THEN Filled("SC_GAME_STATE", AtStart)
            ELSE AfterSend(pkt)
  /\ NextPlayer("send", "collide")
  /\ UNCHANGED <<server, handler, player, players, Die, up>>

--------------------------------------------------------------------------------
Loop == CheckAllCollisions \/ BroadcastGameState \/ SendFrame
RecvThread(i) == HandleGameState(i) \/ HandleEvent(i)
Handler(i) == HandlePlayerUpdate(i) \/ StoreRest(i)

Next == Loop \/ \E i \in Clients : TimerProc(i) \/ RecvThread(i) \/ Handler(i)

\* Every thread and every timer goes on while it can; nobody need move.
Fairness ==
  /\ WF_vars(Loop)
  /\ \A i \in Clients : WF_vars(TimerProc(i)) /\ WF_vars(RecvThread(i)) /\ WF_vars(Handler(i))

Spec == Init /\ [][Next]_vars
FairSpec == Spec /\ Fairness

--------------------------------------------------------------------------------
Fields == UNION {Converted[t] : t \in PacketTypes}
UpPacket == [type : {"CS_PLAYER_UPDATE"}, body : Place, net : SUBSET Fields]
DownPacket ==
  [type : {"SC_GAME_STATE", "SC_EVENT"}, body : [Clients -> Place], net : SUBSET Fields]

\* The types of the variables; half a place is still a place.
TypeOK ==
  /\ x \in [Clients -> Xs] /\ y \in [Clients -> Ys]
  /\ hpc \in [Clients -> {"recv", "x", "y"}] /\ hreg \in [Clients -> Place]
  /\ lpc \in {"collide", "fill", "send"} /\ lidx \in Clients
  /\ pkt \in DownPacket
  /\ player \in [Clients -> Place] /\ players \in [Clients -> [Clients -> Place]]
  /\ Die \in [Clients -> BOOLEAN]
  /\ up \in [Clients -> Seq(UpPacket)] /\ down \in [Clients -> Seq(DownPacket)]

\* Whatever is under way has every wide field in network order and is read as
\* it was written; the frame in the making has none.
OnTheWire ==
  /\ \A i \in Clients :
       /\ \A k \in 1 .. Len(up[i]) : ReadsAsWritten(up[i][k])
       /\ \A k \in 1 .. Len(down[i]) : ReadsAsWritten(down[i][k])
  /\ pkt.net = {}

\* A player who stands still is in the end shown by everybody where it is,
\* though reports are lost in reads, frames are put together from two reports
\* and a late DIE may still take the player away.
StandsStill ==
  \A i, j \in Clients : \A p \in Places : i # j =>
    (<>[](player[j] = p) => <>[](players[i][j] = p))
================================================================================
