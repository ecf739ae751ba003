------------------------------ MODULE ServerConn ------------------------------
(***************************************************************************)
(* The connection layer of ServerSystem: the accept thread (ServerMain's   *)
(* AcceptThread calling AcceptClient), one detached recv thread per        *)
(* connection (StartRecvThread, DoRecv, HandleDisconnect), the part of the *)
(* game loop that tells clients who is connected (BroadcastGameState), and *)
(* the clients' roster (HandleAssignID, HandlePlayerJoin, HandleDisconnect *)
(* and HandleGameState of ClientSystem).                                   *)
(*                                                                         *)
(* m_cs is held only around the two assignments of Publish and around the  *)
(* body of ReleaseSlot; every other read of m_clients and player_connected *)
(* is unlocked, so the rest of each function is cut at every access.  The  *)
(* two critical sections are one step each: no unlocked reader can tell    *)
(* their inner states apart.  A test of m_clients[i] and the send to it    *)
(* that follows are one step as well, the one in which send reads the      *)
(* slot: a slot emptied in between makes send fail, as if it had been      *)
(* skipped.  Socket values are never reused.                               *)
(***************************************************************************)
EXTENDS Integers, Sequences, FiniteSets

CONSTANTS Conns,         \* the client processes; each connects at most once
          MAX_PLAYERS,   \* the number of slots
          NoSock,        \* INVALID_SOCKET
          ChanBound      \* packets a connection holds before send blocks

ASSUME PlayersAssumption == MAX_PLAYERS \in Nat \ {0}
ASSUME SockAssumption == NoSock \notin Conns
ASSUME ChanAssumption == ChanBound \in Nat \ {0}

Slots == 0 .. MAX_PLAYERS - 1
NoId == -1
Notices == [type : {"assign", "join", "disc"}, id : Slots]
States == [type : {"state"}, on : [Slots -> BOOLEAN]]
Packets == Notices \cup States
Notice(t, i) == [type |-> t, id |-> i]

VARIABLES
  m_clients,          \* the socket in each slot
  player_connected,   \* the flag AcceptClient consults
  apc, aslot, aconn, aidx,   \* accept thread: place, slot, socket, loop index
  rpc, rslot, ridx,   \* per connection, its recv thread
  running, gpc, gidx, gsnap, \* game loop: flag, place, index, snapshot
  cst, backlog,       \* client processes; connected and not yet accepted
  my_id, roster,      \* ClientSystem: my_player_id, players[].is_connected
  chan                \* the packets under way to each client

accept == <<apc, aslot, aconn, aidx>>
recvs == <<rpc, rslot, ridx>>
loop == <<running, gpc, gidx, gsnap>>
clients == <<cst, backlog, my_id, roster>>
vars == <<m_clients, player_connected, accept, recvs, loop, clients, chan>>

TypeOK ==
  /\ m_clients \in [Slots -> Conns \cup {NoSock}]
  /\ player_connected \in [Slots -> BOOLEAN]
  /\ apc \in {"scan", "accept", "publish", "assign", "existing", "tell", "join"}
  /\ aslot \in Slots /\ aconn \in Conns \cup {NoSock} /\ aidx \in 0 .. MAX_PLAYERS
  /\ rpc \in [Conns -> {"none", "recv", "release", "flag", "notify", "ended"}]
  /\ rslot \in [Conns -> Slots] /\ ridx \in [Conns -> 0 .. MAX_PLAYERS]
  /\ running \in BOOLEAN /\ gpc \in {"idle", "snap", "send"}
  /\ gidx \in 0 .. MAX_PLAYERS /\ gsnap \in [Slots -> BOOLEAN]
  /\ cst \in [Conns -> {"new", "open", "closed"}] /\ backlog \in SUBSET Conns
  /\ my_id \in [Conns -> Slots \cup {NoId}]
  /\ roster \in [Conns -> [Slots -> BOOLEAN]]
  /\ chan \in [Conns -> Seq(Packets)]

Init ==
  /\ m_clients = [s \in Slots |-> NoSock]
  /\ player_connected = [s \in Slots |-> FALSE]
  /\ apc = "scan" /\ aslot = 0 /\ aconn = NoSock /\ aidx = 0
  /\ rpc = [c \in Conns |-> "none"]
  /\ rslot = [c \in Conns |-> 0] /\ ridx = [c \in Conns |-> 0]
  /\ running = FALSE /\ gpc = "idle" /\ gidx = 0
  /\ gsnap = [s \in Slots |-> FALSE]
  /\ cst = [c \in Conns |-> "new"] /\ backlog = {}
  /\ my_id = [c \in Conns |-> NoId]
  /\ roster = [c \in Conns |-> [s \in Slots |-> FALSE]]
  /\ chan = [c \in Conns |-> <<>>]

------------------------------------------------------------------------------
(* send(): fails on INVALID_SOCKET, is lost on a connection the client has  *)
(* closed, blocks while the connection is full.                             *)

Reaches(s) == s # NoSock /\ cst[s] = "open"
CanSend(s) == Reaches(s) => Len(chan[s]) < ChanBound
SendTo(s, m) ==
  chan' = IF Reaches(s) THEN [chan EXCEPT ![s] = Append(@, m)] ELSE chan

------------------------------------------------------------------------------
(* The accept thread.                                                       *)

\* Mutant: a slot whose client has hung up already counts as empty.
EmptyOrGone(s) == m_clients[s] = NoSock \/ cst[m_clients[s]] = "closed"

\* AcceptClient looks at one slot of its scan; past the last it returns
\* false and AcceptThread calls it again.
Empty(s) == m_clients[s] = NoSock

Scan ==
  /\ apc = "scan"
  /\ IF aidx = MAX_PLAYERS
       THEN aidx' = 0 /\ UNCHANGED <<apc, aslot>>
       ELSE IF Empty(aidx)
         THEN apc' = "accept" /\ aslot' = aidx /\ UNCHANGED aidx
         ELSE aidx' = aidx + 1 /\ UNCHANGED <<apc, aslot>>
  /\ UNCHANGED <<m_clients, player_connected, aconn, recvs, loop, clients, chan>>

\* accept() returns a connection of the listen backlog.
Accept ==
  /\ apc = "accept"
  /\ \E c \in backlog : aconn' = c /\ backlog' = backlog \ {c}
  /\ apc' = "publish"
  /\ UNCHANGED <<m_clients, player_connected, aslot, aidx, recvs, loop,
                 cst, my_id, roster, chan>>

\* The critical section of AcceptClient.
Publish ==
  /\ apc = "publish"
  /\ m_clients' = [m_clients EXCEPT ![aslot] = aconn]
  /\ player_connected' = [player_connected EXCEPT ![aslot] = TRUE]
  /\ apc' = "assign"
  /\ UNCHANGED <<aslot, aconn, aidx, recvs, loop, clients, chan>>

\* SendAssignIDPacket(i, i).
AssignID ==
  /\ apc = "assign"
  /\ CanSend(m_clients[aslot])
  /\ SendTo(m_clients[aslot], Notice("assign", aslot))
  /\ apc' = "existing" /\ aidx' = 0
  /\ UNCHANGED <<m_clients, player_connected, aslot, aconn, recvs, loop, clients>>

\* SendExistingPlayersToNew reads the flag of one slot ...
Existing ==
  /\ apc = "existing"
  /\ IF aidx = MAX_PLAYERS
       THEN apc' = "join" /\ aidx' = 0
       ELSE IF aidx = aslot \/ ~player_connected[aidx]
         THEN aidx' = aidx + 1 /\ UNCHANGED apc
         ELSE apc' = "tell" /\ UNCHANGED aidx
  /\ UNCHANGED <<m_clients, player_connected, aslot, aconn, recvs, loop, clients, chan>>

\* ... and then names that slot to the newcomer.
TellNewcomer ==
  /\ apc = "tell"
  /\ CanSend(m_clients[aslot])
  /\ SendTo(m_clients[aslot], Notice("join", aidx))
  /\ apc' = "existing" /\ aidx' = aidx + 1
  /\ UNCHANGED <<m_clients, player_connected, aslot, aconn, recvs, loop, clients>>

\* Mutant: only the slots behind the newcomer's own are told.
AnnouncedAbove(j) == j > aslot /\ player_connected[j]

\* The loop of AcceptClient that announces the newcomer to the others.
Announced(j) == j # aslot /\ player_connected[j]

Announce ==
  /\ apc = "join" /\ aidx < MAX_PLAYERS
  /\ IF Announced(aidx)
       THEN CanSend(m_clients[aidx]) /\ SendTo(m_clients[aidx], Notice("join", aslot))
       ELSE UNCHANGED chan
  /\ aidx' = aidx + 1
  /\ UNCHANGED <<m_clients, player_connected, apc, aslot, aconn, recvs, loop, clients>>

\* StartRecvThread; AcceptThread then calls AcceptClient again.
Spawn ==
  /\ apc = "join" /\ aidx = MAX_PLAYERS
  /\ rpc' = [rpc EXCEPT ![aconn] = "recv"]
  /\ rslot' = [rslot EXCEPT ![aconn] = aslot]
  /\ apc' = "scan" /\ aidx' = 0 /\ aslot' = 0 /\ aconn' = NoSock
  /\ UNCHANGED <<m_clients, player_connected, ridx, loop, clients, chan>>

AcceptThread ==
  Scan \/ Accept \/ Publish \/ AssignID \/ Existing \/ TellNewcomer \/ Announce \/ Spawn

------------------------------------------------------------------------------
(* The recv thread of connection c, serving slot rslot[c].                  *)

\* recv() on the slot's socket reports that the peer is gone: DoRecv calls
\* HandleDisconnect and returns false, which ends the thread's loop.
RecvGone(c) ==
  /\ rpc[c] = "recv"
  /\ m_clients[rslot[c]] # NoSock /\ cst[m_clients[rslot[c]]] = "closed"
  /\ rpc' = [rpc EXCEPT ![c] = "release"]
  /\ UNCHANGED <<m_clients, player_connected, accept, rslot, ridx, loop, clients, chan>>

\* Mutant: the socket is closed and left in the slot.
ReleaseLeak(c) ==
  /\ rpc[c] = "release"
  /\ rpc' = [rpc EXCEPT ![c] = "flag"]
  /\ UNCHANGED <<m_clients, player_connected, accept, rslot, ridx, loop, clients, chan>>

\* The critical section of HandleDisconnect: close and empty the slot.
ReleaseSlot(c) ==
  /\ rpc[c] = "release"
  /\ m_clients' = [m_clients EXCEPT ![rslot[c]] = NoSock]
  /\ rpc' = [rpc EXCEPT ![c] = "flag"]
  /\ UNCHANGED <<player_connected, accept, rslot, ridx, loop, clients, chan>>

\* The flag is lowered after the lock has been released.
LowerFlag(c) ==
  /\ rpc[c] = "flag"
  /\ player_connected' = [player_connected EXCEPT ![rslot[c]] = FALSE]
  /\ rpc' = [rpc EXCEPT ![c] = "notify"] /\ ridx' = [ridx EXCEPT ![c] = 0]
  /\ UNCHANGED <<m_clients, accept, rslot, loop, clients, chan>>

\* Mutant: the client's own slot is not skipped.
ToldOfLeaveAll(i, j) == TRUE

\* The loop of HandleDisconnect that tells the other slots, one at a time.
ToldOfLeave(i, j) == i # j

NotifyLeft(c) ==
  /\ rpc[c] = "notify"
  /\ LET i == ridx[c] IN
     IF i = MAX_PLAYERS
       THEN /\ rpc' = [rpc EXCEPT ![c] = "ended"]
            /\ ridx' = [ridx EXCEPT ![c] = 0]
            /\ UNCHANGED chan
       ELSE /\ IF ToldOfLeave(i, rslot[c])
                 THEN CanSend(m_clients[i]) /\ SendTo(m_clients[i], Notice("disc", rslot[c]))
                 ELSE UNCHANGED chan
            /\ ridx' = [ridx EXCEPT ![c] = i + 1]
            /\ UNCHANGED rpc
  /\ UNCHANGED <<m_clients, player_connected, accept, rslot, loop, clients>>

RecvThread(c) == RecvGone(c) \/ ReleaseSlot(c) \/ LowerFlag(c) \/ NotifyLeft(c)

------------------------------------------------------------------------------
(* The game loop, as far as the roster goes.  Which request starts and      *)
(* stops it is the business of ServerSession.                               *)

LoopStart ==
  /\ ~running /\ running' = TRUE
  /\ UNCHANGED <<m_clients, player_connected, accept, recvs, gpc, gidx, gsnap, clients, chan>>

LoopStop ==
  /\ running /\ running' = FALSE
  /\ UNCHANGED <<m_clients, player_connected, accept, recvs, gpc, gidx, gsnap, clients, chan>>

FrameBegin ==
  /\ gpc = "idle" /\ running
  /\ gpc' = "snap" /\ gidx' = 0
  /\ UNCHANGED <<m_clients, player_connected, accept, recvs, running, gsnap, clients, chan>>

\* BroadcastGameState fills in is_connected one slot at a time ...
Present(s) == m_clients[s] # NoSock

FrameSnap ==
  /\ gpc = "snap"
  /\ IF gidx = MAX_PLAYERS
       THEN gpc' = "send" /\ gidx' = 0 /\ UNCHANGED gsnap
       ELSE /\ gsnap' = [gsnap EXCEPT ![gidx] = Present(gidx)]
            /\ gidx' = gidx + 1 /\ UNCHANGED gpc
  /\ UNCHANGED <<m_clients, player_connected, accept, recvs, running, clients, chan>>

\* ... and then sends the packet to one slot at a time.
FrameSend ==
  /\ gpc = "send"
  /\ IF gidx = MAX_PLAYERS
       THEN /\ gpc' = "idle" /\ gidx' = 0 /\ gsnap' = [s \in Slots |-> FALSE]
            /\ UNCHANGED chan
       ELSE /\ CanSend(m_clients[gidx])
            /\ SendTo(m_clients[gidx], [type |-> "state", on |-> gsnap])
            /\ gidx' = gidx + 1 /\ UNCHANGED <<gpc, gsnap>>
  /\ UNCHANGED <<m_clients, player_connected, accept, recvs, running, clients>>

GameLoop == FrameBegin \/ FrameSnap \/ FrameSend

------------------------------------------------------------------------------
(* The client processes.                                                    *)

\* ClientSystem::Connect; the backlog holds as many as listen() was told.
Connect(c) ==
  /\ cst[c] = "new" /\ Cardinality(backlog) < MAX_PLAYERS
  /\ cst' = [cst EXCEPT ![c] = "open"] /\ backlog' = backlog \cup {c}
  /\ UNCHANGED <<m_clients, player_connected, accept, recvs, loop, my_id, roster, chan>>

\* ClientSystem::Disconnect, or the process dies, and its memory and whatever
\* was under way to it are gone.
Close(c) ==
  /\ cst[c] = "open"
  /\ cst' = [cst EXCEPT ![c] = "closed"]
  /\ chan' = [chan EXCEPT ![c] = <<>>]
  /\ my_id' = [my_id EXCEPT ![c] = NoId]
  /\ roster' = [roster EXCEPT ![c] = [s \in Slots |-> FALSE]]
  /\ UNCHANGED <<m_clients, player_connected, accept, recvs, loop, backlog>>

\* Mutant: a game state leaves the roster alone.
RosterNoticesOnly(c, m) ==
  CASE m.type \in {"assign", "join"} -> [roster[c] EXCEPT ![m.id] = TRUE]
    [] m.type = "disc" -> [roster[c] EXCEPT ![m.id] = FALSE]
    [] OTHER -> roster[c]

\* The client's roster after packet m.
RosterAfter(c, m) ==
  CASE m.type \in {"assign", "join"} -> [roster[c] EXCEPT ![m.id] = TRUE]
    [] m.type = "disc" -> [roster[c] EXCEPT ![m.id] = FALSE]
    [] OTHER -> [s \in Slots |-> IF s = my_id[c] THEN roster[c][s] ELSE m.on[s]]

\* Mutant: ids counted from one.
IdFromOne(c, m) == IF m.type = "assign" THEN m.id + 1 ELSE my_id[c]

\* my_player_id after packet m.
IdAfter(c, m) ==
  IF m.type = "assign" THEN m.id
  ELSE IF m.type = "disc" /\ m.id = my_id[c] THEN NoId
  ELSE my_id[c]

\* The client's recv thread handles the next packet.
Deliver(c) ==
  /\ cst[c] = "open" /\ chan[c] # <<>>
  /\ my_id' = [my_id EXCEPT ![c] = IdAfter(c, Head(chan[c]))]
  /\ roster' = [roster EXCEPT ![c] = RosterAfter(c, Head(chan[c]))]
  /\ chan' = [chan EXCEPT ![c] = Tail(@)]
  /\ UNCHANGED <<m_clients, player_connected, accept, recvs, loop, cst, backlog>>

------------------------------------------------------------------------------
(* Before the first game the loop does not run: LobbySpec.                  *)

LobbyNext ==
  \/ AcceptThread
  \/ \E c \in Conns : RecvThread(c) \/ Connect(c) \/ Close(c) \/ Deliver(c)

Next == LobbyNext \/ GameLoop \/ LoopStart \/ LoopStop

LobbySpec == Init /\ [][LobbyNext]_vars
Spec == Init /\ [][Next]_vars

\* Threads that can run do run: the accept thread, every recv thread, the
\* game loop and the clients' recv threads; users need not do anything.  The
\* fairness is strong because several threads send to one connection: one
\* that waits for room there gets its turn, as Winsock completes the sends
\* pending on a socket in the order they were made.
Fairness ==
  /\ SF_vars(AcceptThread) /\ WF_vars(GameLoop)
  /\ \A c \in Conns : SF_vars(RecvThread(c)) /\ WF_vars(Deliver(c))

FairLobby == LobbySpec /\ Fairness
FairSpec == Spec /\ Fairness

------------------------------------------------------------------------------
(* Properties.                                                              *)

\* AcceptClient chooses its slot without the lock and then sits in accept()
\* for as long as nobody connects.  The slot is still empty when it is
\* filled at last: no live socket is overwritten and leaked.
AcceptIntoFreeSlot ==
  apc \in {"accept", "publish"} => m_clients[aslot] = NoSock

\* The recv thread of a connection reads, and HandleDisconnect closes,
\* m_clients[client_id], whatever is there at that moment.  It is always the
\* thread's own connection: a slot that changes hands never makes an old
\* thread eat the packets or close the socket of the slot's next client.
ReaderOwnsSocket ==
  \A c \in Conns : rpc[c] \in {"recv", "release"} => m_clients[rslot[c]] = c

\* A client that is told its own id has left resets my_player_id and can
\* never start a game again (ClientSystem::HandleDisconnect).  The server
\* never sends it that, even when the notices about the previous owner of its
\* slot are still going out.
NeverToldOfItself ==
  \A s \in Slots : m_clients[s] # NoSock =>
    \A k \in 1 .. Len(chan[m_clients[s]]) :
      LET m == chan[m_clients[s]][k] IN
      /\ m.type = "disc" => m.id # s
      /\ m.type = "assign" => m.id = s

\* Nothing is under way: the accept thread is between clients, no recv thread
\* is inside HandleDisconnect, every packet has been handled.
Settled ==
  /\ apc \in {"scan", "accept"}
  /\ \A c \in Conns : rpc[c] \in {"none", "recv", "ended"}
  /\ \A c \in Conns : chan[c] = <<>>

RosterExact ==
  \A c \in Conns : cst[c] = "open" /\ my_id[c] # NoId =>
    \A s \in Slots : roster[c][s] = Present(s)

\* In the lobby, as long as nobody has left, the lists that AcceptClient and
\* SendExistingPlayersToNew spread add up: every client that has its id sees
\* exactly the clients that are connected.
LobbyRosterExact == Settled /\ (\A c \in Conns : cst[c] # "closed") => RosterExact

\* When clients do leave, DisconnectLogic.txt (line 194) still promises that
\* all clients end up in the same state.
LobbyRosterSynchronised == Settled => RosterExact

\* The server's slots implement the slot table: the refinement mapping.
Table == INSTANCE SlotTable WITH
  seat <- m_clients,
  seated <- {c \in Conns : rpc[c] # "none" \/ \E s \in Slots : m_clients[s] = c},
  left <- {c \in Conns : cst[c] = "closed"}

\* No live client is ever evicted, seated twice or seated over another.
ImplementsTable == Table!Spec

\* A connection is left waiting in the backlog for ever only if from some
\* time on every slot is held by a client that is still there: a departed
\* client's slot is always given back.
ServedOrFull ==
  \A c \in Conns :
    <>[](c \in backlog) => <>[](\A s \in Slots : Reaches(m_clients[s]))

\* Whatever the races of the lobby did to a roster, a game loop that keeps
\* running repairs it.
RosterRepaired == <>[]running => <>[]RosterExact

==============================================================================
