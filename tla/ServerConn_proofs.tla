--------------------------- MODULE ServerConn_proofs ---------------------------
(***************************************************************************)
(* Theorems about ServerConn, for any number of slots and connections: the *)
(* type invariant, the ownership of slots, what a client is told about its *)
(* own id, the refinement of SlotTable, and the rosters of a lobby, which  *)
(* add up once everything under way has arrived.                           *)
(***************************************************************************)
EXTENDS ServerConn, TLAPS

Seated == {"assign", "existing", "tell", "join"}

\* The slot named to the newcomer is a slot.
TellIndex == apc = "tell" => aidx \in Slots

\* The accept thread has taken a connection that is nowhere else yet.
Taken ==
  apc = "publish" =>
    /\ aconn \in Conns /\ rpc[aconn] = "none" /\ aconn \notin backlog
    /\ cst[aconn] # "new"
    /\ \A s \in Slots : m_clients[s] # aconn

\* From Publish to Spawn the accept thread owns the slot it has filled.
Held ==
  apc \in Seated =>
    /\ aconn \in Conns /\ rpc[aconn] = "none" /\ aconn \notin backlog
    /\ m_clients[aslot] = aconn /\ cst[aconn] # "new"

\* A socket in a slot belongs to that slot's recv thread, or to the accept
\* thread that has just put it there.
Owned ==
  \A s \in Slots : m_clients[s] # NoSock =>
    \/ rpc[m_clients[s]] \in {"recv", "release"} /\ rslot[m_clients[s]] = s
    \/ apc \in Seated /\ s = aslot /\ m_clients[s] = aconn

\* A connection that waits in the backlog has no thread and no slot.
Waiting ==
  \A c \in backlog : rpc[c] = "none" /\ cst[c] # "new" /\ \A s \in Slots : m_clients[s] # c

\* A client that has not connected is unknown to the server.
Unknown ==
  \A c \in Conns : cst[c] = "new" => rpc[c] = "none" /\ \A s \in Slots : m_clients[s] # c

\* HandleDisconnect only runs for a client that is gone.
GoneFirst ==
  \A c \in Conns : rpc[c] \in {"release", "flag", "notify", "ended"} => cst[c] = "closed"

SlotInv ==
  /\ TypeOK /\ TellIndex /\ AcceptIntoFreeSlot /\ ReaderOwnsSocket
  /\ Taken /\ Held /\ Owned /\ Waiting /\ Unknown /\ GoneFirst

------------------------------------------------------------------------------
\* send keeps the channels well typed.
LEMMA SendType ==
  ASSUME chan \in [Conns -> Seq(Packets)], NEW s \in Conns \cup {NoSock},
         NEW m \in Packets, SendTo(s, m)
  PROVE  chan' \in [Conns -> Seq(Packets)]
<1>1. CASE ~Reaches(s)
  BY <1>1 DEF SendTo
<1>2. CASE Reaches(s)
  <2>1. s \in Conns /\ chan[s] \in Seq(Packets)
    BY <1>2 DEF Reaches
  <2>2. Append(chan[s], m) \in Seq(Packets)
    BY <2>1
  <2> QED BY <1>2, <2>1, <2>2 DEF SendTo
<1> QED BY <1>1, <1>2

LEMMA NoticeType ==
  ASSUME NEW i \in Slots, NEW t \in {"assign", "join", "disc"}
  PROVE  Notice(t, i) \in Packets
BY DEF Notice, Packets, Notices

LEMMA InitSlotInv == Init => SlotInv
<1> SUFFICES ASSUME Init PROVE SlotInv OBVIOUS
<1> USE PlayersAssumption, SockAssumption DEF Slots
<1>1. TypeOK
  <2>1. 0 \in Slots /\ 0 \in 0 .. MAX_PLAYERS OBVIOUS
  <2> HIDE DEF Slots
  <2>2. /\ m_clients \in [Slots -> Conns \cup {NoSock}]
        /\ player_connected \in [Slots -> BOOLEAN] /\ gsnap \in [Slots -> BOOLEAN]
    BY DEF Init
  <2>3. /\ rpc \in [Conns -> {"none", "recv", "release", "flag", "notify", "ended"}]
        /\ rslot \in [Conns -> Slots] /\ ridx \in [Conns -> 0 .. MAX_PLAYERS]
    BY <2>1 DEF Init
  <2>4. /\ cst \in [Conns -> {"new", "open", "closed"}]
        /\ my_id \in [Conns -> Slots \cup {NoId}]
        /\ roster \in [Conns -> [Slots -> BOOLEAN]]
    BY DEF Init
  <2>5. chan \in [Conns -> Seq(Packets)]
    <3>1. <<>> \in Seq(Packets) OBVIOUS
    <3> QED BY <3>1 DEF Init
  <2>6. /\ apc = "scan" /\ aslot = 0 /\ aconn = NoSock /\ aidx = 0
        /\ running = FALSE /\ gpc = "idle" /\ gidx = 0 /\ backlog = {}
    BY DEF Init
  <2> QED BY <2>1, <2>2, <2>3, <2>4, <2>5, <2>6 DEF TypeOK
<1>2. TellIndex /\ AcceptIntoFreeSlot /\ ReaderOwnsSocket /\ Taken /\ Held
  BY DEF Init, TellIndex, AcceptIntoFreeSlot, ReaderOwnsSocket, Taken, Held, Seated
<1>3. Owned /\ Waiting /\ Unknown /\ GoneFirst
  BY DEF Init, Owned, Waiting, Unknown, GoneFirst
<1> QED BY <1>1, <1>2, <1>3 DEF SlotInv

------------------------------------------------------------------------------
\* Type correctness, one step per action.
LEMMA TypeStep == TypeOK /\ TellIndex /\ [Next]_vars => TypeOK'
<1> SUFFICES ASSUME TypeOK, TellIndex, [Next]_vars PROVE TypeOK' OBVIOUS
<1> USE PlayersAssumption DEF TypeOK, accept, recvs, loop, clients
<1>0. Slots = 0 .. MAX_PLAYERS - 1 BY DEF Slots
<1>z. 0 \in Slots /\ 0 \in 0 .. MAX_PLAYERS BY <1>0
<1>1. CASE Scan BY <1>1, <1>0 DEF Scan
<1>2. CASE Accept BY <1>2 DEF Accept
<1>3. CASE Publish BY <1>3 DEF Publish
<1>4. CASE AssignID
  <2>1. chan' \in [Conns -> Seq(Packets)]
    <3>1. m_clients[aslot] \in Conns \cup {NoSock} OBVIOUS
    <3>2. Notice("assign", aslot) \in Packets BY NoticeType
    <3> QED BY <1>4, <3>1, <3>2, SendType DEF AssignID
  <2> QED BY <1>4, <2>1 DEF AssignID
<1>5. CASE Existing BY <1>5, <1>0 DEF Existing
<1>6. CASE TellNewcomer
  <2>1. aidx \in Slots BY <1>6 DEF TellIndex, TellNewcomer
  <2>2. chan' \in [Conns -> Seq(Packets)]
    <3>1. m_clients[aslot] \in Conns \cup {NoSock} OBVIOUS
    <3>2. Notice("join", aidx) \in Packets BY NoticeType, <2>1
    <3> QED BY <1>6, <3>1, <3>2, SendType DEF TellNewcomer
  <2> QED BY <1>6, <2>1, <2>2, <1>0 DEF TellNewcomer
<1>7. CASE Announce
  <2>1. aidx \in Slots /\ aidx + 1 \in 0 .. MAX_PLAYERS BY <1>7, <1>0 DEF Announce
  <2>2. chan' \in [Conns -> Seq(Packets)]
    <3>1. m_clients[aidx] \in Conns \cup {NoSock} BY <2>1
    <3>2. Notice("join", aslot) \in Packets BY NoticeType
    <3> QED BY <1>7, <3>1, <3>2, SendType DEF Announce
  <2> QED BY <1>7, <2>1, <2>2 DEF Announce
<1>8. CASE Spawn BY <1>8, <1>z DEF Spawn
<1>9. ASSUME NEW c \in Conns, RecvThread(c) PROVE TypeOK'
  <2>1. CASE RecvGone(c) BY <2>1 DEF RecvGone
  <2>2. CASE ReleaseSlot(c) BY <2>2 DEF ReleaseSlot
  <2>3. CASE LowerFlag(c) BY <2>3 DEF LowerFlag
  <2>4. CASE NotifyLeft(c)
    <3>1. CASE ridx[c] = MAX_PLAYERS BY <2>4, <3>1, <1>z DEF NotifyLeft
    <3>2. CASE ridx[c] # MAX_PLAYERS
      <4>1. ridx[c] \in Slots /\ ridx[c] + 1 \in 0 .. MAX_PLAYERS BY <3>2, <1>0
      <4>2. chan' \in [Conns -> Seq(Packets)]
        <5>1. m_clients[ridx[c]] \in Conns \cup {NoSock} BY <4>1
        <5>2. Notice("disc", rslot[c]) \in Packets BY NoticeType
        <5> QED BY <2>4, <3>2, <5>1, <5>2, SendType DEF NotifyLeft
      <4> QED BY <2>4, <3>2, <4>1, <4>2 DEF NotifyLeft
    <3> QED BY <3>1, <3>2
  <2> QED BY <1>9, <2>1, <2>2, <2>3, <2>4 DEF RecvThread
<1>10. CASE LoopStart BY <1>10 DEF LoopStart
<1>11. CASE LoopStop BY <1>11 DEF LoopStop
<1>12. CASE FrameBegin BY <1>12 DEF FrameBegin
<1>13. CASE FrameSnap
  <2>1. CASE gidx = MAX_PLAYERS BY <1>13, <2>1, <1>z DEF FrameSnap
  <2>2. CASE gidx # MAX_PLAYERS
    <3>1. gidx \in Slots /\ gidx + 1 \in 0 .. MAX_PLAYERS BY <2>2, <1>0
    <3>2. Present(gidx) \in BOOLEAN BY DEF Present
    <3> QED BY <1>13, <2>2, <3>1, <3>2 DEF FrameSnap
  <2> QED BY <2>1, <2>2
<1>14. CASE FrameSend
  <2>1. CASE gidx = MAX_PLAYERS BY <1>14, <2>1, <1>z DEF FrameSend
  <2>2. CASE gidx # MAX_PLAYERS
    <3>1. gidx \in Slots /\ gidx + 1 \in 0 .. MAX_PLAYERS BY <2>2, <1>0
    <3>2. chan' \in [Conns -> Seq(Packets)]
      <4>1. m_clients[gidx] \in Conns \cup {NoSock} BY <3>1
      <4>2. [type |-> "state", on |-> gsnap] \in Packets BY DEF Packets, States
      <4> QED BY <1>14, <2>2, <4>1, <4>2, SendType DEF FrameSend
    <3> QED BY <1>14, <2>2, <3>1, <3>2 DEF FrameSend
  <2> QED BY <2>1, <2>2
<1>15. ASSUME NEW c \in Conns, Connect(c) PROVE TypeOK' BY <1>15 DEF Connect
<1>16. ASSUME NEW c \in Conns, Close(c) PROVE TypeOK'
  <2>1. <<>> \in Seq(Packets) OBVIOUS
  <2> QED BY <1>16, <2>1 DEF Close, NoId
<1>17. ASSUME NEW c \in Conns, Deliver(c) PROVE TypeOK'
  <2> DEFINE m == Head(chan[c])
  <2>1. m \in Packets /\ Tail(chan[c]) \in Seq(Packets) BY <1>17 DEF Deliver
  <2>2. IdAfter(c, m) \in Slots \cup {NoId}
    BY <2>1 DEF IdAfter, Packets, Notices, States
  <2>3. RosterAfter(c, m) \in [Slots -> BOOLEAN]
    <3>1. CASE m \in Notices BY <3>1 DEF RosterAfter, Notices
    <3>2. CASE m \in States BY <3>2 DEF RosterAfter, States
    <3> QED BY <2>1, <3>1, <3>2 DEF Packets
  <2> QED BY <1>17, <2>1, <2>2, <2>3 DEF Deliver
<1>18. CASE UNCHANGED vars BY <1>18 DEF vars
<1> QED BY <1>1, <1>2, <1>3, <1>4, <1>5, <1>6, <1>7, <1>8, <1>9, <1>10, <1>11, <1>12,
           <1>13, <1>14, <1>15, <1>16, <1>17, <1>18
        DEF Next, LobbyNext, AcceptThread, GameLoop

------------------------------------------------------------------------------
\* A step of the loop or of a client's recv thread disturbs no part of SlotInv
\* but the types.
LEMMA QuietStep ==
  ASSUME SlotInv, TypeOK',
         UNCHANGED <<m_clients, apc, aslot, aconn, aidx, rpc, rslot, backlog, cst>>
  PROVE  SlotInv'
BY DEF SlotInv, TellIndex, AcceptIntoFreeSlot, ReaderOwnsSocket, Taken, Held, Seated,
       Owned, Waiting, Unknown, GoneFirst

\* A recv thread that goes on to another place without touching the table, and
\* neither takes up nor gives up its socket, disturbs nothing either.
LEMMA ThreadStep ==
  ASSUME SlotInv, TypeOK', NEW c \in Conns,
         NEW b \in {"recv", "release", "flag", "notify", "ended"},
         rpc' = [rpc EXCEPT ![c] = b], rpc[c] # "none",
         b \in {"recv", "release"} <=> rpc[c] \in {"recv", "release"},
         b # "recv" => cst[c] = "closed",
         UNCHANGED <<m_clients, apc, aslot, aconn, aidx, rslot, backlog, cst>>
  PROVE  SlotInv'
<1>1. /\ rpc'[c] = b
      /\ \A d \in Conns : d # c => rpc'[d] = rpc[d]
      /\ \A d \in Conns : rpc[d] = "none" => rpc'[d] = "none"
      /\ \A d \in Conns : rpc'[d] \in {"recv", "release"} <=> rpc[d] \in {"recv", "release"}
  BY DEF SlotInv, TypeOK
<1>2. TellIndex' /\ AcceptIntoFreeSlot' BY DEF SlotInv, TellIndex, AcceptIntoFreeSlot
<1>3. ReaderOwnsSocket' BY <1>1 DEF SlotInv, ReaderOwnsSocket
<1>4. Taken' BY <1>1 DEF SlotInv, Taken
<1>5. Held' BY <1>1 DEF SlotInv, Held, Seated
<1>6. Owned'
  <2>1. ASSUME NEW s \in Slots, m_clients[s] # NoSock PROVE m_clients[s] \in Conns
    BY <2>1 DEF SlotInv, TypeOK
  <2> QED BY <1>1, <2>1 DEF SlotInv, Owned
<1>7. Waiting'
  <2>1. backlog \subseteq Conns BY DEF SlotInv, TypeOK
  <2> QED BY <1>1, <2>1 DEF SlotInv, Waiting
<1>8. Unknown' BY <1>1 DEF SlotInv, Unknown
<1>9. GoneFirst' BY <1>1 DEF SlotInv, GoneFirst
<1> QED BY <1>2, <1>3, <1>4, <1>5, <1>6, <1>7, <1>8, <1>9 DEF SlotInv

LEMMA SlotStep == SlotInv /\ [Next]_vars => SlotInv'
<1> SUFFICES ASSUME SlotInv, [Next]_vars PROVE SlotInv' OBVIOUS
<1>t. TypeOK' BY TypeStep DEF SlotInv
<1>0. Slots = 0 .. MAX_PLAYERS - 1 /\ NoSock \notin Conns /\ MAX_PLAYERS \in Nat \ {0}
  BY PlayersAssumption, SockAssumption DEF Slots
<1> USE <1>t, <1>0 DEF accept, recvs, loop, clients
<1>1. CASE Scan
  BY <1>1 DEF Scan, Empty, SlotInv, TypeOK, TellIndex, AcceptIntoFreeSlot, ReaderOwnsSocket,
       Taken, Held, Seated, Owned, Waiting, Unknown, GoneFirst
<1>2. CASE Accept
  <2>1. PICK c \in backlog : aconn' = c /\ backlog' = backlog \ {c} BY <1>2 DEF Accept
  <2> QED
    BY <1>2, <2>1 DEF Accept, SlotInv, TypeOK, TellIndex, AcceptIntoFreeSlot,
         ReaderOwnsSocket, Taken, Held, Seated, Owned, Waiting, Unknown, GoneFirst
<1>3. CASE Publish
  <2>1. /\ aconn \in Conns /\ rpc[aconn] = "none" /\ aconn \notin backlog /\ cst[aconn] # "new"
        /\ m_clients[aslot] = NoSock /\ aslot \in Slots
        /\ \A s \in Slots : m_clients[s] # aconn
    BY <1>3 DEF Publish, SlotInv, Taken, AcceptIntoFreeSlot, TypeOK
  <2>2. /\ m_clients'[aslot] = aconn /\ apc' = "assign"
        /\ \A s \in Slots : s # aslot => m_clients'[s] = m_clients[s]
        /\ UNCHANGED <<aslot, aconn, aidx, rpc, rslot, backlog, cst>>
    BY <1>3, <2>1 DEF Publish, SlotInv, TypeOK
  <2>3. TellIndex' /\ AcceptIntoFreeSlot' /\ Taken' /\ Held'
    BY <2>1, <2>2 DEF TellIndex, AcceptIntoFreeSlot, Taken, Held, Seated
  <2>4. ReaderOwnsSocket'
    BY <2>1, <2>2 DEF SlotInv, ReaderOwnsSocket, TypeOK
  <2>5. Owned'
    <3> SUFFICES ASSUME NEW s \in Slots, m_clients'[s] # NoSock
                 PROVE \/ rpc'[m_clients'[s]] \in {"recv", "release"} /\ rslot'[m_clients'[s]] = s
                       \/ apc' \in Seated /\ s = aslot' /\ m_clients'[s] = aconn'
      BY DEF Owned
    <3>1. CASE s = aslot BY <3>1, <2>2 DEF Seated
    <3>2. CASE s # aslot
      BY <3>2, <2>2, <1>3 DEF SlotInv, Owned, Publish, Seated
    <3> QED BY <3>1, <3>2
  <2>6. Waiting' /\ Unknown' /\ GoneFirst'
    BY <2>1, <2>2 DEF SlotInv, Waiting, Unknown, GoneFirst, TypeOK
  <2> QED BY <2>3, <2>4, <2>5, <2>6 DEF SlotInv
<1>4. CASE AssignID
  BY <1>4 DEF AssignID, SlotInv, TellIndex, AcceptIntoFreeSlot, ReaderOwnsSocket,
       Taken, Held, Seated, Owned, Waiting, Unknown, GoneFirst
<1>5. CASE Existing
  BY <1>5 DEF Existing, SlotInv, TypeOK, TellIndex, AcceptIntoFreeSlot, ReaderOwnsSocket,
       Taken, Held, Seated, Owned, Waiting, Unknown, GoneFirst
<1>6. CASE TellNewcomer
  BY <1>6 DEF TellNewcomer, SlotInv, TellIndex, AcceptIntoFreeSlot, ReaderOwnsSocket,
       Taken, Held, Seated, Owned, Waiting, Unknown, GoneFirst
<1>7. CASE Announce
  BY <1>7 DEF Announce, SlotInv, TellIndex, AcceptIntoFreeSlot, ReaderOwnsSocket,
       Taken, Held, Seated, Owned, Waiting, Unknown, GoneFirst
<1>8. CASE Spawn
  <2>1. /\ aconn \in Conns /\ rpc[aconn] = "none" /\ aconn \notin backlog
        /\ m_clients[aslot] = aconn /\ cst[aconn] # "new" /\ aslot \in Slots
    BY <1>8 DEF Spawn, SlotInv, Held, Seated, TypeOK
  <2>2. /\ rpc'[aconn] = "recv" /\ rslot'[aconn] = aslot /\ apc' = "scan"
        /\ \A c \in Conns : c # aconn => rpc'[c] = rpc[c] /\ rslot'[c] = rslot[c]
        /\ UNCHANGED <<m_clients, backlog, cst>>
    BY <1>8, <2>1 DEF Spawn, SlotInv, TypeOK
  <2>3. TellIndex' /\ AcceptIntoFreeSlot' /\ Taken' /\ Held'
    BY <2>2 DEF TellIndex, AcceptIntoFreeSlot, Taken, Held, Seated
  <2>4. ReaderOwnsSocket'
    BY <2>1, <2>2 DEF SlotInv, ReaderOwnsSocket
  <2>5. Owned'
    <3> SUFFICES ASSUME NEW s \in Slots, m_clients'[s] # NoSock
                 PROVE \/ rpc'[m_clients'[s]] \in {"recv", "release"} /\ rslot'[m_clients'[s]] = s
                       \/ apc' \in Seated /\ s = aslot' /\ m_clients'[s] = aconn'
      BY DEF Owned
    <3>1. m_clients[s] \in Conns /\ m_clients'[s] = m_clients[s]
      BY <2>2 DEF SlotInv, TypeOK
    <3>2. CASE m_clients[s] = aconn
      <4>1. s = aslot BY <2>1, <3>1, <3>2 DEF SlotInv, Owned
      <4> QED BY <2>2, <3>1, <3>2, <4>1
    <3>3. CASE m_clients[s] # aconn
      BY <2>2, <3>1, <3>3 DEF SlotInv, Owned
    <3> QED BY <3>2, <3>3
  <2>6. Waiting'
    <3> SUFFICES ASSUME NEW c \in backlog
                 PROVE  rpc'[c] = "none" /\ cst[c] # "new" /\ \A s \in Slots : m_clients[s] # c
      BY <2>2 DEF Waiting
    <3>1. c \in Conns /\ c # aconn BY <2>1 DEF SlotInv, TypeOK
    <3>2. rpc'[c] = rpc[c] BY <2>2, <3>1
    <3> QED BY <3>2 DEF SlotInv, Waiting
  <2>7. Unknown'
    BY <2>1, <2>2 DEF SlotInv, Unknown
  <2>8. GoneFirst'
    BY <2>1, <2>2 DEF SlotInv, GoneFirst
  <2> QED BY <2>3, <2>4, <2>5, <2>6, <2>7, <2>8 DEF SlotInv
<1>9. ASSUME NEW c \in Conns, RecvThread(c) PROVE SlotInv'
  <2>1. CASE RecvGone(c)
    <3>1. rpc[c] = "recv" /\ cst[c] = "closed"
      BY <2>1 DEF RecvGone, SlotInv, ReaderOwnsSocket
    <3> QED BY <2>1, <3>1, ThreadStep DEF RecvGone
  <2>2. CASE ReleaseSlot(c)
    <3>1. m_clients[rslot[c]] = c /\ rslot[c] \in Slots /\ rpc[c] = "release"
      BY <2>2 DEF ReleaseSlot, SlotInv, ReaderOwnsSocket, TypeOK
    <3>2. /\ m_clients'[rslot[c]] = NoSock /\ rpc'[c] = "flag"
          /\ \A s \in Slots : s # rslot[c] => m_clients'[s] = m_clients[s]
          /\ \A d \in Conns : d # c => rpc'[d] = rpc[d]
          /\ UNCHANGED <<apc, aslot, aconn, aidx, rslot, backlog, cst>>
      BY <2>2, <3>1 DEF ReleaseSlot, SlotInv, TypeOK
    <3>3. TellIndex' /\ AcceptIntoFreeSlot' /\ Taken' /\ Held'
      <4>1. aslot \in Slots BY DEF SlotInv, TypeOK
      <4>2. TellIndex' BY <3>2 DEF SlotInv, TellIndex
      <4>3. AcceptIntoFreeSlot'
        BY <3>2, <4>1 DEF SlotInv, AcceptIntoFreeSlot
      <4>4. Taken'
        BY <3>1, <3>2, SockAssumption DEF SlotInv, Taken
      <4>5. Held'
        BY <3>1, <3>2, <4>1 DEF SlotInv, Held, Seated
      <4> QED BY <4>2, <4>3, <4>4, <4>5
    <3>4. ReaderOwnsSocket'
      <4> SUFFICES ASSUME NEW d \in Conns, rpc'[d] \in {"recv", "release"}
                   PROVE  m_clients'[rslot[d]] = d
        BY <3>2 DEF ReaderOwnsSocket
      <4>1. d # c /\ rpc'[d] = rpc[d] BY <3>2
      <4>2. m_clients[rslot[d]] = d BY <4>1 DEF SlotInv, ReaderOwnsSocket
      <4>3. rslot[d] \in Slots BY DEF SlotInv, TypeOK
      <4>4. rslot[d] # rslot[c] BY <3>1, <4>1, <4>2
      <4> QED BY <3>2, <4>2, <4>3, <4>4
    <3>5. Owned'
      <4> SUFFICES ASSUME NEW s \in Slots, m_clients'[s] # NoSock
                   PROVE \/ rpc'[m_clients'[s]] \in {"recv", "release"} /\ rslot'[m_clients'[s]] = s
                         \/ apc' \in Seated /\ s = aslot' /\ m_clients'[s] = aconn'
        BY DEF Owned
      <4>1. s # rslot[c] /\ m_clients'[s] = m_clients[s] /\ m_clients[s] \in Conns
        <5>1. s # rslot[c] /\ m_clients'[s] = m_clients[s] BY <3>2
        <5>2. m_clients[s] \in Conns \cup {NoSock} BY DEF SlotInv, TypeOK
        <5> QED BY <5>1, <5>2
      <4>2. \/ rpc[m_clients[s]] \in {"recv", "release"} /\ rslot[m_clients[s]] = s
            \/ apc \in Seated /\ s = aslot /\ m_clients[s] = aconn
        BY <4>1 DEF SlotInv, Owned
      <4>3. m_clients[s] # c
        <5>1. apc \in Seated => aconn # c BY <3>1 DEF SlotInv, Held
        <5> QED BY <3>1, <4>1, <4>2, <5>1
      <4>4. rpc'[m_clients[s]] = rpc[m_clients[s]] BY <3>2, <4>1, <4>3
      <4> QED BY <3>2, <4>1, <4>2, <4>4
    <3>6. Waiting'
      <4> SUFFICES ASSUME NEW d \in backlog
                   PROVE  rpc'[d] = "none" /\ cst[d] # "new" /\ \A s \in Slots : m_clients'[s] # d
        BY <3>2 DEF Waiting
      <4>1. d \in Conns /\ d # NoSock BY DEF SlotInv, TypeOK
      <4>2. rpc[d] = "none" /\ cst[d] # "new" /\ \A s \in Slots : m_clients[s] # d
        BY DEF SlotInv, Waiting
      <4>3. d # c BY <3>1, <4>2
      <4>4. \A s \in Slots : m_clients'[s] # d BY <3>1, <3>2, <4>1, <4>2
      <4> QED BY <3>2, <4>1, <4>2, <4>3, <4>4
    <3>7. Unknown'
      <4> SUFFICES ASSUME NEW d \in Conns, cst[d] = "new"
                   PROVE  rpc'[d] = "none" /\ \A s \in Slots : m_clients'[s] # d
        BY <3>2 DEF Unknown
      <4>2. rpc[d] = "none" /\ \A s \in Slots : m_clients[s] # d
        BY DEF SlotInv, Unknown
      <4>3. d # c /\ d # NoSock BY <3>1, <4>2
      <4>4. \A s \in Slots : m_clients'[s] # d BY <3>1, <3>2, <4>2, <4>3
      <4> QED BY <3>2, <4>2, <4>3, <4>4
    <3>8. GoneFirst'
      BY <3>1, <3>2 DEF SlotInv, GoneFirst
    <3> QED BY <3>3, <3>4, <3>5, <3>6, <3>7, <3>8 DEF SlotInv
  <2>3. CASE LowerFlag(c)
    <3>1. rpc[c] = "flag" /\ cst[c] = "closed" BY <2>3 DEF LowerFlag, SlotInv, GoneFirst
    <3> QED BY <2>3, <3>1, ThreadStep DEF LowerFlag
  <2>4. CASE NotifyLeft(c)
    <3>1. CASE ridx[c] = MAX_PLAYERS
      <4>1. rpc[c] = "notify" /\ cst[c] = "closed" BY <2>4 DEF NotifyLeft, SlotInv, GoneFirst
      <4> QED BY <2>4, <3>1, <4>1, ThreadStep DEF NotifyLeft
    <3>2. CASE ridx[c] # MAX_PLAYERS
      BY <2>4, <3>2, QuietStep DEF NotifyLeft
    <3> QED BY <3>1, <3>2
  <2> QED BY <1>9, <2>1, <2>2, <2>3, <2>4 DEF RecvThread
<1>10. CASE LoopStart \/ LoopStop \/ GameLoop
  BY <1>10, QuietStep DEF LoopStart, LoopStop, GameLoop, FrameBegin, FrameSnap, FrameSend
<1>11. ASSUME NEW c \in Conns, Connect(c) PROVE SlotInv'
  <2>1. /\ rpc[c] = "none" /\ \A s \in Slots : m_clients[s] # c
        /\ cst'[c] = "open" /\ \A d \in Conns : d # c => cst'[d] = cst[d]
        /\ backlog' = backlog \cup {c} /\ cst[c] = "new"
        /\ UNCHANGED <<m_clients, apc, aslot, aconn, aidx, rpc, rslot>>
    BY <1>11 DEF Connect, SlotInv, Unknown, TypeOK
  <2>2. TellIndex' /\ AcceptIntoFreeSlot' /\ ReaderOwnsSocket' /\ Owned'
    BY <2>1 DEF SlotInv, TellIndex, AcceptIntoFreeSlot, ReaderOwnsSocket, Owned
  <2>3. Taken' /\ Held'
    BY <2>1 DEF SlotInv, Taken, Held
  <2>4. Waiting'
    BY <2>1 DEF SlotInv, Waiting, TypeOK
  <2>5. Unknown' /\ GoneFirst'
    BY <2>1 DEF SlotInv, Unknown, GoneFirst
  <2> QED BY <2>2, <2>3, <2>4, <2>5 DEF SlotInv
<1>12. ASSUME NEW c \in Conns, Close(c) PROVE SlotInv'
  BY <1>12 DEF Close, SlotInv, TypeOK, TellIndex, AcceptIntoFreeSlot,
       ReaderOwnsSocket, Taken, Held, Seated, Owned, Waiting, Unknown, GoneFirst
<1>13. ASSUME NEW c \in Conns, Deliver(c) PROVE SlotInv'
  BY <1>13, QuietStep DEF Deliver
<1>14. CASE UNCHANGED vars
  BY <1>14, QuietStep DEF vars
<1> QED BY <1>1, <1>2, <1>3, <1>4, <1>5, <1>6, <1>7, <1>8, <1>9, <1>10, <1>11, <1>12,
           <1>13, <1>14
        DEF Next, LobbyNext, AcceptThread


\* Type correctness of the connection layer.
THEOREM TypeCorrect == Spec => []TypeOK
<1>1. SlotInv => TypeOK BY DEF SlotInv
<1> QED BY InitSlotInv, SlotStep, <1>1, PTL DEF Spec

\* Accepting never overwrites a live socket.
THEOREM AcceptIsSafe == Spec => []AcceptIntoFreeSlot
<1>1. SlotInv => AcceptIntoFreeSlot BY DEF SlotInv
<1> QED BY InitSlotInv, SlotStep, <1>1, PTL DEF Spec

\* A recv thread only ever reads and closes its own connection.
THEOREM ReadersOwnTheirSockets == Spec => []ReaderOwnsSocket
<1>1. SlotInv => ReaderOwnsSocket BY DEF SlotInv
<1> QED BY InitSlotInv, SlotStep, <1>1, PTL DEF Spec

------------------------------------------------------------------------------
(* A client is never told that it has left itself.                          *)

\* What a client in slot s may be told.
Fit(s, m) == (m.type = "disc" => m.id # s) /\ (m.type = "assign" => m.id = s)

\* Nothing is under way to a client that has not been seated.
FreshChannel ==
  \A c \in Conns : rpc[c] = "none" /\ (\A s \in Slots : m_clients[s] # c) => chan[c] = <<>>

ToldInv == SlotInv /\ FreshChannel /\ NeverToldOfItself

\* No connection sits in two slots.
LEMMA OneSlotEach ==
  ASSUME SlotInv, NEW s \in Slots, NEW r \in Slots, m_clients[s] # NoSock,
         m_clients[s] = m_clients[r]
  PROVE  s = r
BY DEF SlotInv, Owned, Held

LEMMA SendFit ==
  ASSUME ToldInv, NEW j \in Slots, NEW m \in Packets, Fit(j, m),
         SendTo(m_clients[j], m), UNCHANGED <<m_clients, rpc>>
  PROVE  FreshChannel' /\ NeverToldOfItself'
<1>1. CASE ~Reaches(m_clients[j])
  BY <1>1 DEF ToldInv, SendTo, FreshChannel, NeverToldOfItself
<1>2. CASE Reaches(m_clients[j])
  <2> DEFINE d == m_clients[j]
  <2>1. d \in Conns /\ chan[d] \in Seq(Packets) /\ chan \in [Conns -> Seq(Packets)]
    BY <1>2 DEF ToldInv, SlotInv, TypeOK, Reaches
  <2>2. chan'[d] = Append(chan[d], m) /\ \A c \in Conns : c # d => chan'[c] = chan[c]
    BY <1>2, <2>1 DEF SendTo
  <2>3. FreshChannel'
    BY <2>1, <2>2 DEF ToldInv, FreshChannel
  <2>4. NeverToldOfItself'
    <3> SUFFICES ASSUME NEW s \in Slots, m_clients[s] # NoSock,
                        NEW k \in 1 .. Len(chan'[m_clients[s]])
                 PROVE  Fit(s, chan'[m_clients[s]][k])
      BY DEF NeverToldOfItself, Fit
    <3>1. CASE s = j
      <4>1. CASE k = Len(chan[d]) + 1 BY <2>1, <2>2, <3>1, <4>1
      <4>2. CASE k # Len(chan[d]) + 1
        <5>1. k \in 1 .. Len(chan[d]) /\ chan'[d][k] = chan[d][k]
          BY <2>1, <2>2, <3>1, <4>2
        <5> QED BY <3>1, <5>1 DEF ToldInv, NeverToldOfItself, Fit
      <4> QED BY <4>1, <4>2
    <3>2. CASE s # j
      <4>1. m_clients[s] # d /\ m_clients[s] \in Conns
        BY <3>2, OneSlotEach DEF ToldInv, SlotInv, TypeOK
      <4> QED BY <2>2, <4>1 DEF ToldInv, NeverToldOfItself, Fit
    <3> QED BY <3>1, <3>2
  <2> QED BY <2>3, <2>4
<1> QED BY <1>1, <1>2

\* A step that leaves slots, threads and channels alone.
LEMMA SilentStep ==
  ASSUME ToldInv, UNCHANGED <<m_clients, rpc, chan>>
  PROVE  FreshChannel' /\ NeverToldOfItself'
BY DEF ToldInv, FreshChannel, NeverToldOfItself

LEMMA ToldStep == ToldInv /\ [Next]_vars => ToldInv'
<1> SUFFICES ASSUME ToldInv, [Next]_vars PROVE FreshChannel' /\ NeverToldOfItself'
  BY SlotStep DEF ToldInv
<1> USE DEF accept, recvs, loop, clients
<1>0. SlotInv /\ TypeOK /\ Slots = 0 .. MAX_PLAYERS - 1 BY DEF ToldInv, SlotInv, Slots
<1>1. CASE Scan \/ Accept \/ Existing
  BY <1>1, SilentStep DEF Scan, Accept, Existing
<1>2. CASE Publish
  <2>1. /\ aconn \in Conns /\ rpc[aconn] = "none" /\ aslot \in Slots
        /\ \A s \in Slots : m_clients[s] # aconn
    BY <1>2, <1>0 DEF Publish, SlotInv, Taken, TypeOK
  <2>2. chan[aconn] = <<>> BY <2>1 DEF ToldInv, FreshChannel
  <2>3. /\ m_clients'[aslot] = aconn /\ UNCHANGED <<rpc, chan>>
        /\ \A s \in Slots : s # aslot => m_clients'[s] = m_clients[s]
    BY <1>2, <1>0, <2>1 DEF Publish, TypeOK
  <2>4. m_clients[aslot] = NoSock
    BY <1>0, <1>2 DEF Publish, SlotInv, AcceptIntoFreeSlot
  <2>5. FreshChannel'
    BY <2>3, <2>4, SockAssumption DEF ToldInv, FreshChannel
  <2>6. NeverToldOfItself'
    <3> SUFFICES ASSUME NEW s \in Slots, m_clients'[s] # NoSock,
                        NEW k \in 1 .. Len(chan'[m_clients'[s]])
                 PROVE  Fit(s, chan'[m_clients'[s]][k])
      BY DEF NeverToldOfItself, Fit
    <3>1. s # aslot BY <2>2, <2>3
    <3> QED BY <2>3, <3>1 DEF ToldInv, NeverToldOfItself, Fit
  <2> QED BY <2>5, <2>6
<1>3. CASE AssignID
  <2>1. aslot \in Slots /\ Notice("assign", aslot) \in Packets
    BY <1>0, NoticeType DEF TypeOK
  <2>2. Fit(aslot, Notice("assign", aslot)) BY DEF Fit, Notice
  <2> QED BY <1>3, <2>1, <2>2, SendFit DEF AssignID
<1>4. CASE TellNewcomer
  <2>1. aslot \in Slots /\ aidx \in Slots
    BY <1>0, <1>4 DEF TypeOK, SlotInv, TellIndex, TellNewcomer
  <2>2. Fit(aslot, Notice("join", aidx)) /\ Notice("join", aidx) \in Packets
    BY <2>1, NoticeType DEF Fit, Notice
  <2> QED BY <1>4, <2>1, <2>2, SendFit DEF TellNewcomer
<1>5. CASE Announce
  <2>1. CASE ~Announced(aidx) BY <1>5, <2>1, SilentStep DEF Announce
  <2>2. CASE Announced(aidx)
    <3>1. aslot \in Slots /\ aidx \in Slots BY <1>0, <1>5, PlayersAssumption DEF TypeOK, Announce
    <3>2. Fit(aidx, Notice("join", aslot)) /\ Notice("join", aslot) \in Packets
      BY <3>1, NoticeType DEF Fit, Notice
    <3> QED BY <1>5, <2>2, <3>1, <3>2, SendFit DEF Announce
  <2> QED BY <2>1, <2>2
<1>6. CASE Spawn
  <2>1. /\ aconn \in Conns /\ aslot \in Slots /\ m_clients[aslot] = aconn
        /\ UNCHANGED <<m_clients, chan>>
        /\ \A c \in Conns : c # aconn => rpc'[c] = rpc[c]
    BY <1>0, <1>6 DEF Spawn, SlotInv, Held, Seated, TypeOK
  <2> QED BY <2>1 DEF ToldInv, FreshChannel, NeverToldOfItself
<1>7. ASSUME NEW c \in Conns, RecvThread(c) PROVE FreshChannel' /\ NeverToldOfItself'
  <2>1. CASE RecvGone(c) \/ LowerFlag(c)
    <3>1. /\ UNCHANGED <<m_clients, chan>>
          /\ \A d \in Conns : rpc'[d] = "none" => rpc[d] = "none"
      BY <1>0, <2>1 DEF RecvGone, LowerFlag, TypeOK
    <3> QED BY <3>1 DEF ToldInv, FreshChannel, NeverToldOfItself
  <2>2. CASE ReleaseSlot(c)
    <3>1. /\ m_clients[rslot[c]] = c /\ rslot[c] \in Slots /\ rpc[c] = "release"
          /\ m_clients'[rslot[c]] = NoSock /\ rpc'[c] = "flag" /\ UNCHANGED chan
          /\ \A s \in Slots : s # rslot[c] => m_clients'[s] = m_clients[s]
          /\ \A d \in Conns : d # c => rpc'[d] = rpc[d]
      BY <1>0, <2>2 DEF ReleaseSlot, SlotInv, ReaderOwnsSocket, TypeOK
    <3>2. FreshChannel' BY <3>1 DEF ToldInv, FreshChannel
    <3>3. NeverToldOfItself' BY <3>1 DEF ToldInv, NeverToldOfItself
    <3> QED BY <3>2, <3>3
  <2>3. CASE NotifyLeft(c)
    <3> DEFINE i == ridx[c]
    <3>1. CASE i = MAX_PLAYERS
      <4>1. /\ UNCHANGED <<m_clients, chan>>
            /\ \A d \in Conns : rpc'[d] = "none" => rpc[d] = "none"
        BY <1>0, <2>3, <3>1 DEF NotifyLeft, TypeOK
      <4> QED BY <4>1 DEF ToldInv, FreshChannel, NeverToldOfItself
    <3>2. CASE i # MAX_PLAYERS /\ ~ToldOfLeave(i, rslot[c])
      BY <2>3, <3>2, SilentStep DEF NotifyLeft
    <3>3. CASE i # MAX_PLAYERS /\ ToldOfLeave(i, rslot[c])
      <4>1. i \in Slots /\ rslot[c] \in Slots /\ i # rslot[c]
        BY <1>0, <3>3, PlayersAssumption DEF TypeOK, ToldOfLeave
      <4>2. Fit(i, Notice("disc", rslot[c])) /\ Notice("disc", rslot[c]) \in Packets
        BY <4>1, NoticeType DEF Fit, Notice
      <4>3. SendTo(m_clients[i], Notice("disc", rslot[c])) /\ UNCHANGED <<m_clients, rpc>>
        BY <2>3, <3>3 DEF NotifyLeft
      <4> QED BY <4>1, <4>2, <4>3, SendFit
    <3> QED BY <3>1, <3>2, <3>3
  <2> QED BY <1>7, <2>1, <2>2, <2>3 DEF RecvThread
<1>8. CASE LoopStart \/ LoopStop \/ FrameBegin \/ FrameSnap
  BY <1>8, SilentStep DEF LoopStart, LoopStop, FrameBegin, FrameSnap
<1>9. CASE FrameSend
  <2>1. CASE gidx = MAX_PLAYERS BY <1>9, <2>1, SilentStep DEF FrameSend
  <2>2. CASE gidx # MAX_PLAYERS
    <3> DEFINE m == [type |-> "state", on |-> gsnap]
    <3>1. gidx \in Slots BY <1>0, <2>2, PlayersAssumption DEF TypeOK
    <3>2. m \in Packets /\ Fit(gidx, m) BY <1>0 DEF TypeOK, Packets, States, Fit
    <3>3. SendTo(m_clients[gidx], m) /\ UNCHANGED <<m_clients, rpc>>
      BY <1>9, <2>2 DEF FrameSend
    <3> HIDE DEF m
    <3> QED BY <3>1, <3>2, <3>3, SendFit
  <2> QED BY <2>1, <2>2
<1>10. ASSUME NEW c \in Conns, Connect(c) PROVE FreshChannel' /\ NeverToldOfItself'
  BY <1>10, SilentStep DEF Connect
<1>11. ASSUME NEW c \in Conns, Close(c) PROVE FreshChannel' /\ NeverToldOfItself'
  <2>1. /\ UNCHANGED <<m_clients, rpc>> /\ chan'[c] = <<>>
        /\ \A d \in Conns : d # c => chan'[d] = chan[d]
    BY <1>0, <1>11 DEF Close, TypeOK
  <2>2. \A s \in Slots : m_clients[s] \in Conns \cup {NoSock} BY <1>0 DEF TypeOK
  <2> QED BY <2>1, <2>2 DEF ToldInv, FreshChannel, NeverToldOfItself
<1>12. ASSUME NEW c \in Conns, Deliver(c) PROVE FreshChannel' /\ NeverToldOfItself'
  <2>1. /\ UNCHANGED <<m_clients, rpc>> /\ chan[c] # <<>> /\ chan[c] \in Seq(Packets)
        /\ chan'[c] = Tail(chan[c]) /\ \A d \in Conns : d # c => chan'[d] = chan[d]
    BY <1>0, <1>12 DEF Deliver, TypeOK
  <2>2. \A k \in 1 .. Len(chan'[c]) :
           k + 1 \in 1 .. Len(chan[c]) /\ chan'[c][k] = chan[c][k + 1]
    BY <2>1
  <2>3. \A s \in Slots : m_clients[s] \in Conns \cup {NoSock} BY <1>0 DEF TypeOK
  <2>4. FreshChannel' BY <2>1 DEF ToldInv, FreshChannel
  <2>5. NeverToldOfItself'
    <3> SUFFICES ASSUME NEW s \in Slots, m_clients[s] # NoSock,
                        NEW k \in 1 .. Len(chan'[m_clients[s]])
                 PROVE  Fit(s, chan'[m_clients[s]][k])
      BY <2>1 DEF NeverToldOfItself, Fit
    <3>1. CASE m_clients[s] = c
      BY <2>2, <3>1 DEF ToldInv, NeverToldOfItself, Fit
    <3>2. CASE m_clients[s] # c
      BY <2>1, <2>3, <3>2 DEF ToldInv, NeverToldOfItself, Fit
    <3> QED BY <3>1, <3>2
  <2> QED BY <2>4, <2>5
<1>13. CASE UNCHANGED vars BY <1>13, SilentStep DEF vars
<1> QED BY <1>1, <1>2, <1>3, <1>4, <1>5, <1>6, <1>7, <1>8, <1>9, <1>10, <1>11, <1>12, <1>13
        DEF Next, LobbyNext, AcceptThread, GameLoop

\* The server never tells a client that it has left, nor gives it another
\* slot's id.
THEOREM NobodyToldOfItself == Spec => []NeverToldOfItself
<1>1. Init => ToldInv
  BY InitSlotInv DEF Init, ToldInv, FreshChannel, NeverToldOfItself
<1>2. ToldInv => NeverToldOfItself BY DEF ToldInv
<1> QED BY <1>1, <1>2, ToldStep, PTL DEF Spec

------------------------------------------------------------------------------
(* The slots implement SlotTable.                                           *)

SeatedConns == {c \in Conns : rpc[c] # "none" \/ \E s \in Slots : m_clients[s] = c}
LeftConns == {c \in Conns : cst[c] = "closed"}

LEMMA TableStep == SlotInv /\ [Next]_vars => [Table!TableNext]_Table!tvars
<1> SUFFICES ASSUME SlotInv, [Next]_vars
             PROVE  Table!TableNext \/ UNCHANGED <<m_clients, SeatedConns, LeftConns>>
  BY DEF Table!tvars, SeatedConns, LeftConns
<1> USE DEF accept, recvs, loop, clients
<1>0. TypeOK BY DEF SlotInv
<1>1. CASE UNCHANGED <<m_clients, rpc, cst>>
  BY <1>1 DEF SeatedConns, LeftConns
<1>2. CASE Publish
  <2>1. /\ aconn \in Conns /\ rpc[aconn] = "none" /\ aslot \in Slots
        /\ m_clients[aslot] = NoSock /\ \A s \in Slots : m_clients[s] # aconn
    BY <1>0, <1>2 DEF Publish, SlotInv, Taken, AcceptIntoFreeSlot, TypeOK
  <2>2. /\ m_clients' = [m_clients EXCEPT ![aslot] = aconn] /\ m_clients'[aslot] = aconn
        /\ \A s \in Slots : s # aslot => m_clients'[s] = m_clients[s]
        /\ UNCHANGED <<rpc, cst>>
    BY <1>0, <1>2, <2>1 DEF Publish, TypeOK
  <2>3. SeatedConns' = SeatedConns \cup {aconn}
    BY <2>1, <2>2, SockAssumption DEF SeatedConns
  <2>4. aconn \notin SeatedConns BY <2>1 DEF SeatedConns
  <2>5. PICK c \in Conns, s \in Slots : c = aconn /\ s = aslot BY <2>1
  <2>6. Table!Take(c, s)
    BY <2>1, <2>2, <2>3, <2>4, <2>5 DEF Table!Take, SeatedConns
  <2>7. \E d \in Conns : \E r \in Slots : Table!Take(d, r) BY <2>6
  <2> QED BY <2>7 DEF Table!TableNext
<1>3. CASE Spawn
  <2>1. /\ aconn \in Conns /\ m_clients[aslot] = aconn /\ aslot \in Slots
        /\ UNCHANGED <<m_clients, cst>>
        /\ \A c \in Conns : c # aconn => rpc'[c] = rpc[c]
    BY <1>0, <1>3 DEF Spawn, SlotInv, Held, Seated, TypeOK
  <2> QED BY <2>1 DEF SeatedConns, LeftConns
<1>4. ASSUME NEW c \in Conns, RecvThread(c)
      PROVE Table!TableNext \/ UNCHANGED <<m_clients, SeatedConns, LeftConns>>
  <2>1. CASE RecvGone(c) \/ LowerFlag(c) \/ NotifyLeft(c)
    <3>1. /\ UNCHANGED <<m_clients, cst>>
          /\ \A d \in Conns : rpc'[d] = "none" <=> rpc[d] = "none"
      BY <1>0, <2>1 DEF RecvGone, LowerFlag, NotifyLeft, TypeOK
    <3> QED BY <3>1 DEF SeatedConns, LeftConns
  <2>2. CASE ReleaseSlot(c)
    <3>1. /\ m_clients[rslot[c]] = c /\ rslot[c] \in Slots /\ rpc[c] = "release"
          /\ cst[c] = "closed"
      BY <1>0, <2>2 DEF ReleaseSlot, SlotInv, ReaderOwnsSocket, GoneFirst, TypeOK
    <3>2. /\ m_clients' = [m_clients EXCEPT ![rslot[c]] = NoSock]
          /\ m_clients'[rslot[c]] = NoSock /\ rpc'[c] = "flag" /\ UNCHANGED cst
          /\ \A s \in Slots : s # rslot[c] => m_clients'[s] = m_clients[s]
          /\ \A d \in Conns : d # c => rpc'[d] = rpc[d]
      BY <1>0, <2>2, <3>1 DEF ReleaseSlot, TypeOK
    <3>3. SeatedConns' = SeatedConns BY <3>1, <3>2, SockAssumption DEF SeatedConns
    <3>4. LeftConns' = LeftConns /\ m_clients[rslot[c]] \in LeftConns
      BY <3>1, <3>2 DEF LeftConns
    <3>5. Table!Release(rslot[c])
      BY <3>2, <3>3, <3>4 DEF Table!Release, SeatedConns, LeftConns
    <3> QED BY <3>1, <3>5 DEF Table!TableNext
  <2> QED BY <1>4, <2>1, <2>2 DEF RecvThread
<1>5. ASSUME NEW c \in Conns, Connect(c)
      PROVE Table!TableNext \/ UNCHANGED <<m_clients, SeatedConns, LeftConns>>
  <2>1. UNCHANGED <<m_clients, rpc>> /\ \A d \in Conns : cst'[d] = "closed" <=> cst[d] = "closed"
    BY <1>0, <1>5 DEF Connect, TypeOK
  <2> QED BY <2>1 DEF SeatedConns, LeftConns
<1>6. ASSUME NEW c \in Conns, Close(c)
      PROVE Table!TableNext \/ UNCHANGED <<m_clients, SeatedConns, LeftConns>>
  <2>1. /\ UNCHANGED <<m_clients, rpc>> /\ cst[c] = "open" /\ cst'[c] = "closed"
        /\ \A d \in Conns : d # c => cst'[d] = cst[d]
    BY <1>0, <1>6 DEF Close, TypeOK
  <2>2. c \notin LeftConns /\ LeftConns' = LeftConns \cup {c} BY <2>1 DEF LeftConns
  <2>3. SeatedConns' = SeatedConns BY <2>1 DEF SeatedConns
  <2>4. Table!Leave(c)
    BY <2>1, <2>2, <2>3 DEF Table!Leave, SeatedConns, LeftConns
  <2> QED BY <2>4 DEF Table!TableNext
<1> QED
  BY <1>1, <1>2, <1>3, <1>4, <1>5, <1>6
  DEF Next, LobbyNext, AcceptThread, GameLoop, Scan, Accept, AssignID, Existing,
      TellNewcomer, Announce, LoopStart, LoopStop, FrameBegin, FrameSnap, FrameSend,
      Deliver, vars

\* The server's slots implement the slot table, for every number of slots
\* and of clients.
THEOREM SlotsImplementTable == Spec => ImplementsTable
<1>1. Init => Table!TableInit
  <2> SUFFICES ASSUME Init PROVE Table!TableInit OBVIOUS
  <2>1. SeatedConns = {} BY SockAssumption DEF Init, SeatedConns
  <2>2. LeftConns = {} BY DEF Init, LeftConns
  <2> QED BY <2>1, <2>2 DEF Init, Table!TableInit, SeatedConns, LeftConns
<1> QED
  BY <1>1, InitSlotInv, SlotStep, TableStep, PTL DEF Spec, ImplementsTable, Table!Spec


------------------------------------------------------------------------------
(* The rosters of a lobby that nobody has left.                             *)

NoneLeft == \A c \in Conns : cst[c] # "closed"

\* Client c has r on its roster, or a notice about r is on its way to it.
Heard(c, r) == roster[c][r] \/ \E k \in 1 .. Len(chan[c]) : chan[c][k].id = r

\* The accept thread has yet to tell the client in slot s of slot r: the
\* newcomer of itself and of the others, the others of the newcomer.
Untold(s, r) ==
  \/ s = aslot /\ apc = "assign"
  \/ s = aslot /\ r # s /\ apc \in {"existing", "tell"} /\ aidx <= r
  \/ r = aslot /\ r # s /\ apc \in {"assign", "existing", "tell"}
  \/ r = aslot /\ r # s /\ apc = "join" /\ aidx <= s

Reading == \A c \in Conns : rpc[c] \in {"none", "recv"}
Flagged == \A s \in Slots : player_connected[s] <=> Present(s)
Joining ==
  \A c \in Conns : \A k \in 1 .. Len(chan[c]) :
    /\ chan[c][k].type \in {"assign", "join"}
    /\ chan[c][k].id \in Slots /\ Present(chan[c][k].id)
Rostered == \A c \in Conns, r \in Slots : roster[c][r] => Present(r)
Spread ==
  \A s, r \in Slots : Present(s) /\ Present(r) => Untold(s, r) \/ Heard(m_clients[s], r)
Named == apc = "tell" => Present(aidx)
Known == \A c \in Conns : my_id[c] # NoId => \E s \in Slots : m_clients[s] = c

Calm == Reading /\ Flagged /\ Named /\ Joining /\ Rostered /\ Spread /\ Known
CalmInv == NoneLeft => Calm

\* Only the accept thread, a recv thread and the clients move; nothing is sent.
LEMMA CalmSilent ==
  ASSUME TypeOK, Calm, UNCHANGED <<m_clients, player_connected, roster, my_id, chan>>,
         Reading', Named',
         \A s, r \in Slots : Present(s) /\ Present(r) /\ Untold(s, r) => Untold(s, r)'
  PROVE  Calm'
<1>1. \A s \in Slots : Present(s)' <=> Present(s) BY DEF Present
<1>2. Flagged' BY <1>1 DEF Calm, Flagged
<1>3. Joining' BY <1>1 DEF Calm, Joining
<1>4. Rostered' BY <1>1 DEF Calm, Rostered
<1>5. Spread'
  <2> SUFFICES ASSUME NEW s \in Slots, NEW r \in Slots, Present(s), Present(r)
               PROVE  Untold(s, r)' \/ Heard(m_clients[s], r)'
    BY <1>1 DEF Spread
  <2>1. Untold(s, r) \/ Heard(m_clients[s], r) BY DEF Calm, Spread
  <2>2. Heard(m_clients[s], r)' <=> Heard(m_clients[s], r) BY DEF Heard
  <2> QED BY <2>1, <2>2
<1>6. Known' BY DEF Calm, Known
<1> QED BY <1>2, <1>3, <1>4, <1>5, <1>6 DEF Calm

\* A notice about slot r that is there goes to the client in slot j.
LEMMA CalmSend ==
  ASSUME SlotInv, NoneLeft, Calm, NEW j \in Slots, NEW r \in Slots, Present(j), Present(r),
         NEW t \in {"assign", "join"}, SendTo(m_clients[j], Notice(t, r)),
         UNCHANGED <<m_clients, player_connected, rpc, roster, my_id>>, Named',
         \A s, q \in Slots : Present(s) /\ Present(q) /\ Untold(s, q) =>
           Untold(s, q)' \/ (s = j /\ q = r)
  PROVE  Calm'
<1> DEFINE d == m_clients[j]
           m == Notice(t, r)
<1>1. d \in Conns /\ chan[d] \in Seq(Packets) /\ chan \in [Conns -> Seq(Packets)]
  BY DEF SlotInv, TypeOK, Present
<1>2. Reaches(d)
  <2>1. cst[d] \in {"new", "open", "closed"} BY <1>1 DEF SlotInv, TypeOK
  <2>2. cst[d] # "new" BY <1>1 DEF SlotInv, Unknown
  <2>3. cst[d] # "closed" BY <1>1 DEF NoneLeft
  <2> QED BY <2>1, <2>2, <2>3 DEF Reaches, Present
<1>3. m \in Packets /\ m.type = t /\ m.id = r BY DEF Notice, Packets, Notices
<1> HIDE DEF m
<1>4. chan' = [chan EXCEPT ![d] = Append(@, m)] BY <1>2 DEF SendTo, m
<1>5. /\ Len(chan'[d]) = Len(chan[d]) + 1 /\ chan'[d][Len(chan[d]) + 1] = m
      /\ \A k \in 1 .. Len(chan[d]) : chan'[d][k] = chan[d][k]
      /\ Len(chan[d]) \in Nat
      /\ \A c \in Conns : c # d => chan'[c] = chan[c]
  BY <1>1, <1>3, <1>4
<1> HIDE DEF d
<1>6. \A s \in Slots : Present(s)' <=> Present(s) BY DEF Present
<1>7. Flagged' /\ Rostered' /\ Reading' /\ Known'
  BY <1>6 DEF Calm, Flagged, Rostered, Reading, Known
<1>8. Joining'
  <2> SUFFICES ASSUME NEW c \in Conns, NEW k \in 1 .. Len(chan'[c])
               PROVE  /\ chan'[c][k].type \in {"assign", "join"}
                      /\ chan'[c][k].id \in Slots /\ Present(chan'[c][k].id)
    BY <1>6 DEF Joining, Present
  <2>1. CASE c # d \/ k \in 1 .. Len(chan[d])
    <3>1. k \in 1 .. Len(chan[c]) /\ chan'[c][k] = chan[c][k] BY <1>5, <2>1
    <3> QED BY <3>1 DEF Calm, Joining
  <2>2. CASE c = d /\ k = Len(chan[d]) + 1 BY <1>3, <1>5, <2>2
  <2> QED BY <1>5, <2>1, <2>2
<1>9. \A c \in Conns, q \in Slots : Heard(c, q) => Heard(c, q)'
  <2> SUFFICES ASSUME NEW c \in Conns, NEW q \in Slots, Heard(c, q) PROVE Heard(c, q)' OBVIOUS
  <2>1. CASE roster[c][q] BY <2>1 DEF Heard
  <2>2. ASSUME NEW k \in 1 .. Len(chan[c]), chan[c][k].id = q PROVE Heard(c, q)'
    <3>1. k \in 1 .. Len(chan'[c]) /\ chan'[c][k] = chan[c][k] BY <1>5
    <3> QED BY <2>2, <3>1 DEF Heard
  <2> QED BY <2>1, <2>2 DEF Heard
<1>10. ASSUME NEW c \in Conns, c = d PROVE Heard(c, r)'
  <2>1. Len(chan[d]) + 1 \in 1 .. Len(chan'[d]) BY <1>5
  <2>2. Len(chan[d]) + 1 \in 1 .. Len(chan'[c]) /\ chan'[c][Len(chan[d]) + 1].id = r
    BY <1>3, <1>5, <1>10, <2>1
  <2> QED BY <2>2 DEF Heard
<1>11. Spread'
  <2> SUFFICES ASSUME NEW s \in Slots, NEW q \in Slots, Present(s), Present(q)
               PROVE  Untold(s, q)' \/ Heard(m_clients[s], q)'
    BY <1>6 DEF Spread
  <2>1. Untold(s, q) \/ Heard(m_clients[s], q) BY DEF Calm, Spread
  <2>2. m_clients[s] \in Conns BY DEF SlotInv, TypeOK, Present
  <2>3. CASE Untold(s, q)
    <3>1. Untold(s, q)' \/ (s = j /\ q = r) BY <2>3
    <3>2. ASSUME s = j, q = r PROVE Heard(m_clients[s], q)'
      <4>1. m_clients[s] = d BY <3>2 DEF d
      <4>2. \A c \in Conns : c = d => Heard(c, r)' BY <1>10
      <4>3. m_clients'[s] = m_clients[s] OBVIOUS
      <4> QED BY <2>2, <3>2, <4>1, <4>2, <4>3 DEF Heard
    <3> QED BY <3>1, <3>2
  <2>4. CASE Heard(m_clients[s], q) BY <1>9, <2>2, <2>4
  <2> QED BY <2>1, <2>3, <2>4
<1> QED BY <1>7, <1>8, <1>11 DEF Calm

LEMMA CalmStep ==
  ASSUME ToldInv, ToldInv', CalmInv, [LobbyNext]_vars
  PROVE  CalmInv'
<1> SUFFICES ASSUME NoneLeft' PROVE Calm' BY DEF CalmInv
<1> USE DEF accept, recvs, loop, clients
<1>0. SlotInv /\ TypeOK /\ TypeOK' /\ SlotInv' /\ Slots = 0 .. MAX_PLAYERS - 1
      /\ MAX_PLAYERS \in Nat \ {0}
  BY PlayersAssumption DEF ToldInv, SlotInv, Slots
<1>1. NoneLeft
  <2> SUFFICES ASSUME NEW c \in Conns, cst[c] = "closed" PROVE cst'[c] = "closed"
    BY DEF NoneLeft
  <2>1. CASE UNCHANGED cst BY <2>1
  <2>2. CASE \E d \in Conns : Connect(d) BY <1>0, <2>2 DEF Connect, TypeOK
  <2>3. CASE \E d \in Conns : Close(d) BY <1>0, <2>3 DEF Close, TypeOK
  <2>4. CASE UNCHANGED vars BY <2>4 DEF vars
  <2> QED
    BY <2>1, <2>2, <2>3, <2>4
    DEF LobbyNext, AcceptThread, RecvThread, Scan, Accept, Publish, AssignID, Existing,
        TellNewcomer, Announce, Spawn, RecvGone, ReleaseSlot, LowerFlag, NotifyLeft, Deliver
<1>2. Calm /\ Reading /\ Flagged BY <1>1 DEF CalmInv, Calm
<1>3. aslot \in Slots /\ aidx \in 0 .. MAX_PLAYERS
      /\ (apc = "tell" => aidx \in Slots)
      /\ (apc \in Seated => m_clients[aslot] = aconn /\ Present(aslot))
  <2>1. apc \in Seated => m_clients[aslot] = aconn /\ aconn \in Conns
    BY <1>0 DEF SlotInv, Held
  <2> QED BY <1>0, <2>1, SockAssumption DEF TypeOK, SlotInv, TellIndex, Present
<1>4. CASE Scan \/ Accept
  <2>1. UNCHANGED <<m_clients, player_connected, rpc, roster, my_id, chan>>
        /\ apc \in {"scan", "accept"}
    BY <1>4 DEF Scan, Accept
  <2>2. Reading' /\ Named' BY <1>2, <1>4, <2>1 DEF Reading, Named, Scan, Accept
  <2>3. \A s, r \in Slots : ~Untold(s, r) BY <2>1 DEF Untold
  <2> QED BY <1>0, <1>2, <2>1, <2>2, <2>3, CalmSilent
<1>5. CASE Publish
  <2>1. /\ UNCHANGED <<rpc, roster, my_id, chan, aslot, aconn, aidx>>
        /\ apc = "publish" /\ apc' = "assign" /\ aconn \in Conns
        /\ m_clients'[aslot] = aconn /\ player_connected'[aslot] = TRUE
        /\ \A s \in Slots : s # aslot =>
             m_clients'[s] = m_clients[s] /\ player_connected'[s] = player_connected[s]
    BY <1>0, <1>3, <1>5 DEF Publish, SlotInv, Taken, TypeOK
  <2>2. m_clients[aslot] = NoSock BY <1>0, <2>1 DEF SlotInv, AcceptIntoFreeSlot
  <2>3. Present(aslot)' /\ ~Present(aslot)
        /\ \A s \in Slots : s # aslot => (Present(s)' <=> Present(s))
    BY <2>1, <2>2, SockAssumption DEF Present
  <2>4. Reading' /\ Flagged' /\ Named'
    BY <1>2, <2>1, <2>3 DEF Reading, Flagged, Named
  <2>5. \A s \in Slots : Present(s) => Present(s)' BY <2>3
  <2>6. Joining' BY <1>2, <2>1, <2>5 DEF Calm, Joining
  <2>7. Rostered' BY <1>2, <2>1, <2>5 DEF Calm, Rostered
  <2>8. Known'
    <3> SUFFICES ASSUME NEW c \in Conns, my_id[c] # NoId PROVE \E s \in Slots : m_clients'[s] = c
      BY <2>1 DEF Known
    <3>1. PICK s \in Slots : m_clients[s] = c BY <1>2 DEF Calm, Known
    <3>2. s # aslot BY <2>2, <3>1, SockAssumption
    <3> QED BY <2>1, <3>1, <3>2
  <2>9. Spread'
    <3> SUFFICES ASSUME NEW s \in Slots, NEW r \in Slots, Present(s)', Present(r)'
                 PROVE  Untold(s, r)' \/ Heard(m_clients[s], r)'
      BY DEF Spread
    <3>1. CASE s = aslot BY <2>1, <3>1 DEF Untold
    <3>2. CASE r = aslot BY <2>1, <3>2 DEF Untold
    <3>3. CASE s # aslot /\ r # aslot
      <4>1. Present(s) /\ Present(r) /\ m_clients'[s] = m_clients[s] BY <2>1, <2>3, <3>3
      <4>2. ~Untold(s, r) BY <2>1 DEF Untold
      <4>3. Heard(m_clients[s], r) BY <1>2, <4>1, <4>2 DEF Calm, Spread
      <4> QED BY <2>1, <4>1, <4>3 DEF Heard
    <3> QED BY <3>1, <3>2, <3>3
  <2> QED BY <2>4, <2>6, <2>7, <2>8, <2>9 DEF Calm
<1>6. CASE AssignID
  <2>1. /\ UNCHANGED <<m_clients, player_connected, rpc, roster, my_id, aslot>>
        /\ apc = "assign" /\ apc' = "existing" /\ aidx' = 0
        /\ SendTo(m_clients[aslot], Notice("assign", aslot))
    BY <1>6 DEF AssignID
  <2>2. \A s, q \in Slots : Untold(s, q) => Untold(s, q)' \/ (s = aslot /\ q = aslot)
    BY <1>0, <2>1 DEF Untold
  <2>3. Present(aslot) /\ Named' BY <1>3, <2>1 DEF Seated, Named
  <2> QED BY <1>0, <1>1, <1>2, <1>3, <2>1, <2>2, <2>3, CalmSend
<1>7. CASE Existing
  <2>1. UNCHANGED <<m_clients, player_connected, rpc, roster, my_id, chan, aslot>>
        /\ apc = "existing"
    BY <1>7 DEF Existing
  <2>2. Reading' BY <1>2, <2>1 DEF Reading
  <2>3. CASE aidx = MAX_PLAYERS
    <3>1. apc' = "join" /\ aidx' = 0 BY <1>7, <2>3 DEF Existing
    <3>n. Named' BY <3>1 DEF Named
    <3>2. \A s, q \in Slots : Untold(s, q) => Untold(s, q)' BY <1>0, <2>1, <2>3, <3>1 DEF Untold
    <3> QED BY <1>0, <1>2, <2>1, <2>2, <3>1, <3>2, <3>n, CalmSilent
  <2>4. CASE aidx # MAX_PLAYERS /\ (aidx = aslot \/ ~player_connected[aidx])
    <3>1. apc' = "existing" /\ aidx' = aidx + 1 /\ aidx \in Slots BY <1>0, <1>3, <1>7, <2>4 DEF Existing
    <3>n. Named' BY <3>1 DEF Named
    <3>2. aidx # aslot => ~Present(aidx) BY <1>2, <2>4, <3>1 DEF Flagged
    <3>3. \A s, q \in Slots : Present(q) /\ Untold(s, q) => Untold(s, q)'
      <4> SUFFICES ASSUME NEW s \in Slots, NEW q \in Slots, Present(q), Untold(s, q)
                   PROVE  Untold(s, q)'
        OBVIOUS
      <4>1. CASE s = aslot /\ q # s /\ aidx <= q
        <5>1. q # aidx BY <3>2, <4>1
        <5> QED BY <1>0, <2>1, <3>1, <4>1, <5>1 DEF Untold
      <4>2. CASE q = aslot /\ q # s BY <2>1, <3>1, <4>2 DEF Untold
      <4> QED BY <2>1, <4>1, <4>2 DEF Untold
    <3> QED BY <1>0, <1>2, <2>1, <2>2, <3>1, <3>3, <3>n, CalmSilent
  <2>5. CASE aidx # MAX_PLAYERS /\ ~(aidx = aslot \/ ~player_connected[aidx])
    <3>1. apc' = "tell" /\ aidx' = aidx BY <1>7, <2>5 DEF Existing
    <3>n. Named'
      <4>1. player_connected[aidx] /\ aidx \in Slots BY <1>0, <1>3, <2>5
      <4>2. Present(aidx) BY <1>2, <4>1 DEF Flagged
      <4> QED BY <2>1, <3>1, <4>2 DEF Named, Present
    <3>2. \A s, q \in Slots : Untold(s, q) => Untold(s, q)' BY <2>1, <3>1 DEF Untold
    <3> QED BY <1>0, <1>2, <2>1, <2>2, <3>1, <3>2, <3>n, CalmSilent
  <2> QED BY <2>3, <2>4, <2>5
<1>8. CASE TellNewcomer
  <2>1. /\ UNCHANGED <<m_clients, player_connected, rpc, roster, my_id, aslot>>
        /\ apc = "tell" /\ apc' = "existing" /\ aidx' = aidx + 1
        /\ SendTo(m_clients[aslot], Notice("join", aidx))
    BY <1>8 DEF TellNewcomer
  <2>2. Present(aslot) /\ Present(aidx) /\ aidx \in Slots /\ Named'
    BY <1>2, <1>3, <2>1 DEF Seated, Named, Calm
  <2>3. \A s, q \in Slots : Untold(s, q) => Untold(s, q)' \/ (s = aslot /\ q = aidx)
    BY <1>0, <2>1, <2>2 DEF Untold
  <2> QED BY <1>0, <1>1, <1>2, <1>3, <2>1, <2>2, <2>3, CalmSend
<1>9. CASE Announce
  <2>1. /\ UNCHANGED <<m_clients, player_connected, rpc, roster, my_id, aslot>>
        /\ apc = "join" /\ apc' = "join" /\ aidx \in Slots /\ aidx' = aidx + 1
    BY <1>0, <1>3, <1>9 DEF Announce
  <2>2. Reading' /\ Named' /\ Present(aslot)
    BY <1>2, <1>3, <2>1 DEF Reading, Named, Seated
  <2>3. CASE Announced(aidx)
    <3>1. SendTo(m_clients[aidx], Notice("join", aslot)) BY <1>9, <2>3 DEF Announce
    <3>2. Present(aidx) BY <1>2, <2>1, <2>3 DEF Announced, Flagged
    <3>3. \A s, q \in Slots : Untold(s, q) => Untold(s, q)' \/ (s = aidx /\ q = aslot)
      BY <1>0, <2>1 DEF Untold
    <3> QED BY <1>0, <1>1, <1>2, <1>3, <2>1, <2>2, <3>1, <3>2, <3>3, CalmSend
  <2>4. CASE ~Announced(aidx)
    <3>1. UNCHANGED chan BY <1>9, <2>4 DEF Announce
    <3>2. aidx # aslot => ~Present(aidx) BY <1>2, <2>1, <2>4 DEF Announced, Flagged
    <3>3. \A s, q \in Slots : Present(s) /\ Untold(s, q) => Untold(s, q)'
      <4> SUFFICES ASSUME NEW s \in Slots, NEW q \in Slots, Present(s), Untold(s, q)
                   PROVE  Untold(s, q)'
        OBVIOUS
      <4>1. q = aslot /\ q # s /\ aidx <= s BY <2>1 DEF Untold
      <4>2. s # aidx BY <3>2, <4>1
      <4> QED BY <1>0, <2>1, <4>1, <4>2 DEF Untold
    <3> QED BY <1>0, <1>2, <2>1, <2>2, <3>1, <3>3, CalmSilent
  <2> QED BY <2>3, <2>4
<1>10. CASE Spawn
  <2>1. /\ UNCHANGED <<m_clients, player_connected, roster, my_id, chan>>
        /\ apc = "join" /\ apc' = "scan" /\ aidx = MAX_PLAYERS
        /\ rpc' = [rpc EXCEPT ![aconn] = "recv"]
    BY <1>10 DEF Spawn
  <2>2. Reading' BY <1>0, <1>2, <2>1 DEF Reading, TypeOK
  <2>3. Named' BY <2>1 DEF Named
  <2>4. \A s, q \in Slots : ~Untold(s, q) BY <1>0, <2>1 DEF Untold
  <2> QED BY <1>0, <1>2, <2>1, <2>2, <2>3, <2>4, CalmSilent
<1>11. ASSUME NEW c \in Conns, RecvThread(c) PROVE FALSE
  <2>1. rpc[c] \in {"none", "recv"} BY <1>2 DEF Reading
  <2>2. ~ReleaseSlot(c) /\ ~LowerFlag(c) /\ ~NotifyLeft(c)
    BY <2>1 DEF ReleaseSlot, LowerFlag, NotifyLeft
  <2>3. ~RecvGone(c)
    <3> SUFFICES ASSUME RecvGone(c) PROVE FALSE OBVIOUS
    <3>1. m_clients[rslot[c]] \in Conns /\ cst[m_clients[rslot[c]]] = "closed"
      BY <1>0 DEF RecvGone, TypeOK
    <3> QED BY <1>1, <3>1 DEF NoneLeft
  <2> QED BY <1>11, <2>2, <2>3 DEF RecvThread
<1>12. ASSUME NEW c \in Conns, Connect(c) PROVE Calm'
  <2>1. UNCHANGED <<m_clients, player_connected, rpc, roster, my_id, chan, apc, aslot, aidx>>
    BY <1>12 DEF Connect
  <2>2. Reading' /\ Named' BY <1>2, <2>1 DEF Reading, Calm, Named, Present
  <2>3. \A s, q \in Slots : Untold(s, q) => Untold(s, q)' BY <2>1 DEF Untold
  <2> QED BY <1>0, <1>2, <2>1, <2>2, <2>3, CalmSilent
<1>13. ASSUME NEW c \in Conns, Close(c) PROVE FALSE
  <2>1. cst'[c] = "closed" BY <1>0, <1>13 DEF Close, TypeOK
  <2> QED BY <2>1 DEF NoneLeft
<1>14. ASSUME NEW c \in Conns, Deliver(c) PROVE Calm'
  <2> DEFINE m == Head(chan[c])
  <2>1. /\ UNCHANGED <<m_clients, player_connected, rpc, apc, aslot, aidx>>
        /\ chan[c] # <<>> /\ chan[c] \in Seq(Packets)
        /\ chan'[c] = Tail(chan[c]) /\ \A d \in Conns : d # c => chan'[d] = chan[d]
    BY <1>0, <1>14 DEF Deliver, TypeOK
  <2>2. \A k \in 1 .. Len(chan'[c]) :
           k + 1 \in 1 .. Len(chan[c]) /\ chan'[c][k] = chan[c][k + 1]
    BY <2>1
  <2>3. 1 \in 1 .. Len(chan[c]) /\ m = chan[c][1] BY <2>1
  <2>4. m.type \in {"assign", "join"} /\ m.id \in Slots /\ Present(m.id)
    BY <1>2, <2>3 DEF Calm, Joining
  <2> HIDE DEF m
  <2>5. /\ roster'[c] = [roster[c] EXCEPT ![m.id] = TRUE]
        /\ \A d \in Conns : d # c => roster'[d] = roster[d] /\ my_id'[d] = my_id[d]
    BY <1>0, <1>14, <2>4 DEF Deliver, RosterAfter, TypeOK, m
  <2>6. roster[c] \in [Slots -> BOOLEAN] BY <1>0 DEF TypeOK
  <2>7. roster'[c][m.id] = TRUE /\ \A r \in Slots : r # m.id => roster'[c][r] = roster[c][r]
    BY <2>4, <2>5, <2>6
  <2>8. Reading' /\ Flagged' /\ Named' BY <1>2, <2>1 DEF Calm, Reading, Flagged, Named, Present
  <2>9. \A s \in Slots : Present(s)' <=> Present(s) BY <2>1 DEF Present
  <2>10. Joining'
    <3> SUFFICES ASSUME NEW d \in Conns, NEW k \in 1 .. Len(chan'[d])
                 PROVE  /\ chan'[d][k].type \in {"assign", "join"}
                        /\ chan'[d][k].id \in Slots /\ Present(chan'[d][k].id)
      BY <2>1 DEF Joining, Present
    <3>1. CASE d = c BY <1>2, <2>2, <3>1 DEF Calm, Joining
    <3>2. CASE d # c BY <1>2, <2>1, <3>2 DEF Calm, Joining
    <3> QED BY <3>1, <3>2
  <2>11. Rostered'
    <3> SUFFICES ASSUME NEW d \in Conns, NEW r \in Slots, roster'[d][r] PROVE Present(r)
      BY <2>9 DEF Rostered
    <3>1. CASE d = c /\ r = m.id BY <2>4, <3>1
    <3>2. CASE d = c /\ r # m.id BY <1>2, <2>7, <3>2 DEF Calm, Rostered
    <3>3. CASE d # c BY <1>2, <2>5, <3>3 DEF Calm, Rostered
    <3> QED BY <3>1, <3>2, <3>3
  <2>12. \A d \in Conns, r \in Slots : Heard(d, r) => Heard(d, r)'
    <3> SUFFICES ASSUME NEW d \in Conns, NEW r \in Slots, Heard(d, r) PROVE Heard(d, r)' OBVIOUS
    <3>1. CASE d # c
      <4>1. roster'[d] = roster[d] /\ chan'[d] = chan[d] BY <2>1, <2>5, <3>1
      <4> QED BY <4>1 DEF Heard
    <3>2. CASE d = c /\ roster[c][r]
      <4>1. roster'[c][r] BY <2>7, <3>2
      <4> QED BY <3>2, <4>1 DEF Heard
    <3>3. ASSUME d = c, NEW k \in 1 .. Len(chan[c]), chan[c][k].id = r PROVE Heard(d, r)'
      <4>1. CASE k = 1
        <5>1. roster'[c][r] BY <2>3, <2>7, <3>3, <4>1
        <5> QED BY <3>3, <5>1 DEF Heard
      <4>2. CASE k # 1
        <5>1. k - 1 \in 1 .. Len(chan'[c]) /\ (k - 1) + 1 = k BY <2>1, <4>2
        <5>2. chan'[c][k - 1].id = r BY <2>2, <3>3, <5>1
        <5> QED BY <3>3, <5>1, <5>2 DEF Heard
      <4> QED BY <4>1, <4>2
    <3> QED BY <3>1, <3>2, <3>3 DEF Heard
  <2>13. Spread'
    <3> SUFFICES ASSUME NEW s \in Slots, NEW r \in Slots, Present(s), Present(r)
                 PROVE  Untold(s, r)' \/ Heard(m_clients[s], r)'
      BY <2>9 DEF Spread
    <3>1. Untold(s, r) \/ Heard(m_clients[s], r) BY <1>2 DEF Calm, Spread
    <3>2. m_clients[s] \in Conns /\ m_clients'[s] = m_clients[s]
      BY <1>0, <2>1 DEF TypeOK, Present
    <3>3. Untold(s, r) => Untold(s, r)' BY <2>1 DEF Untold
    <3>4. CASE Heard(m_clients[s], r)
      <4>1. \A d \in Conns : d = m_clients[s] => Heard(d, r)' BY <2>12, <3>4
      <4> QED BY <3>2, <4>1 DEF Heard
    <3> QED BY <3>1, <3>3, <3>4
  <2>14. Known'
    <3> SUFFICES ASSUME NEW d \in Conns, my_id'[d] # NoId PROVE \E s \in Slots : m_clients[s] = d
      BY <2>1 DEF Known
    <3>1. CASE d # c BY <1>2, <2>5, <3>1 DEF Calm, Known
    <3>2. CASE d = c
      <4>1. rpc[c] # "none" \/ \E s \in Slots : m_clients[s] = c
        BY <2>1 DEF ToldInv, FreshChannel
      <4>2. CASE rpc[c] # "none"
        <5>1. rpc[c] = "recv" BY <1>2, <4>2 DEF Reading
        <5>2. m_clients[rslot[c]] = c /\ rslot[c] \in Slots
          BY <1>0, <5>1 DEF SlotInv, ReaderOwnsSocket, TypeOK
        <5> QED BY <3>2, <5>2
      <4> QED BY <3>2, <4>1, <4>2
    <3> QED BY <3>1, <3>2
  <2> QED BY <2>8, <2>10, <2>11, <2>13, <2>14 DEF Calm
<1>15. CASE UNCHANGED vars
  <2>1. UNCHANGED <<m_clients, player_connected, rpc, roster, my_id, chan, apc, aslot, aidx>>
    BY <1>15 DEF vars
  <2>2. Reading' /\ Named' BY <1>2, <2>1 DEF Reading, Calm, Named, Present
  <2>3. \A s, q \in Slots : Untold(s, q) => Untold(s, q)' BY <2>1 DEF Untold
  <2> QED BY <1>0, <1>2, <2>1, <2>2, <2>3, CalmSilent
<1> QED
  BY <1>4, <1>5, <1>6, <1>7, <1>8, <1>9, <1>10, <1>11, <1>12, <1>13, <1>14, <1>15
  DEF LobbyNext, AcceptThread

\* In a lobby that nobody has left, for every number of slots and of clients
\* and every interleaving of their arrivals: once all notices are handled, every
\* client that has its id sees exactly the clients that are connected.
THEOREM LobbyRostersAddUp == FairLobby => []LobbyRosterExact
<1>1. LobbySpec => []ToldInv
  <2>1. Init => ToldInv
    BY InitSlotInv DEF Init, ToldInv, FreshChannel, NeverToldOfItself
  <2>2. [LobbyNext]_vars => [Next]_vars BY DEF Next
  <2> QED BY <2>1, <2>2, ToldStep, PTL DEF LobbySpec
<1>2. Init => CalmInv
  <2> SUFFICES ASSUME Init PROVE Calm BY DEF CalmInv
  <2>1. Reading /\ Named /\ Known /\ Rostered BY DEF Init, Reading, Named, Known, Rostered
  <2>2. \A s \in Slots : m_clients[s] = NoSock /\ player_connected[s] = FALSE BY DEF Init
  <2>3. Flagged /\ Spread BY <2>2 DEF Flagged, Spread, Present
  <2>4. \A c \in Conns : chan[c] = <<>> BY DEF Init
  <2>5. Joining BY <2>4 DEF Joining
  <2> QED BY <2>1, <2>3, <2>5 DEF Calm
<1>3. ToldInv /\ CalmInv => LobbyRosterExact
  <2> SUFFICES ASSUME ToldInv, CalmInv, Settled, NoneLeft,
                      NEW c \in Conns, my_id[c] # NoId, NEW r \in Slots
               PROVE  roster[c][r] = Present(r)
    BY DEF LobbyRosterExact, RosterExact, NoneLeft
  <2>1. Calm BY DEF CalmInv
  <2>2. PICK s \in Slots : m_clients[s] = c BY <2>1 DEF Calm, Known
  <2>3. Present(s) BY <2>2, SockAssumption DEF Present
  <2>4. ~Untold(s, r) BY DEF Settled, Untold
  <2>5. Heard(c, r) => roster[c][r]
    <3>1. chan[c] = <<>> BY DEF Settled
    <3> QED BY <3>1 DEF Heard
  <2>6. Present(r) => roster[c][r] BY <2>1, <2>2, <2>3, <2>4, <2>5 DEF Calm, Spread
  <2>7. roster[c][r] => Present(r) BY <2>1 DEF Calm, Rostered
  <2>8. roster[c][r] \in BOOLEAN /\ Present(r) \in BOOLEAN
    BY DEF ToldInv, SlotInv, TypeOK, Present
  <2> QED BY <2>6, <2>7, <2>8
<1>4. Init /\ [][LobbyNext]_vars /\ []ToldInv => []CalmInv BY <1>2, CalmStep, PTL
<1> QED BY <1>1, <1>3, <1>4, PTL DEF FairLobby, LobbySpec
==============================================================================
