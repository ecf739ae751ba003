---------------------------- MODULE StreamFraming ----------------------------
(***************************************************************************)
(* How a client cuts packets out of its TCP stream: ClientSystem's Connect *)
(* and StartRecvThread, the loop of ClientRecvThread, DoRecv with          *)
(* m_streamBuf and m_streamLen, and Disconnect on either thread.           *)
(*                                                                         *)
(* A byte is its place in the stream, so a copy in the wrong place, a      *)
(* forgotten one or a header read off a boundary shows: m_streamBuf maps   *)
(* each of its first m_streamLen indices to the byte it holds, a header    *)
(* that is not the head of a packet may say any 16 bit size, and a piece   *)
(* handed to ProcessPacket that is not exactly one packet is Mangled.      *)
(* recv() returns any number of the bytes under way, up to RecvMax.        *)
(*                                                                         *)
(* The connect button works once: it is disabled by a success, and a lost  *)
(* server ends the program (WM_USER_SERVER_DISCONNECTED), so the buffer    *)
(* serves a single connection and starts empty, `client` being a zeroed    *)
(* global.  The server writes each packet with one send().                 *)
(***************************************************************************)
EXTENDS Integers, Sequences

CONSTANTS Sizes,          \* what sizeof may say of the server's packets
          HeaderLen,      \* sizeof(BasePacket)
          RecvMax,        \* sizeof buf in DoRecv
          RECV_STREAM_BUFFER_SIZE,
          MaxU16,         \* the largest size a header can hold
          MaxPackets      \* bound on the packets sent

ASSUME HeaderAssumption == HeaderLen \in Nat \ {0}
ASSUME RecvAssumption == RecvMax \in Nat \ {0}
ASSUME BufferAssumption == RECV_STREAM_BUFFER_SIZE \in Nat
ASSUME MaxAssumption == MaxU16 \in Nat /\ MaxPackets \in Nat
\* Every packet has a header, its size fits the header's 16 bits, and all
\* but its last byte fit the buffer together with one more read.
ASSUME SizesAssumption ==
  \A s \in Sizes : /\ s \in HeaderLen .. MaxU16
                   /\ s - 1 + RecvMax <= RECV_STREAM_BUFFER_SIZE

VARIABLES
  sent, tail,               \* packets sent; bytes sent
  link,                     \* "none", "up", "fin" (closed) or "reset"
  sock, left,               \* socket valid; the user has left
  rpc,                      \* the recv thread
  got,                      \* bytes recv() has taken off the connection
  m_streamBuf, m_streamLen, offset,
  handled,                  \* what ProcessPacket was given
  notified                  \* WM_USER_SERVER_DISCONNECTED posted

server == <<sent, tail, link>>
buffer == <<m_streamBuf, m_streamLen, offset>>
vars == <<sent, tail, link, sock, left, rpc, got, m_streamBuf, m_streamLen,
          offset, handled, notified>>

Mangled == [at |-> 0, size |-> 0]
Empty == [i \in {} |-> 0]

Init ==
  /\ sent = << >> /\ tail = 0 /\ link = "none"
  /\ sock = FALSE /\ left = FALSE
  /\ rpc = "off" /\ got = 0
  /\ m_streamBuf = Empty /\ m_streamLen = 0 /\ offset = 0
  /\ handled = << >> /\ notified = FALSE

-----------------------------------------------------------------------------
(* The server and the network.                                             *)

Send(s) ==
  /\ link = "up" /\ Len(sent) < MaxPackets
  /\ sent' = Append(sent, [at |-> tail, size |-> s])
  /\ tail' = tail + s
  /\ UNCHANGED <<link, sock, left, rpc, got, buffer, handled, notified>>

\* closesocket on the server: what was sent still arrives.
ServerCloses ==
  /\ link = "up" /\ link' = "fin"
  /\ UNCHANGED <<sent, tail, sock, left, rpc, got, buffer, handled, notified>>

\* The connection breaks: what is under way is lost.
Reset ==
  /\ link \in {"up", "fin"} /\ link' = "reset"
  /\ UNCHANGED <<sent, tail, sock, left, rpc, got, buffer, handled, notified>>

-----------------------------------------------------------------------------
(* The GUI thread.                                                         *)

Connect ==
  /\ link = "none"
  /\ link' = "up" /\ sock' = TRUE
  /\ UNCHANGED <<sent, tail, left, rpc, got, buffer, handled, notified>>

\* A message box stands between Connect and this.
StartRecvThread ==
  /\ sock /\ rpc = "off"
  /\ rpc' = "while"
  /\ UNCHANGED <<server, sock, left, got, buffer, handled, notified>>

\* Closing a window or cancelling calls Disconnect, at any moment.
Leave ==
  /\ rpc # "off" /\ ~left
  /\ left' = TRUE /\ sock' = FALSE
  /\ UNCHANGED <<server, rpc, got, buffer, handled, notified>>

-----------------------------------------------------------------------------
(* The recv thread.                                                        *)

\* The condition of the while loop.
LoopTest ==
  /\ rpc = "while"
  /\ rpc' = IF sock THEN "recv" ELSE "ended"
  /\ UNCHANGED <<server, sock, left, got, buffer, handled, notified>>

\* mutant: the return value 0 is not looked at
RecvFailsOnError ==
  /\ rpc = "recv" /\ (~sock \/ link = "reset")
  /\ notified' = TRUE /\ sock' = FALSE /\ rpc' = "ended"
  /\ UNCHANGED <<server, left, got, buffer, handled>>

\* recv() fails, or says that the server has closed and all is read.
RecvFails ==
  /\ rpc = "recv"
  /\ ~sock \/ link = "reset" \/ (link = "fin" /\ got = tail)
  /\ notified' = TRUE /\ sock' = FALSE /\ rpc' = "ended"
  /\ UNCHANGED <<server, left, got, buffer, handled>>

OverflowsEarly(n) == m_streamLen + n >= RECV_STREAM_BUFFER_SIZE  \* mutant
Overflows(n) == m_streamLen + n > RECV_STREAM_BUFFER_SIZE

\* memcpy of n new bytes behind the ones that wait.
Appended(n) ==
  [i \in 0 .. m_streamLen + n - 1 |->
     IF i < m_streamLen THEN m_streamBuf[i] ELSE got + (i - m_streamLen)]

\* The buffer is emptied and the thread ends; the GUI is not told.
Dropped ==
  /\ m_streamBuf' = Empty /\ m_streamLen' = 0
  /\ rpc' = "ended" /\ UNCHANGED offset

Stored(n) ==
  /\ m_streamBuf' = Appended(n) /\ m_streamLen' = m_streamLen + n
  /\ offset' = 0 /\ rpc' = "cut"

Recv(n) ==
  /\ rpc = "recv" /\ sock /\ link \in {"up", "fin"}
  /\ got + n <= tail
  /\ got' = got + n
  /\ IF Overflows(n) THEN Dropped ELSE Stored(n)
  /\ UNCHANGED <<server, sock, left, handled, notified>>

\* The n bytes of m_streamBuf from index o on are the stream's from p on.
Bytes(o, n, p) ==
  \A i \in 0 .. n - 1 : o + i < m_streamLen /\ m_streamBuf[o + i] = p + i

\* The sizes the header at index o may show.
HeaderAt(o) ==
  IF \E k \in DOMAIN sent : Bytes(o, HeaderLen, sent[k].at)
  THEN {sent[k].size : k \in {j \in DOMAIN sent : Bytes(o, HeaderLen, sent[j].at)}}
  ELSE 0 .. MaxU16

\* What ProcessPacket is given for the n bytes at index o.
Piece(o, n) ==
  IF \E k \in DOMAIN sent : sent[k].size = n /\ Bytes(o, n, sent[k].at)
  THEN CHOOSE p \in {sent[k] : k \in DOMAIN sent} : p.size = n /\ Bytes(o, n, p.at)
  ELSE Mangled

MoreThanHeader == m_streamLen - offset > HeaderLen      \* mutant
HeaderThere == m_streamLen - offset >= HeaderLen
MoreThanComplete(h) == m_streamLen - offset > h         \* mutant
NeverWaits(h) == h > 0                                  \* mutant
Complete(h) == m_streamLen - offset >= h
Acceptable(h) == h # 0 /\ h <= RECV_STREAM_BUFFER_SIZE

\* mutant: the rest stays where it is
NotMoved == [i \in 0 .. m_streamLen - offset - 1 |-> m_streamBuf[i]]

\* memmove of what is left to the front of the buffer.
Moved == [i \in 0 .. m_streamLen - offset - 1 |-> m_streamBuf[offset + i]]

KeepRest ==
  /\ m_streamBuf' = Moved /\ m_streamLen' = m_streamLen - offset
  /\ offset' = 0 /\ rpc' = "while"

\* The rest is too short for a header.
CutNoHeader ==
  /\ rpc = "cut" /\ ~HeaderThere
  /\ KeepRest
  /\ UNCHANGED <<server, sock, left, got, handled, notified>>

\* A header that says h: nonsense, not all there yet, or a packet that is
\* handed to ProcessPacket.
Cut(h) ==
  /\ rpc = "cut" /\ HeaderThere
  /\ CASE ~Acceptable(h) -> Dropped /\ UNCHANGED handled
       [] Acceptable(h) /\ ~Complete(h) -> KeepRest /\ UNCHANGED handled
       [] Acceptable(h) /\ Complete(h) ->
            /\ handled' = Append(handled, Piece(offset, h))
            /\ offset' = offset + h
            /\ UNCHANGED <<rpc, m_streamBuf, m_streamLen>>
  /\ UNCHANGED <<server, sock, left, got, notified>>

-----------------------------------------------------------------------------
ServerNext == (\E s \in Sizes : Send(s)) \/ ServerCloses \/ Reset
GuiNext == Connect \/ StartRecvThread \/ Leave
ThreadNext ==
  \/ LoopTest
  \/ RecvFails
  \/ \E n \in 1 .. RecvMax : Recv(n)
  \/ \E h \in HeaderAt(offset) : Cut(h)
  \/ CutNoHeader

Next == ServerNext \/ GuiNext \/ ThreadNext
Spec == Init /\ [][Next]_vars
\* The recv thread is scheduled and recv() returns once bytes have arrived.
FairSpec == Spec /\ WF_vars(ThreadNext)

-----------------------------------------------------------------------------
(* Properties.                                                             *)

PacketsOf == [at : Nat, size : Sizes]

TypeOK ==
  /\ sent \in Seq(PacketsOf) /\ tail \in Nat /\ got \in 0 .. tail
  /\ link \in {"none", "up", "fin", "reset"}
  /\ sock \in BOOLEAN /\ left \in BOOLEAN /\ notified \in BOOLEAN
  /\ rpc \in {"off", "while", "recv", "cut", "ended"}
  /\ m_streamLen \in 0 .. RECV_STREAM_BUFFER_SIZE /\ offset \in 0 .. m_streamLen
  /\ m_streamBuf \in [0 .. m_streamLen - 1 -> Nat]
  /\ handled \in Seq(PacketsOf)

\* However recv() cuts the stream, the packets handed to ProcessPacket are
\* the packets sent, whole and in order: DoRecv implements the queue.
Queue == INSTANCE PacketQueue
ImplementsQueue == Queue!Spec

\* DoRecv never ends the thread behind the GUI's back: an overflow or a bad
\* size would leave the socket open, the program "connected", and nobody
\* reading (ClientSystem.cpp:101-138).
NoSilentEnd == rpc = "ended" => ~sock

\* When the loss of a server that closed in good order is announced, all it
\* ever sent has been handled: no packet is left behind in m_streamBuf.
AllBeforeFarewell ==
  notified /\ link = "fin" /\ ~left => Len(handled) = Len(sent)

\* A packet never waits in the buffer for the next one: on a connection
\* that lives, every packet sent is handled in the end.
AllHandled ==
  \A k \in 1 .. MaxPackets :
    Len(sent) >= k /\ rpc # "off" ~> Len(handled) >= k \/ left \/ link = "reset"

\* A user whose server is gone is told, unless the user has left.
LossNoticed == link \in {"fin", "reset"} /\ rpc # "off" ~> notified \/ left
==============================================================================
