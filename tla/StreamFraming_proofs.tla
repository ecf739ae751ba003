------------------------- MODULE StreamFraming_proofs -------------------------
(***************************************************************************)
(* DoRecv, proved for every set of packet sizes, read size and buffer that *)
(* meet the assumptions of StreamFraming, and for any number of packets.   *)
(* The inductive invariant says which byte every index of m_streamBuf      *)
(* holds, that index offset is always the head of the first packet not     *)
(* yet handled, and that between two reads less than that packet waits.    *)
(***************************************************************************)
EXTENDS StreamFraming, TLAPS

\* Where the first k packets end.
Boundary(k) == IF k = 0 THEN 0 ELSE sent[k].at + sent[k].size

\* The packets lie one behind the other in the stream.
Laid ==
  /\ \A k \in 1 .. Len(sent) : sent[k].at = Boundary(k - 1) /\ Boundary(k) <= tail
  /\ \A j, k \in 1 .. Len(sent) : j < k => Boundary(j) <= sent[k].at
  /\ tail = Boundary(Len(sent))

\* The buffer holds the last m_streamLen bytes read, in order.
Held ==
  /\ m_streamLen <= got
  /\ \A i \in 0 .. m_streamLen - 1 : m_streamBuf[i] = got - m_streamLen + i

\* What has been handled, and where the next packet begins.
Cutting ==
  /\ Len(handled) <= Len(sent)
  /\ \A k \in 1 .. Len(handled) : handled[k] = sent[k]
  /\ got - m_streamLen + offset = Boundary(Len(handled))

\* Between two rounds of cutting the buffer holds less than one packet.
Waiting ==
  rpc # "cut" =>
    /\ offset = 0
    /\ m_streamLen > 0 => /\ Len(handled) < Len(sent)
                          /\ m_streamLen < sent[Len(handled) + 1].size

\* The thread loses its socket only to a user who leaves, and only a lost
\* connection is announced.
Causes ==
  /\ ~sock /\ rpc \in {"while", "recv", "cut"} => left
  /\ notified => rpc = "ended"
  /\ notified /\ ~left => link \in {"fin", "reset"}
  /\ link = "none" => rpc = "off" /\ ~sock /\ sent = << >>

FInv ==
  /\ TypeOK /\ Laid /\ Held /\ Cutting /\ Waiting /\ Causes
  /\ NoSilentEnd /\ AllBeforeFarewell

-----------------------------------------------------------------------------
\* A packet has at least one byte, and one more read always fits.
LEMMA SizeFacts ==
  ASSUME NEW s \in Sizes
  PROVE  s \in Nat /\ HeaderLen <= s /\ 0 < s /\ s <= MaxU16
         /\ s - 1 + RecvMax <= RECV_STREAM_BUFFER_SIZE /\ s <= RECV_STREAM_BUFFER_SIZE
BY SizesAssumption, HeaderAssumption, RecvAssumption, BufferAssumption, MaxAssumption

LEMMA SentTyped ==
  ASSUME FInv, NEW k \in DOMAIN sent
  PROVE  sent[k].at \in Nat /\ sent[k].size \in Sizes
<1>1. sent[k] \in PacketsOf
  BY DEF FInv, TypeOK
<1> QED BY <1>1 DEF PacketsOf

\* When bytes wait behind offset, or can be read, a packet is still to come.
LEMMA MoreToCome ==
  ASSUME FInv, got - m_streamLen + offset < tail
  PROVE  /\ Len(handled) + 1 \in 1 .. Len(sent)
         /\ sent[Len(handled) + 1].size \in Sizes
         /\ sent[Len(handled) + 1].at = Boundary(Len(handled))
<1>1. Len(handled) \in Nat /\ Len(sent) \in Nat
  BY DEF FInv, TypeOK
<1>2. Len(handled) # Len(sent)
  <2> SUFFICES ASSUME Len(handled) = Len(sent) PROVE FALSE OBVIOUS
  <2>1. got - m_streamLen + offset = tail
    BY DEF FInv, Cutting, Laid
  <2>2. tail \in Nat
    BY DEF FInv, TypeOK
  <2> QED BY <2>1, <2>2
<1>3. Len(handled) + 1 \in 1 .. Len(sent)
  BY <1>1, <1>2 DEF FInv, Cutting
<1>4. sent[Len(handled) + 1] \in PacketsOf
  BY <1>3 DEF FInv, TypeOK
<1>5. (Len(handled) + 1) - 1 = Len(handled)
  BY <1>1
<1> QED
  BY <1>3, <1>4, <1>5 DEF FInv, Laid, PacketsOf

\* A packet is known by its place.
LEMMA PlaceIsUnique ==
  ASSUME FInv, NEW j \in DOMAIN sent, NEW k \in DOMAIN sent, sent[j].at = sent[k].at
  PROVE  j = k
<1>1. DOMAIN sent = 1 .. Len(sent) /\ Len(sent) \in Nat
  BY DEF FInv, TypeOK
<1>2. sent[j] \in PacketsOf /\ sent[k] \in PacketsOf
  BY DEF FInv, TypeOK
<1>3. sent[j].at \in Nat /\ sent[j].size > 0 /\ sent[k].size > 0
      /\ sent[j].size \in Nat /\ sent[k].size \in Nat
  BY <1>2, SizeFacts DEF PacketsOf
<1>4. Boundary(j) = sent[j].at + sent[j].size /\ Boundary(k) = sent[k].at + sent[k].size
  BY <1>1 DEF Boundary
<1>5. ~(j < k) /\ ~(k < j)
  BY <1>1, <1>3, <1>4 DEF FInv, Laid
<1> QED
  BY <1>1, <1>5

\* n bytes at offset are the stream's from p on only if p is the boundary.
LEMMA BytesAtOffset ==
  ASSUME FInv, NEW n \in Nat, n > 0, n <= m_streamLen - offset, NEW p \in Nat
  PROVE  Bytes(offset, n, p) <=> p = Boundary(Len(handled))
<1>1. m_streamLen \in Nat /\ offset \in Nat /\ got \in Nat /\ tail \in Nat
  BY DEF FInv, TypeOK
<1>2. \A i \in 0 .. n - 1 :
        /\ offset + i < m_streamLen
        /\ m_streamBuf[offset + i] = got - m_streamLen + (offset + i)
  BY <1>1 DEF FInv, Held
<1>3. got - m_streamLen + offset = Boundary(Len(handled))
  BY DEF FInv, Cutting
<1>4. 0 \in 0 .. n - 1
  OBVIOUS
<1>5. ASSUME Bytes(offset, n, p) PROVE p = Boundary(Len(handled))
  <2>1. m_streamBuf[offset + 0] = p + 0
    BY <1>4, <1>5 DEF Bytes
  <2>2. m_streamBuf[offset + 0] = got - m_streamLen + (offset + 0)
    BY <1>2, <1>4
  <2> QED BY <1>1, <1>3, <2>1, <2>2
<1>6. ASSUME p = Boundary(Len(handled)) PROVE Bytes(offset, n, p)
  <2> SUFFICES ASSUME NEW i \in 0 .. n - 1
               PROVE  offset + i < m_streamLen /\ m_streamBuf[offset + i] = p + i
    BY DEF Bytes
  <2>1. offset + i < m_streamLen /\ m_streamBuf[offset + i] = got - m_streamLen + (offset + i)
    BY <1>2
  <2>2. i \in Nat OBVIOUS
  <2> QED BY <1>1, <1>3, <1>6, <2>1, <2>2
<1> QED
  BY <1>5, <1>6

\* The header at offset is the header of the next packet.
LEMMA HeaderIsNext ==
  ASSUME FInv, rpc = "cut", HeaderThere
  PROVE  /\ Len(handled) + 1 \in 1 .. Len(sent)
         /\ sent[Len(handled) + 1].size \in Sizes
         /\ sent[Len(handled) + 1].at = Boundary(Len(handled))
         /\ HeaderAt(offset) = {sent[Len(handled) + 1].size}
<1> DEFINE nx == Len(handled) + 1
<1>1. m_streamLen \in Nat /\ offset \in Nat /\ got \in Nat /\ tail \in Nat /\ got <= tail
  BY DEF FInv, TypeOK
<1>2. HeaderLen \in Nat /\ HeaderLen > 0 /\ HeaderLen <= m_streamLen - offset
  BY <1>1, HeaderAssumption DEF HeaderThere
<1>3. got - m_streamLen + offset < tail
  BY <1>1, <1>2
<1>4. nx \in 1 .. Len(sent) /\ sent[nx].size \in Sizes /\ sent[nx].at = Boundary(Len(handled))
  BY <1>3, MoreToCome
<1>5. DOMAIN sent = 1 .. Len(sent)
  BY DEF FInv, TypeOK
<1>6. \A k \in DOMAIN sent : sent[k].at \in Nat
  BY SentTyped
<1>7. \A k \in DOMAIN sent :
        Bytes(offset, HeaderLen, sent[k].at) <=> sent[k].at = Boundary(Len(handled))
  BY <1>2, <1>6, BytesAtOffset
<1>8. \A k \in DOMAIN sent : Bytes(offset, HeaderLen, sent[k].at) <=> k = nx
  BY <1>4, <1>5, <1>7, PlaceIsUnique
<1>9. {j \in DOMAIN sent : Bytes(offset, HeaderLen, sent[j].at)} = {nx}
  BY <1>4, <1>5, <1>8
<1>10. HeaderAt(offset) = {sent[k].size : k \in {nx}}
  BY <1>4, <1>5, <1>8, <1>9 DEF HeaderAt
<1> QED
  BY <1>4, <1>10

\* A complete packet at offset is handed on as it was sent.
LEMMA PieceIsNext ==
  ASSUME FInv, rpc = "cut", HeaderThere, NEW h \in HeaderAt(offset), Complete(h)
  PROVE  Piece(offset, h) = sent[Len(handled) + 1]
<1> DEFINE nx == Len(handled) + 1
<1>1. /\ nx \in 1 .. Len(sent) /\ sent[nx].size \in Sizes
      /\ sent[nx].at = Boundary(Len(handled)) /\ h = sent[nx].size
  BY HeaderIsNext
<1>2. h \in Nat /\ h > 0 /\ h <= m_streamLen - offset
  BY <1>1, SizeFacts DEF Complete, FInv, TypeOK
<1>3. DOMAIN sent = 1 .. Len(sent)
  BY DEF FInv, TypeOK
<1>4. \A k \in DOMAIN sent : sent[k].at \in Nat
  BY SentTyped
<1>5. \A k \in DOMAIN sent : Bytes(offset, h, sent[k].at) <=> sent[k].at = Boundary(Len(handled))
  BY <1>2, <1>4, BytesAtOffset
<1>6. \A k \in DOMAIN sent : Bytes(offset, h, sent[k].at) <=> k = nx
  BY <1>1, <1>3, <1>5, PlaceIsUnique
<1>7. \A p \in {sent[k] : k \in DOMAIN sent} :
        (p.size = h /\ Bytes(offset, h, p.at)) <=> p = sent[nx]
  BY <1>1, <1>3, <1>6
<1>8. sent[nx] \in {sent[k] : k \in DOMAIN sent}
  BY <1>1, <1>3
<1>9. Piece(offset, h) = CHOOSE p \in {sent[k] : k \in DOMAIN sent} : p.size = h /\ Bytes(offset, h, p.at)
  BY <1>1, <1>3, <1>6 DEF Piece
<1> QED
  BY <1>7, <1>8, <1>9

\* recv() never overflows the buffer.
LEMMA NoOverflow ==
  ASSUME FInv, rpc = "recv", NEW n \in 1 .. RecvMax, got + n <= tail
  PROVE  ~Overflows(n)
<1>1. m_streamLen \in Nat /\ got \in Nat /\ tail \in Nat /\ n \in Nat /\ n <= RecvMax
      /\ RecvMax \in Nat /\ RECV_STREAM_BUFFER_SIZE \in Nat /\ offset = 0 /\ n >= 1
  BY RecvAssumption, BufferAssumption DEF FInv, TypeOK, Waiting
<1>2. got - m_streamLen + offset < tail
  BY <1>1
<1>3. sent[Len(handled) + 1].size \in Sizes
  BY <1>2, MoreToCome
<1>4. sent[Len(handled) + 1].size - 1 + RecvMax <= RECV_STREAM_BUFFER_SIZE
      /\ sent[Len(handled) + 1].size \in Nat /\ 0 < sent[Len(handled) + 1].size
  BY <1>3, SizeFacts
<1>5. m_streamLen <= sent[Len(handled) + 1].size - 1
  BY <1>1, <1>4 DEF FInv, Waiting
<1> QED
  BY <1>1, <1>4, <1>5 DEF Overflows

-----------------------------------------------------------------------------
(* Every step keeps the invariant.                                         *)

LEMMA FInvInit == Init => FInv
<1> SUFFICES ASSUME Init PROVE FInv OBVIOUS
<1>1. TypeOK
  <2>1. m_streamBuf = [i \in {} |-> 0] /\ m_streamLen = 0
    BY DEF Init, Empty
  <2>2. 0 .. m_streamLen - 1 = {}
    BY <2>1
  <2>3. m_streamBuf \in [0 .. m_streamLen - 1 -> Nat]
    BY <2>1, <2>2
  <2>4. sent \in Seq(PacketsOf) /\ handled \in Seq(PacketsOf)
    BY DEF Init
  <2>5. tail \in Nat /\ got \in 0 .. tail
        /\ m_streamLen \in 0 .. RECV_STREAM_BUFFER_SIZE /\ offset \in 0 .. m_streamLen
    BY BufferAssumption DEF Init
  <2>6. /\ link \in {"none", "up", "fin", "reset"}
        /\ sock \in BOOLEAN /\ left \in BOOLEAN /\ notified \in BOOLEAN
        /\ rpc \in {"off", "while", "recv", "cut", "ended"}
    BY DEF Init
  <2> QED BY <2>3, <2>4, <2>5, <2>6 DEF TypeOK
<1>2. Laid /\ Held /\ Cutting /\ Waiting
  BY DEF Init, Laid, Held, Cutting, Waiting, Boundary
<1>3. Causes /\ NoSilentEnd /\ AllBeforeFarewell
  BY DEF Init, Causes, NoSilentEnd, AllBeforeFarewell
<1> QED BY <1>1, <1>2, <1>3 DEF FInv

\* A packet sent is laid behind the others and disturbs nothing else.
LEMMA SendStep ==
  ASSUME FInv, NEW s \in Sizes, Send(s)
  PROVE  FInv'
<1> DEFINE p == [at |-> tail, size |-> s]
<1>1. /\ sent' = Append(sent, p) /\ tail' = tail + s /\ link = "up"
      /\ UNCHANGED <<link, sock, left, rpc, got, m_streamBuf, m_streamLen,
                     offset, handled, notified>>
  BY DEF Send, buffer
<1>2. sent \in Seq(PacketsOf) /\ tail \in Nat /\ Len(sent) \in Nat /\ got \in 0 .. tail
      /\ Len(handled) \in Nat /\ m_streamLen \in Nat /\ offset \in Nat
  BY DEF FInv, TypeOK
<1>3. s \in Nat /\ s > 0
  BY SizeFacts
<1>4. p \in PacketsOf
  BY <1>2 DEF PacketsOf
<1>5. /\ Len(sent') = Len(sent) + 1
      /\ \A k \in 1 .. Len(sent) : sent'[k] = sent[k]
      /\ sent'[Len(sent) + 1] = p
  BY <1>1, <1>2, <1>4
<1>6. \A k \in 0 .. Len(sent) : Boundary(k)' = Boundary(k)
  BY <1>2, <1>5 DEF Boundary
<1>7. \A m \in Nat : m = Len(sent) + 1 => Boundary(m)' = tail + s
  BY <1>2, <1>5 DEF Boundary
<1>8. TypeOK'
  <2>1. sent' \in Seq(PacketsOf)
    BY <1>1, <1>2, <1>4
  <2>2. tail' \in Nat /\ got' \in 0 .. tail'
    BY <1>1, <1>2, <1>3
  <2> QED BY <1>1, <2>1, <2>2 DEF FInv, TypeOK
<1>9. tail = Boundary(Len(sent))
  BY DEF FInv, Laid
<1>10. Laid'
  <2>1. ASSUME NEW k \in 1 .. Len(sent')
        PROVE  sent'[k].at = Boundary(k - 1)' /\ Boundary(k)' <= tail'
    <3>1. CASE k \in 1 .. Len(sent)
      <4>1. sent[k].at = Boundary(k - 1) /\ Boundary(k) <= tail
        BY <3>1 DEF FInv, Laid
      <4>2. k - 1 \in 0 .. Len(sent) /\ k \in 0 .. Len(sent)
        BY <1>2, <3>1
      <4>3. sent[k].at \in Nat /\ sent[k].size \in Nat /\ Boundary(k) = sent[k].at + sent[k].size
        BY <1>2, <3>1, SentTyped, SizeFacts DEF Boundary
      <4> QED BY <1>1, <1>2, <1>3, <1>5, <1>6, <3>1, <4>1, <4>2, <4>3
    <3>2. CASE k = Len(sent) + 1
      <4>1. k - 1 = Len(sent) /\ Len(sent) \in 0 .. Len(sent)
        BY <1>2, <3>2
      <4>2. sent'[k].at = tail
        BY <1>5, <3>2
      <4>3. Boundary(k)' = tail + s
        BY <1>2, <1>7, <3>2
      <4>4. Boundary(k - 1)' = Boundary(k - 1)
        BY <1>6, <4>1
      <4> QED BY <1>1, <1>2, <1>3, <1>9, <4>1, <4>2, <4>3, <4>4
    <3> QED BY <1>2, <1>5, <3>1, <3>2
  <2>2. ASSUME NEW j \in 1 .. Len(sent'), NEW k \in 1 .. Len(sent'), j < k
        PROVE  Boundary(j)' <= sent'[k].at
    <3>1. j \in 1 .. Len(sent) /\ Boundary(j)' = Boundary(j)
      BY <1>2, <1>5, <1>6, <2>2
    <3>2. CASE k \in 1 .. Len(sent)
      BY <1>5, <2>2, <3>1, <3>2 DEF FInv, Laid
    <3>3. CASE k = Len(sent) + 1
      <4>1. sent'[k].at = tail
        BY <1>5, <3>3
      <4> QED BY <3>1, <4>1 DEF FInv, Laid
    <3> QED BY <1>2, <1>5, <3>2, <3>3
  <2>3. tail' = Boundary(Len(sent))'
    <3>1. Len(sent') \in Nat /\ Len(sent') = Len(sent) + 1
      BY <1>2, <1>5
    <3> QED BY <1>1, <1>7, <3>1
  <2> QED BY <2>1, <2>2, <2>3 DEF Laid
<1>11. Held'
  BY <1>1 DEF FInv, Held
<1>12. Cutting'
  <2>1. Len(handled) <= Len(sent)' /\ \A k \in 1 .. Len(handled) : handled[k] = sent'[k]
    BY <1>2, <1>5 DEF FInv, Cutting
  <2>2. Boundary(Len(handled))' = Boundary(Len(handled))
    <3>1. Len(handled) \in 0 .. Len(sent)
      BY <1>2 DEF FInv, Cutting
    <3>2. Len(handled)' = Len(handled)
      BY <1>1
    <3> QED BY <1>6, <3>1, <3>2
  <2> QED BY <1>1, <2>1, <2>2 DEF FInv, Cutting
<1>13. Waiting'
  <2>1. Len(handled) < Len(sent) => sent'[Len(handled) + 1] = sent[Len(handled) + 1]
                                    /\ Len(handled) < Len(sent')
    BY <1>2, <1>5
  <2> QED BY <1>1, <2>1 DEF FInv, Waiting
<1>14. Causes' /\ NoSilentEnd' /\ AllBeforeFarewell'
  BY <1>1 DEF FInv, Causes, NoSilentEnd, AllBeforeFarewell
<1> QED BY <1>8, <1>10, <1>11, <1>12, <1>13, <1>14 DEF FInv

\* Steps that touch neither the stream nor the buffer.
LEMMA QuietStep ==
  ASSUME FInv, UNCHANGED <<sent, tail, got, m_streamBuf, m_streamLen, offset, handled>>
  PROVE  Laid' /\ Held' /\ Cutting' /\ ((Waiting /\ rpc' = rpc) => Waiting')
<1>1. \A k : Boundary(k)' = Boundary(k)
  BY DEF Boundary
<1>2. Laid'
  BY <1>1 DEF FInv, Laid
<1>3. Held'
  BY DEF FInv, Held
<1>4. Cutting'
  BY <1>1 DEF FInv, Cutting
<1>5. Waiting /\ rpc' = rpc => Waiting'
  BY DEF Waiting
<1> QED BY <1>2, <1>3, <1>4, <1>5

LEMMA ServerGuiStep ==
  ASSUME FInv, ServerCloses \/ Reset \/ Connect \/ StartRecvThread \/ Leave
  PROVE  FInv'
<1> USE DEF server, buffer
<1>1. UNCHANGED <<sent, tail, got, m_streamBuf, m_streamLen, offset, handled, notified>>
  BY DEF ServerCloses, Reset, Connect, StartRecvThread, Leave
<1>2. Laid' /\ Held' /\ Cutting' /\ (Waiting /\ rpc' = rpc => Waiting')
  BY <1>1, QuietStep
<1>3. Waiting'
  <2>1. CASE StartRecvThread
    <3>1. rpc = "off" /\ rpc' = "while"
      BY <2>1 DEF StartRecvThread
    <3> QED BY <1>1, <3>1 DEF FInv, Waiting
  <2>2. CASE ~StartRecvThread
    BY <1>2, <2>2 DEF ServerCloses, Reset, Connect, Leave, FInv
  <2> QED BY <2>1, <2>2
<1>4. TypeOK'
  <2>1. /\ link' \in {"none", "up", "fin", "reset"}
        /\ sock' \in BOOLEAN /\ left' \in BOOLEAN
        /\ rpc' \in {"off", "while", "recv", "cut", "ended"}
    BY DEF FInv, TypeOK, ServerCloses, Reset, Connect, StartRecvThread, Leave
  <2> QED BY <1>1, <2>1 DEF FInv, TypeOK
<1>5. Causes' /\ NoSilentEnd' /\ AllBeforeFarewell'
  <2>1. CASE ServerCloses
    BY <2>1 DEF FInv, Causes, NoSilentEnd, AllBeforeFarewell, ServerCloses
  <2>2. CASE Reset
    BY <2>2 DEF FInv, Causes, NoSilentEnd, AllBeforeFarewell, Reset
  <2>3. CASE Connect
    BY <2>3 DEF FInv, Causes, NoSilentEnd, AllBeforeFarewell, Connect
  <2>4. CASE StartRecvThread
    BY <2>4 DEF FInv, Causes, NoSilentEnd, AllBeforeFarewell, StartRecvThread
  <2>5. CASE Leave
    BY <2>5 DEF FInv, Causes, NoSilentEnd, AllBeforeFarewell, Leave
  <2> QED BY <2>1, <2>2, <2>3, <2>4, <2>5
<1> QED BY <1>2, <1>3, <1>4, <1>5 DEF FInv

\* The loop condition, and a recv() that fails or finds the end: then all
\* that was sent has been read, and what waits is less than a packet.
LEMMA ThreadEndsStep ==
  ASSUME FInv, LoopTest \/ RecvFails
  PROVE  FInv'
<1> USE DEF server, buffer
<1>1. UNCHANGED <<sent, tail, got, m_streamBuf, m_streamLen, offset, handled, left, link>>
  BY DEF LoopTest, RecvFails
<1>2. Laid' /\ Held' /\ Cutting'
  BY <1>1, QuietStep
<1>3. rpc \in {"while", "recv"} /\ rpc' \in {"recv", "ended"}
  BY DEF LoopTest, RecvFails
<1>4. Waiting'
  BY <1>1, <1>3 DEF FInv, Waiting
<1>5. TypeOK'
  <2>1. sock' \in BOOLEAN /\ notified' \in BOOLEAN
    BY DEF FInv, TypeOK, LoopTest, RecvFails
  <2> QED BY <1>1, <1>3, <2>1 DEF FInv, TypeOK
<1>6. NoSilentEnd'
  BY DEF FInv, NoSilentEnd, LoopTest, RecvFails
<1>7. Causes'
  <2>1. CASE LoopTest
    BY <2>1 DEF FInv, Causes, LoopTest
  <2>2. CASE RecvFails
    <3>1. sock' = FALSE /\ rpc' = "ended" /\ notified' = TRUE /\ link # "none" /\ link' = link
          /\ left' = left /\ (~sock \/ link = "reset" \/ link = "fin")
      BY <2>2 DEF FInv, Causes, RecvFails
    <3>2. ~sock => left
      BY <1>3 DEF FInv, Causes
    <3> QED BY <3>1, <3>2 DEF Causes
  <2> QED BY <2>1, <2>2
<1>8. AllBeforeFarewell'
  <2>1. CASE LoopTest
    BY <2>1 DEF FInv, AllBeforeFarewell, LoopTest
  <2>2. CASE RecvFails
    <3> SUFFICES ASSUME link = "fin", ~left PROVE Len(handled) = Len(sent)
      BY <1>1 DEF AllBeforeFarewell
    <3>1. sock /\ got = tail /\ rpc = "recv"
      BY <2>2 DEF RecvFails, FInv, Causes
    <3>2. m_streamLen \in Nat /\ tail \in Nat /\ Len(handled) \in Nat /\ Len(sent) \in Nat
      BY DEF FInv, TypeOK
    <3>3. tail - m_streamLen = Boundary(Len(handled)) /\ offset = 0
      BY <3>1, <3>2 DEF FInv, Cutting, Waiting
    <3>4. SUFFICES ASSUME Len(handled) # Len(sent) PROVE FALSE
      OBVIOUS
    <3>5. Len(handled) + 1 \in 1 .. Len(sent)
      BY <3>2, <3>4 DEF FInv, Cutting
    <3>6. /\ sent[Len(handled) + 1].at = Boundary(Len(handled))
          /\ Boundary(Len(handled) + 1) <= tail
      <4>1. (Len(handled) + 1) - 1 = Len(handled)
        BY <3>2
      <4> QED BY <3>5, <4>1 DEF FInv, Laid
    <3>7. sent[Len(handled) + 1].size \in Sizes /\ sent[Len(handled) + 1].at \in Nat
      <4>1. Len(handled) + 1 \in DOMAIN sent
        BY <3>5 DEF FInv, TypeOK
      <4> QED BY <4>1, SentTyped
    <3>8. sent[Len(handled) + 1].size \in Nat /\ sent[Len(handled) + 1].size > 0
      BY <3>7, SizeFacts
    <3>9. Boundary(Len(handled) + 1) = Boundary(Len(handled)) + sent[Len(handled) + 1].size
      BY <3>2, <3>6 DEF Boundary
    <3>10. m_streamLen >= sent[Len(handled) + 1].size
      BY <3>2, <3>3, <3>6, <3>7, <3>8, <3>9
    <3>11. m_streamLen < sent[Len(handled) + 1].size
      BY <3>1, <3>2, <3>8, <3>10 DEF FInv, Waiting
    <3> QED BY <3>2, <3>8, <3>10, <3>11
  <2> QED BY <2>1, <2>2
<1> QED BY <1>2, <1>4, <1>5, <1>6, <1>7, <1>8 DEF FInv

\* memcpy puts the new bytes where they belong.
LEMMA RecvStep ==
  ASSUME FInv, NEW n \in 1 .. RecvMax, Recv(n)
  PROVE  FInv'
<1> USE DEF server
<1>1. /\ rpc = "recv" /\ sock /\ link \in {"up", "fin"} /\ got + n <= tail
      /\ got' = got + n /\ ~Overflows(n) /\ Stored(n)
      /\ UNCHANGED <<sent, tail, link, sock, left, handled, notified>>
  BY NoOverflow DEF Recv
<1>2. /\ m_streamBuf' = Appended(n) /\ m_streamLen' = m_streamLen + n
      /\ offset' = 0 /\ rpc' = "cut"
  BY <1>1 DEF Stored
<1>3. /\ m_streamLen \in Nat /\ got \in Nat /\ tail \in Nat /\ n \in Nat /\ n >= 1
      /\ m_streamLen + n <= RECV_STREAM_BUFFER_SIZE /\ RECV_STREAM_BUFFER_SIZE \in Nat
      /\ m_streamLen <= got
  BY <1>1, RecvAssumption, BufferAssumption DEF FInv, TypeOK, Overflows, Held
<1>4. \A i \in 0 .. m_streamLen + n - 1 :
        m_streamBuf'[i] = (got + n) - (m_streamLen + n) + i
  <2> SUFFICES ASSUME NEW i \in 0 .. m_streamLen + n - 1
               PROVE  m_streamBuf'[i] = (got + n) - (m_streamLen + n) + i
    OBVIOUS
  <2>1. m_streamBuf'[i] = IF i < m_streamLen THEN m_streamBuf[i] ELSE got + (i - m_streamLen)
    BY <1>2 DEF Appended
  <2>2. CASE i < m_streamLen
    <3>1. i \in 0 .. m_streamLen - 1
      BY <1>3, <2>2
    <3>2. m_streamBuf[i] = got - m_streamLen + i
      BY <3>1 DEF FInv, Held
    <3> QED BY <1>3, <2>1, <2>2, <3>2
  <2>3. CASE ~(i < m_streamLen)
    BY <1>3, <2>1, <2>3
  <2> QED BY <2>2, <2>3
<1>5. m_streamBuf' \in [0 .. m_streamLen' - 1 -> Nat]
  <2> DEFINE D == 0 .. m_streamLen + n - 1
             e(i) == IF i < m_streamLen THEN m_streamBuf[i] ELSE got + (i - m_streamLen)
  <2>1. m_streamBuf' = [i \in D |-> e(i)]
    BY <1>2 DEF Appended
  <2>2. ASSUME NEW i \in D PROVE e(i) \in Nat
    <3>1. CASE i < m_streamLen
      <4>1. i \in 0 .. m_streamLen - 1
        BY <1>3, <3>1
      <4> QED BY <3>1, <4>1 DEF FInv, TypeOK
    <3>2. CASE ~(i < m_streamLen)
      BY <1>3, <3>2
    <3> QED BY <3>1, <3>2
  <2>3. D = 0 .. m_streamLen' - 1
    <3>1. m_streamLen + n - 1 = m_streamLen' - 1
      BY <1>2, <1>3
    <3> QED BY <3>1
  <2> HIDE DEF D, e
  <2>4. m_streamBuf' \in [D -> Nat]
    BY <2>1, <2>2
  <2> QED BY <2>3, <2>4
<1>6. TypeOK'
  <2>1. got' \in 0 .. tail /\ m_streamLen' \in 0 .. RECV_STREAM_BUFFER_SIZE
        /\ offset' \in 0 .. m_streamLen'
    BY <1>1, <1>2, <1>3
  <2> QED BY <1>1, <1>2, <1>5, <2>1 DEF FInv, TypeOK
<1>7. Laid'
  <2>1. \A k : Boundary(k)' = Boundary(k)
    BY <1>1 DEF Boundary
  <2> QED BY <1>1, <2>1 DEF FInv, Laid
<1>8. Held'
  BY <1>1, <1>2, <1>3, <1>4 DEF Held
<1>9. Cutting'
  <2>1. \A k : Boundary(k)' = Boundary(k)
    BY <1>1 DEF Boundary
  <2>2. got' - m_streamLen' + offset' = got - m_streamLen + offset
    BY <1>1, <1>2, <1>3 DEF FInv, Waiting
  <2> QED BY <1>1, <2>1, <2>2 DEF FInv, Cutting
<1>10. Waiting' /\ Causes' /\ NoSilentEnd' /\ AllBeforeFarewell'
  BY <1>1, <1>2 DEF FInv, Waiting, Causes, NoSilentEnd, AllBeforeFarewell
<1> QED BY <1>6, <1>7, <1>8, <1>9, <1>10 DEF FInv

\* memmove keeps the bytes that wait, when they are less than a packet.
LEMMA KeepRestStep ==
  ASSUME FInv, rpc = "cut", KeepRest,
         UNCHANGED <<server, sock, left, got, handled, notified>>,
         m_streamLen - offset > 0 =>
           /\ Len(handled) < Len(sent)
           /\ m_streamLen - offset < sent[Len(handled) + 1].size
  PROVE  FInv'
<1> USE DEF server
<1>1. /\ m_streamBuf' = Moved /\ m_streamLen' = m_streamLen - offset
      /\ offset' = 0 /\ rpc' = "while"
  BY DEF KeepRest
<1>2. /\ m_streamLen \in Nat /\ offset \in Nat /\ got \in Nat /\ offset <= m_streamLen
      /\ m_streamLen <= got /\ RECV_STREAM_BUFFER_SIZE \in Nat
      /\ m_streamLen <= RECV_STREAM_BUFFER_SIZE
  BY BufferAssumption DEF FInv, TypeOK, Held
<1>3. \A i \in 0 .. m_streamLen - offset - 1 :
        m_streamBuf'[i] = got - (m_streamLen - offset) + i
  <2> SUFFICES ASSUME NEW i \in 0 .. m_streamLen - offset - 1
               PROVE  m_streamBuf'[i] = got - (m_streamLen - offset) + i
    OBVIOUS
  <2>1. m_streamBuf'[i] = m_streamBuf[offset + i]
    BY <1>1 DEF Moved
  <2>2. offset + i \in 0 .. m_streamLen - 1
    BY <1>2
  <2>3. m_streamBuf[offset + i] = got - m_streamLen + (offset + i)
    BY <2>2 DEF FInv, Held
  <2> QED BY <1>2, <2>1, <2>3
<1>4. m_streamBuf' \in [0 .. m_streamLen' - 1 -> Nat]
  <2>1. m_streamBuf' = [i \in 0 .. m_streamLen - offset - 1 |-> m_streamBuf'[i]]
    BY <1>1 DEF Moved
  <2>2. \A i \in 0 .. m_streamLen - offset - 1 : m_streamBuf'[i] \in Nat
    BY <1>2, <1>3
  <2> QED BY <1>1, <2>1, <2>2
<1>5. TypeOK'
  <2>1. m_streamLen' \in 0 .. RECV_STREAM_BUFFER_SIZE /\ offset' \in 0 .. m_streamLen'
    BY <1>1, <1>2
  <2> QED BY <1>1, <1>4, <2>1 DEF FInv, TypeOK
<1>6. \A k : Boundary(k)' = Boundary(k)
  BY DEF Boundary
<1>7. Laid'
  BY <1>6 DEF FInv, Laid
<1>8. Held'
  BY <1>1, <1>2, <1>3 DEF Held
<1>9. Cutting'
  <2>1. got' - m_streamLen' + offset' = got - m_streamLen + offset
    BY <1>1, <1>2
  <2> QED BY <1>6, <2>1 DEF FInv, Cutting
<1>10. Waiting'
  BY <1>1 DEF Waiting
<1>11. Causes' /\ NoSilentEnd' /\ AllBeforeFarewell'
  BY <1>1 DEF FInv, Causes, NoSilentEnd, AllBeforeFarewell
<1> QED BY <1>5, <1>7, <1>8, <1>9, <1>10, <1>11 DEF FInv

LEMMA CutNoHeaderStep ==
  ASSUME FInv, CutNoHeader
  PROVE  FInv'
<1>1. /\ rpc = "cut" /\ ~HeaderThere /\ KeepRest
      /\ UNCHANGED <<server, sock, left, got, handled, notified>>
  BY DEF CutNoHeader
<1>2. ASSUME m_streamLen - offset > 0
      PROVE  /\ Len(handled) < Len(sent)
             /\ m_streamLen - offset < sent[Len(handled) + 1].size
  <2>1. /\ m_streamLen \in Nat /\ offset \in Nat /\ got \in Nat /\ tail \in Nat
        /\ got <= tail /\ Len(handled) \in Nat /\ Len(sent) \in Nat
    BY DEF FInv, TypeOK
  <2>2. got - m_streamLen + offset < tail
    BY <1>2, <2>1
  <2>3. Len(handled) + 1 \in 1 .. Len(sent) /\ sent[Len(handled) + 1].size \in Sizes
    BY <2>2, MoreToCome
  <2>4. HeaderLen <= sent[Len(handled) + 1].size /\ sent[Len(handled) + 1].size \in Nat
    BY <2>3, SizeFacts
  <2> QED BY <1>1, <2>1, <2>3, <2>4, HeaderAssumption DEF HeaderThere
<1> QED BY <1>1, <1>2, KeepRestStep

\* The header at offset is true, so nothing is dropped; an incomplete packet
\* is kept, a complete one handed on.
LEMMA CutStep ==
  ASSUME FInv, NEW h \in HeaderAt(offset), Cut(h)
  PROVE  /\ FInv'
         /\ \/ UNCHANGED <<sent, handled>>
            \/ UNCHANGED sent /\ Len(handled) < Len(sent)
               /\ handled' = Append(handled, sent[Len(handled) + 1])
<1> DEFINE nx == Len(handled) + 1
<1>1. rpc = "cut" /\ HeaderThere /\ UNCHANGED <<server, sock, left, got, notified>>
  BY DEF Cut
<1>2. /\ nx \in 1 .. Len(sent) /\ sent[nx].size \in Sizes
      /\ sent[nx].at = Boundary(Len(handled)) /\ h = sent[nx].size
  BY <1>1, HeaderIsNext
<1>3. h \in Nat /\ h > 0 /\ Acceptable(h)
  BY <1>2, SizeFacts DEF Acceptable
<1>4. /\ m_streamLen \in Nat /\ offset \in Nat /\ got \in Nat
      /\ Len(handled) \in Nat /\ Len(sent) \in Nat
      /\ sent \in Seq(PacketsOf) /\ handled \in Seq(PacketsOf)
  BY DEF FInv, TypeOK
<1>5. CASE ~Complete(h)
  <2>1. KeepRest /\ UNCHANGED handled
    BY <1>3, <1>5 DEF Cut
  <2>2. Len(handled) < Len(sent) /\ m_streamLen - offset < sent[nx].size
    BY <1>2, <1>3, <1>4, <1>5 DEF Complete
  <2>3. FInv'
    BY <1>1, <2>1, <2>2, KeepRestStep
  <2> QED BY <1>1, <2>1, <2>3 DEF server
<1>6. CASE Complete(h)
  <2>1. /\ handled' = Append(handled, Piece(offset, h)) /\ offset' = offset + h
        /\ UNCHANGED <<rpc, m_streamBuf, m_streamLen, sent, tail, link, sock, left, got, notified>>
    BY <1>1, <1>3, <1>6 DEF Cut, server
  <2>2. handled' = Append(handled, sent[nx])
    BY <1>1, <1>6, <2>1, PieceIsNext
  <2>3. sent[nx] \in PacketsOf
    BY <1>2, <1>4
  <2>4. /\ handled' \in Seq(PacketsOf) /\ Len(handled') = nx
        /\ \A k \in 1 .. Len(handled) : handled'[k] = handled[k]
        /\ handled'[nx] = sent[nx]
    BY <1>4, <2>2, <2>3
  <2>5. offset' \in 0 .. m_streamLen
    BY <1>3, <1>4, <1>6, <2>1 DEF Complete
  <2>6. TypeOK'
    BY <2>1, <2>4, <2>5 DEF FInv, TypeOK
  <2>7. \A k : Boundary(k)' = Boundary(k)
    BY <2>1 DEF Boundary
  <2>8. Laid'
    BY <2>1, <2>7 DEF FInv, Laid
  <2>9. Held'
    BY <2>1 DEF FInv, Held
  <2>10. Cutting'
    <3>1. Len(handled') <= Len(sent)
      BY <1>2, <1>4, <2>4
    <3>2. \A k \in 1 .. Len(handled') : handled'[k] = sent[k]
      BY <1>4, <2>4 DEF FInv, Cutting
    <3>3. Boundary(nx) = Boundary(Len(handled)) + h
      BY <1>2, <1>4 DEF Boundary
    <3>4. got - m_streamLen + (offset + h) = Boundary(Len(handled)) + h
      BY <1>3, <1>4 DEF FInv, Cutting
    <3>5. Boundary(Len(handled))' = Boundary(nx)
      BY <2>4, <2>7
    <3> QED BY <2>1, <3>1, <3>2, <3>3, <3>4, <3>5 DEF Cutting
  <2>11. Waiting' /\ Causes' /\ NoSilentEnd'
    BY <1>1, <2>1 DEF FInv, Waiting, Causes, NoSilentEnd
  <2>12. AllBeforeFarewell'
    BY <1>1, <2>1 DEF FInv, Causes, AllBeforeFarewell
  <2>13. FInv'
    BY <2>6, <2>8, <2>9, <2>10, <2>11, <2>12 DEF FInv
  <2> QED BY <1>2, <1>4, <2>1, <2>2, <2>13
<1> QED BY <1>5, <1>6

LEMMA StutterStep ==
  ASSUME FInv, UNCHANGED vars
  PROVE  FInv'
<1>1. Laid' /\ Held' /\ Cutting' /\ Waiting'
  BY QuietStep DEF vars, FInv
<1>2. TypeOK' /\ Causes' /\ NoSilentEnd' /\ AllBeforeFarewell'
  BY DEF vars, FInv, TypeOK, Causes, NoSilentEnd, AllBeforeFarewell
<1> QED BY <1>1, <1>2 DEF FInv

LEMMA FInvStep ==
  ASSUME FInv, [Next]_vars
  PROVE  FInv'
<1>1. CASE \E s \in Sizes : Send(s)
  BY <1>1, SendStep
<1>2. CASE ServerCloses \/ Reset \/ Connect \/ StartRecvThread \/ Leave
  BY <1>2, ServerGuiStep
<1>3. CASE LoopTest \/ RecvFails
  BY <1>3, ThreadEndsStep
<1>4. CASE \E n \in 1 .. RecvMax : Recv(n)
  BY <1>4, RecvStep
<1>5. CASE \E h \in HeaderAt(offset) : Cut(h)
  BY <1>5, CutStep
<1>6. CASE CutNoHeader
  BY <1>6, CutNoHeaderStep
<1>7. CASE UNCHANGED vars
  BY <1>7, StutterStep
<1> QED
  BY <1>1, <1>2, <1>3, <1>4, <1>5, <1>6, <1>7 DEF Next, ServerNext, GuiNext, ThreadNext

LEMMA FInvAlways == Spec => []FInv
<1> QED BY FInvInit, FInvStep, PTL DEF Spec

-----------------------------------------------------------------------------
\* Every reachable state of a client's stream is well typed: m_streamLen and
\* offset stay inside m_streamBuf (ClientSystem.cpp:100-167).
THEOREM TypeCorrect == Spec => []TypeOK
<1>1. FInv => TypeOK
  BY DEF FInv
<1> QED BY <1>1, FInvAlways, PTL

\* DoRecv never gives up a stream of proper packets: neither the overflow
\* nor the bad sizes of ClientSystem.cpp:101-138 can happen.
THEOREM NoSilentEnds == Spec => []NoSilentEnd
<1>1. FInv => NoSilentEnd
  BY DEF FInv
<1> QED BY <1>1, FInvAlways, PTL

\* Nothing a server sent before it closed is left unhandled when the user is
\* told that it is gone (ClientSystem.cpp:90-98).
THEOREM FarewellComesLast == Spec => []AllBeforeFarewell
<1>1. FInv => AllBeforeFarewell
  BY DEF FInv
<1> QED BY <1>1, FInvAlways, PTL

\* However TCP cuts or joins what the server sends, the client handles the
\* packets sent, whole and in order (ClientSystem.cpp:111-167).
THEOREM SegmentsAreInvisible == Spec => ImplementsQueue
<1>1. Init => Queue!QueueInit
  BY DEF Init, Queue!QueueInit
<1>2. ASSUME FInv, [Next]_vars
      PROVE  [Queue!QueueNext]_(Queue!qvars)
  <2>1. CASE \E s \in Sizes : Send(s)
    <3>1. PICK s \in Sizes : Send(s)
      BY <2>1
    <3>2. sent' = Append(sent, [at |-> tail, size |-> s]) /\ UNCHANGED handled
      BY <3>1 DEF Send
    <3>3. tail = Queue!EndOf(sent)
      <4>1. tail = Boundary(Len(sent)) /\ sent \in Seq(PacketsOf) /\ Len(sent) \in Nat
        BY <1>2 DEF FInv, TypeOK, Laid
      <4>2. sent = << >> <=> Len(sent) = 0
        BY <4>1
      <4> QED BY <4>1, <4>2 DEF Boundary, Queue!EndOf
    <3> QED BY <3>2, <3>3 DEF Queue!QueueNext, Queue!SendPacket
  <2>2. CASE \E h \in HeaderAt(offset) : Cut(h)
    BY <1>2, <2>2, CutStep DEF Queue!QueueNext, Queue!HandleNext, Queue!qvars
  <2>3. CASE UNCHANGED <<sent, handled>>
    BY <2>3 DEF Queue!qvars
  <2>4. CASE ServerCloses \/ Reset \/ GuiNext \/ LoopTest \/ RecvFails \/ CutNoHeader
             \/ (\E n \in 1 .. RecvMax : Recv(n)) \/ UNCHANGED vars
    <3>1. UNCHANGED <<sent, handled>>
      BY <2>4 DEF ServerCloses, Reset, GuiNext, Connect, StartRecvThread, Leave, LoopTest,
                  RecvFails, CutNoHeader, Recv, server, vars
    <3> QED BY <2>3, <3>1
  <2> QED
    BY <1>2, <2>1, <2>2, <2>4 DEF Next, ServerNext, ThreadNext
<1> QED
  BY <1>1, <1>2, FInvAlways, PTL DEF Spec, ImplementsQueue, Queue!Spec
==============================================================================
