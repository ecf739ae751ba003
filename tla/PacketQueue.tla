----------------------------- MODULE PacketQueue -----------------------------
(***************************************************************************)
(* What a game client may rely on: the packets the server sends on its     *)
(* connection are handled whole, one by one, in the order they were sent,  *)
(* and a connection may end with packets unhandled.  There is no stream,   *)
(* no buffer and no segment here; StreamFraming implements this.           *)
(***************************************************************************)
EXTENDS Integers, Sequences

CONSTANT Sizes            \* the sizes a packet may have

VARIABLES sent,           \* the packets sent, each with its place and size
          handled         \* the packets handled

qvars == <<sent, handled>>

\* The place behind the last packet of a sequence of packets.
EndOf(packets) ==
  IF packets = << >> THEN 0
  ELSE packets[Len(packets)].at + packets[Len(packets)].size

QueueInit == sent = << >> /\ handled = << >>

\* The server sends a packet behind the others.
SendPacket(s) ==
  /\ sent' = Append(sent, [at |-> EndOf(sent), size |-> s])
  /\ UNCHANGED handled

\* The client handles the next packet.
HandleNext ==
  /\ Len(handled) < Len(sent)
  /\ handled' = Append(handled, sent[Len(handled) + 1])
  /\ UNCHANGED sent

QueueNext == HandleNext \/ \E s \in Sizes : SendPacket(s)

Spec == QueueInit /\ [][QueueNext]_qvars
==============================================================================
