------------------------------ MODULE SlotTable ------------------------------
(***************************************************************************)
(* What the server promises about its MAX_PLAYERS client slots, with no    *)
(* thread, lock or message in sight: a connection is seated at most once,  *)
(* in an empty slot, keeps the slot for as long as its client is there,    *)
(* and loses it only after the client has left.  ServerConn implements     *)
(* this specification.                                                     *)
(***************************************************************************)
CONSTANTS Conns,      \* the connections that may ever be made
          Slots,      \* the client ids 0 .. MAX_PLAYERS-1
          NoSock      \* an empty slot

VARIABLES seat,       \* the connection in each slot, or NoSock
          seated,     \* the connections that have been given a slot
          left        \* the connections whose client has left

tvars == <<seat, seated, left>>

TableInit ==
  /\ seat = [s \in Slots |-> NoSock]
  /\ seated = {}
  /\ left = {}

\* A connection is given an empty slot, once.
Take(c, s) ==
  /\ c \notin seated
  /\ seat[s] = NoSock
  /\ seat' = [seat EXCEPT ![s] = c]
  /\ seated' = seated \cup {c}
  /\ UNCHANGED left

\* A client leaves; its slot stays taken until the server notices.
Leave(c) ==
  /\ c \notin left
  /\ left' = left \cup {c}
  /\ UNCHANGED <<seat, seated>>

\* The slot of a client that has left is emptied.
Release(s) ==
  /\ seat[s] \in left
  /\ seat' = [seat EXCEPT ![s] = NoSock]
  /\ UNCHANGED <<seated, left>>

TableNext ==
  \/ \E c \in Conns : \E s \in Slots : Take(c, s)
  \/ \E c \in Conns : Leave(c)
  \/ \E s \in Slots : Release(s)

Spec == TableInit /\ [][TableNext]_tvars
==============================================================================
