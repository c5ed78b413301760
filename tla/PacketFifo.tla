----------------------------- MODULE PacketFifo -----------------------------
(***************************************************************************)
(* What each direction of a session promises: the packets put in reach the *)
(* other end in the order in which they were put in, none twice, and none  *)
(* is skipped.  Only the end of the path drops packets, and after it       *)
(* nothing is delivered any more.  For the send path a packet is put in    *)
(* when it is queued and sent when WSASend takes it, and closing the       *)
(* session ends it; for the receive path the client puts it in, OnPacket   *)
(* gets it, and the end is that no further receive is posted.              *)
(***************************************************************************)
EXTENDS Integers, Sequences

CONSTANT Packet

VARIABLES
  pending,    \* put in and not yet sent, oldest first
  delivered,  \* sent
  broken      \* the path has ended

vars == <<pending, delivered, broken>>

Init == pending = <<>> /\ delivered = <<>> /\ broken = FALSE

(* pending without its first n packets.                                    *)
Rest(n) == SubSeq(pending, n + 1, Len(pending))

Put(p) ==
  /\ pending' = Append(pending, p)
  /\ UNCHANGED <<delivered, broken>>

Send(n) ==
  /\ ~broken
  /\ delivered' = delivered \o SubSeq(pending, 1, n)
  /\ pending' = Rest(n)
  /\ UNCHANGED broken

Lose(n) ==
  /\ broken' = TRUE
  /\ pending' = Rest(n)
  /\ UNCHANGED delivered

Next ==
  \/ \E p \in Packet : Put(p)
  \/ \E n \in 1 .. Len(pending) : Send(n)
  \/ \E n \in 0 .. Len(pending) : Lose(n)

Spec == Init /\ [][Next]_vars
=============================================================================
