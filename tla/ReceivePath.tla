----------------------------- MODULE ReceivePath -----------------------------
(***************************************************************************)
(* The way of one client's bytes to the packet handler: the byte stream of *)
(* the connection, WSARecv into a receive buffer of BufferSize bytes, the  *)
(* ring buffer, and PacketFramer::Pop called by RecvCompletion until it    *)
(* has no complete packet.  The ring is used as a first-in first-out       *)
(* buffer, which RingBuffer implements (RingBufferProofs).                 *)
(*                                                                         *)
(* CloseSession is called by the worker that receives, within OnPacket for *)
(* an exit packet, and by any other worker whose WSASend for this session  *)
(* fails.  The model follows the session object until then and the worker  *)
(* until it is through with it; that the object may be another client's by *)
(* that time is in IocpServer.                                             *)
(*                                                                         *)
(* Packet k of the client is sent[k]: the size its header declares, the    *)
(* number of bytes it really has, and whether it is an exit.  A byte is    *)
(* <<k, i>>, the i-th of packet k, so lost, repeated, reordered and        *)
(* misattributed bytes show.                                               *)
(***************************************************************************)
EXTENDS Integers, Sequences

CONSTANTS
  HeaderSize,  \* kHeaderSize
  MaxPacket,   \* kMaxPacket
  BufferSize,  \* NetConfig::BUFFER_SIZE
  Capacity,    \* the capacity of session->rx
  Sizes,       \* what a size field can be
  Packets,     \* the packets a client may send, [size, len, exit]
  MaxSent      \* bound: packets a client sends

ASSUME ReceiveAssumption ==
  /\ HeaderSize \in Nat \ {0} /\ MaxPacket \in Nat /\ HeaderSize <= MaxPacket
  /\ BufferSize \in Nat \ {0} /\ Capacity \in Nat
  /\ MaxPacket + BufferSize <= Capacity + 1
  /\ Sizes \subseteq Nat
  /\ Packets \subseteq [size : Sizes, len : Nat \ {0}, exit : BOOLEAN]
  /\ MaxSent \in Nat

VARIABLES
  sent,       \* the packets the client has sent
  peer,       \* "up", "left" (orderly) or "reset"
  stream,     \* bytes on the way
  at,         \* where the session's receiving is: "recv" (WSARecv pending), ...
  chunk,      \* the bytes WSARecv put into session->rxBuf
  rx,         \* the bytes in session->rx
  delivered,  \* the packets OnPacket was called with
  ended,      \* "no" until closing is set; then why CloseSession was called
  sock,       \* session->sock is open
  rxBuf       \* session->rxBuf is not nullptr

client  == <<sent, peer, stream>>
session == <<ended, sock, rxBuf>>
vars    == <<client, at, chunk, rx, delivered, session>>

Octet == (Nat \ {0}) \X (Nat \ {0})

TypeOK ==
  /\ sent \in Seq(Packets)
  /\ peer \in {"up", "left", "reset"}
  /\ stream \in Seq(Octet)
  /\ at \in {"recv", "append", "pop", "post", "wsarecv", "done", "fault"}
  /\ chunk \in Seq(Octet) /\ Len(chunk) <= BufferSize
  /\ rx \in Seq(Octet) /\ Len(rx) <= Capacity
  /\ delivered \in Seq(Seq(Octet))
  /\ ended \in {"no", "left", "wrong", "exit", "failed"}
  /\ sock \in BOOLEAN /\ rxBuf \in BOOLEAN

Init ==
  /\ sent = <<>> /\ peer = "up" /\ stream = <<>> /\ at = "recv"
  /\ chunk = <<>> /\ rx = <<>> /\ delivered = <<>>
  /\ ended = "no" /\ sock = TRUE /\ rxBuf = TRUE

Bytes(k) == [i \in 1 .. sent[k].len |-> <<k, i>>]

-----------------------------------------------------------------------------
(***************************************************************************)
(* The client and the network.                                             *)
(***************************************************************************)
ClientSends ==
  /\ peer = "up" /\ Len(sent) < MaxSent
  /\ \E p \in Packets :
       /\ sent' = Append(sent, p)
       /\ stream' = stream \o [i \in 1 .. p.len |-> <<Len(sent) + 1, i>>]
  /\ UNCHANGED <<peer, at, chunk, rx, delivered, session>>

ClientLeaves ==
  /\ peer = "up"
  /\ \/ peer' = "left" /\ UNCHANGED stream
     \/ peer' = "reset" /\ stream' = <<>>
  /\ UNCHANGED <<sent, at, chunk, rx, delivered, session>>

(* The buffer's length is not given to WSARecv.                            *)
RecvDataUnbounded ==
  /\ at = "recv" /\ sock
  /\ \E n \in 1 .. Len(stream) :
       /\ chunk' = SubSeq(stream, 1, n)
       /\ stream' = SubSeq(stream, n + 1, Len(stream))
  /\ at' = "append"
  /\ UNCHANGED <<sent, peer, rx, delivered, session>>

(* WSARecv completes with some of the bytes that have arrived, cut         *)
(* anywhere.                                                               *)
RecvData ==
  /\ at = "recv" /\ sock
  /\ \E n \in 1 .. Len(stream) :
       /\ n <= BufferSize
       /\ chunk' = SubSeq(stream, 1, n)
       /\ stream' = SubSeq(stream, n + 1, Len(stream))
  /\ at' = "append"
  /\ UNCHANGED <<sent, peer, rx, delivered, session>>

-----------------------------------------------------------------------------
(***************************************************************************)
(* CloseSession.  The receiving worker goes through it in one step, as far *)
(* as it matters to the other steps here; only the first call does         *)
(* anything.                                                               *)
(***************************************************************************)
CloseSession(why) ==
  IF ended = "no" THEN ended' = why /\ sock' = FALSE /\ rxBuf' = FALSE
                  ELSE UNCHANGED session

(* A WSASend for the session fails: the worker that called it sets         *)
(* closing, closes the socket and gives the receive buffer back, whatever  *)
(* the receiving worker is doing.                                          *)
SendFails ==
  /\ \/ ended = "no" /\ ended' = "failed" /\ UNCHANGED <<sock, rxBuf>>
     \/ ended # "no" /\ sock /\ sock' = FALSE /\ UNCHANGED <<ended, rxBuf>>
     \/ ~sock /\ rxBuf /\ rxBuf' = FALSE /\ UNCHANGED <<ended, sock>>
  /\ UNCHANGED <<client, at, chunk, rx, delivered>>

-----------------------------------------------------------------------------
(***************************************************************************)
(* RecvCompletion.                                                         *)
(***************************************************************************)
(* WSARecv completes with no bytes: there will be no more, or the socket   *)
(* was closed here.                                                        *)
RecvEnd ==
  /\ at = "recv" /\ (~sock \/ (stream = <<>> /\ peer # "up"))
  /\ at' = "done"
  /\ CloseSession("left")
  /\ UNCHANGED <<client, chunk, rx, delivered>>

(* append through a nullptr.                                               *)
RecvFault ==
  /\ at = "append" /\ ~rxBuf
  /\ at' = "fault"
  /\ UNCHANGED <<client, chunk, rx, delivered, session>>

(* append takes what there is room for.                                    *)
RecvAppend ==
  LET room == Capacity - Len(rx)
      n    == IF Len(chunk) <= room THEN Len(chunk) ELSE room
  IN
  /\ at = "append" /\ rxBuf
  /\ rx' = rx \o SubSeq(chunk, 1, n)
  /\ chunk' = <<>>
  /\ IF n < Len(chunk) THEN at' = "done" /\ CloseSession("wrong")
                       ELSE at' = "pop" /\ UNCHANGED session
  /\ UNCHANGED <<client, delivered>>

(* What Pop reads as the size of the next packet.  Inside a packet it is   *)
(* whatever bytes stand there.                                             *)
HeaderKnown == rx[1][2] = 1 /\ rx[1][1] \in 1 .. Len(sent) /\ sent[rx[1][1]].len >= HeaderSize

DeclaredSizes == IF HeaderKnown THEN {sent[rx[1][1]].size} ELSE Sizes

(* Whether OnPacket takes it for an exit.                                  *)
Exits == IF HeaderKnown THEN {sent[rx[1][1]].exit} ELSE BOOLEAN

(* No upper bound.                                                         *)
LargeEnough(n) == n >= HeaderSize

ValidSize(n) == n >= HeaderSize /\ n <= MaxPacket

NeedMore ==
  \/ Len(rx) < HeaderSize
  \/ Len(rx) >= HeaderSize /\ \E n \in DeclaredSizes : ValidSize(n) /\ Len(rx) < n

(* No receive is posted.                                                   *)
PopNeedMoreStay ==
  /\ at = "pop" /\ NeedMore
  /\ UNCHANGED vars

PopNeedMore ==
  /\ at = "pop" /\ NeedMore
  /\ at' = "post"
  /\ UNCHANGED <<client, chunk, rx, delivered, session>>

PopMalformed ==
  /\ at = "pop" /\ Len(rx) >= HeaderSize
  /\ \E n \in DeclaredSizes : ~ValidSize(n)
  /\ at' = "done"
  /\ CloseSession("wrong")
  /\ UNCHANGED <<client, chunk, rx, delivered>>

(* HandleExit closes the session.                                          *)
OnPacket(exit) == IF exit THEN CloseSession("exit") ELSE UNCHANGED session

(* One byte too few is consumed.                                           *)
PopPacketShort ==
  /\ at = "pop" /\ Len(rx) >= HeaderSize
  /\ \E n \in DeclaredSizes :
       /\ ValidSize(n) /\ n <= Len(rx)
       /\ delivered' = Append(delivered, SubSeq(rx, 1, n))
       /\ rx' = SubSeq(rx, n, Len(rx))
  /\ \E exit \in Exits : OnPacket(exit)
  /\ UNCHANGED <<client, at, chunk>>

(* The loop ends after the first packet.                                   *)
PopPacketOnce ==
  /\ at = "pop" /\ Len(rx) >= HeaderSize
  /\ \E n \in DeclaredSizes :
       /\ ValidSize(n) /\ n <= Len(rx)
       /\ delivered' = Append(delivered, SubSeq(rx, 1, n))
       /\ rx' = SubSeq(rx, n + 1, Len(rx))
  /\ \E exit \in Exits : OnPacket(exit)
  /\ at' = "post"
  /\ UNCHANGED <<client, chunk>>

(* The loop goes on, also after an exit.                                   *)
PopPacket ==
  /\ at = "pop" /\ Len(rx) >= HeaderSize
  /\ \E n \in DeclaredSizes :
       /\ ValidSize(n) /\ n <= Len(rx)
       /\ delivered' = Append(delivered, SubSeq(rx, 1, n))
       /\ rx' = SubSeq(rx, n + 1, Len(rx))
  /\ \E exit \in Exits : OnPacket(exit)
  /\ UNCHANGED <<client, at, chunk>>

(* PostRecv returns when closing is set.                                   *)
PostRecv ==
  /\ at = "post"
  /\ at' = IF ended = "no" THEN "wsarecv" ELSE "done"
  /\ UNCHANGED <<client, chunk, rx, delivered, session>>

(* WSARecv fails on a socket closed meanwhile, and may fail at any time.   *)
WSARecv ==
  /\ at = "wsarecv"
  /\ \/ sock /\ at' = "recv" /\ UNCHANGED session
     \/ at' = "done" /\ CloseSession("failed")
  /\ UNCHANGED <<client, chunk, rx, delivered>>

Worker ==
  \/ RecvEnd \/ RecvFault \/ RecvAppend \/ PopNeedMore \/ PopMalformed \/ PopPacket
  \/ PostRecv \/ WSARecv

Next == ClientSends \/ ClientLeaves \/ RecvData \/ SendFails \/ Worker

Spec == Init /\ [][Next]_vars

(* The network delivers what has arrived and a worker runs on; the client  *)
(* promises nothing.                                                       *)
FairSpec == Spec /\ WF_vars(Worker) /\ WF_vars(RecvData)

-----------------------------------------------------------------------------
WellFormed(k) == sent[k].size = sent[k].len /\ ValidSize(sent[k].size)

(* The packets up to k have a header that tells their length.              *)
Aligned(k) == k <= Len(sent) /\ \A j \in 1 .. k : WellFormed(j)

(* However the stream is cut, OnPacket gets the client's packets, each     *)
(* whole, in order, none twice, as far as their headers are right.         *)
Framed ==
  \A k \in 1 .. Len(delivered) : Aligned(k) => delivered[k] = Bytes(k)

(* The packets with a right header that no wrong one precedes, the part of *)
(* them that OnPacket has had, and the rest.                               *)
Right   == CHOOSE n \in 0 .. Len(sent) : Aligned(n) /\ ~Aligned(n + 1)
Heard   == SubSeq(delivered, 1, IF Len(delivered) <= Right THEN Len(delivered) ELSE Right)
Unheard == [i \in 1 .. Right - Len(delivered) |-> Bytes(Len(delivered) + i)]
Whole   == {[i \in 1 .. n |-> <<k, i>>] : k \in 1 .. MaxSent, n \in HeaderSize .. MaxPacket}

Fifo == INSTANCE PacketFifo WITH
  Packet <- Whole, pending <- Unheard, delivered <- Heard, broken <- (at \in {"done", "fault"})

(* These reach OnPacket as through a FIFO of whole packets: receives that  *)
(* cut and merge them, and Pop's loop over the ring, do not show, and none *)
(* is skipped.  The FIFO ends when the worker posts no receive any more.   *)
(* That is not when closing is set: what stands in the ring behind an      *)
(* exit, or when another worker closes the session, is handled still.      *)
IsFifo == Fifo!Spec

(* A completed receive always fits: RecvCompletion's overflow branch is    *)
(* dead code, because Pop leaves less than one packet behind.              *)
NeverOverflows == at = "append" => Len(rx) + Len(chunk) <= Capacity

(* No complete packet waits in the ring while the server waits for bytes.  *)
NothingWaits ==
  at = "recv" /\ Aligned(Len(sent)) /\ stream = <<>> /\ peer # "reset"
    => Len(delivered) = Len(sent)

(* A well-formed packet whose predecessors were, too, is handled in the    *)
(* end, unless the connection is reset, or the server has closed it for an *)
(* exit packet or a WSASend or WSARecv that failed.  The end of the stream *)
(* and a wrong packet behind it are no excuse.                             *)
AllDelivered ==
  \A k \in 1 .. MaxSent :
    Aligned(k) ~> (Len(delivered) >= k \/ peer = "reset" \/ ended \in {"exit", "failed"})

(* A packet whose header does not tell its length is found out when the    *)
(* server has read all its bytes.                                          *)
WrongSizeFound ==
  at = "recv" /\ stream = <<>> /\ peer = "up" =>
    \A k \in 1 .. Len(sent) : sent[k].size = sent[k].len
=============================================================================
