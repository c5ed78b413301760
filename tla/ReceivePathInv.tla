--------------------------- MODULE ReceivePathInv ---------------------------
(***************************************************************************)
(* The inductive invariant behind the safety properties of ReceivePath.    *)
(* It is about the flow: the bytes in the ring, in the receive buffer and  *)
(* on the way, in this order.                                              *)
(***************************************************************************)
EXTENDS ReceivePath

flow == rx \o chunk \o stream

(* The receive buffer holds bytes only between a receive and append.       *)
ChunkInv == at \notin {"append", "fault"} => chunk = <<>>

(* Pop leaves less than one packet behind.                                 *)
RoomInv == at \in {"post", "wsarecv", "recv", "append"} => Len(rx) < MaxPacket

(* Every byte is a byte of a packet that was sent.                         *)
KnownInv ==
  \A i \in 1 .. Len(flow) :
    flow[i][1] \in 1 .. Len(sent) /\ flow[i][2] \in 1 .. sent[flow[i][1]].len

(* A packet's bytes are contiguous, and the next packet follows.           *)
RunsInv ==
  \A i \in 1 .. Len(flow), m \in 0 .. Len(flow) :
    i + m <= Len(flow) /\ flow[i][2] + m <= sent[flow[i][1]].len
      => flow[i + m] = <<flow[i][1], flow[i][2] + m>>
CrossInv ==
  \A i \in 1 .. Len(flow) :
    i + 1 <= Len(flow) /\ flow[i][2] = sent[flow[i][1]].len
      => flow[i + 1] = <<flow[i][1] + 1, 1>>

(* As long as the headers were right, the flow starts with the packet      *)
(* after the last one delivered...                                         *)
FrontInv ==
  Aligned(Len(delivered)) /\ Len(flow) > 0 => flow[1] = <<Len(delivered) + 1, 1>>

(* ... and until a reset it ends with the last byte sent.                  *)
EndInv ==
  peer # "reset" =>
    /\ Len(flow) > 0 => flow[Len(flow)] = <<Len(sent), sent[Len(sent)].len>>
    /\ Len(flow) = 0 /\ Aligned(Len(delivered)) => Len(delivered) = Len(sent)

(* Only a wrong header makes more packets out of the bytes than were sent. *)
CountInv == Len(delivered) > Len(sent) => \E j \in 1 .. Len(sent) : ~WellFormed(j)

(* While a receive is pending or to be posted, the packet at the front is  *)
(* not complete.                                                           *)
ParkedInv ==
  at \in {"post", "wsarecv", "recv"} /\ Aligned(Len(delivered) + 1) => Len(rx) < sent[Len(delivered) + 1].len

(* The bytes not yet delivered are, in order, those sent and not           *)
(* delivered.                                                              *)
FlowInv ==
  /\ ChunkInv /\ RoomInv /\ KnownInv /\ RunsInv /\ CrossInv
  /\ FrontInv /\ EndInv /\ CountInv /\ ParkedInv
=============================================================================
