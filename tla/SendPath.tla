------------------------------ MODULE SendPath ------------------------------
(***************************************************************************)
(* Sending to one client (IOCP_EchoServer::EnqueueSend, PostSend,          *)
(* SendCompletion): handlers on any worker queue packets, whoever finds    *)
(* `sending` clear takes up to MaxBatch of them for one WSASend, and its   *)
(* completion goes on with what was queued meanwhile.  Every load of an    *)
(* atomic, block under sessionMtx_ and system call is a step of its own.   *)
(*                                                                         *)
(* The Session serves this one client; what is left of it in a next one is *)
(* a question of IocpServer.                                               *)
(***************************************************************************)
EXTENDS Integers, Sequences

CONSTANTS
  Workers,    \* the worker threads
  MaxBatch,   \* packets merged into one WSASend: 16
  MaxPackets  \* bound: packets made by handlers

ASSUME SendPathAssumption == MaxBatch \in Nat \ {0} /\ MaxPackets \in Nat

VARIABLES
  queue,    \* sendQueue; a packet is its number
  sending,  \* sending
  closing,  \* closing
  link,     \* the connection: "up", "left" by the client, "closed" here
  out,      \* WSASend operations outstanding on ovSend
  wire,     \* the packets handed to WSASend
  assoc,    \* the socket is associated with the completion port
  unheard,  \* history: a WSASend completed before it was
  made,     \* packets made by handlers
  broken,   \* history: a WSASend has failed or the socket was closed
  at,       \* where each worker is
  data,     \* the packet of each worker's EnqueueSend, 0: none
  batch     \* toSend of each worker

session == <<queue, sending, closing>>
network == <<link, out, wire>>
port    == <<assoc, unheard>>
vars    == <<session, network, port, made, broken, at, data, batch>>

At == {"idle", "enqueue", "push", "exchange", "post", "take", "give", "close", "closeSocket"}

TypeOK ==
  /\ queue \in Seq(Nat) /\ sending \in BOOLEAN /\ closing \in BOOLEAN
  /\ link \in {"up", "left", "closed"}
  /\ out \in Nat /\ wire \in Seq(Nat)
  /\ assoc \in BOOLEAN /\ unheard \in BOOLEAN
  /\ made \in 0 .. MaxPackets /\ broken \in BOOLEAN
  /\ at \in [Workers -> At]
  /\ data \in [Workers -> 0 .. MaxPackets]
  /\ batch \in [Workers -> Seq(Nat)]
  /\ \A w \in Workers : Len(batch[w]) <= MaxBatch

(* AcceptCompletion has registered the session: broadcasts find it.        *)
Init ==
  /\ queue = <<>> /\ sending = FALSE /\ closing = FALSE
  /\ link = "up" /\ out = 0 /\ wire = <<>>
  /\ assoc = FALSE /\ unheard = FALSE
  /\ made = 0 /\ broken = FALSE
  /\ at = [w \in Workers |-> "idle"]
  /\ data = [w \in Workers |-> 0]
  /\ batch = [w \in Workers |-> <<>>]

Go(w, l) == at' = [at EXCEPT ![w] = l]

-----------------------------------------------------------------------------
(***************************************************************************)
(* A worker takes up a completion: a handler that sends to this client, or *)
(* decides to close it, or the completion of a WSASend.                    *)
(***************************************************************************)
Handler(w) ==
  /\ at[w] = "idle" /\ made < MaxPackets
  /\ made' = made + 1
  /\ data' = [data EXCEPT ![w] = made + 1]
  /\ Go(w, "enqueue")
  /\ UNCHANGED <<session, network, broken, batch, port>>

Closer(w) ==
  /\ at[w] = "idle"
  /\ Go(w, "close")
  /\ UNCHANGED <<session, network, made, broken, batch, data, port>>

(* The completion is counted and nothing is sent.                          *)
SendCompletionStops(w) ==
  /\ at[w] = "idle" /\ out > 0 /\ assoc
  /\ out' = out - 1
  /\ Go(w, "idle")
  /\ UNCHANGED <<session, link, wire, made, broken, batch, data, port>>

SendCompletion(w) ==
  /\ at[w] = "idle" /\ out > 0 /\ assoc
  /\ out' = out - 1
  /\ Go(w, "post")
  /\ UNCHANGED <<session, link, wire, made, broken, batch, data, port>>

-----------------------------------------------------------------------------
(***************************************************************************)
(* EnqueueSend.                                                            *)
(***************************************************************************)
EnqueueSend(w) ==
  /\ at[w] = "enqueue"
  /\ data' = IF closing THEN [data EXCEPT ![w] = 0] ELSE data
  /\ Go(w, IF closing THEN "idle" ELSE "push")
  /\ UNCHANGED <<session, network, made, broken, batch, port>>

Push(w) ==
  /\ at[w] = "push"
  /\ queue' = Append(queue, data[w])
  /\ data' = [data EXCEPT ![w] = 0]
  /\ Go(w, "exchange")
  /\ UNCHANGED <<sending, closing, network, made, broken, batch, port>>

(* The old value is not looked at.                                         *)
ExchangeBlind(w) ==
  /\ at[w] = "exchange"
  /\ sending' = TRUE
  /\ Go(w, "post")
  /\ UNCHANGED <<queue, closing, network, made, broken, batch, data, port>>

Exchange(w) ==
  /\ at[w] = "exchange"
  /\ sending' = TRUE
  /\ Go(w, IF sending THEN "idle" ELSE "post")
  /\ UNCHANGED <<queue, closing, network, made, broken, batch, data, port>>

-----------------------------------------------------------------------------
(***************************************************************************)
(* PostSend.                                                               *)
(***************************************************************************)
PostSend(w) ==
  /\ at[w] = "post"
  /\ Go(w, IF closing THEN "idle" ELSE "take")
  /\ UNCHANGED <<session, network, made, broken, batch, data, port>>

Least(m, n) == IF m <= n THEN m ELSE n

(* The limit of 16 is off by one.                                          *)
TakeOneMore(w) ==
  LET n == Least(Len(queue), MaxBatch + 1) IN
  /\ at[w] = "take"
  /\ batch' = [batch EXCEPT ![w] = SubSeq(queue, 1, n)]
  /\ queue' = SubSeq(queue, n + 1, Len(queue))
  /\ Go(w, "give")
  /\ UNCHANGED <<sending, closing, network, made, broken, data, port>>

(* The packets are copied and the last one is not popped.                  *)
TakeKeepsLast(w) ==
  LET n == Least(Len(queue), MaxBatch) IN
  /\ at[w] = "take"
  /\ batch' = [batch EXCEPT ![w] = SubSeq(queue, 1, n)]
  /\ queue' = SubSeq(queue, n, Len(queue))
  /\ Go(w, "give")
  /\ UNCHANGED <<sending, closing, network, made, broken, data, port>>

Take(w) ==
  LET n == Least(Len(queue), MaxBatch) IN
  /\ at[w] = "take"
  /\ batch' = [batch EXCEPT ![w] = SubSeq(queue, 1, n)]
  /\ queue' = SubSeq(queue, n + 1, Len(queue))
  /\ Go(w, "give")
  /\ UNCHANGED <<sending, closing, network, made, broken, data, port>>

(* The right to send is not given back.                                    *)
GiveNothingKeeps(w) ==
  /\ at[w] = "give" /\ batch[w] = <<>>
  /\ Go(w, "idle")
  /\ UNCHANGED <<session, network, made, broken, batch, data, port>>

GiveNothing(w) ==
  /\ at[w] = "give" /\ batch[w] = <<>>
  /\ sending' = FALSE
  /\ Go(w, "idle")
  /\ UNCHANGED <<queue, closing, network, made, broken, batch, data, port>>

Give(w) ==
  /\ at[w] = "give" /\ batch[w] # <<>> /\ link # "closed"
  /\ out' = out + 1
  /\ wire' = wire \o batch[w]
  /\ batch' = [batch EXCEPT ![w] = <<>>]
  /\ Go(w, "idle")
  /\ UNCHANGED <<session, link, made, broken, data, port>>

(* WSASend fails: toSend is gone with PostSend's frame.                    *)
GiveFails(w) ==
  /\ at[w] = "give" /\ batch[w] # <<>> /\ link # "up"
  /\ batch' = [batch EXCEPT ![w] = <<>>]
  /\ broken' = TRUE
  /\ Go(w, "close")
  /\ UNCHANGED <<session, network, made, data, port>>

-----------------------------------------------------------------------------
(***************************************************************************)
(* CloseSession, as far as the send path sees it.                          *)
(***************************************************************************)
CloseSession(w) ==
  /\ at[w] = "close"
  /\ closing' = TRUE
  /\ Go(w, IF closing THEN "idle" ELSE "closeSocket")
  /\ UNCHANGED <<queue, sending, network, made, broken, batch, data, port>>

CloseSocket(w) ==
  /\ at[w] = "closeSocket"
  /\ link' = "closed" /\ broken' = TRUE
  /\ Go(w, "idle")
  /\ UNCHANGED <<session, out, wire, made, batch, data, port>>

Running(w) ==
  \/ SendCompletion(w)
  \/ EnqueueSend(w) \/ Push(w) \/ Exchange(w)
  \/ PostSend(w) \/ Take(w) \/ GiveNothing(w) \/ Give(w) \/ GiveFails(w)
  \/ CloseSession(w) \/ CloseSocket(w)

(* The thread in AcceptCompletion goes on.                                 *)
Associate ==
  /\ assoc' = TRUE
  /\ UNCHANGED <<session, network, unheard, made, broken, at, data, batch>>

(* An operation that completes while its socket has no port is not         *)
(* reported to anyone.                                                     *)
SendUnheard ==
  /\ ~assoc /\ out > 0
  /\ out' = out - 1 /\ unheard' = TRUE
  /\ UNCHANGED <<session, link, wire, assoc, made, broken, at, data, batch>>

ClientLeaves ==
  /\ link = "up"
  /\ link' = "left"
  /\ UNCHANGED <<session, out, wire, made, broken, at, batch, data, port>>

Next ==
  \/ \E w \in Workers : Handler(w) \/ Closer(w) \/ Running(w)
  \/ Associate \/ SendUnheard \/ ClientLeaves

Spec == Init /\ [][Next]_vars

(* Workers run on and a WSASend completes; nobody has to send or to close. *)
FairSpec ==
  Spec /\ WF_vars(Associate) /\ \A w \in Workers : WF_vars(Running(w))

-----------------------------------------------------------------------------
Posting == {w \in Workers : at[w] \in {"post", "take", "give"}}

(* However EnqueueSend, completions and closes overlap, the right to send  *)
(* is held once: by one worker in PostSend or by the WSASend outstanding,  *)
(* and `sending` is set while it is.  It is never given back after a       *)
(* WSASend has failed.                                                     *)
OneSender ==
  /\ out <= 1
  /\ \A v, w \in Posting : v = w
  /\ Posting # {} => out = 0
  /\ Posting # {} \/ out = 1 => sending
  /\ \A w \in Workers : batch[w] # <<>> => at[w] = "give"
  /\ broken /\ link # "closed" => Posting = {} /\ out = 0 /\ sending

(* `sending` is set with nobody left to clear it only in a session that    *)
(* closes, after a WSASend that failed, or when a broadcast between        *)
(* sessionTable_[id] = session and CreateIoCompletionPort found the        *)
(* session and its WSASend completed before the association: that client   *)
(* is never sent anything again.                                           *)
RightKept ==
  sending => Posting # {} \/ out = 1 \/ closing \/ broken \/ unheard

(* The packets taken from the queue and not yet given to WSASend.          *)
InHand ==
  LET holders == {w \in Workers : batch[w] # <<>>} IN
  IF holders = {} THEN <<>> ELSE batch[CHOOSE w \in holders : TRUE]

(* The packets sent are those queued, in order, each once, whatever the    *)
(* interleaving of workers and however the merging cuts the queue.         *)
Fifo == INSTANCE PacketFifo WITH
  Packet <- 1 .. MaxPackets, pending <- InHand \o queue, delivered <- wire

IsFifo == Fifo!Spec

(* A worker found the queue empty and cleared `sending` after a packet had *)
(* been queued: no one is left to send it.                                 *)
Stranded ==
  queue # <<>> /\ ~sending /\ \A w \in Workers : at[w] # "exchange"

(* Queued packets are taken in the end, except in that state, by a session *)
(* that closes, and after a completion that was not reported.              *)
QueueDrains ==
  (queue # <<>>) ~>
    (queue = <<>> \/ closing \/ broken \/ unheard \/ Stranded)
=============================================================================
