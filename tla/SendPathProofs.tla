--------------------------- MODULE SendPathProofs ---------------------------
(***************************************************************************)
(* SendPath implements PacketFifo for every number of workers, packets and *)
(* packets merged.  OneSender, with the types, is inductive: a worker that *)
(* comes to post has taken the right to send from `sending` or from the    *)
(* WSASend that completed.  It makes InHand the batch of one worker, and   *)
(* what is left is how SubSeq and \o cut and join sequences.               *)
(***************************************************************************)
EXTENDS SendPath, TLAPS, SequenceTheorems

(* A worker that is about to queue has a packet.                           *)
DataInv == \A w \in Workers : at[w] \in {"enqueue", "push"} => data[w] # 0

(* The queue is cut after as many packets as one WSASend takes.            *)
LEMMA Cut ==
  ASSUME NEW S, NEW q \in Seq(S), NEW k \in Nat
  PROVE  LET n == Least(Len(q), k) IN
         /\ SubSeq(q, 1, n) \in Seq(S) /\ Len(SubSeq(q, 1, n)) <= k
         /\ SubSeq(q, n + 1, Len(q)) \in Seq(S)
         /\ SubSeq(q, 1, n) \o SubSeq(q, n + 1, Len(q)) = q
<1> DEFINE n == Least(Len(q), k)
<1>1. n \in 0 .. Len(q) /\ n <= k
  BY DEF Least
<1>2. SubSeq(q, 1, n) \o SubSeq(q, n + 1, Len(q)) = SubSeq(q, 1, Len(q))
  <2>1. 1 \in 1 .. Len(q) + 1 /\ n \in 1 - 1 .. Len(q) /\ Len(q) \in n .. Len(q)
    BY <1>1
  <2> HIDE DEF n
  <2> QED
    BY <2>1, ConcatAdjacentSubSeq
<1>3. SubSeq(q, 1, Len(q)) = q
  BY SubSeqFull
<1>4. /\ SubSeq(q, 1, n) \in Seq(S) /\ Len(SubSeq(q, 1, n)) <= k
      /\ SubSeq(q, n + 1, Len(q)) \in Seq(S)
  <2> HIDE DEF n
  <2>1. n \in Nat /\ Len(q) \in Nat /\ n <= Len(q)
    BY <1>1
  <2>2. (\A i \in 1 .. n : q[i] \in S) /\ (\A i \in n + 1 .. Len(q) : q[i] \in S)
    BY <2>1, ElementOfSeq
  <2> QED
    BY <1>1, <2>1, <2>2, SubSeqProperties
<1> QED
  BY <1>2, <1>3, <1>4

(* A batch in front of the queue is cut off again by its length.           *)
LEMMA Front ==
  ASSUME NEW S, NEW s \in Seq(S), NEW t \in Seq(S)
  PROVE  /\ s \o t \in Seq(S) /\ Len(s \o t) = Len(s) + Len(t)
         /\ SubSeq(s \o t, 1, Len(s)) = s
         /\ SubSeq(s \o t, Len(s) + 1, Len(s \o t)) = t
<1>1. /\ s \o t \in Seq(S) /\ Len(s \o t) = Len(s) + Len(t)
      /\ \A i \in 1 .. Len(s) + Len(t) :
           (s \o t)[i] = IF i <= Len(s) THEN s[i] ELSE t[i - Len(s)]
  BY ConcatProperties
<1>2. Len(s) \in Nat /\ Len(t) \in Nat
  OBVIOUS
<1> DEFINE u == s \o t
<1>3. /\ \A i \in 1 .. Len(s) : u[i] \in S
      /\ \A i \in Len(s) + 1 .. Len(u) : u[i] \in S
  BY <1>1, <1>2, ElementOfSeq
<1> HIDE DEF u
<1>4. /\ SubSeq(u, 1, Len(s)) \in Seq(S) /\ Len(SubSeq(u, 1, Len(s))) = Len(s)
      /\ \A i \in 1 .. Len(s) : SubSeq(u, 1, Len(s))[i] = u[i]
  BY <1>2, <1>3, SubSeqProperties
<1>5. Len(u) = Len(s) + Len(t)
  BY <1>1 DEF u
<1>6. /\ SubSeq(u, Len(s) + 1, Len(u)) \in Seq(S)
      /\ Len(SubSeq(u, Len(s) + 1, Len(u))) = Len(t)
      /\ \A i \in 1 .. Len(t) : SubSeq(u, Len(s) + 1, Len(u))[i] = u[Len(s) + i]
  BY <1>2, <1>3, <1>5, SubSeqProperties
<1>7. SubSeq(u, 1, Len(s)) = s
  BY <1>1, <1>2, <1>4, SeqEqual DEF u
<1>8. SubSeq(u, Len(s) + 1, Len(u)) = t
  <2>1. \A i \in 1 .. Len(t) : u[Len(s) + i] = t[i]
    BY <1>1, <1>2 DEF u
  <2> QED
    BY <1>6, <2>1, SeqEqual
<1> QED
  BY <1>1, <1>7, <1>8 DEF u

(* A session starts with nothing queued and nobody sending.                *)
LEMMA SendInit == Init => TypeOK /\ DataInv /\ OneSender /\ RightKept
<1> SUFFICES ASSUME Init PROVE TypeOK /\ DataInv /\ OneSender /\ RightKept
  OBVIOUS
<1>1. <<>> \in Seq(Nat) /\ Len(<<>>) = 0
  OBVIOUS
<1>2. MaxBatch \in Nat /\ MaxPackets \in Nat
  BY SendPathAssumption
<1>3. TypeOK
  <2>1. /\ batch \in [Workers -> Seq(Nat)] /\ \A w \in Workers : batch[w] = <<>>
        /\ data \in [Workers -> 0 .. MaxPackets] /\ at \in [Workers -> At]
    BY <1>1, <1>2 DEF Init, At
  <2>2. queue \in Seq(Nat) /\ wire \in Seq(Nat)
    <3>1. queue = <<>> /\ wire = <<>>
      BY DEF Init
    <3> QED
      BY <1>1, <3>1, Zenon
  <2>3. \A w \in Workers : Len(batch[w]) <= MaxBatch
    <3>1. SUFFICES ASSUME NEW w \in Workers PROVE Len(batch[w]) <= MaxBatch
      OBVIOUS
    <3>2. Len(batch[w]) = 0
      BY <1>1, <2>1, Zenon
    <3>3. 0 <= MaxBatch
      BY <1>2
    <3> QED
      BY <3>2, <3>3, Zenon
  <2>4. /\ sending = FALSE /\ closing = FALSE /\ link = "up" /\ out = 0
        /\ assoc = FALSE /\ unheard = FALSE /\ made = 0 /\ broken = FALSE
    BY DEF Init
  <2>5. link \in {"up", "left", "closed"} /\ out \in Nat /\ made \in 0 .. MaxPackets
    BY <1>2, <2>4
  <2> QED
    BY <2>1, <2>2, <2>3, <2>4, <2>5, Zenon DEF TypeOK
<1>4. Posting = {} /\ out = 0 /\ ~broken /\ ~sending /\ \A w \in Workers : batch[w] = <<>>
  BY DEF Init, Posting
<1>5. OneSender /\ RightKept
  BY <1>4 DEF OneSender, RightKept
<1> QED
  BY <1>3, <1>5 DEF Init, DataInv

(* Each step of a worker keeps the types.                                  *)
LEMMA TypeWorker ==
  ASSUME TypeOK, DataInv, NEW w \in Workers, Handler(w) \/ Closer(w) \/ Running(w)
  PROVE  TypeOK' /\ DataInv'
<1> USE SendPathAssumption DEF TypeOK, DataInv, session, network, port, Go, At
<1>e. <<>> \in Seq(Nat) /\ Len(<<>>) = 0
  OBVIOUS
<1>1. CASE Handler(w)
  BY <1>e, <1>1 DEF Handler
<1>2. CASE Closer(w)
  BY <1>e, <1>2 DEF Closer
<1>3. CASE SendCompletion(w)
  BY <1>e, <1>3 DEF SendCompletion
<1>4. CASE EnqueueSend(w)
  BY <1>e, <1>4 DEF EnqueueSend
<1>5. CASE Push(w)
  BY <1>e, <1>5 DEF Push
<1>6. CASE Exchange(w)
  BY <1>e, <1>6 DEF Exchange
<1>7. CASE PostSend(w)
  BY <1>e, <1>7 DEF PostSend
<1>8. CASE GiveNothing(w)
  BY <1>e, <1>8 DEF GiveNothing
<1>9. CASE Give(w)
  BY <1>e, <1>9 DEF Give
<1>10. CASE GiveFails(w)
  BY <1>e, <1>10 DEF GiveFails
<1>11. CASE CloseSession(w)
  BY <1>e, <1>11 DEF CloseSession
<1>12. CASE CloseSocket(w)
  BY <1>e, <1>12 DEF CloseSocket
<1>13. CASE Take(w)
  <2>1. /\ \E n \in Nat : /\ batch' = [batch EXCEPT ![w] = SubSeq(queue, 1, n)]
                         /\ SubSeq(queue, 1, n) \in Seq(Nat) /\ Len(SubSeq(queue, 1, n)) <= MaxBatch
        /\ queue' \in Seq(Nat)
    <3> DEFINE n == Least(Len(queue), MaxBatch)
    <3>1. /\ batch' = [batch EXCEPT ![w] = SubSeq(queue, 1, n)]
          /\ queue' = SubSeq(queue, n + 1, Len(queue))
      BY <1>13 DEF Take
    <3>2. n \in Nat
      BY DEF Least
    <3> QED
      BY <3>1, <3>2, Cut
  <2> QED
    BY <1>13, <2>1 DEF Take
<1> QED
  BY <1>1, <1>2, <1>3, <1>4, <1>5, <1>6, <1>7, <1>8, <1>9, <1>10, <1>11, <1>12, <1>13 DEF Running

(* The right to send moves from hand to hand: whoever is the sender after  *)
(* a step was it before, or finds nobody else to be it.                    *)
LEMMA OneSenderWorker ==
  ASSUME TypeOK, OneSender, RightKept, NEW w \in Workers,
         Handler(w) \/ Closer(w) \/ Running(w)
  PROVE  OneSender' /\ RightKept'
<1> USE DEF OneSender, RightKept, Posting, session, network, port, Go
<1>0. /\ at \in [Workers -> At] /\ batch \in [Workers -> Seq(Nat)] /\ out \in Nat
      /\ sending \in BOOLEAN /\ closing \in BOOLEAN
  BY DEF TypeOK
<1>1. CASE Handler(w)
  BY <1>0, <1>1 DEF Handler
<1>2. CASE Closer(w)
  BY <1>0, <1>2 DEF Closer
<1>3. CASE SendCompletion(w)
  BY <1>0, <1>3 DEF SendCompletion
<1>4. CASE EnqueueSend(w)
  BY <1>0, <1>4 DEF EnqueueSend
<1>5. CASE Push(w)
  BY <1>0, <1>5 DEF Push
<1>6. CASE Exchange(w)
  BY <1>0, <1>6 DEF Exchange
<1>7. CASE PostSend(w)
  BY <1>0, <1>7 DEF PostSend
<1>8. CASE Take(w)
  BY <1>0, <1>8 DEF Take
<1>9. CASE GiveNothing(w)
  BY <1>0, <1>9 DEF GiveNothing
<1>10. CASE Give(w)
  BY <1>0, <1>10 DEF Give
<1>11. CASE GiveFails(w)
  BY <1>0, <1>11 DEF GiveFails
<1>12. CASE CloseSession(w)
  BY <1>0, <1>12 DEF CloseSession
<1>13. CASE CloseSocket(w)
  BY <1>0, <1>13 DEF CloseSocket
<1> QED
  BY <1>1, <1>2, <1>3, <1>4, <1>5, <1>6, <1>7, <1>8, <1>9, <1>10, <1>11, <1>12, <1>13 DEF Running

(* The environment touches neither queue nor frames.                       *)
LEMMA OutsideKeeps ==
  ASSUME TypeOK, DataInv, OneSender, RightKept,
         Associate \/ SendUnheard \/ ClientLeaves \/ UNCHANGED vars
  PROVE  /\ TypeOK' /\ DataInv' /\ OneSender' /\ RightKept'
         /\ UNCHANGED <<queue, batch, wire, broken>>
<1>1. UNCHANGED <<queue, sending, closing, wire, made, broken, at, data, batch>>
  BY DEF Associate, SendUnheard, ClientLeaves, vars, session, network, port
<1>2. UNCHANGED Posting
  BY <1>1 DEF Posting
<1>3. /\ out' \in Nat /\ assoc' \in BOOLEAN /\ unheard' \in BOOLEAN
      /\ link' \in {"up", "left", "closed"}
  <2>1. out \in Nat /\ assoc \in BOOLEAN /\ unheard \in BOOLEAN /\ link \in {"up", "left", "closed"}
    BY DEF TypeOK
  <2>2. CASE Associate
    BY <2>1, <2>2 DEF Associate, network
  <2>3. CASE SendUnheard
    BY <2>1, <2>3 DEF SendUnheard
  <2>4. CASE ClientLeaves
    BY <2>1, <2>4 DEF ClientLeaves, port
  <2>5. CASE UNCHANGED vars
    BY <2>1, <2>5 DEF vars, network, port
  <2> QED
    BY <2>2, <2>3, <2>4, <2>5
<1>4. TypeOK' /\ DataInv'
  <2>1. /\ queue' \in Seq(Nat) /\ sending' \in BOOLEAN /\ closing' \in BOOLEAN
        /\ wire' \in Seq(Nat) /\ made' \in 0 .. MaxPackets /\ broken' \in BOOLEAN
        /\ at' \in [Workers -> At] /\ data' \in [Workers -> 0 .. MaxPackets]
    BY <1>1 DEF TypeOK
  <2>2. batch' \in [Workers -> Seq(Nat)] /\ \A w \in Workers : Len(batch'[w]) <= MaxBatch
    BY <1>1, Zenon DEF TypeOK
  <2> QED
    BY <1>1, <1>3, <2>1, <2>2, Zenon DEF TypeOK, DataInv
<1>5. OneSender' /\ RightKept'
  BY <1>1, <1>2 DEF TypeOK, OneSender, RightKept,
                    Associate, SendUnheard, ClientLeaves, vars, session, network, port
<1> QED
  BY <1>1, <1>4, <1>5

(* The four parts together are inductive.                                  *)
SendInv == TypeOK /\ DataInv /\ OneSender /\ RightKept

LEMMA SendNext == SendInv /\ [Next]_vars => SendInv'
BY TypeWorker, OneSenderWorker, OutsideKeeps DEF SendInv, Next

LEMMA SendInvHolds == Spec => []SendInv
<1>1. Init => SendInv
  BY SendInit DEF SendInv
<1> QED
  BY <1>1, SendNext, PTL DEF Spec

-----------------------------------------------------------------------------
(***************************************************************************)
(* The refinement.                                                         *)
(***************************************************************************)
(* When only worker w may have packets in hand, they are its batch.        *)
LEMMA HandIs ==
  ASSUME NEW w \in Workers, \A v \in Workers : v # w => batch[v] = <<>>
  PROVE  InHand = batch[w]
<1>1. CASE batch[w] = <<>>
  BY <1>1 DEF InHand
<1>2. CASE batch[w] # <<>>
  <2>1. {v \in Workers : batch[v] # <<>>} = {w}
    BY <1>2
  <2> QED
    BY <2>1 DEF InHand
<1> QED
  BY <1>1, <1>2

LEMMA HandIsPrimed ==
  ASSUME NEW w \in Workers, \A v \in Workers : v # w => batch'[v] = <<>>
  PROVE  InHand' = batch'[w]
<1>1. CASE batch'[w] = <<>>
  BY <1>1 DEF InHand
<1>2. CASE batch'[w] # <<>>
  <2>1. {v \in Workers : batch'[v] # <<>>} = {w}
    BY <1>2
  <2> QED
    BY <2>1 DEF InHand
<1> QED
  BY <1>1, <1>2

LEMMA HandType == ASSUME TypeOK PROVE InHand \in Seq(Nat)
<1>1. batch \in [Workers -> Seq(Nat)] /\ <<>> \in Seq(Nat)
  BY DEF TypeOK
<1>2. CASE \A w \in Workers : batch[w] = <<>>
  BY <1>1, <1>2 DEF InHand
<1>3. CASE \E w \in Workers : batch[w] # <<>>
  BY <1>1, <1>3 DEF InHand
<1> QED
  BY <1>2, <1>3

(* A worker at these points has the only packets in hand, if any.          *)
LEMMA Alone ==
  ASSUME OneSender, NEW w \in Posting
  PROVE  \A v \in Workers : v # w => batch[v] = <<>>
BY DEF OneSender, Posting

(* EnqueueSend's push is a Put.                                            *)
LEMMA PushPuts ==
  ASSUME SendInv, NEW w \in Workers, Push(w)
  PROVE  \E p \in 1 .. MaxPackets : Fifo!Put(p)
<1>1. /\ queue' = Append(queue, data[w]) /\ UNCHANGED <<batch, wire, broken>>
      /\ at[w] = "push"
  BY DEF Push, network
<1>2. data[w] \in 1 .. MaxPackets
  BY <1>1 DEF SendInv, DataInv, TypeOK
<1>3. UNCHANGED InHand
  BY <1>1 DEF InHand
<1>4. InHand \in Seq(Nat) /\ queue \in Seq(Nat) /\ data[w] \in Nat
  BY <1>2, HandType DEF SendInv, TypeOK
<1>5. InHand \o Append(queue, data[w]) = Append(InHand \o queue, data[w])
  BY <1>4
<1> QED
  BY <1>1, <1>2, <1>3, <1>5 DEF Fifo!Put

(* PostSend's block under the mutex moves packets from queue to hand.      *)
LEMMA TakeStutters ==
  ASSUME SendInv, NEW w \in Workers, Take(w)
  PROVE  (InHand \o queue)' = InHand \o queue /\ UNCHANGED <<wire, broken>>
<1> DEFINE n == Least(Len(queue), MaxBatch)
<1>1. /\ at[w] = "take"
      /\ batch' = [batch EXCEPT ![w] = SubSeq(queue, 1, n)]
      /\ queue' = SubSeq(queue, n + 1, Len(queue))
      /\ UNCHANGED <<wire, broken>>
  BY DEF Take, network
<1>2. queue \in Seq(Nat) /\ MaxBatch \in Nat /\ batch \in [Workers -> Seq(Nat)]
  BY SendPathAssumption DEF SendInv, TypeOK
<1>3. SubSeq(queue, 1, n) \o SubSeq(queue, n + 1, Len(queue)) = queue
  BY <1>2, Cut
<1> HIDE DEF n
<1>4. batch[w] = <<>> /\ \A v \in Workers : v # w => batch[v] = <<>>
  <2>1. w \in Posting
    BY <1>1 DEF Posting
  <2> QED
    BY <1>1, <2>1, Alone DEF SendInv, OneSender
<1>5. batch'[w] = SubSeq(queue, 1, n) /\ \A v \in Workers : v # w => batch'[v] = <<>>
  BY <1>1, <1>2, <1>4
<1>6. InHand = <<>> /\ InHand' = SubSeq(queue, 1, n)
  BY <1>4, <1>5, HandIs, HandIsPrimed
<1>7. <<>> \o queue = queue
  BY <1>2
<1> QED
  BY <1>1, <1>3, <1>6, <1>7

(* A batch leaves the hand, to the connection or with PostSend's frame.    *)
LEMMA Leaves ==
  ASSUME SendInv, NEW w \in Workers, at[w] = "give", batch[w] # <<>>,
         batch' = [batch EXCEPT ![w] = <<>>], UNCHANGED queue
  PROVE  LET p == InHand \o queue  n == Len(batch[w]) IN
         /\ n \in 1 .. Len(p)
         /\ SubSeq(p, 1, n) = batch[w]
         /\ (InHand \o queue)' = SubSeq(p, n + 1, Len(p))
<1>1. /\ queue \in Seq(Nat) /\ batch \in [Workers -> Seq(Nat)]
      /\ batch[w] \in Seq(Nat)
  BY DEF SendInv, TypeOK
<1>2. \A v \in Workers : v # w => batch[v] = <<>>
  <2>1. w \in Posting
    BY DEF Posting
  <2> QED
    BY <2>1, Alone DEF SendInv
<1>3. batch'[w] = <<>> /\ \A v \in Workers : v # w => batch'[v] = <<>>
  BY <1>1, <1>2
<1>4. InHand = batch[w] /\ InHand' = <<>>
  BY <1>2, <1>3, HandIs, HandIsPrimed
<1>5. Len(batch[w]) \in Nat \ {0} /\ Len(queue) \in Nat
  BY <1>1, EmptySeq
<1>6. <<>> \o queue = queue
  BY <1>1
<1> DEFINE b == batch[w]
<1>7. /\ Len(b \o queue) = Len(b) + Len(queue)
      /\ SubSeq(b \o queue, 1, Len(b)) = b
      /\ SubSeq(b \o queue, Len(b) + 1, Len(b \o queue)) = queue
  BY <1>1, Front
<1>8. Len(b) \in 1 .. Len(b \o queue)
  BY <1>5, <1>7
<1> QED
  BY <1>4, <1>6, <1>7, <1>8

(* WSASend is a Send, and one that fails loses the batch.                  *)
LEMMA GiveSends ==
  ASSUME SendInv, NEW w \in Workers, Give(w)
  PROVE  \E n \in 1 .. Len(InHand \o queue) : Fifo!Send(n)
<1>1. /\ at[w] = "give" /\ batch[w] # <<>> /\ link # "closed"
      /\ wire' = wire \o batch[w] /\ batch' = [batch EXCEPT ![w] = <<>>]
      /\ UNCHANGED <<queue, broken>>
  BY DEF Give, session
<1>2. ~broken
  <2>1. w \in Posting
    BY <1>1 DEF Posting
  <2> QED
    BY <1>1, <2>1 DEF SendInv, OneSender
<1> QED
  BY <1>1, <1>2, Leaves DEF Fifo!Send, Fifo!Rest

LEMMA GiveLoses ==
  ASSUME SendInv, NEW w \in Workers, GiveFails(w)
  PROVE  \E n \in 0 .. Len(InHand \o queue) : Fifo!Lose(n)
<1>1. /\ at[w] = "give" /\ batch[w] # <<>>
      /\ batch' = [batch EXCEPT ![w] = <<>>] /\ broken' = TRUE
      /\ UNCHANGED <<queue, wire>>
  BY DEF GiveFails, session, network
<1>2. 1 .. Len(InHand \o queue) \subseteq 0 .. Len(InHand \o queue)
  OBVIOUS
<1> QED
  BY <1>1, <1>2, Leaves DEF Fifo!Lose, Fifo!Rest

(* closesocket ends the connection with what is queued still there.        *)
LEMMA CloseLoses ==
  ASSUME SendInv, NEW w \in Workers, CloseSocket(w)
  PROVE  \E n \in 0 .. Len(InHand \o queue) : Fifo!Lose(n)
<1>1. broken' = TRUE /\ UNCHANGED <<queue, batch, wire>>
  BY DEF CloseSocket, session
<1>2. UNCHANGED InHand
  BY <1>1 DEF InHand
<1>3. InHand \o queue \in Seq(Nat)
  BY HandType DEF SendInv, TypeOK
<1>4. /\ 0 \in 0 .. Len(InHand \o queue)
      /\ SubSeq(InHand \o queue, 0 + 1, Len(InHand \o queue)) = InHand \o queue
  BY <1>3, SubSeqFull
<1> QED
  BY <1>1, <1>2, <1>4 DEF Fifo!Lose, Fifo!Rest

(* Every step is one of PacketFifo or leaves pending, wire and broken.     *)
LEMMA SendStep == SendInv /\ [Next]_vars => [Fifo!Next]_(Fifo!vars)
<1> SUFFICES ASSUME SendInv, [Next]_vars PROVE [Fifo!Next]_(Fifo!vars)
  OBVIOUS
<1>1. ASSUME UNCHANGED <<queue, batch, wire, broken>> PROVE UNCHANGED Fifo!vars
  <2>1. UNCHANGED InHand
    BY <1>1 DEF InHand
  <2> QED
    BY <1>1, <2>1 DEF Fifo!vars
<1>2. CASE Associate \/ SendUnheard \/ ClientLeaves \/ UNCHANGED vars
  BY <1>1, <1>2, OutsideKeeps DEF SendInv
<1>3. ASSUME NEW w \in Workers, Handler(w) \/ Closer(w) \/ Running(w)
      PROVE  [Fifo!Next]_(Fifo!vars)
  <2>1. CASE Push(w)
    BY <2>1, PushPuts DEF Fifo!Next
  <2>2. CASE Take(w)
    BY <2>2, TakeStutters DEF Fifo!vars
  <2>3. CASE Give(w)
    BY <2>3, GiveSends DEF Fifo!Next
  <2>4. CASE GiveFails(w) \/ CloseSocket(w)
    BY <2>4, GiveLoses, CloseLoses DEF Fifo!Next
  <2>5. CASE \/ Handler(w) \/ Closer(w) \/ SendCompletion(w) \/ EnqueueSend(w)
             \/ Exchange(w) \/ PostSend(w) \/ GiveNothing(w) \/ CloseSession(w)
    <3>1. UNCHANGED <<queue, batch, wire, broken>>
      BY <2>5 DEF Handler, Closer, SendCompletion, EnqueueSend, Exchange, PostSend,
                  GiveNothing, CloseSession, session, network
    <3> QED
      BY <1>1, <3>1
  <2> QED
    BY <1>3, <2>1, <2>2, <2>3, <2>4, <2>5 DEF Running
<1> QED
  BY <1>2, <1>3 DEF Next

-----------------------------------------------------------------------------
(* Types of the send path; a batch never exceeds the limit of PostSend.    *)
THEOREM SendTypes == Spec => []TypeOK
BY SendInvHolds, PTL DEF SendInv

(* One sender at a time on ovSend, for every number of workers             *)
(* (EnqueueSend, PostSend, SendCompletion).                                *)
THEOREM OneSenderHolds == Spec => []OneSender
BY SendInvHolds, PTL DEF SendInv

(* The right to send is lost only in the three ways that RightKept names.  *)
THEOREM RightIsKept == Spec => []RightKept
BY SendInvHolds, PTL DEF SendInv

(* The send path delivers a client's packets in the order in which they    *)
(* were queued, each at most once, until the connection ends.              *)
THEOREM SendPathIsFifo == Spec => IsFifo
<1>1. Init => Fifo!Init
  <2> SUFFICES ASSUME Init PROVE Fifo!Init
    OBVIOUS
  <2>1. queue = <<>> /\ wire = <<>> /\ broken = FALSE /\ \A w \in Workers : batch[w] = <<>>
    BY DEF Init
  <2>2. InHand = <<>>
    BY <2>1 DEF InHand
  <2>3. <<>> \o <<>> = <<>>
    OBVIOUS
  <2> QED
    BY <2>1, <2>2, <2>3 DEF Fifo!Init
<1> QED
  BY <1>1, SendStep, SendInvHolds, PTL DEF Spec, IsFifo, Fifo!Spec
=============================================================================
