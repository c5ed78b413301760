-------------------------- MODULE IocpServerTokens --------------------------
(***************************************************************************)
(* Who may receive and who may send on a session, where the bytes of its   *)
(* ring come from, and that no AcceptEx and no session object is lost.     *)
(*                                                                         *)
(* A step of worker u leaves the receive token where it is, takes it with  *)
(* a completion, gives it to a WSARecv, or acquires a new object with it   *)
(* (RecvMove); from this RecvExclusive is inductive by itself.  The send   *)
(* token is guarded by `sending`, which AcceptSetup clears, so             *)
(* SendExclusive needs FreshInv; OriginInv needs that only the holder of   *)
(* the receive token touches a ring.                                       *)
(***************************************************************************)
EXTENDS IocpServerProofs, FunctionTheorems

RecvSame(u) ==
  recvs' = recvs /\ \A s \in Sessions : RecvHolder(u, s)' => RecvHolder(u, s)

RecvTake(u) ==
  \E s \in Sessions, c \in Conns :
    /\ recvs[s][c] > 0 /\ recvs' = [recvs EXCEPT ![s][c] = @ - 1]
    /\ \A q \in Sessions : RecvHolder(u, q)' => q = s

RecvPost(u) ==
  \E s \in Sessions :
    /\ RecvHolder(u, s) /\ conn[s] \in Conns
    /\ \A q \in Sessions, c \in Conns :
         recvs'[q][c] = recvs[q][c] \/ (q = s /\ c = conn[s] /\ recvs'[q][c] = recvs[q][c] + 1)
    /\ \A q \in Sessions : ~RecvHolder(u, q)'

RecvAcquire(u) ==
  /\ recvs' = recvs
  /\ \E s \in Sessions :
       /\ clean' => ~Referenced(s)
       /\ \A q \in Sessions : RecvHolder(u, q)' => q = s

RecvMove(u) == RecvSame(u) \/ RecvTake(u) \/ RecvPost(u) \/ RecvAcquire(u)

(* Every step of AcceptCompletion is one of the receive token's moves.     *)
LEMMA MovesAccept ==
  ASSUME TypeOK, NEW u \in Workers, AcceptStep(u)
  PROVE  RecvMove(u)
<1>0. /\ hand \in [Workers -> Handler] /\ hand[u] \in Handler /\ FramesOK /\ None \notin Sessions
      /\ free \in Seq(Sessions) /\ recvs \in [Sessions -> [Conns -> Nat]]
  BY ServerAssumption DEF TypeOK
<1>s. hand[u].at \notin {"off", "acquire", "setup"} =>
        hand[u].s \in Attached /\ hand[u].s \in Sessions
  BY <1>0 DEF FramesOK, Attached
<1>1. CASE AcceptRefuse(u)
  <2>1. ReturnHandler(u) /\ recvs' = recvs
    BY <1>1 DEF AcceptRefuse
  <2> QED
    BY <1>0, <2>1, ReturnFacts DEF RecvHolder, RecvSame, RecvMove
<1>2. CASE AcceptAcquire(u)
  <2>1. /\ hand' = [hand EXCEPT ![u].at = "setup", ![u].s = Head(free)] /\ recvs' = recvs
        /\ clean' = (clean /\ ~Referenced(Head(free))) /\ free # <<>>
    BY <1>2 DEF AcceptAcquire, kernel
  <2>2. hand'[u].s = Head(free) /\ Head(free) \in Sessions
    BY <1>0, <2>1 DEF Handler
  <2> QED
    BY <2>1, <2>2 DEF RecvHolder, RecvAcquire, RecvMove
<1>3. CASE AcceptSetup(u) \/ AcceptRegister(u) \/ AcceptAssociate(u)
  <2>1. \E l \in {"register", "associate", "firstRecv"} :
          GotoHandler(u, l) /\ hand[u].at \in {"setup", "register", "associate"} /\ recvs' = recvs
    BY <1>3 DEF AcceptSetup, AcceptRegister, AcceptAssociate, kernel, InHandler
  <2>2. hand'[u].s = hand[u].s /\ hand[u].at \in {"setup", "register", "associate"} /\ recvs' = recvs
    BY <2>1, Labels, GotoFacts DEF Went
  <2> QED
    BY <2>2 DEF RecvHolder, RecvSame, RecvMove
<1>4. CASE AcceptPostAccept(u) \/ AcceptWelcome(u)
  <2>1. recvs' = recvs /\ (GotoHandler(u, "welcome") \/ ReturnHandler(u))
    BY <1>4 DEF AcceptPostAccept, AcceptWelcome, kernel
  <2>2. hand'[u].at \in {"welcome", "off"}
    BY <2>1, Labels, GotoFacts, ReturnFacts DEF Went
  <2> QED
    BY <2>1, <2>2 DEF RecvHolder, RecvSame, RecvMove
<1>5. CASE AcceptPostRecv(u)
  <2>1. InHandler(u, "firstRecv") /\ GotoHandler(u, "reaccept") /\ PostRecv(u, hand[u].s)
    BY <1>5 DEF AcceptPostRecv
  <2>2. hand'[u].at = "reaccept"
    BY <2>1, Labels, GotoFacts DEF Went
  <2>3. hand[u].s \in Attached /\ hand[u].s \in Sessions /\ conn[hand[u].s] \in Conns
    BY <1>s, <2>1 DEF InHandler, Attached
  <2>4. RecvHolder(u, hand[u].s)
    BY <2>1 DEF RecvHolder, InHandler
  <2> QED
    BY <2>1, <2>2, <2>3, <2>4, PostRecvFacts DEF RecvHolder, RecvPost, RecvMove
<1> QED
  BY <1>1, <1>2, <1>3, <1>4, <1>5 DEF AcceptStep

(* Every step of RecvCompletion is one of them, too.                       *)
LEMMA MovesRecv ==
  ASSUME TypeOK, NEW u \in Workers, RecvStep(u)
  PROVE  RecvMove(u)
<1>0. hand \in [Workers -> Handler] /\ hand[u] \in Handler /\ FramesOK /\ None \notin Sessions
  BY ServerAssumption DEF TypeOK
<1>s. hand[u].at \notin {"off", "acquire", "setup"} =>
        hand[u].s \in Attached /\ hand[u].s \in Sessions
  BY <1>0 DEF FramesOK, Attached
<1>k. ASSUME recvs' = recvs, hand'[u].s = hand[u].s,
             hand[u].at \in {"append", "pop", "chat", "exit"}
      PROVE  RecvMove(u)
  BY <1>k DEF RecvHolder, RecvSame, RecvMove
<1>1. CASE RecvFault(u) \/ RecvNeedMore(u) \/ BroadcastDone(u)
  <2>1. /\ recvs' = recvs /\ hand[u].at \in {"append", "pop", "chat", "exit"}
        /\ GotoHandler(u, "fault") \/ GotoHandler(u, "nextRecv") \/ GotoHandler(u, "pop")
    BY <1>1 DEF RecvFault, RecvNeedMore, BroadcastDone, InHandler, kernel
  <2>2. hand'[u].s = hand[u].s
    BY <2>1, Labels, GotoFacts DEF Went
  <2> QED
    BY <1>k, <2>1, <2>2
<1>2. CASE RecvAppend(u)
  <2>1. /\ recvs' = recvs /\ hand[u].at = "append"
        /\ hand' = [hand EXCEPT ![u].at = "pop", ![u].data = <<>>]
    BY <1>2 DEF RecvAppend, InHandler, kernel
  <2>2. hand'[u].s = hand[u].s
    BY <1>0, <2>1 DEF Handler
  <2> QED
    BY <1>k, <2>1, <2>2
<1>3. CASE RecvMalformed(u)
  <2>1. ReturnHandler(u) /\ recvs' = recvs
    BY <1>3 DEF RecvMalformed, kernel
  <2> QED
    BY <1>0, <2>1, ReturnFacts DEF RecvHolder, RecvSame, RecvMove
<1>4. CASE RecvPacket(u)
  <2> DEFINE p == Head(rx[hand[u].s])
  <2>1. /\ recvs' = recvs /\ hand[u].at = "pop"
        /\ \/ hand' = [hand EXCEPT ![u].at = p.kind, ![u].targets = Snapshot(hand[u].s)]
           \/ UNCHANGED hand
    BY <1>4 DEF RecvPacket, InHandler, kernel
  <2>2. hand'[u].s = hand[u].s
    BY <1>0, <2>1 DEF Handler
  <2> QED
    BY <1>k, <2>1, <2>2
<1>5. CASE Broadcast(u)
  <2>1. /\ recvs' = recvs /\ hand[u].at \in {"chat", "exit"}
        /\ \E t \in hand[u].targets : hand' = [hand EXCEPT ![u].targets = @ \ {t}]
    BY <1>5 DEF Broadcast, InHandler, kernel
  <2>2. hand'[u].s = hand[u].s
    BY <1>0, <2>1 DEF Handler
  <2> QED
    BY <1>k, <2>1, <2>2
<1>6. CASE RecvPostRecv(u)
  <2>1. InHandler(u, "nextRecv") /\ ReturnHandler(u) /\ PostRecv(u, hand[u].s)
    BY <1>6 DEF RecvPostRecv
  <2>2. hand'[u].at = "off"
    BY <2>1, ReturnFacts
  <2>3. hand[u].s \in Attached /\ hand[u].s \in Sessions /\ conn[hand[u].s] \in Conns
    BY <1>s, <2>1 DEF InHandler, Attached
  <2>4. RecvHolder(u, hand[u].s)
    BY <2>1 DEF RecvHolder, InHandler
  <2> QED
    BY <2>1, <2>2, <2>3, <2>4, PostRecvFacts DEF RecvHolder, RecvPost, RecvMove
<1> QED
  BY <1>1, <1>2, <1>3, <1>4, <1>5, <1>6 DEF RecvStep

(* The other handlers, and a worker that takes a completion.               *)
LEMMA MovesOther ==
  ASSUME TypeOK, NEW u \in Workers, SendStep(u) \/ CloseStep(u) \/ TakeStep(u)
  PROVE  RecvMove(u)
<1>0. hand \in [Workers -> Handler] /\ None \notin Sessions
  BY ServerAssumption DEF TypeOK
<1>1. CASE SendStep(u)
  <2>1. UNCHANGED <<recvs, hand>>
    BY <1>1
    DEF SendStep, EnqueuePush, EnqueueExchange, PostSendPop, PostSendClear, PostSendWSASend, kernel
  <2> QED
    BY <2>1 DEF RecvHolder, RecvSame, RecvMove
<1>2. CASE CloseStep(u)
  <2>1. UNCHANGED <<recvs, hand>>
    BY <1>2 DEF CloseStep, CloseMark, CloseSocket, CloseUnregister, CloseRelease, kernel
  <2> QED
    BY <2>1 DEF RecvHolder, RecvSame, RecvMove
<1>3. ASSUME NEW c \in Conns, TakeAccept(u, c) PROVE RecvMove(u)
  <2>1. hand'[u].s = None /\ recvs' = recvs
    BY <1>0, <1>3 DEF TakeAccept
  <2> QED
    BY <1>0, <2>1 DEF RecvHolder, RecvSame, RecvMove
<1>4. ASSUME NEW s \in Sessions, NEW c \in Conns, TakeRecvData(u, s, c) PROVE RecvMove(u)
  <2>1. hand'[u].s = s /\ recvs[s][c] > 0 /\ recvs' = [recvs EXCEPT ![s][c] = @ - 1]
    BY <1>0, <1>4 DEF TakeRecvData
  <2> QED
    BY <2>1 DEF RecvHolder, RecvTake, RecvMove
<1>5. ASSUME NEW s \in Sessions, NEW c \in Conns, TakeRecvEnd(u, s, c) PROVE RecvMove(u)
  <2>1. hand' = hand /\ hand[u].at = "off" /\ recvs[s][c] > 0
        /\ recvs' = [recvs EXCEPT ![s][c] = @ - 1]
    BY <1>5 DEF TakeRecvEnd, Idle, InHandler
  <2> QED
    BY <2>1 DEF RecvHolder, RecvTake, RecvMove
<1>6. ASSUME NEW s \in Sessions, NEW c \in Conns, TakeSend(u, s, c) PROVE RecvMove(u)
  <2>1. UNCHANGED <<recvs, hand>>
    BY <1>6 DEF TakeSend
  <2> QED
    BY <2>1 DEF RecvHolder, RecvSame, RecvMove
<1> QED
  BY <1>1, <1>2, <1>3, <1>4, <1>5, <1>6 DEF TakeStep

(* The receive token, by the four ways it can move.                        *)
RecvToken ==
  \A s \in Sessions :
    /\ \A v, w \in Workers : RecvHolder(v, s) /\ RecvHolder(w, s) => v = w
    /\ \A c \in Conns : recvs[s][c] > 0 =>
         /\ recvs[s][c] = 1
         /\ \A d \in Conns : recvs[s][d] > 0 => d = c
         /\ \A w \in Workers : ~RecvHolder(w, s)

(* Each of the moves keeps the receive token exclusive while clean.        *)
LEMMA TokenMoves ==
  ASSUME TypeOK, RecvToken, clean', NEW u \in Workers, Others(u), RecvMove(u)
  PROVE  RecvToken'
<1>0. recvs \in [Sessions -> [Conns -> Nat]]
  BY DEF TypeOK
<1>o. \A v \in Workers \ {u}, s \in Sessions : RecvHolder(v, s)' <=> RecvHolder(v, s)
  BY DEF Others, OthersKeep, RecvHolder
<1>1. CASE RecvSame(u)
  BY <1>o, <1>1 DEF RecvSame, RecvToken
<1>2. CASE RecvTake(u)
  <2>1. PICK s \in Sessions, c \in Conns :
          /\ recvs[s][c] > 0 /\ recvs' = [recvs EXCEPT ![s][c] = @ - 1]
          /\ \A q \in Sessions : RecvHolder(u, q)' => q = s
    BY <1>2 DEF RecvTake
  <2>2. \A q \in Sessions, d \in Conns :
          recvs'[q][d] = IF q = s /\ d = c THEN recvs[q][d] - 1 ELSE recvs[q][d]
    BY <1>0, <2>1
  <2>3. recvs[s][c] = 1 /\ \A w \in Workers : ~RecvHolder(w, s)
    BY <2>1 DEF RecvToken
  <2>4. \A d \in Conns : ~(recvs'[s][d] > 0)
    BY <2>1, <2>2, <2>3 DEF RecvToken
  <2>5. \A q \in Sessions, d \in Conns : q # s => recvs'[q][d] = recvs[q][d]
    BY <2>2
  <2> QED
    BY <1>o, <2>1, <2>3, <2>4, <2>5 DEF RecvToken
<1>3. CASE RecvPost(u)
  <2>1. PICK s \in Sessions :
          /\ RecvHolder(u, s) /\ conn[s] \in Conns
          /\ \A q \in Sessions, c \in Conns :
               recvs'[q][c] = recvs[q][c]
               \/ (q = s /\ c = conn[s] /\ recvs'[q][c] = recvs[q][c] + 1)
          /\ \A q \in Sessions : ~RecvHolder(u, q)'
    BY <1>3 DEF RecvPost
  <2>2. \A d \in Conns : recvs[s][d] = 0
    <3>1. \A d \in Conns : recvs[s][d] \in Nat /\ ~(recvs[s][d] > 0)
      BY <1>0, <2>1 DEF RecvToken
    <3> QED
      BY <3>1
  <2>3. \A d \in Conns : recvs'[s][d] > 0 => d = conn[s] /\ recvs'[s][d] = 1
    BY <2>1, <2>2
  <2>4. \A q \in Sessions, d \in Conns : q # s => recvs'[q][d] = recvs[q][d]
    BY <2>1
  <2>5. \A v \in Workers : ~RecvHolder(v, s)'
    BY <1>o, <2>1 DEF RecvToken
  <2>6. \A v \in Workers, q \in Sessions : RecvHolder(v, q)' => RecvHolder(v, q)
    BY <1>o, <2>1
  <2> QED
    BY <2>3, <2>4, <2>5, <2>6 DEF RecvToken
<1>4. CASE RecvAcquire(u)
  <2>1. PICK s \in Sessions :
          ~Referenced(s) /\ recvs' = recvs /\ \A q \in Sessions : RecvHolder(u, q)' => q = s
    BY <1>4 DEF RecvAcquire
  <2>2. /\ \A c \in Conns : ~(recvs[s][c] > 0)
        /\ \A w \in Workers : ~RecvHolder(w, s)
    BY <2>1 DEF Referenced, Pending, Holds, RecvHolder
  <2> QED
    BY <1>o, <2>1, <2>2 DEF RecvToken
<1> QED
  BY <1>1, <1>2, <1>3, <1>4 DEF RecvMove

(* Every step keeps the receive token while clean.                         *)
LEMMA TokenNext == TypeOK /\ (clean => RecvToken) /\ [Next]_vars => (clean => RecvToken)'
<1> SUFFICES ASSUME TypeOK, RecvToken, [Next]_vars, clean' PROVE RecvToken'
  BY CleanKept
<1>1. ASSUME NEW u \in Workers, WorkerThread(u) PROVE RecvToken'
  <2>1. Others(u)
    BY <1>1, RefsWorker
  <2>2. RecvMove(u)
    BY <1>1, MovesAccept, MovesRecv, MovesOther DEF WorkerThread
  <2> QED
    BY <2>1, <2>2, TokenMoves
<1>2. CASE Network \/ UNCHANGED vars
  <2>1. UNCHANGED <<recvs, hand>>
    BY <1>2 DEF Network, PeerLeaves, SendUnnotified, vars, kernel
  <2> QED
    BY <2>1 DEF RecvToken, RecvHolder
<1> QED
  BY <1>1, <1>2 DEF Next

(* At first nobody has the token.                                          *)
LEMMA TokenInit == Init => RecvToken
<1> SUFFICES ASSUME Init PROVE RecvToken
  OBVIOUS
<1>1. \A s \in Sessions, c \in Conns : recvs[s][c] = 0
  BY DEF Init
<1>2. \A w \in Workers, s \in Sessions : ~RecvHolder(w, s)
  BY DEF Init, NoHandler, RecvHolder
<1> QED
  BY <1>1, <1>2 DEF RecvToken

(* A handler that calls CloseSession holds the receive token, or took the  *)
(* end of the connection, or failed to send.                               *)
LEMMA ClosesHolding ==
  ASSUME TypeOK, NEW u \in Workers, WorkerThread(u), NEW s \in Sessions, Closes(u, s)
  PROVE  \/ RecvHolder(u, s) /\ recvs' = recvs
         \/ \E c \in Conns : recvs[s][c] > 0 /\ recvs' = [recvs EXCEPT ![s][c] = @ - 1]
         \/ snd[u].at = "wsaSend" /\ snd[u].s = s
<1>0. cls \in [Workers -> CloseCall] /\ cls[u].at = "off" /\ cls'[u] = [at |-> "mark", s |-> s]
  BY DEF TypeOK, Closes
<1>1. cls'[u].s = s /\ cls'[u].at = "mark" /\ cls' # cls
  BY <1>0
<1>2. ASSUME NEW q, CallClose(u, q) PROVE q = s
  BY <1>0, <1>1, <1>2 DEF CallClose
<1>3. CASE AcceptStep(u)
  <2>1. AcceptPostRecv(u)
    BY <1>1, <1>3
    DEF AcceptStep, AcceptRefuse, AcceptAcquire, AcceptSetup, AcceptRegister, AcceptAssociate,
        AcceptPostAccept, AcceptWelcome
  <2>2. hand[u].s = s /\ recvs' = recvs
    BY <1>1, <1>2, <2>1 DEF AcceptPostRecv, PostRecv
  <2> QED
    BY <2>1, <2>2 DEF AcceptPostRecv, InHandler, RecvHolder
<1>4. CASE RecvStep(u)
  <2>1. RecvMalformed(u) \/ BroadcastDone(u) \/ RecvPostRecv(u)
    BY <1>1, <1>4 DEF RecvStep, RecvFault, RecvAppend, RecvNeedMore, RecvPacket, Broadcast
  <2>2. hand[u].s = s /\ recvs' = recvs
    BY <1>1, <1>2, <2>1 DEF RecvMalformed, BroadcastDone, RecvPostRecv, PostRecv, kernel
  <2>3. hand[u].at \in {"pop", "chat", "exit", "nextRecv"}
    BY <2>1 DEF RecvMalformed, BroadcastDone, RecvPostRecv, InHandler
  <2> QED
    BY <2>2, <2>3 DEF RecvHolder
<1>5. CASE SendStep(u)
  <2>1. PostSendWSASend(u)
    BY <1>1, <1>5 DEF SendStep, EnqueuePush, EnqueueExchange, PostSendPop, PostSendClear
  <2> QED
    BY <1>1, <1>2, <2>1 DEF PostSendWSASend, InSend
<1>6. CASE CloseStep(u)
  BY <1>0, <1>6 DEF CloseStep, CloseMark, CloseSocket, CloseUnregister, CloseRelease, InClose
<1>7. CASE TakeStep(u)
  <2>1. PICK q \in Sessions, c \in Conns : TakeRecvEnd(u, q, c)
    BY <1>1, <1>7 DEF TakeStep, TakeAccept, TakeRecvData, TakeSend
  <2> QED
    BY <1>2, <2>1 DEF TakeRecvEnd
<1> QED
  BY <1>3, <1>4, <1>5, <1>6, <1>7 DEF WorkerThread

(* So nobody receives into the buffer or reads it, but for the third case. *)
LEMMA ClosesIdle ==
  ASSUME TypeOK, RecvToken, [Next]_vars, NEW u \in Workers, NEW s \in Sessions, Closes(u, s),
         InUse(u, s)'
  PROVE  snd[u].at = "wsaSend" /\ snd[u].s = s
<1>0. recvs \in [Sessions -> [Conns -> Nat]]
  BY DEF TypeOK
<1>1. cls'[u] # cls[u]
  BY DEF Closes
<1>2. WorkerThread(u)
  <2>1. ~Network /\ ~UNCHANGED vars
    BY <1>1 DEF Network, PeerLeaves, SendUnnotified, vars
  <2>2. ASSUME NEW v \in Workers, WorkerThread(v) PROVE v = u
    BY <1>1, <2>2, RefsWorker DEF Others, OthersKeep
  <2> QED
    BY <2>1, <2>2 DEF Next
<1>v. \A v \in Workers \ {u} : RecvHolder(v, s)' => RecvHolder(v, s)
  BY <1>2, RefsWorker DEF Others, OthersKeep, RecvHolder
<1>3. ASSUME RecvHolder(u, s), recvs' = recvs
      PROVE  FALSE
  BY <1>3, <1>v DEF RecvToken, InUse
<1>4. ASSUME NEW d \in Conns, recvs[s][d] > 0, recvs' = [recvs EXCEPT ![s][d] = @ - 1]
      PROVE  FALSE
  <2>1. /\ recvs[s][d] = 1 /\ \A e \in Conns : recvs[s][e] > 0 => e = d
        /\ \A v \in Workers : ~RecvHolder(v, s)
    BY <1>4 DEF RecvToken
  <2>2. \A c \in Conns : recvs'[s][c] = IF c = d THEN recvs[s][d] - 1 ELSE recvs[s][c]
    BY <1>0, <1>4
  <2>3. ~InUse(u, s)'
    BY <1>v, <2>1, <2>2 DEF InUse
  <2> QED
    BY <2>3
<1> QED
  BY <1>2, <1>3, <1>4, ClosesHolding

(***************************************************************************)
(* The send token.                                                         *)
(***************************************************************************)
SendToken ==
  \A s \in Sessions :
    /\ \A v, w \in Workers : SendHolder(v, s) /\ SendHolder(w, s) => v = w
    /\ \A c \in Conns : sends[s][c] > 0 =>
         /\ sends[s][c] = 1
         /\ \A d \in Conns : sends[s][d] > 0 => d = c
         /\ \A w \in Workers : ~SendHolder(w, s)

SendSame(u) ==
  UNCHANGED <<sends, sending>> /\ \A s \in Sessions : SendHolder(u, s)' => SendHolder(u, s)

SendTake(u) ==
  /\ UNCHANGED sending
  /\ \E s \in Sessions, c \in Conns :
       /\ sends[s][c] > 0 /\ sends' = [sends EXCEPT ![s][c] = @ - 1]
       /\ \A q \in Sessions : SendHolder(u, q)' => q = s

SendStart(u) ==
  /\ UNCHANGED sends
  /\ \E s \in Sessions :
       /\ sending' = [sending EXCEPT ![s] = TRUE]
       /\ \A q \in Sessions : SendHolder(u, q)' => q = s /\ ~sending[s]

SendPost(u) ==
  /\ UNCHANGED sending
  /\ \E s \in Sessions :
       /\ SendHolder(u, s) /\ conn[s] \in Conns
       /\ \A q \in Sessions : ~SendHolder(u, q)'
       /\ sends' = sends \/ sends' = [sends EXCEPT ![s][conn[s]] = @ + 1]

SendClear(u) ==
  /\ UNCHANGED sends
  /\ \E s \in Sessions :
       /\ SendHolder(u, s) /\ sending' = [sending EXCEPT ![s] = FALSE]
       /\ \A q \in Sessions : ~SendHolder(u, q)'

SendSetup(u) ==
  /\ UNCHANGED <<sends, snd>> /\ hand[u].at = "setup"
  /\ sending' = [sending EXCEPT ![hand[u].s] = FALSE]

SendMove(u) ==
  SendSame(u) \/ SendTake(u) \/ SendStart(u) \/ SendPost(u) \/ SendClear(u) \/ SendSetup(u)

(* EnqueueSend and PostSend.                                               *)
LEMMA SendMovesSend ==
  ASSUME TypeOK, NEW u \in Workers, SendStep(u)
  PROVE  SendMove(u)
<1>0. snd \in [Workers -> SendCall] /\ snd[u] \in SendCall /\ FramesOK /\ None \notin Sessions
  BY ServerAssumption DEF TypeOK
<1>s. snd[u].at # "off" => snd[u].s \in Sessions /\ conn[snd[u].s] \in Conns
  BY <1>0 DEF FramesOK, Attached
<1>r. ASSUME ReturnSend(u) PROVE \A q \in Sessions : ~SendHolder(u, q)'
  BY <1>0, <1>r, ReturnSendFacts DEF SendHolder, NoSend
<1>1. CASE EnqueuePush(u)
  <2>1. /\ UNCHANGED <<sends, sending>>
        /\ ReturnSend(u) \/ snd' = [snd EXCEPT ![u].at = "exchange", ![u].msgs = <<>>]
    BY <1>1 DEF EnqueuePush, kernel
  <2>2. CASE snd' = [snd EXCEPT ![u].at = "exchange", ![u].msgs = <<>>]
    <3>1. snd'[u].at = "exchange"
      BY <1>0, <2>2 DEF SendCall
    <3> QED
      BY <2>1, <3>1 DEF SendHolder, SendSame, SendMove
  <2> QED
    BY <1>r, <2>1, <2>2 DEF SendSame, SendMove
<1>2. CASE EnqueueExchange(u)
  <2>1. /\ UNCHANGED sends /\ sending' = [sending EXCEPT ![snd[u].s] = TRUE]
        /\ ReturnSend(u) \/ (~sending[snd[u].s] /\ snd' = [snd EXCEPT ![u].at = "pop"])
        /\ snd[u].at = "exchange"
    BY <1>2 DEF EnqueueExchange, InSend, kernel
  <2>2. CASE ReturnSend(u)
    BY <1>s, <1>r, <2>1, <2>2 DEF SendStart, SendMove
  <2>3. CASE ~sending[snd[u].s] /\ snd' = [snd EXCEPT ![u].at = "pop"]
    <3>1. snd'[u].s = snd[u].s
      BY <1>0, <2>3 DEF SendCall
    <3> QED
      BY <1>s, <2>1, <2>3, <3>1 DEF SendHolder, SendStart, SendMove
  <2> QED
    BY <2>1, <2>2, <2>3
<1>3. CASE PostSendPop(u)
  <2>1. UNCHANGED <<sends, sending>> /\ snd[u].at = "pop"
    BY <1>3 DEF PostSendPop, InSend, kernel
  <2>2. ReturnSend(u) \/ snd'[u].s = snd[u].s
    <3>1. \/ ReturnSend(u)
          \/ snd' = [snd EXCEPT ![u].at = "clear"]
          \/ \E m : snd' = [snd EXCEPT ![u].at = "wsaSend", ![u].msgs = m]
      BY <1>3 DEF PostSendPop
    <3> QED
      BY <1>0, <3>1 DEF SendCall
  <2> QED
    BY <1>r, <2>1, <2>2 DEF SendHolder, SendSame, SendMove
<1>4. CASE PostSendClear(u)
  <2>1. /\ UNCHANGED sends /\ sending' = [sending EXCEPT ![snd[u].s] = FALSE] /\ ReturnSend(u)
        /\ snd[u].at = "clear"
    BY <1>4 DEF PostSendClear, InSend, kernel
  <2> QED
    BY <1>s, <1>r, <2>1 DEF SendHolder, SendClear, SendMove
<1>5. CASE PostSendWSASend(u)
  <2>1. /\ UNCHANGED sending /\ ReturnSend(u) /\ snd[u].at = "wsaSend"
        /\ sends' = sends \/ sends' = [sends EXCEPT ![snd[u].s][conn[snd[u].s]] = @ + 1]
    BY <1>5 DEF PostSendWSASend, InSend, session
  <2> QED
    BY <1>s, <1>r, <2>1 DEF SendHolder, SendPost, SendMove
<1> QED
  BY <1>1, <1>2, <1>3, <1>4, <1>5 DEF SendStep

(* The other steps of a worker.                                            *)
LEMMA SendMovesOther ==
  ASSUME TypeOK, NEW u \in Workers, AcceptStep(u) \/ RecvStep(u) \/ CloseStep(u) \/ TakeStep(u)
  PROVE  SendMove(u)
<1>0. snd \in [Workers -> SendCall] /\ snd[u] \in SendCall /\ None \notin Sessions
  BY ServerAssumption DEF TypeOK
<1>c. ASSUME NEW q, NEW m, CallSend(u, q, m) PROVE \A s \in Sessions : ~SendHolder(u, s)'
  BY <1>0, <1>c DEF CallSend, SendHolder
<1>k. ASSUME UNCHANGED <<sends, sending, snd>> PROVE SendMove(u)
  BY <1>k DEF SendSame, SendHolder, SendMove
<1>1. CASE AcceptSetup(u)
  BY <1>1 DEF AcceptSetup, InHandler, kernel, SendSetup, SendMove
<1>2. CASE AcceptWelcome(u)
  BY <1>2, <1>c DEF AcceptWelcome, kernel, session, SendSame, SendMove
<1>3. CASE RecvPacket(u)
  BY <1>3, <1>c, <1>k DEF RecvPacket, kernel, SendSame, SendMove
<1>4. CASE Broadcast(u)
  BY <1>4, <1>c DEF Broadcast, kernel, session, SendSame, SendMove
<1>5. ASSUME NEW s \in Sessions, NEW c \in Conns, TakeSend(u, s, c) PROVE SendMove(u)
  <2>1. /\ UNCHANGED sending /\ sends[s][c] > 0 /\ sends' = [sends EXCEPT ![s][c] = @ - 1]
        /\ snd'[u].s = s
    BY <1>0, <1>5 DEF TakeSend, session
  <2> QED
    BY <2>1 DEF SendHolder, SendTake, SendMove
<1>6. CASE AcceptStep(u) /\ ~AcceptSetup(u) /\ ~AcceptWelcome(u)
  BY <1>6, <1>k
  DEF AcceptStep, AcceptRefuse, AcceptAcquire, AcceptRegister, AcceptAssociate, AcceptPostRecv,
      AcceptPostAccept, kernel, session
<1>7. CASE RecvStep(u) /\ ~RecvPacket(u) /\ ~Broadcast(u)
  BY <1>7, <1>k
  DEF RecvStep, RecvFault, RecvAppend, RecvNeedMore, RecvMalformed, BroadcastDone, RecvPostRecv,
      kernel, session
<1>8. CASE CloseStep(u)
  BY <1>8, <1>k
  DEF CloseStep, CloseMark, CloseSocket, CloseUnregister, CloseRelease, kernel, session
<1>9. CASE TakeStep(u)
  BY <1>5, <1>9, <1>k DEF TakeStep, TakeAccept, TakeRecvData, TakeRecvEnd, session
<1> QED
  BY <1>1, <1>2, <1>3, <1>4, <1>6, <1>7, <1>8, <1>9

(* The send token by the six ways it can move.                             *)
LEMMA SendTokenMoves ==
  ASSUME TypeOK, FreshInv, SendToken, SendingInv, NEW u \in Workers, Others(u), SendMove(u)
  PROVE  SendToken' /\ SendingInv'
<1>0. /\ sends \in [Sessions -> [Conns -> Nat]] /\ sending \in [Sessions -> BOOLEAN]
      /\ snd \in [Workers -> SendCall]
  BY DEF TypeOK
<1>o. \A v \in Workers \ {u}, s \in Sessions : SendHolder(v, s)' <=> SendHolder(v, s)
  BY DEF Others, OthersKeep, SendHolder
<1>1. CASE SendSame(u)
  BY <1>o, <1>1 DEF SendSame, SendToken, SendingInv
<1>2. CASE SendTake(u)
  <2>1. PICK s \in Sessions, c \in Conns :
          /\ sends[s][c] > 0 /\ sends' = [sends EXCEPT ![s][c] = @ - 1]
          /\ \A q \in Sessions : SendHolder(u, q)' => q = s
    BY <1>2 DEF SendTake
  <2>2. \A q \in Sessions, d \in Conns :
          sends'[q][d] = IF q = s /\ d = c THEN sends[q][d] - 1 ELSE sends[q][d]
    BY <1>0, <2>1
  <2>3. sends[s][c] = 1 /\ (\A w \in Workers : ~SendHolder(w, s)) /\ sending[s]
    BY <2>1 DEF SendToken, SendingInv
  <2>4. \A d \in Conns : ~(sends'[s][d] > 0)
    BY <2>1, <2>2, <2>3 DEF SendToken
  <2>5. \A q \in Sessions, d \in Conns : q # s => sends'[q][d] = sends[q][d]
    BY <2>2
  <2>6. UNCHANGED sending
    BY <1>2 DEF SendTake
  <2>7. SendToken'
    BY <1>o, <2>1, <2>3, <2>4, <2>5 DEF SendToken
  <2>8. SendingInv'
    BY <1>o, <2>1, <2>3, <2>4, <2>5, <2>6 DEF SendingInv
  <2> QED
    BY <2>7, <2>8
<1>3. CASE SendStart(u)
  <2>1. PICK s \in Sessions :
          /\ sending' = [sending EXCEPT ![s] = TRUE]
          /\ \A q \in Sessions : SendHolder(u, q)' => q = s /\ ~sending[s]
    BY <1>3 DEF SendStart
  <2>2. UNCHANGED sends
    BY <1>3 DEF SendStart
  <2>3. \A q \in Sessions : sending'[q] = IF q = s THEN TRUE ELSE sending[q]
    BY <1>0, <2>1
  <2>4. ~sending[s] => /\ \A v \in Workers : ~SendHolder(v, s)
                       /\ \A c \in Conns : ~(sends[s][c] > 0)
    BY DEF SendingInv
  <2>5. SendToken'
    BY <1>o, <2>1, <2>2, <2>4 DEF SendToken
  <2>6. SendingInv'
    BY <1>o, <2>1, <2>2, <2>3 DEF SendingInv
  <2> QED
    BY <2>5, <2>6
<1>4. CASE SendPost(u)
  <2>1. PICK s \in Sessions :
          /\ SendHolder(u, s) /\ conn[s] \in Conns
          /\ \A q \in Sessions : ~SendHolder(u, q)'
          /\ sends' = sends \/ sends' = [sends EXCEPT ![s][conn[s]] = @ + 1]
    BY <1>4 DEF SendPost
  <2>2. UNCHANGED sending /\ sending[s]
    BY <1>4, <2>1 DEF SendPost, SendingInv
  <2>3. \A d \in Conns : sends[s][d] = 0
    <3>1. \A d \in Conns : sends[s][d] \in Nat /\ ~(sends[s][d] > 0)
      BY <1>0, <2>1 DEF SendToken
    <3> QED
      BY <3>1
  <2>4. /\ \A d \in Conns : sends'[s][d] > 0 => d = conn[s] /\ sends'[s][d] = 1
        /\ \A q \in Sessions, d \in Conns : q # s => sends'[q][d] = sends[q][d]
    BY <1>0, <2>1, <2>3
  <2>5. /\ \A v \in Workers : ~SendHolder(v, s)'
        /\ \A v \in Workers, q \in Sessions : SendHolder(v, q)' => SendHolder(v, q)
    BY <1>o, <2>1 DEF SendToken
  <2>6. SendToken'
    BY <2>4, <2>5 DEF SendToken
  <2>7. SendingInv'
    BY <2>2, <2>4, <2>5 DEF SendingInv
  <2> QED
    BY <2>6, <2>7
<1>5. CASE SendClear(u)
  <2>1. PICK s \in Sessions :
          /\ SendHolder(u, s) /\ sending' = [sending EXCEPT ![s] = FALSE]
          /\ \A q \in Sessions : ~SendHolder(u, q)'
    BY <1>5 DEF SendClear
  <2>2. UNCHANGED sends
    BY <1>5 DEF SendClear
  <2>3. \A q \in Sessions : q # s => sending'[q] = sending[q]
    BY <1>0, <2>1
  <2>4. /\ \A c \in Conns : ~(sends[s][c] > 0)
        /\ \A v \in Workers : ~SendHolder(v, s)'
        /\ \A v \in Workers, q \in Sessions : SendHolder(v, q)' => SendHolder(v, q)
    BY <1>o, <2>1 DEF SendToken
  <2>5. SendToken'
    BY <2>2, <2>4 DEF SendToken
  <2>6. SendingInv'
    BY <2>2, <2>3, <2>4 DEF SendingInv
  <2> QED
    BY <2>5, <2>6
<1>6. CASE SendSetup(u)
  <2>1. /\ UNCHANGED <<sends, snd>> /\ hand[u].at = "setup"
        /\ sending' = [sending EXCEPT ![hand[u].s] = FALSE]
    BY <1>6 DEF SendSetup
  <2>2. OnlyHandlerOf(u, hand[u].s) /\ hand[u].s \in Sessions
    BY <2>1 DEF FreshInv, TypeOK, FramesOK
  <2>3. /\ \A c \in Conns : ~(sends[hand[u].s][c] > 0)
        /\ \A v \in Workers : ~SendHolder(v, hand[u].s)
    BY <2>2 DEF OnlyHandlerOf, Pending, SendHolder
  <2>4. \A q \in Sessions : q # hand[u].s => sending'[q] = sending[q]
    BY <1>0, <2>1, <2>2
  <2>5. \A v \in Workers, q \in Sessions : SendHolder(v, q)' <=> SendHolder(v, q)
    BY <2>1 DEF SendHolder
  <2> QED
    BY <2>1, <2>3, <2>4, <2>5 DEF SendToken, SendingInv
<1> QED
  BY <1>1, <1>2, <1>3, <1>4, <1>5, <1>6 DEF SendMove

(* Every step keeps the send token while clean.                            *)
LEMMA SendNext ==
  ASSUME TypeOK, ObjectInv, SendToken, SendingInv, [Next]_vars
  PROVE  SendToken' /\ SendingInv'
<1>1. ASSUME NEW u \in Workers, WorkerThread(u) PROVE SendToken' /\ SendingInv'
  <2>1. Others(u)
    BY <1>1, RefsWorker
  <2>2. SendMove(u)
    BY <1>1, SendMovesSend, SendMovesOther DEF WorkerThread
  <2> QED
    BY <2>1, <2>2, SendTokenMoves DEF ObjectInv
<1>2. ASSUME UNCHANGED <<sends, sending, snd>> PROVE SendToken' /\ SendingInv'
  BY <1>2 DEF SendToken, SendingInv, SendHolder
<1>3. CASE UNCHANGED vars
  BY <1>2, <1>3 DEF vars, kernel, session
<1>4. ASSUME NEW c \in Conns, PeerLeaves(c) PROVE SendToken' /\ SendingInv'
  BY <1>2, <1>4 DEF PeerLeaves, session
<1>5. ASSUME NEW s \in Sessions, NEW c \in Conns, SendUnnotified(s, c)
      PROVE  SendToken' /\ SendingInv'
  <2>1. /\ UNCHANGED <<sending, snd>> /\ sends[s][c] > 0
        /\ sends' = [sends EXCEPT ![s][c] = @ - 1] /\ sends \in [Sessions -> [Conns -> Nat]]
    BY <1>5 DEF SendUnnotified, session, TypeOK
  <2>2. \A q \in Sessions, d \in Conns :
          sends'[q][d] = IF q = s /\ d = c THEN sends[q][d] - 1 ELSE sends[q][d]
    BY <2>1
  <2>3. \A q \in Sessions, d \in Conns :
          sends'[q][d] > 0 => sends[q][d] > 0 /\ (sends[q][d] = 1 => sends'[q][d] = 1)
    <3>1. sends[s][c] = 1
      BY <2>1 DEF SendToken
    <3> QED
      BY <2>2, <3>1
  <2>4. \A v \in Workers, q \in Sessions : SendHolder(v, q)' <=> SendHolder(v, q)
    BY <2>1 DEF SendHolder
  <2> QED
    BY <2>1, <2>3, <2>4 DEF SendToken, SendingInv
<1> QED
  BY <1>1, <1>3, <1>4, <1>5 DEF Next, Network

(* At first nobody sends.                                                  *)
LEMMA SendInit == Init => SendToken /\ SendingInv
<1> SUFFICES ASSUME Init PROVE SendToken /\ SendingInv
  OBVIOUS
<1>1. \A s \in Sessions, c \in Conns : sends[s][c] = 0
  BY DEF Init
<1>2. \A w \in Workers, s \in Sessions : ~SendHolder(w, s)
  BY DEF Init, NoSend, SendHolder
<1> QED
  BY <1>1, <1>2 DEF SendToken, SendingInv

(***************************************************************************)
(* Whose bytes are in a session's ring.                                    *)
(***************************************************************************)
RingInv == \A s \in Sessions : \A i \in 1 .. Len(rx[s]) : rx[s][i].from = conn[s]

(* A step that brings no new data and no new connection.                   *)
SameOrigin(u) ==
  /\ UNCHANGED conn
  /\ \A s \in Sessions, c \in Conns :
       recvs'[s][c] > 0 => recvs[s][c] > 0 \/ (c = conn[s] /\ s \in Attached)
  /\ hand'[u].at = "append" => hand'[u] = hand[u]

SameRing == \A s \in Sessions : rx'[s] \in {rx[s], <<>>} \/ (rx[s] # <<>> /\ rx'[s] = Tail(rx[s]))

(* A worker's step keeps whose bytes are where, unless it is the setup of  *)
(* a session, an append, or takes a receive that completed with data.      *)
LEMMA OriginSame ==
  ASSUME TypeOK, NEW u \in Workers, WorkerThread(u)
  PROVE  \/ SameOrigin(u) /\ SameRing
         \/ AcceptSetup(u) \/ RecvAppend(u)
         \/ \E s \in Sessions, c \in Conns : TakeRecvData(u, s, c)
<1>0. /\ hand \in [Workers -> Handler] /\ hand[u] \in Handler /\ FramesOK
      /\ recvs \in [Sessions -> [Conns -> Nat]] /\ rx \in [Sessions -> Seq(Packet)]
      /\ free \in Seq(Sessions)
  BY DEF TypeOK
<1>s. hand[u].at \notin {"off", "acquire", "setup"} => hand[u].s \in Attached
  BY <1>0 DEF FramesOK
<1>x. ASSUME UNCHANGED rx PROVE SameRing
  BY <1>x DEF SameRing
<1>p. ASSUME NEW s \in Attached, PostRecv(u, s)
      PROVE  \A q \in Sessions, c \in Conns :
               recvs'[q][c] > 0 => recvs[q][c] > 0 \/ (c = conn[q] /\ q \in Attached)
  BY <1>p, PostRecvFacts
<1>1. CASE AcceptStep(u)
  <2>1. CASE AcceptAcquire(u)
    <3>1. /\ UNCHANGED <<conn, recvs>> /\ free # <<>> /\ rx' = [rx EXCEPT ![Head(free)] = <<>>]
          /\ hand' = [hand EXCEPT ![u].at = "setup", ![u].s = Head(free)]
      BY <2>1 DEF AcceptAcquire, kernel
    <3>2. hand'[u].at = "setup"
      BY <1>0, <3>1 DEF Handler
    <3>3. SameRing
      BY <1>0, <3>1 DEF SameRing
    <3> QED
      BY <3>1, <3>2, <3>3 DEF SameOrigin
  <2>2. CASE AcceptRefuse(u) \/ AcceptWelcome(u)
    <3>1. UNCHANGED <<conn, recvs, rx>> /\ ReturnHandler(u)
      BY <2>2 DEF AcceptRefuse, AcceptWelcome, session, kernel
    <3> QED
      BY <1>x, <3>1, ReturnFacts DEF SameOrigin
  <2>3. CASE AcceptRegister(u) \/ AcceptAssociate(u) \/ AcceptPostAccept(u)
    <3>1. /\ UNCHANGED <<conn, recvs, rx>>
          /\ GotoHandler(u, "associate") \/ GotoHandler(u, "firstRecv") \/ GotoHandler(u, "welcome")
      BY <2>3 DEF AcceptRegister, AcceptAssociate, AcceptPostAccept, session, kernel
    <3>2. hand'[u].at # "append"
      BY <3>1, Labels, GotoFacts DEF Went
    <3> QED
      BY <1>x, <3>1, <3>2 DEF SameOrigin
  <2>4. CASE AcceptPostRecv(u)
    <3>1. /\ UNCHANGED <<conn, rx>> /\ GotoHandler(u, "reaccept") /\ PostRecv(u, hand[u].s)
          /\ hand[u].at = "firstRecv"
      BY <2>4 DEF AcceptPostRecv, session, InHandler
    <3>2. hand'[u].at # "append"
      BY <3>1, Labels, GotoFacts DEF Went
    <3> QED
      BY <1>x, <1>s, <1>p, <3>1, <3>2 DEF SameOrigin
  <2> QED
    BY <1>1, <2>1, <2>2, <2>3, <2>4 DEF AcceptStep
<1>2. CASE RecvStep(u)
  <2>1. CASE RecvFault(u) \/ RecvNeedMore(u) \/ BroadcastDone(u)
    <3>1. /\ UNCHANGED <<conn, recvs, rx>>
          /\ GotoHandler(u, "fault") \/ GotoHandler(u, "nextRecv") \/ GotoHandler(u, "pop")
      BY <2>1 DEF RecvFault, RecvNeedMore, BroadcastDone, session, kernel
    <3>2. hand'[u].at # "append"
      BY <3>1, Labels, GotoFacts DEF Went
    <3> QED
      BY <1>x, <3>1, <3>2 DEF SameOrigin
  <2>2. CASE RecvMalformed(u)
    <3>1. UNCHANGED <<conn, recvs, rx>> /\ ReturnHandler(u)
      BY <2>2 DEF RecvMalformed, session, kernel
    <3> QED
      BY <1>x, <3>1, ReturnFacts DEF SameOrigin
  <2>3. CASE RecvPacket(u)
    <3> DEFINE p == Head(rx[hand[u].s])
    <3>1. /\ UNCHANGED <<conn, recvs>> /\ hand[u].at = "pop" /\ rx[hand[u].s] # <<>>
          /\ rx' = [rx EXCEPT ![hand[u].s] = Tail(@)]
          /\ \/ /\ p.kind \in {"chat", "exit"}
                /\ hand' = [hand EXCEPT ![u].at = p.kind, ![u].targets = Snapshot(hand[u].s)]
             \/ UNCHANGED hand
      BY <2>3 DEF RecvPacket, kernel, InHandler
    <3>2. hand'[u].at # "append"
      BY <1>0, <3>1 DEF Handler
    <3>3. SameRing
      BY <1>0, <3>1 DEF SameRing
    <3> QED
      BY <3>1, <3>2, <3>3 DEF SameOrigin
  <2>4. CASE Broadcast(u)
    <3>1. /\ UNCHANGED <<conn, recvs, rx>> /\ hand[u].at \in {"chat", "exit"}
          /\ \E t \in hand[u].targets : hand' = [hand EXCEPT ![u].targets = @ \ {t}]
      BY <2>4 DEF Broadcast, session, kernel, InHandler
    <3>2. hand'[u].at # "append"
      BY <1>0, <3>1 DEF Handler
    <3> QED
      BY <1>x, <3>1, <3>2 DEF SameOrigin
  <2>5. CASE RecvPostRecv(u)
    <3>1. /\ UNCHANGED <<conn, rx>> /\ ReturnHandler(u) /\ PostRecv(u, hand[u].s)
          /\ hand[u].at = "nextRecv"
      BY <2>5 DEF RecvPostRecv, session, InHandler
    <3> QED
      BY <1>x, <1>s, <1>p, <3>1, ReturnFacts DEF SameOrigin
  <2> QED
    BY <1>2, <2>1, <2>2, <2>3, <2>4, <2>5 DEF RecvStep
<1>3. CASE SendStep(u) \/ CloseStep(u)
  <2>1. UNCHANGED <<conn, recvs, rx, hand>>
    BY <1>3
    DEF SendStep, EnqueuePush, EnqueueExchange, PostSendPop, PostSendClear, PostSendWSASend,
        CloseStep, CloseMark, CloseSocket, CloseUnregister, CloseRelease, kernel, session
  <2> QED
    BY <1>x, <2>1 DEF SameOrigin
<1>4. CASE TakeStep(u)
  <2>1. ASSUME NEW c \in Conns, TakeAccept(u, c) PROVE SameOrigin(u) /\ SameRing
    <3>1. hand'[u].at = "acquire" /\ UNCHANGED <<conn, recvs, rx>>
      BY <1>0, <2>1 DEF TakeAccept, session
    <3> QED
      BY <1>x, <3>1 DEF SameOrigin
  <2>2. ASSUME NEW s \in Sessions, NEW c \in Conns, TakeRecvEnd(u, s, c)
        PROVE  SameOrigin(u) /\ SameRing
    <3>1. /\ UNCHANGED <<conn, hand, rx>> /\ recvs[s][c] > 0
          /\ recvs' = [recvs EXCEPT ![s][c] = @ - 1]
      BY <2>2 DEF TakeRecvEnd, session
    <3>2. \A q \in Sessions, d \in Conns : recvs'[q][d] > 0 => recvs[q][d] > 0
      BY <1>0, <3>1
    <3> QED
      BY <1>x, <3>1, <3>2 DEF SameOrigin
  <2>3. ASSUME NEW s \in Sessions, NEW c \in Conns, TakeSend(u, s, c)
        PROVE  SameOrigin(u) /\ SameRing
    <3>1. UNCHANGED <<conn, hand, rx, recvs>>
      BY <2>3 DEF TakeSend, session
    <3> QED
      BY <1>x, <3>1 DEF SameOrigin
  <2> QED
    BY <1>4, <2>1, <2>2, <2>3 DEF TakeStep
<1> QED
  BY <1>1, <1>2, <1>3, <1>4 DEF WorkerThread

(* Where the elements of a concatenation come from.                        *)
LEMMA Joined ==
  ASSUME NEW a \in Seq(Packet), NEW b \in Seq(Packet)
  PROVE  /\ Len(a \o b) = Len(a) + Len(b)
         /\ \A i \in 1 .. Len(a) + Len(b) :
              (a \o b)[i] = IF i <= Len(a) THEN a[i] ELSE b[i - Len(a)]
BY ConcatProperties

(* Every step keeps what the ring says about its bytes.                    *)
LEMMA OriginNext ==
  ASSUME TypeOK, FreshInv, RingInv, OriginInv, [Next]_vars
  PROVE  RingInv' /\ OriginInv'
<1>0. /\ hand \in [Workers -> Handler] /\ recvs \in [Sessions -> [Conns -> Nat]]
      /\ rx \in [Sessions -> Seq(Packet)] /\ conn \in [Sessions -> Conns \cup {None}] /\ FramesOK
  BY DEF TypeOK
<1>1. ASSUME NEW u \in Workers, WorkerThread(u) PROVE RingInv' /\ OriginInv'
  <2>0. \A v \in Workers : v # u => hand'[v] = hand[v]
    BY <1>1, RefsWorker DEF Others, OthersKeep
  <2>1. CASE SameOrigin(u) /\ SameRing
    <3>1. RingInv'
      <4> SUFFICES ASSUME NEW s \in Sessions, NEW i \in 1 .. Len(rx'[s])
                   PROVE  rx'[s][i].from = conn[s]
        BY <2>1 DEF RingInv, SameOrigin
      <4>1. rx[s] \in Seq(Packet)
        BY <1>0
      <4>2. CASE rx'[s] = rx[s]
        BY <4>2 DEF RingInv
      <4>3. CASE rx'[s] = <<>>
        BY <4>3
      <4>4. CASE rx[s] # <<>> /\ rx'[s] = Tail(rx[s])
        <5>1. i + 1 \in 1 .. Len(rx[s]) /\ rx'[s][i] = rx[s][i + 1]
          BY <4>1, <4>4
        <5> QED
          BY <5>1 DEF RingInv
      <4> QED
        BY <2>1, <4>2, <4>3, <4>4 DEF SameRing
    <3>2. OriginInv'
      BY <2>0, <2>1 DEF SameOrigin, OriginInv
    <3> QED
      BY <3>1, <3>2
  <2>2. CASE AcceptSetup(u)
    <3> DEFINE s == hand[u].s
    <3>1. /\ hand[u].at = "setup" /\ UNCHANGED recvs
          /\ conn' = [conn EXCEPT ![s] = hand[u].c] /\ rx' = [rx EXCEPT ![s] = <<>>]
          /\ GotoHandler(u, "register")
      BY <2>2 DEF AcceptSetup, InHandler, kernel
    <3>2. OnlyHandlerOf(u, s) /\ s \in Sessions
      BY <1>0, <3>1 DEF FreshInv, FramesOK
    <3>3. \A q \in Sessions : q # s => conn'[q] = conn[q] /\ rx'[q] = rx[q]
      BY <1>0, <3>1
    <3>4. rx'[s] = <<>> /\ hand'[u].at = "register"
      BY <1>0, <3>1, <3>2, Labels, GotoFacts DEF Went
    <3>5. RingInv'
      BY <3>3, <3>4 DEF RingInv
    <3>6. \A c \in Conns : ~(recvs'[s][c] > 0)
      BY <3>1, <3>2 DEF OnlyHandlerOf, Pending
    <3>7. \A q \in Sessions, c \in Conns : recvs'[q][c] > 0 => conn'[q] = c
      BY <3>1, <3>3, <3>6 DEF OriginInv
    <3>8. ASSUME NEW w \in Workers, hand'[w].at = "append" PROVE hand'[w].c = conn'[hand'[w].s]
      <4>1. w # u /\ hand'[w] = hand[w] /\ hand[w].s # s /\ hand[w].s \in Sessions
        BY <1>0, <2>0, <3>2, <3>4, <3>8 DEF OnlyHandlerOf, FramesOK, Attached
      <4> QED
        BY <3>3, <3>8, <4>1 DEF OriginInv
    <3> QED
      BY <3>5, <3>7, <3>8 DEF OriginInv
  <2>3. CASE RecvAppend(u)
    <3> DEFINE s == hand[u].s
               d == hand[u].data
               t == [i \in 1 .. Len(d) |-> [kind |-> d[i], from |-> hand[u].c]]
    <3>1. /\ hand[u].at = "append" /\ UNCHANGED <<recvs, conn>>
          /\ rx' = [rx EXCEPT ![s] = @ \o t]
          /\ hand' = [hand EXCEPT ![u].at = "pop", ![u].data = <<>>]
      BY <2>3 DEF RecvAppend, InHandler, kernel
    <3>2. s \in Sessions /\ hand[u].c = conn[s] /\ hand[u].c \in Conns /\ d \in Seq(Kinds)
      BY <1>0, <3>1 DEF FramesOK, Attached, OriginInv, Handler
    <3>3. t \in Seq(Packet) /\ Len(t) = Len(d) /\ \A i \in 1 .. Len(t) : t[i].from = conn[s]
      <4>1. Len(d) \in Nat /\ \A i \in 1 .. Len(d) : d[i] \in Kinds
        BY <3>2
      <4>2. \A i \in 1 .. Len(d) : t[i] \in Packet /\ t[i].from = conn[s]
        BY <3>2, <4>1 DEF Packet
      <4>3. t \in [1 .. Len(d) -> Packet]
        BY <4>2
      <4>4. t \in Seq(Packet) /\ Len(t) = Len(d)
        <5> HIDE DEF t
        <5> QED
          BY <4>1, <4>3
      <4> QED
        BY <4>2, <4>4
    <3>4. rx[s] \in Seq(Packet)
      BY <1>0, <3>2
    <3>5. rx'[s] = rx[s] \o t /\ \A q \in Sessions : q # s => rx'[q] = rx[q]
      BY <1>0, <3>1, <3>2
    <3> HIDE DEF t
    <3>6. ASSUME NEW i \in 1 .. Len(rx'[s]) PROVE rx'[s][i].from = conn[s]
      <4>1. /\ Len(rx'[s]) = Len(rx[s]) + Len(t)
            /\ rx'[s][i] = IF i <= Len(rx[s]) THEN rx[s][i] ELSE t[i - Len(rx[s])]
        <5>1. Len(rx[s]) \in Nat /\ Len(t) \in Nat
          BY <3>3, <3>4
        <5>2. /\ Len(rx[s] \o t) = Len(rx[s]) + Len(t)
              /\ \A j \in 1 .. Len(rx[s]) + Len(t) :
                   (rx[s] \o t)[j] = IF j <= Len(rx[s]) THEN rx[s][j] ELSE t[j - Len(rx[s])]
          BY <3>3, <3>4, Joined
        <5> QED
          BY <3>5, <3>6, <5>1, <5>2
      <4>2. CASE i <= Len(rx[s])
        <5>1. i \in 1 .. Len(rx[s])
          BY <3>4, <3>6, <4>2
        <5> QED
          BY <3>2, <4>1, <4>2, <5>1 DEF RingInv
      <4>3. CASE ~(i <= Len(rx[s]))
        <5>1. Len(rx[s]) \in Nat /\ Len(t) \in Nat /\ i \in 1 .. Len(rx[s]) + Len(t)
          <6>1. Len(rx[s]) \in Nat /\ Len(t) \in Nat
            BY <3>3, <3>4
          <6> QED
            BY <3>6, <4>1, <6>1
        <5>2. i - Len(rx[s]) \in 1 .. Len(t)
          BY <4>3, <5>1
        <5> QED
          BY <3>3, <4>1, <4>3, <5>2
      <4> QED
        BY <4>2, <4>3
    <3>7. RingInv'
      BY <3>1, <3>5, <3>6 DEF RingInv
    <3>8. hand'[u].at = "pop"
      BY <1>0, <3>1 DEF Handler
    <3> QED
      BY <2>0, <3>1, <3>7, <3>8 DEF OriginInv
  <2>4. ASSUME NEW s \in Sessions, NEW c \in Conns, TakeRecvData(u, s, c)
        PROVE  RingInv' /\ OriginInv'
    <3>1. /\ UNCHANGED <<conn, rx>> /\ recvs[s][c] > 0 /\ recvs' = [recvs EXCEPT ![s][c] = @ - 1]
          /\ hand'[u].s = s /\ hand'[u].c = c
      BY <1>0, <2>4 DEF TakeRecvData, session
    <3>2. \A q \in Sessions, d \in Conns : recvs'[q][d] > 0 => recvs[q][d] > 0
      BY <1>0, <3>1
    <3> QED
      BY <2>0, <3>1, <3>2 DEF RingInv, OriginInv
  <2> QED
    BY <1>1, <2>1, <2>2, <2>3, <2>4, OriginSame
<1>2. CASE Network \/ UNCHANGED vars
  <2>1. UNCHANGED <<rx, conn, recvs, hand>>
    BY <1>2 DEF Network, PeerLeaves, SendUnnotified, vars, kernel, session
  <2> QED
    BY <2>1 DEF RingInv, OriginInv
<1> QED
  BY <1>1, <1>2 DEF Next

(* At first the rings are empty.                                           *)
LEMMA OriginInit == Init => RingInv /\ OriginInv
<1> SUFFICES ASSUME Init PROVE RingInv /\ OriginInv
  OBVIOUS
<1>1. \A s \in Sessions : rx[s] = <<>> /\ \A c \in Conns : recvs[s][c] = 0
  BY DEF Init
<1>2. \A w \in Workers : hand[w].at = "off"
  BY DEF Init, NoHandler
<1> QED
  BY <1>1, <1>2 DEF RingInv, OriginInv

(***************************************************************************)
(* The AcceptEx operations.                                                *)
(***************************************************************************)
(* A worker that takes the completion of an AcceptEx owes another one      *)
(* until it has posted it.                                                 *)
LEMMA OwesAccept ==
  ASSUME TypeOK, NEW u \in Workers, WorkerThread(u)
  PROVE  \/ (Accepting(u)' <=> Accepting(u)) /\ accepts' = accepts
         \/ ~Accepting(u) /\ Accepting(u)' /\ accepts' = accepts - 1
         \/ Accepting(u) /\ ~Accepting(u)' /\ accepts' = accepts + 1
<1> USE DEF Accepting
<1>0. hand \in [Workers -> Handler] /\ hand[u] \in Handler
  BY DEF TypeOK
<1>k. ASSUME UNCHANGED <<hand, accepts>> PROVE (Accepting(u)' <=> Accepting(u)) /\ accepts' = accepts
  BY <1>k
<1>1. CASE AcceptStep(u)
  <2>1. CASE AcceptAcquire(u)
    <3>1. /\ hand[u].at = "acquire" /\ accepts' = accepts
          /\ hand' = [hand EXCEPT ![u].at = "setup", ![u].s = Head(free)]
      BY <2>1 DEF AcceptAcquire, InHandler, kernel
    <3>2. hand'[u].at = "setup"
      BY <1>0, <3>1 DEF Handler
    <3> QED
      BY <3>1, <3>2
  <2>2. CASE AcceptRefuse(u)
    <3>1. hand[u].at = "acquire" /\ accepts' = accepts + 1 /\ ReturnHandler(u)
      BY <2>2 DEF AcceptRefuse, InHandler
    <3> QED
      BY <3>1, ReturnFacts
  <2>3. CASE AcceptSetup(u) \/ AcceptRegister(u) \/ AcceptAssociate(u) \/ AcceptPostRecv(u)
    <3>1. /\ hand[u].at \in {"setup", "register", "associate", "firstRecv"} /\ accepts' = accepts
          /\ \E l \in {"register", "associate", "firstRecv", "reaccept"} : GotoHandler(u, l)
      BY <2>3 DEF AcceptSetup, AcceptRegister, AcceptAssociate, AcceptPostRecv, InHandler, kernel
    <3>2. hand'[u].at \in {"register", "associate", "firstRecv", "reaccept"}
      BY <3>1, Labels, GotoFacts DEF Went
    <3> QED
      BY <3>1, <3>2
  <2>4. CASE AcceptPostAccept(u)
    <3>1. hand[u].at = "reaccept" /\ accepts' = accepts + 1 /\ GotoHandler(u, "welcome")
      BY <2>4 DEF AcceptPostAccept, InHandler
    <3>2. hand'[u].at = "welcome"
      BY <3>1, Labels, GotoFacts DEF Went
    <3> QED
      BY <3>1, <3>2
  <2>5. CASE AcceptWelcome(u)
    <3>1. hand[u].at = "welcome" /\ accepts' = accepts /\ ReturnHandler(u)
      BY <2>5 DEF AcceptWelcome, InHandler, kernel
    <3> QED
      BY <3>1, ReturnFacts
  <2> QED
    BY <1>1, <2>1, <2>2, <2>3, <2>4, <2>5 DEF AcceptStep
<1>2. CASE RecvStep(u)
  <2>1. hand[u].at \in {"append", "pop", "chat", "exit", "nextRecv"} /\ accepts' = accepts
    BY <1>2
    DEF RecvStep, RecvFault, RecvAppend, RecvNeedMore, RecvMalformed, RecvPacket, Broadcast,
        BroadcastDone, RecvPostRecv, InHandler, kernel
  <2>2. hand'[u].at \in {"off", "pop", "chat", "exit", "nextRecv", "fault"}
    <3>1. CASE RecvFault(u) \/ RecvNeedMore(u) \/ BroadcastDone(u)
      <4>1. GotoHandler(u, "fault") \/ GotoHandler(u, "nextRecv") \/ GotoHandler(u, "pop")
        BY <3>1 DEF RecvFault, RecvNeedMore, BroadcastDone
      <4> QED
        BY <4>1, Labels, GotoFacts DEF Went
    <3>2. CASE RecvMalformed(u) \/ RecvPostRecv(u)
      BY <3>2, ReturnFacts DEF RecvMalformed, RecvPostRecv
    <3>3. CASE RecvAppend(u)
      BY <1>0, <3>3 DEF RecvAppend, Handler
    <3>4. CASE RecvPacket(u)
      <4> DEFINE p == Head(rx[hand[u].s])
      <4>1. /\ hand[u].at = "pop"
            /\ \/ /\ p.kind \in {"chat", "exit"}
                  /\ hand' = [hand EXCEPT ![u].at = p.kind, ![u].targets = Snapshot(hand[u].s)]
               \/ UNCHANGED hand
        BY <3>4 DEF RecvPacket, InHandler
      <4> QED
        BY <1>0, <4>1 DEF Handler
    <3>5. CASE Broadcast(u)
      <4>1. /\ hand[u].at \in {"chat", "exit"}
            /\ \E t \in hand[u].targets : hand' = [hand EXCEPT ![u].targets = @ \ {t}]
        BY <3>5 DEF Broadcast, InHandler
      <4> QED
        BY <1>0, <4>1 DEF Handler
    <3> QED
      BY <1>2, <3>1, <3>2, <3>3, <3>4, <3>5 DEF RecvStep
  <2> QED
    BY <2>1, <2>2
<1>3. CASE SendStep(u) \/ CloseStep(u)
  BY <1>3, <1>k
  DEF SendStep, EnqueuePush, EnqueueExchange, PostSendPop, PostSendClear, PostSendWSASend,
      CloseStep, CloseMark, CloseSocket, CloseUnregister, CloseRelease, kernel
<1>4. ASSUME NEW c \in Conns, TakeAccept(u, c)
      PROVE  ~Accepting(u) /\ Accepting(u)' /\ accepts' = accepts - 1
  BY <1>0, <1>4 DEF TakeAccept, Idle, InHandler
<1>5. ASSUME NEW s \in Sessions, NEW c \in Conns, TakeRecvData(u, s, c)
      PROVE  (Accepting(u)' <=> Accepting(u)) /\ accepts' = accepts
  <2>1. hand[u].at = "off" /\ hand'[u].at = "append" /\ accepts' = accepts
    BY <1>0, <1>5 DEF TakeRecvData, Idle, InHandler
  <2> QED
    BY <2>1
<1>6. CASE TakeStep(u)
  BY <1>4, <1>5, <1>6, <1>k DEF TakeStep, TakeRecvEnd, TakeSend
<1> QED
  BY <1>1, <1>2, <1>3, <1>6 DEF WorkerThread

(* So the operations outstanding and owed are always as many.              *)
LEMMA AcceptsNext == TypeOK /\ AcceptsKept /\ [Next]_vars => AcceptsKept'
<1> SUFFICES ASSUME TypeOK, AcceptsKept, [Next]_vars PROVE AcceptsKept'
  OBVIOUS
<1> DEFINE A == {w \in Workers : Accepting(w)}
<1>0. IsFiniteSet(A) /\ IsFiniteSet(A') /\ accepts \in Nat /\ AcceptCount \in Nat
  <2>1. A \subseteq Workers /\ A' \subseteq Workers
    OBVIOUS
  <2> HIDE DEF A
  <2> QED
    BY <2>1, ServerAssumption, FS_Subset DEF TypeOK
<1>1. Cardinality(A) \in Nat /\ accepts + Cardinality(A) = AcceptCount
  <2>1. accepts + Cardinality(A) = AcceptCount
    BY DEF AcceptsKept
  <2> HIDE DEF A
  <2> QED
    BY <1>0, <2>1, FS_CardinalityType
<1>2. ASSUME A' = A, accepts' = accepts PROVE AcceptsKept'
  BY <1>1, <1>2 DEF AcceptsKept
<1>3. ASSUME NEW u \in Workers, WorkerThread(u) PROVE AcceptsKept'
  <2>1. \A v \in Workers : v # u => (Accepting(v)' <=> Accepting(v))
    BY <1>3, RefsWorker DEF Others, OthersKeep, Accepting
  <2>2. CASE (Accepting(u)' <=> Accepting(u)) /\ accepts' = accepts
    <3>1. A' = A
      BY <2>1, <2>2
    <3> QED
      BY <1>2, <2>2, <3>1
  <2>3. CASE ~Accepting(u) /\ Accepting(u)' /\ accepts' = accepts - 1
    <3>1. A' = A \cup {u} /\ u \notin A
      BY <2>1, <2>3
    <3>2. Cardinality(A') = Cardinality(A) + 1
      <4> HIDE DEF A
      <4> QED
        BY <1>0, <3>1, FS_AddElement
    <3>3. accepts' + Cardinality(A') = AcceptCount
      <4> HIDE DEF A
      <4> QED
        BY <1>0, <1>1, <2>3, <3>2
    <3> QED
      BY <3>3 DEF AcceptsKept
  <2>4. CASE Accepting(u) /\ ~Accepting(u)' /\ accepts' = accepts + 1
    <3>1. A' = A \ {u} /\ u \in A
      BY <2>1, <2>4
    <3>2. Cardinality(A') = Cardinality(A) - 1
      <4> HIDE DEF A
      <4> QED
        BY <1>0, <3>1, FS_RemoveElement
    <3>3. accepts' + Cardinality(A') = AcceptCount
      <4> HIDE DEF A
      <4> QED
        BY <1>0, <1>1, <2>4, <3>2
    <3> QED
      BY <3>3 DEF AcceptsKept
  <2> QED
    BY <1>3, <2>2, <2>3, <2>4, OwesAccept
<1>4. CASE Network \/ UNCHANGED vars
  <2>1. UNCHANGED <<accepts, hand>>
    BY <1>4 DEF Network, PeerLeaves, SendUnnotified, vars, kernel
  <2> QED
    BY <1>2, <2>1 DEF Accepting
<1> QED
  BY <1>3, <1>4 DEF Next

(***************************************************************************)
(* No object leaks.  Connection c has no session yet while a worker brings *)
(* it from TakeAccept to AcceptSetup, and never two sessions, so an entry  *)
(* of the table is neither overwritten nor removed by another session.     *)
(***************************************************************************)
Brings(w, c) == hand[w].at \in {"acquire", "setup"} /\ hand[w].c = c
Unserved(c)  == \A s \in Sessions : conn[s] # c

ConnInv ==
  /\ \A c \in Conns : link[c] = "new" => Unserved(c) /\ \A w \in Workers : ~Brings(w, c)
  /\ \A w \in Workers, c \in Conns : Brings(w, c) => Unserved(c)
  /\ \A v, w \in Workers, c \in Conns : Brings(v, c) /\ Brings(w, c) => v = w
  /\ \A s, t \in Sessions : conn[s] = conn[t] /\ conn[s] \in Conns => s = t

SetsUp(u) == hand[u].at \in {"setup", "register", "associate"}

(* What a handler step does to a connection that is being set up.          *)
LEMMA AcceptPhases ==
  ASSUME TypeOK, NEW u \in Workers, WorkerThread(u)
  PROVE  \/ hand'[u] = hand[u]
         \/ ~SetsUp(u) /\ hand'[u].at \notin {"acquire", "setup", "register", "associate"}
         \/ \E c \in Conns : TakeAccept(u, c)
         \/ AcceptAcquire(u) \/ AcceptSetup(u) \/ AcceptRegister(u) \/ AcceptAssociate(u)
<1> USE DEF SetsUp
<1>0. hand \in [Workers -> Handler] /\ hand[u] \in Handler
  BY DEF TypeOK
<1>1. CASE AcceptRefuse(u) \/ AcceptWelcome(u) \/ RecvMalformed(u) \/ RecvPostRecv(u)
  <2>1. hand[u].at \in {"acquire", "welcome", "pop", "nextRecv"} /\ ReturnHandler(u)
    BY <1>1 DEF AcceptRefuse, AcceptWelcome, RecvMalformed, RecvPostRecv, InHandler
  <2> QED
    BY <2>1, ReturnFacts
<1>2. CASE AcceptPostRecv(u) \/ AcceptPostAccept(u) \/ RecvFault(u) \/ RecvNeedMore(u) \/ BroadcastDone(u)
  <2>1. /\ hand[u].at \in {"firstRecv", "reaccept", "append", "pop", "chat", "exit"}
        /\ \E l \in {"reaccept", "welcome", "fault", "nextRecv", "pop"} : GotoHandler(u, l)
    BY <1>2 DEF AcceptPostRecv, AcceptPostAccept, RecvFault, RecvNeedMore, BroadcastDone, InHandler
  <2>2. hand'[u].at \in {"reaccept", "welcome", "fault", "nextRecv", "pop"}
    BY <2>1, Labels, GotoFacts DEF Went
  <2> QED
    BY <2>1, <2>2
<1>3. CASE RecvAppend(u)
  <2>1. hand[u].at = "append" /\ hand' = [hand EXCEPT ![u].at = "pop", ![u].data = <<>>]
    BY <1>3 DEF RecvAppend, InHandler
  <2>2. hand'[u].at = "pop"
    BY <1>0, <2>1 DEF Handler
  <2> QED
    BY <2>1, <2>2
<1>4. CASE RecvPacket(u)
  <2> DEFINE p == Head(rx[hand[u].s])
  <2>1. /\ hand[u].at = "pop"
        /\ \/ /\ p.kind \in {"chat", "exit"}
              /\ hand' = [hand EXCEPT ![u].at = p.kind, ![u].targets = Snapshot(hand[u].s)]
           \/ UNCHANGED hand
    BY <1>4 DEF RecvPacket, InHandler
  <2>2. hand'[u] = hand[u] \/ hand'[u].at \in {"chat", "exit"}
    BY <1>0, <2>1 DEF Handler
  <2> QED
    BY <2>1, <2>2
<1>5. CASE Broadcast(u)
  <2>1. /\ hand[u].at \in {"chat", "exit"}
        /\ \E t \in hand[u].targets : hand' = [hand EXCEPT ![u].targets = @ \ {t}]
    BY <1>5 DEF Broadcast, InHandler
  <2>2. hand'[u].at = hand[u].at
    BY <1>0, <2>1 DEF Handler
  <2> QED
    BY <2>1, <2>2
<1>6. CASE SendStep(u) \/ CloseStep(u)
  BY <1>6
  DEF SendStep, EnqueuePush, EnqueueExchange, PostSendPop, PostSendClear, PostSendWSASend,
      CloseStep, CloseMark, CloseSocket, CloseUnregister, CloseRelease
<1>7. ASSUME NEW s \in Sessions, NEW c \in Conns, TakeRecvData(u, s, c)
      PROVE  ~SetsUp(u) /\ hand'[u].at = "append"
  BY <1>0, <1>7 DEF TakeRecvData, Idle, InHandler
<1>8. CASE TakeStep(u)
  BY <1>7, <1>8 DEF TakeStep, TakeRecvEnd, TakeSend
<1> QED
  BY <1>1, <1>2, <1>3, <1>4, <1>5, <1>6, <1>8 DEF WorkerThread, AcceptStep, RecvStep

(* A socket is opened by its AcceptEx and only closed after that; conn is  *)
(* assigned in AcceptSetup only.                                           *)
LEMMA NewKept ==
  ASSUME TypeOK, NEW u \in Workers, WorkerThread(u)
  PROVE  /\ \A c \in Conns : link'[c] = "new" => link[c] = "new"
         /\ \A c \in Conns : link'[c] \in {link[c], "closed"} \/ TakeAccept(u, c)
         /\ AcceptSetup(u) \/ conn' = conn
<1>0. link \in [Conns -> {"new", "up", "down", "closed"}]
  BY DEF TypeOK
<1> DEFINE Kept == /\ \A c \in Conns : link'[c] = "new" => link[c] = "new"
                   /\ \A c \in Conns : link'[c] \in {link[c], "closed"} \/ TakeAccept(u, c)
                   /\ AcceptSetup(u) \/ conn' = conn
<1> SUFFICES Kept
  OBVIOUS
<1>k. ASSUME link' = link, AcceptSetup(u) \/ conn' = conn PROVE Kept
  BY <1>k
<1>e. ASSUME NEW c, link' = [link EXCEPT ![c] = "closed"], conn' = conn PROVE Kept
  BY <1>0, <1>e
<1>t. ASSUME NEW c \in Conns, TakeAccept(u, c) PROVE Kept
  <2>1. link' = [link EXCEPT ![c] = "up"] /\ conn' = conn
    BY <1>t DEF TakeAccept, session
  <2>2. \A d \in Conns : d # c => link'[d] = link[d]
    BY <1>0, <2>1
  <2>3. link'[c] = "up"
    BY <1>0, <2>1
  <2> QED
    BY <1>t, <2>1, <2>2, <2>3
<1> HIDE DEF Kept
<1>1. CASE AcceptStep(u)
  <2>1. CASE AcceptRefuse(u)
    BY <2>1, <1>e DEF AcceptRefuse, session
  <2> QED
    BY <1>1, <2>1, <1>k
    DEF AcceptStep, AcceptAcquire, AcceptSetup, AcceptRegister, AcceptAssociate, AcceptPostRecv,
        AcceptPostAccept, AcceptWelcome, kernel, session
<1>2. CASE RecvStep(u)
  BY <1>2, <1>k
  DEF RecvStep, RecvFault, RecvAppend, RecvNeedMore, RecvMalformed, RecvPacket, Broadcast,
      BroadcastDone, RecvPostRecv, kernel, session
<1>3. CASE SendStep(u)
  BY <1>3, <1>k
  DEF SendStep, EnqueuePush, EnqueueExchange, PostSendPop, PostSendClear, PostSendWSASend,
      kernel, session
<1>4. CASE CloseStep(u)
  <2>1. CASE CloseSocket(u)
    BY <2>1, <1>e DEF CloseSocket
  <2> QED
    BY <1>4, <2>1, <1>k DEF CloseStep, CloseMark, CloseUnregister, CloseRelease, kernel, session
<1>5. CASE TakeStep(u)
  BY <1>5, <1>t, <1>k DEF TakeStep, TakeRecvData, TakeRecvEnd, TakeSend, session
<1> QED
  BY <1>1, <1>2, <1>3, <1>4, <1>5 DEF WorkerThread

(* One session at a time serves a connection.                              *)
LEMMA ConnNext == TypeOK /\ ConnInv /\ [Next]_vars => ConnInv'
<1> SUFFICES ASSUME TypeOK, ConnInv, [Next]_vars PROVE ConnInv'
  OBVIOUS
<1>0. hand \in [Workers -> Handler] /\ conn \in [Sessions -> Conns \cup {None}]
      /\ link \in [Conns -> {"new", "up", "down", "closed"}]
  BY DEF TypeOK
<1>k. ASSUME conn' = conn, \A c \in Conns : link'[c] = "new" => link[c] = "new",
             \A w \in Workers, c \in Conns : Brings(w, c)' => Brings(w, c)
      PROVE  ConnInv'
  BY <1>k DEF ConnInv, Unserved
<1>1. ASSUME NEW u \in Workers, WorkerThread(u) PROVE ConnInv'
  <2>0. Others(u) /\ (\A c \in Conns : link'[c] = "new" => link[c] = "new")
        /\ hand[u] \in Handler
    BY <1>0, <1>1, RefsWorker, NewKept
  <2>1. ASSUME NEW c \in Conns, TakeAccept(u, c) PROVE ConnInv'
    <3>1. link[c] = "new" /\ link'[c] = "up" /\ hand'[u].at = "acquire" /\ hand'[u].c = c /\ conn' = conn
      BY <1>0, <2>1 DEF TakeAccept, session
    <3>2. \A w \in Workers, d \in Conns : Brings(w, d)' => Brings(w, d) \/ (w = u /\ d = c)
      BY <2>0, <3>1 DEF Others, OthersKeep, Brings
    <3>3. Unserved(c) /\ \A w \in Workers : ~Brings(w, c)
      BY <3>1 DEF ConnInv
    <3>4. \A d \in Conns : Unserved(d)' = Unserved(d)
      BY <3>1 DEF Unserved
    <3> QED
      BY <2>0, <3>1, <3>2, <3>3, <3>4 DEF ConnInv
  <2>2. CASE AcceptSetup(u)
    <3> DEFINE h == hand[u].s  c == hand[u].c
    <3>1. /\ hand[u].at = "setup" /\ GotoHandler(u, "register")
          /\ conn' = [conn EXCEPT ![h] = c]
      BY <2>2 DEF AcceptSetup, InHandler
    <3>2. h \in Sessions /\ c \in Conns
      BY <3>1 DEF TypeOK, FramesOK
    <3>3. hand'[u].at = "register"
      BY <3>1, Labels, GotoFacts DEF Went
    <3>4. Brings(u, c)
      BY <3>1 DEF Brings
    <3> HIDE DEF h, c
    <3>5. \A w \in Workers, d \in Conns : Brings(w, d)' => Brings(w, d) /\ w # u
      BY <2>0, <3>3 DEF Others, OthersKeep, Brings
    <3>6. Unserved(c) /\ link[c] # "new" /\ \A w \in Workers : Brings(w, c) => w = u
      BY <3>2, <3>4 DEF ConnInv
    <3>7. \A s \in Sessions : conn'[s] = IF s = h THEN c ELSE conn[s]
      BY <1>0, <3>1
    <3>8. \A d \in Conns : d # c /\ Unserved(d) => Unserved(d)'
      BY <3>7 DEF Unserved
    <3>9. \A s, t \in Sessions : conn'[s] = conn'[t] /\ conn'[s] \in Conns => s = t
      BY <3>6, <3>7 DEF ConnInv, Unserved
    <3> QED
      BY <2>0, <3>2, <3>5, <3>6, <3>8, <3>9 DEF ConnInv
  <2>3. CASE ~AcceptSetup(u) /\ ~\E c \in Conns : TakeAccept(u, c)
    <3>1. conn' = conn
      BY <1>1, <2>3, NewKept
    <3>2. \A c \in Conns : Brings(u, c)' => Brings(u, c)
      <4>1. CASE AcceptAcquire(u)
        <5>1. /\ hand[u].at = "acquire"
              /\ hand' = [hand EXCEPT ![u].at = "setup", ![u].s = Head(free)]
          BY <4>1 DEF AcceptAcquire, InHandler
        <5>2. hand'[u].c = hand[u].c
          BY <1>0, <2>0, <5>1 DEF Handler
        <5> QED
          BY <5>1, <5>2 DEF Brings
      <4>2. CASE AcceptRegister(u) \/ AcceptAssociate(u)
        <5>1. GotoHandler(u, "associate") \/ GotoHandler(u, "firstRecv")
          BY <4>2 DEF AcceptRegister, AcceptAssociate
        <5>2. hand'[u].at \in {"associate", "firstRecv"}
          BY <5>1, Labels, GotoFacts DEF Went
        <5> QED
          BY <5>2 DEF Brings
      <4>3. CASE hand'[u] = hand[u] \/ hand'[u].at \notin {"acquire", "setup", "register", "associate"}
        BY <4>3 DEF Brings
      <4> QED
        BY <1>1, <2>3, <4>1, <4>2, <4>3, AcceptPhases
    <3>3. \A w \in Workers, c \in Conns : Brings(w, c)' => Brings(w, c)
      BY <2>0, <3>2 DEF Others, OthersKeep, Brings
    <3> QED
      BY <1>k, <2>0, <3>1, <3>3
  <2> QED
    BY <2>1, <2>2, <2>3
<1>2. CASE UNCHANGED vars
  BY <1>2, <1>k DEF vars, kernel, session, Brings
<1>3. ASSUME NEW c \in Conns, PeerLeaves(c) PROVE ConnInv'
  <2>1. UNCHANGED <<conn, hand>> /\ link' = [link EXCEPT ![c] = "down"]
    BY <1>3 DEF PeerLeaves, session
  <2>2. \A d \in Conns : link'[d] = "new" => link[d] = "new"
    BY <1>0, <2>1
  <2> QED
    BY <1>k, <2>1, <2>2 DEF Brings
<1>4. ASSUME NEW s \in Sessions, NEW c \in Conns, SendUnnotified(s, c) PROVE ConnInv'
  BY <1>k, <1>4 DEF SendUnnotified, session, Brings
<1> QED
  BY <1>1, <1>2, <1>3, <1>4 DEF Next, Network

(* After Start() no connection is served.                                  *)
LEMMA ConnInit == Init => ConnInv
<1> SUFFICES ASSUME Init PROVE ConnInv
  OBVIOUS
<1>1. /\ \A w \in Workers : hand[w].at = "off"
      /\ \A s \in Sessions : conn[s] = None
  BY DEF Init, NoHandler
<1>2. None \notin Conns
  BY ServerAssumption
<1> QED
  BY <1>1, <1>2 DEF ConnInv, Unserved, Brings

(* The worker's frames owe the counter and the pool nothing new.           *)
LeakKeeps(u) ==
  /\ UNCHANGED <<table, free, conn, count>>
  /\ \/ hand'[u] = hand[u]
     \/ ~SetsUp(u) /\ hand'[u].at \notin {"setup", "register", "associate"}
  /\ \/ cls'[u] = cls[u]
     \/ cls[u].at = "off" /\ cls'[u].at \in {"off", "mark"}
     \/ cls[u].at = "socket" /\ cls'[u].at = "unregister" /\ cls'[u].s = cls[u].s

(* statCurConn_ is changed in two places.                                  *)
LEMMA CountKept ==
  ASSUME TypeOK, NEW u \in Workers, WorkerThread(u), ~AcceptAssociate(u), ~CloseRelease(u)
  PROVE  count' = count
<1>1. CASE AcceptStep(u)
  BY <1>1
  DEF AcceptStep, AcceptRefuse, AcceptAcquire, AcceptSetup, AcceptRegister, AcceptPostRecv,
      AcceptPostAccept, AcceptWelcome, shared
<1>2. CASE RecvStep(u)
  BY <1>2
  DEF RecvStep, RecvFault, RecvAppend, RecvNeedMore, RecvMalformed, RecvPacket, Broadcast,
      BroadcastDone, RecvPostRecv, shared
<1>3. CASE SendStep(u)
  BY <1>3
  DEF SendStep, EnqueuePush, EnqueueExchange, PostSendPop, PostSendClear, PostSendWSASend, shared
<1>4. CASE CloseStep(u)
  BY <1>4 DEF CloseStep, CloseMark, CloseSocket, CloseUnregister, shared
<1>5. CASE TakeStep(u)
  BY <1>5 DEF TakeStep, TakeAccept, TakeRecvData, TakeRecvEnd, TakeSend, shared
<1> QED
  BY <1>1, <1>2, <1>3, <1>4, <1>5 DEF WorkerThread

(* Only CloseSession moves on in CloseSession.                             *)
LEMMA ClosePhases ==
  ASSUME TypeOK, NEW u \in Workers, WorkerThread(u), ~CloseStep(u)
  PROVE  cls'[u] = cls[u] \/ cls[u].at = "off"
<1>1. CASE AcceptStep(u)
  BY <1>1
  DEF AcceptStep, AcceptRefuse, AcceptAcquire, AcceptSetup, AcceptRegister, AcceptAssociate,
      AcceptPostRecv, AcceptPostAccept, AcceptWelcome, InHandler
<1>2. CASE RecvStep(u)
  BY <1>2
  DEF RecvStep, RecvFault, RecvAppend, RecvNeedMore, RecvMalformed, RecvPacket, Broadcast,
      BroadcastDone, RecvPostRecv, InHandler
<1>3. CASE SendStep(u)
  BY <1>3
  DEF SendStep, EnqueuePush, EnqueueExchange, PostSendPop, PostSendClear, PostSendWSASend, InSend
<1>4. CASE TakeStep(u)
  BY <1>4 DEF TakeStep, TakeAccept, TakeRecvData, TakeRecvEnd, TakeSend, Idle, InHandler
<1> QED
  BY <1>1, <1>2, <1>3, <1>4 DEF WorkerThread

(* A step keeps the places and the counter, or is one of seven.            *)
LEMMA LeakMoves ==
  ASSUME TypeOK, NEW u \in Workers, WorkerThread(u)
  PROVE  LeakKeeps(u) \/ ObjectStep(u) \/ AcceptAssociate(u)
<1> SUFFICES ASSUME ~ObjectStep(u), ~AcceptAssociate(u) PROVE LeakKeeps(u)
  OBVIOUS
<1>1. KeepsObjects(u)
  BY Keeps
<1>2. count' = count
  BY CountKept DEF ObjectStep
<1>3. \/ hand'[u] = hand[u]
      \/ ~SetsUp(u) /\ hand'[u].at \notin {"setup", "register", "associate"}
  <2>1. ASSUME NEW c \in Conns, TakeAccept(u, c)
        PROVE  ~SetsUp(u) /\ hand'[u].at \notin {"setup", "register", "associate"}
    BY <2>1 DEF TakeAccept, Idle, InHandler, SetsUp, TypeOK
  <2> QED
    BY <2>1, AcceptPhases DEF ObjectStep
<1>4. \/ cls'[u] = cls[u]
      \/ cls[u].at = "off" /\ cls'[u].at \in {"off", "mark"}
      \/ cls[u].at = "socket" /\ cls'[u].at = "unregister" /\ cls'[u].s = cls[u].s
  <2>1. CASE CloseStep(u)
    <3>1. cls[u].at = "socket" /\ cls' = [cls EXCEPT ![u].at = "unregister"]
      BY <2>1 DEF CloseStep, ObjectStep, CloseSocket, InClose
    <3>2. cls \in [Workers -> CloseCall] /\ cls[u] \in CloseCall
      BY DEF TypeOK
    <3>3. cls'[u].at = "unregister" /\ cls'[u].s = cls[u].s
      BY <3>1, <3>2 DEF CloseCall
    <3> QED
      BY <3>1, <3>3
  <2>2. CASE ~CloseStep(u)
    BY <1>1, <2>2, ClosePhases DEF KeepsObjects
  <2> QED
    BY <2>1, <2>2
<1> QED
  BY <1>1, <1>2, <1>3, <1>4 DEF LeakKeeps, KeepsObjects

FreshOf(w, s)     == hand[w].at \in {"setup", "register"} /\ hand[w].s = s
ReleasedBy(w, s)  == cls[w].at = "release" /\ cls[w].s = s

(* Every object is in the pool, in the table, or in the hands of the       *)
(* worker that takes it from the one to the other; one that CloseSession   *)
(* has not unregistered yet is registered.                                 *)
PlaceInv ==
  /\ \A s \in Sessions :
       InPool(s) \/ Registered(s) \/ \E w \in Workers : FreshOf(w, s) \/ ReleasedBy(w, s)
  /\ \A w \in Workers, s \in Sessions :
       cls[w].s = s /\ cls[w].at \in {"socket", "unregister"} => Registered(s)

(* The counter lags behind the table while a session is being set up, and  *)
(* while one is released.                                                  *)
Owed == {w \in Workers : hand[w].at = "associate"}
Due  == {w \in Workers : cls[w].at = "release"}
InTable == {s \in Sessions : Registered(s)}

CountInv == count + Cardinality(Owed) = Cardinality(InTable) + Cardinality(Due)

(* The table entry a session is about to write is empty: AcceptRegister    *)
(* adds the session and removes none.                                      *)
LEMMA RegisterAdds ==
  ASSUME TypeOK, ObjectInv, ConnInv, NEW u \in Workers, AcceptRegister(u)
  PROVE  /\ hand[u].s \in InTable' /\ hand[u].s \notin InTable
         /\ InTable' = InTable \cup {hand[u].s}
<1> DEFINE h == hand[u].s
<1>1. hand[u].at = "register" /\ table' = [table EXCEPT ![conn[h]] = h]
  BY DEF AcceptRegister, InHandler
<1>2. h \in Sessions /\ conn[h] \in Conns /\ table \in [Conns -> Sessions \cup {None}]
  BY <1>1 DEF TypeOK, FramesOK, Attached
<1>3. ~Registered(h)
  BY <1>1 DEF ObjectInv, FreshInv
<1> HIDE DEF h
<1>4. \A s \in Sessions : table[conn[h]] # s
  BY <1>2, <1>3 DEF ObjectInv, TableInv, ConnInv, Registered
<1>5. \A c \in Conns : table'[c] = IF c = conn[h] THEN h ELSE table[c]
  BY <1>1, <1>2
<1>6. \A s \in Sessions : Registered(s)' <=> Registered(s) \/ s = h
  BY <1>2, <1>4, <1>5 DEF Registered
<1>7. h \in InTable' /\ h \notin InTable /\ InTable' = InTable \cup {h}
  BY <1>2, <1>3, <1>6 DEF InTable
<1> QED
  BY <1>7 DEF h

(* CloseUnregister removes its session and no other.                       *)
LEMMA UnregisterRemoves ==
  ASSUME TypeOK, ObjectInv, ConnInv, PlaceInv, NEW u \in Workers, CloseUnregister(u)
  PROVE  cls[u].s \in InTable /\ InTable' = InTable \ {cls[u].s}
<1> DEFINE h == cls[u].s
<1>1. cls[u].at = "unregister" /\ table' = [table EXCEPT ![conn[h]] = None]
  BY DEF CloseUnregister, InClose
<1>2. /\ h \in Sessions /\ conn[h] \in Conns /\ table \in [Conns -> Sessions \cup {None}]
      /\ None \notin Sessions
  BY <1>1, ServerAssumption DEF TypeOK, FramesOK, Attached
<1>3. Registered(h)
  BY <1>1, <1>2 DEF PlaceInv
<1> HIDE DEF h
<1>4. \A c \in Conns : table'[c] = IF c = conn[h] THEN None ELSE table[c]
  BY <1>1, <1>2
<1>5. \A s \in Sessions, c \in Conns : table[c] = s => conn[s] = c
  BY DEF ObjectInv, TableInv
<1>6. \A s \in Sessions : conn[s] = conn[h] => s = h
  BY <1>2 DEF ConnInv
<1>7. \A s \in Sessions : Registered(s)' <=> Registered(s) /\ s # h
  BY <1>2, <1>4, <1>5, <1>6 DEF Registered
<1>8. h \in InTable /\ InTable' = InTable \ {h}
  BY <1>2, <1>3, <1>7 DEF InTable
<1> QED
  BY <1>8 DEF h

(* The session that CloseSession is called for and that nobody closes yet  *)
(* is in the table.                                                        *)
LEMMA MarksRegistered ==
  ASSUME TypeOK, ObjectInv, PlaceInv, NEW u \in Workers, CloseMark(u), ~closing[cls[u].s]
  PROVE  Registered(cls[u].s)
<1> DEFINE h == cls[u].s
<1>1. h \in Sessions
  BY DEF CloseMark, InClose, TypeOK, FramesOK, Attached
<1>2. Holds(u, h)
  BY DEF Holds
<1>3. \A w \in Workers : ~FreshOf(w, h)
  BY DEF ObjectInv, FreshInv, OnlyHandlerOf, FreshOf
<1>4. \A w \in Workers : ~ReleasedBy(w, h)
  BY <1>1 DEF ObjectInv, CloserInv, Closer, ReleasedBy
<1>5. ~InPool(h)
  BY <1>1, <1>2 DEF ObjectInv, PoolInv, Referenced
<1> QED
  BY <1>1, <1>3, <1>4, <1>5 DEF PlaceInv

(* Every step of a worker leaves each object a place.                      *)
LEMMA PlaceStep ==
  ASSUME TypeOK, ObjectInv, ConnInv, PlaceInv, NEW u \in Workers, WorkerThread(u)
  PROVE  PlaceInv'
<1>0. /\ OthersKeep(hand, hand', u) /\ OthersKeep(cls, cls', u)
      /\ hand \in [Workers -> Handler] /\ hand[u] \in Handler
      /\ cls \in [Workers -> CloseCall] /\ cls[u] \in CloseCall
      /\ free \in Seq(Sessions)
  BY RefsWorker DEF Others, TypeOK
<1> DEFINE Placed(s) == InPool(s) \/ Registered(s) \/ \E w \in Workers : FreshOf(w, s) \/ ReleasedBy(w, s)
           Listed == \A w \in Workers, s \in Sessions :
                       cls[w].s = s /\ cls[w].at \in {"socket", "unregister"} => Registered(s)
<1>p. (\A s \in Sessions : Placed(s)) /\ Listed
  BY DEF PlaceInv
<1>f. \A w \in Workers, s \in Sessions : w # u => FreshOf(w, s)' = FreshOf(w, s)
  BY <1>0 DEF OthersKeep, FreshOf
<1>r. \A w \in Workers, s \in Sessions : w # u => ReleasedBy(w, s)' = ReleasedBy(w, s)
  BY <1>0 DEF OthersKeep, ReleasedBy
<1>1. CASE LeakKeeps(u)
  <2>1. \A s \in Sessions : InPool(s)' = InPool(s) /\ Registered(s)' = Registered(s)
    BY <1>1 DEF LeakKeeps, InPool, Registered
  <2>2. \A s \in Sessions : (FreshOf(u, s) => FreshOf(u, s)') /\ (ReleasedBy(u, s) => ReleasedBy(u, s)')
    BY <1>1 DEF LeakKeeps, FreshOf, ReleasedBy, SetsUp
  <2>3. \A s \in Sessions : cls'[u].s = s /\ cls'[u].at \in {"socket", "unregister"}
                            => cls[u].s = s /\ cls[u].at \in {"socket", "unregister"}
    BY <1>1 DEF LeakKeeps
  <2>4. \A s \in Sessions : Placed(s)'
    BY <1>p, <1>f, <1>r, <2>1, <2>2
  <2>5. Listed'
    BY <1>p, <1>0, <2>1, <2>3 DEF OthersKeep
  <2> QED
    BY <2>4, <2>5 DEF PlaceInv
<1>2. CASE AcceptAcquire(u)
  <2> DEFINE h == Head(free)
  <2>1. /\ hand[u].at = "acquire" /\ free # <<>> /\ free' = Tail(free)
        /\ hand' = [hand EXCEPT ![u].at = "setup", ![u].s = h]
        /\ UNCHANGED <<table, cls>>
    BY <1>2 DEF AcceptAcquire, InHandler
  <2>2. hand'[u].at = "setup" /\ hand'[u].s = h /\ h = free[1]
        /\ \A i \in 1 .. Len(free) : i # 1 => i - 1 \in 1 .. Len(free') /\ free'[i - 1] = free[i]
    BY <1>0, <2>1 DEF Handler
  <2> HIDE DEF h
  <2>3. \A s \in Sessions : InPool(s) => InPool(s)' \/ FreshOf(u, s)'
    BY <2>2 DEF InPool, FreshOf
  <2>4. \A s \in Sessions : Registered(s)' = Registered(s) /\ ReleasedBy(u, s)' = ReleasedBy(u, s)
    BY <2>1 DEF Registered, ReleasedBy
  <2>5. \A s \in Sessions : ~FreshOf(u, s)
    BY <2>1 DEF FreshOf
  <2>6. \A s \in Sessions : Placed(s)'
    BY <1>p, <1>f, <1>r, <2>3, <2>4, <2>5
  <2>7. Listed'
    BY <1>p, <2>1, <2>4
  <2> QED
    BY <2>6, <2>7 DEF PlaceInv
<1>3. CASE AcceptSetup(u) \/ AcceptRegister(u) \/ AcceptAssociate(u)
  <2>1. \A s \in Sessions : InPool(s)' = InPool(s)
    BY <1>3 DEF AcceptSetup, AcceptRegister, AcceptAssociate, shared, InPool
  <2>2. UNCHANGED cls
    BY <1>3 DEF AcceptSetup, AcceptRegister, AcceptAssociate
  <2>3. \A s \in Sessions : Registered(s) => Registered(s)'
    <3>1. CASE AcceptRegister(u)
      BY <3>1, RegisterAdds DEF InTable
    <3>2. CASE AcceptSetup(u) \/ AcceptAssociate(u)
      BY <3>2 DEF AcceptSetup, AcceptAssociate, shared, Registered
    <3> QED
      BY <1>3, <3>1, <3>2
  <2>4. \A s \in Sessions : FreshOf(u, s) => FreshOf(u, s)' \/ Registered(s)'
    <3>1. CASE AcceptSetup(u)
      <4>1. hand'[u].at = "register" /\ hand'[u].s = hand[u].s
        BY <3>1, Labels, GotoFacts DEF AcceptSetup, Went
      <4> QED
        BY <4>1 DEF FreshOf
    <3>2. CASE AcceptRegister(u)
      BY <3>2, RegisterAdds DEF InTable, FreshOf
    <3>3. CASE AcceptAssociate(u)
      BY <3>3 DEF AcceptAssociate, InHandler, FreshOf
    <3> QED
      BY <1>3, <3>1, <3>2, <3>3
  <2>5. \A w \in Workers, s \in Sessions : ReleasedBy(w, s)' = ReleasedBy(w, s)
    BY <2>2 DEF ReleasedBy
  <2>6. \A s \in Sessions : Placed(s)'
    BY <1>p, <1>f, <2>1, <2>3, <2>4, <2>5
  <2>7. Listed'
    BY <1>p, <2>2, <2>3
  <2> QED
    BY <2>6, <2>7 DEF PlaceInv
<1>4. CASE CloseMark(u)
  <2> DEFINE h == cls[u].s
  <2>1. /\ cls[u].at = "mark" /\ UNCHANGED <<table, free, hand>>
        /\ cls' = [cls EXCEPT ![u] = IF closing[h] THEN NoClose ELSE [at |-> "socket", s |-> h]]
    BY <1>4 DEF CloseMark, InClose, shared
  <2>2. cls'[u] = IF closing[h] THEN NoClose ELSE [at |-> "socket", s |-> h]
    BY <1>0, <2>1
  <2>3. ~closing[h] => Registered(h)
    BY <1>4, MarksRegistered
  <2> HIDE DEF h
  <2>4. \A s \in Sessions : InPool(s)' = InPool(s) /\ Registered(s)' = Registered(s)
    BY <2>1 DEF InPool, Registered
  <2>5. \A w \in Workers, s \in Sessions : FreshOf(w, s)' = FreshOf(w, s)
    BY <2>1 DEF FreshOf
  <2>6. \A s \in Sessions : ~ReleasedBy(u, s)
    BY <2>1 DEF ReleasedBy
  <2>7. \A s \in Sessions : Placed(s)'
    BY <1>p, <1>r, <2>4, <2>5, <2>6
  <2>8. \A s \in Sessions : cls'[u].s = s /\ cls'[u].at \in {"socket", "unregister"} => s = h /\ ~closing[h]
    BY <2>2 DEF NoClose
  <2>9. Listed'
    BY <1>p, <1>0, <2>3, <2>4, <2>8 DEF OthersKeep
  <2> QED
    BY <2>7, <2>9 DEF PlaceInv
<1>5. CASE CloseUnregister(u)
  <2> DEFINE h == cls[u].s
  <2>1. /\ cls[u].at = "unregister" /\ UNCHANGED <<free, hand>>
        /\ cls' = [cls EXCEPT ![u].at = "release"]
    BY <1>5 DEF CloseUnregister, InClose
  <2>2. cls'[u].at = "release" /\ cls'[u].s = h /\ h \in Sessions
    BY <1>0, <2>1 DEF CloseCall, TypeOK, FramesOK, Attached
  <2>3. \A s \in Sessions : s # h /\ Registered(s) => Registered(s)'
    BY <1>5, UnregisterRemoves DEF InTable
  <2>4. \A w \in Workers, s \in Sessions : Closer(w, s) /\ Closer(u, s) => w = u
    BY DEF ObjectInv, CloserInv
  <2>5. Closer(u, h)
    BY <2>1 DEF Closer
  <2> HIDE DEF h
  <2>6. \A s \in Sessions : InPool(s)' = InPool(s)
    BY <2>1 DEF InPool
  <2>7. \A w \in Workers, s \in Sessions : FreshOf(w, s)' = FreshOf(w, s)
    BY <2>1 DEF FreshOf
  <2>8. \A s \in Sessions : (s = h => ReleasedBy(u, s)') /\ ~ReleasedBy(u, s)
    BY <2>1, <2>2 DEF ReleasedBy
  <2>9. \A s \in Sessions : Placed(s)'
    BY <1>p, <1>r, <2>3, <2>6, <2>7, <2>8
  <2>10. Listed'
    <3> SUFFICES ASSUME NEW w \in Workers, NEW s \in Sessions, cls'[w].s = s,
                        cls'[w].at \in {"socket", "unregister"}
                 PROVE  Registered(s)'
      OBVIOUS
    <3>1. w # u /\ cls'[w] = cls[w]
      BY <1>0, <2>2 DEF OthersKeep
    <3>2. Closer(w, s) /\ Registered(s)
      BY <1>p, <3>1 DEF Closer
    <3> QED
      BY <2>2, <2>3, <2>4, <2>5, <3>1, <3>2
  <2> QED
    BY <2>9, <2>10 DEF PlaceInv
<1>6. CASE CloseRelease(u)
  <2> DEFINE h == cls[u].s
  <2>1. /\ cls[u].at = "release" /\ UNCHANGED <<table, hand>>
        /\ cls' = [cls EXCEPT ![u] = NoClose] /\ free' = <<h>> \o free
    BY <1>6 DEF CloseRelease, InClose
  <2>2. h \in Sessions
    BY <2>1 DEF TypeOK, FramesOK, Attached
  <2>3. cls'[u].at = "off"
    BY <1>0, <2>1 DEF NoClose
  <2>4. \A s \in Sessions : ReleasedBy(u, s) => s = h
    BY DEF ReleasedBy
  <2> HIDE DEF h
  <2>5. /\ Len(free') = Len(free) + 1 /\ free'[1] = h /\ 1 \in 1 .. Len(free')
        /\ \A i \in 1 .. Len(free) : i + 1 \in 1 .. Len(free') /\ free'[i + 1] = free[i]
    BY <1>0, <2>1, <2>2
  <2>6. \A s \in Sessions : InPool(s) \/ s = h => InPool(s)'
    BY <2>5 DEF InPool
  <2>7. \A w \in Workers, s \in Sessions : FreshOf(w, s)' = FreshOf(w, s) /\ Registered(s)' = Registered(s)
    BY <2>1 DEF FreshOf, Registered
  <2>8. \A s \in Sessions : Placed(s)'
    BY <1>p, <1>r, <2>4, <2>6, <2>7
  <2>9. Listed'
    BY <1>p, <1>0, <2>3, <2>7 DEF OthersKeep
  <2> QED
    BY <2>8, <2>9 DEF PlaceInv
<1> QED
  BY <1>1, <1>2, <1>3, <1>4, <1>5, <1>6, LeakMoves DEF ObjectStep

(* Owed, Due and InTable are finite.                                       *)
LEMMA Counted ==
  /\ IsFiniteSet(Owed) /\ Cardinality(Owed) \in Nat
  /\ IsFiniteSet(Due) /\ Cardinality(Due) \in Nat
  /\ IsFiniteSet(InTable) /\ Cardinality(InTable) \in Nat
<1>1. Owed \in SUBSET Workers /\ Due \in SUBSET Workers /\ InTable \in SUBSET Sessions
  BY DEF Owed, Due, InTable
<1>2. IsFiniteSet(Owed) /\ IsFiniteSet(Due) /\ IsFiniteSet(InTable)
  BY <1>1, ServerAssumption, FS_Subset
<1> QED
  BY <1>2, FS_CardinalityType

(* The counter keeps its distance from the table.                          *)
LEMMA CountStep ==
  ASSUME TypeOK, ObjectInv, ConnInv, PlaceInv, CountInv, NEW u \in Workers, WorkerThread(u)
  PROVE  CountInv'
<1>0. /\ OthersKeep(hand, hand', u) /\ OthersKeep(cls, cls', u)
      /\ hand \in [Workers -> Handler] /\ hand[u] \in Handler
      /\ cls \in [Workers -> CloseCall] /\ cls[u] \in CloseCall
      /\ count \in Int
  BY RefsWorker DEF Others, TypeOK
<1>o. ASSUME (hand'[u].at = "associate") <=> (hand[u].at = "associate") PROVE Owed' = Owed
  BY <1>o, <1>0 DEF Owed, OthersKeep
<1>d. ASSUME (cls'[u].at = "release") <=> (cls[u].at = "release") PROVE Due' = Due
  BY <1>d, <1>0 DEF Due, OthersKeep
<1>t. ASSUME table' = table PROVE InTable' = InTable
  BY <1>t DEF InTable, Registered
<1>1. CASE LeakKeeps(u)
  <2>1. count' = count /\ InTable' = InTable
    BY <1>1, <1>t DEF LeakKeeps
  <2>2. Owed' = Owed
    BY <1>1, <1>o DEF LeakKeeps, SetsUp
  <2>3. Due' = Due
    BY <1>1, <1>d DEF LeakKeeps
  <2> QED
    BY <2>1, <2>2, <2>3 DEF CountInv
<1>2. CASE AcceptAcquire(u) \/ AcceptSetup(u) \/ CloseMark(u)
  <2>1. count' = count /\ InTable' = InTable
    BY <1>2, <1>t DEF AcceptAcquire, AcceptSetup, CloseMark, shared
  <2>2. Owed' = Owed
    <3>1. CASE AcceptAcquire(u)
      <4>1. hand[u].at = "acquire" /\ hand' = [hand EXCEPT ![u].at = "setup", ![u].s = Head(free)]
        BY <3>1 DEF AcceptAcquire, InHandler
      <4>2. hand'[u].at = "setup"
        BY <1>0, <4>1 DEF Handler
      <4> QED
        BY <1>o, <4>1, <4>2
    <3>2. CASE AcceptSetup(u)
      <4>1. hand[u].at = "setup" /\ hand'[u].at = "register"
        BY <3>2, Labels, GotoFacts DEF AcceptSetup, InHandler, Went
      <4> QED
        BY <1>o, <4>1
    <3>3. CASE CloseMark(u)
      BY <1>o, <3>3 DEF CloseMark
    <3> QED
      BY <1>2, <3>1, <3>2, <3>3
  <2>3. Due' = Due
    <3>1. CASE CloseMark(u)
      <4>1. cls[u].at = "mark" /\ cls'[u].at # "release"
        BY <1>0, <3>1 DEF CloseMark, InClose, NoClose
      <4> QED
        BY <1>d, <4>1
    <3>2. CASE AcceptAcquire(u) \/ AcceptSetup(u)
      BY <1>d, <3>2 DEF AcceptAcquire, AcceptSetup
    <3> QED
      BY <1>2, <3>1, <3>2
  <2> QED
    BY <2>1, <2>2, <2>3 DEF CountInv
<1>3. CASE AcceptRegister(u)
  <2>1. hand[u].at = "register" /\ hand'[u].at = "associate" /\ count' = count /\ cls' = cls
    BY <1>3, Labels, GotoFacts DEF AcceptRegister, InHandler, Went
  <2>2. Owed' = Owed \cup {u} /\ u \notin Owed
    BY <1>0, <2>1 DEF Owed, OthersKeep
  <2>3. InTable' = InTable \cup {hand[u].s} /\ hand[u].s \notin InTable
    BY <1>3, RegisterAdds
  <2>4. Due' = Due
    BY <1>d, <2>1
  <2>5. /\ Cardinality(Owed') = Cardinality(Owed) + 1
        /\ Cardinality(InTable') = Cardinality(InTable) + 1
    BY <2>2, <2>3, Counted, FS_AddElement
  <2> QED
    BY <1>0, <2>1, <2>4, <2>5, Counted DEF CountInv
<1>4. CASE AcceptAssociate(u)
  <2>1. hand[u].at = "associate" /\ hand'[u].at = "firstRecv" /\ count' = count + 1 /\ cls' = cls
        /\ table' = table
    BY <1>4, Labels, GotoFacts DEF AcceptAssociate, InHandler, Went
  <2>2. Owed' = Owed \ {u} /\ u \in Owed
    BY <1>0, <2>1 DEF Owed, OthersKeep
  <2>3. InTable' = InTable /\ Due' = Due
    BY <1>d, <1>t, <2>1
  <2>4. Cardinality(Owed') = Cardinality(Owed) - 1
    BY <2>2, Counted, FS_RemoveElement
  <2> QED
    BY <1>0, <2>1, <2>3, <2>4, Counted DEF CountInv
<1>5. CASE CloseUnregister(u)
  <2>1. /\ cls[u].at = "unregister" /\ cls' = [cls EXCEPT ![u].at = "release"]
        /\ count' = count /\ hand' = hand
    BY <1>5 DEF CloseUnregister, InClose
  <2>2. cls'[u].at = "release"
    BY <1>0, <2>1 DEF CloseCall
  <2>3. Due' = Due \cup {u} /\ u \notin Due
    BY <1>0, <2>1, <2>2 DEF Due, OthersKeep
  <2>4. InTable' = InTable \ {cls[u].s} /\ cls[u].s \in InTable
    BY <1>5, UnregisterRemoves
  <2>5. Owed' = Owed
    BY <1>o, <2>1
  <2>6. /\ Cardinality(Due') = Cardinality(Due) + 1
        /\ Cardinality(InTable') = Cardinality(InTable) - 1
    BY <2>3, <2>4, Counted, FS_AddElement, FS_RemoveElement
  <2> QED
    BY <1>0, <2>1, <2>5, <2>6, Counted DEF CountInv
<1>6. CASE CloseRelease(u)
  <2>1. /\ cls[u].at = "release" /\ cls' = [cls EXCEPT ![u] = NoClose]
        /\ count' = count - 1 /\ hand' = hand /\ table' = table
    BY <1>6 DEF CloseRelease, InClose
  <2>2. cls'[u].at = "off"
    BY <1>0, <2>1 DEF NoClose
  <2>3. Due' = Due \ {u} /\ u \in Due
    BY <1>0, <2>1, <2>2 DEF Due, OthersKeep
  <2>4. Owed' = Owed /\ InTable' = InTable
    BY <1>o, <1>t, <2>1
  <2>5. Cardinality(Due') = Cardinality(Due) - 1
    BY <2>3, Counted, FS_RemoveElement
  <2> QED
    BY <1>0, <2>1, <2>4, <2>5, Counted DEF CountInv
<1> QED
  BY <1>1, <1>2, <1>3, <1>4, <1>5, <1>6, LeakMoves DEF ObjectStep

LeakInv == ConnInv /\ (clean => PlaceInv /\ CountInv)

(* Every step keeps them, as long as no object was reused too early.       *)
LEMMA LeakNext ==
  ASSUME TypeOK, clean => ObjectInv, LeakInv, [Next]_vars
  PROVE  LeakInv'
<1>1. ConnInv'
  BY ConnNext DEF LeakInv
<1>2. ASSUME clean' PROVE PlaceInv' /\ CountInv'
  <2>1. ObjectInv /\ ConnInv /\ PlaceInv /\ CountInv
    BY <1>2, CleanKept DEF LeakInv
  <2>2. CASE Network \/ UNCHANGED vars
    <3>1. UNCHANGED <<table, free, count, hand, cls>>
      BY <2>2 DEF Network, PeerLeaves, SendUnnotified, vars, session, shared
    <3> QED
      BY <2>1, <3>1 DEF PlaceInv, CountInv, InPool, Registered, FreshOf, ReleasedBy, Owed, Due, InTable
  <2>3. CASE \E u \in Workers : WorkerThread(u)
    BY <2>1, <2>3, PlaceStep, CountStep
  <2> QED
    BY <2>2, <2>3 DEF Next
<1> QED
  BY <1>1, <1>2 DEF LeakInv

(* After Start() every object is in the pool.                              *)
LEMMA LeakInit == Init => LeakInv
<1> SUFFICES ASSUME Init PROVE LeakInv
  OBVIOUS
<1>1. /\ \A w \in Workers : hand[w].at = "off" /\ cls[w].at = "off"
      /\ \A c \in Conns : table[c] = None
      /\ count = 0
  BY DEF Init, NoHandler, NoClose
<1>2. \A s \in Sessions : InPool(s)
  <2> DEFINE n == Cardinality(Sessions)
  <2>1. /\ free \in [1 .. n -> Sessions]
        /\ \A i, j \in 1 .. n : free[i] = free[j] => i = j
    BY DEF Init
  <2>2. n \in Nat
    BY ServerAssumption, FS_CardinalityType
  <2>3. IsFiniteSet(1 .. n) /\ Cardinality(1 .. n) = n
    <3> HIDE DEF n
    <3> QED
      BY <2>2, FS_Interval
  <2>4. free \in Injection(1 .. n, Sessions)
    BY <2>1 DEF Injection, IsInjective
  <2>5. free \in Surjection(1 .. n, Sessions)
    BY <2>3, <2>4, ServerAssumption, FS_Injection
  <2>6. Len(free) = n
    BY <2>1, <2>2
  <2> QED
    BY <2>5, <2>6 DEF Surjection, InPool
<1>3. None \notin Sessions
  BY ServerAssumption
<1>4. Owed = {} /\ Due = {} /\ InTable = {}
  BY <1>1, <1>3 DEF Owed, Due, InTable, Registered
<1>5. PlaceInv
  BY <1>1, <1>2 DEF PlaceInv
<1>6. CountInv
  <2>1. Cardinality(Owed) = 0 /\ Cardinality(Due) = 0 /\ Cardinality(InTable) = 0
    BY <1>4, FS_EmptySet
  <2> QED
    BY <1>1, <2>1 DEF CountInv
<1> QED
  BY <1>5, <1>6, ConnInit DEF LeakInv

(* A session registered and an entry of the table are the same thing.      *)
LEMMA EntriesCounted ==
  ASSUME TypeOK, ObjectInv
  PROVE  Cardinality({c \in Conns : table[c] # None}) = Cardinality(InTable)
<1> DEFINE T == {c \in Conns : table[c] # None}
           f == [s \in InTable |-> conn[s]]
<1>1. /\ table \in [Conns -> Sessions \cup {None}] /\ None \notin Sessions
      /\ conn \in [Sessions -> Conns \cup {None}]
  BY ServerAssumption DEF TypeOK
<1>2. \A c \in Conns, s \in Sessions : table[c] = s => conn[s] = c
  BY DEF ObjectInv, TableInv
<1>3. \A s \in InTable : s \in Sessions /\ conn[s] \in Conns /\ table[conn[s]] = s
  BY <1>2 DEF InTable, Registered
<1>4. f \in [InTable -> T]
  BY <1>1, <1>3
<1>5. \A c \in T : table[c] \in InTable /\ conn[table[c]] = c
  BY <1>1, <1>2 DEF InTable, Registered
<1>6. f \in Bijection(InTable, T)
  <2>1. \A s, t \in InTable : f[s] = f[t] => s = t
    BY <1>3
  <2>2. \A c \in T : \E s \in InTable : f[s] = c
    BY <1>5
  <2> HIDE DEF f, T
  <2> QED
    BY <1>4, <2>1, <2>2 DEF Bijection, Injection, IsInjective, Surjection
<1> HIDE DEF f, T
<1>7. Cardinality(T) = Cardinality(InTable)
  BY <1>6, Counted, FS_Bijection DEF ExistsBijection
<1> QED
  BY <1>7 DEF T

(* The free objects are as many as the stack is high.                      *)
LEMMA PoolCounted ==
  ASSUME TypeOK, ObjectInv
  PROVE  /\ IsFiniteSet({s \in Sessions : InPool(s)})
         /\ Cardinality({s \in Sessions : InPool(s)}) = Len(free)
<1> DEFINE P == {s \in Sessions : InPool(s)}
<1>1. free \in Seq(Sessions) /\ Len(free) \in Nat
  BY DEF TypeOK
<1>2. \A i, j \in 1 .. Len(free) : free[i] = free[j] => i = j
  BY DEF ObjectInv, PoolInv
<1>3. free \in [1 .. Len(free) -> P] /\ \A s \in P : \E i \in 1 .. Len(free) : free[i] = s
  BY <1>1 DEF InPool
<1> HIDE DEF P
<1>4. free \in Bijection(1 .. Len(free), P)
  BY <1>2, <1>3 DEF Bijection, Injection, IsInjective, Surjection
<1>5. IsFiniteSet(1 .. Len(free)) /\ Cardinality(1 .. Len(free)) = Len(free)
  BY <1>1, FS_Interval
<1>6. IsFiniteSet(P) /\ Cardinality(P) = Len(free)
  BY <1>4, <1>5, FS_Bijection DEF ExistsBijection
<1> QED
  BY <1>6 DEF P

(* When every worker waits at the port no object is between the pool and   *)
(* the table, and the counter has caught up.                               *)
LEMMA LeakShown ==
  ASSUME TypeOK, clean => ObjectInv, LeakInv
  PROVE  NoLeak
<1> SUFFICES ASSUME clean, Quiet
             PROVE  /\ Len(free) + Cardinality({c \in Conns : table[c] # None}) = Cardinality(Sessions)
                    /\ count = Cardinality({c \in Conns : table[c] # None})
  BY DEF NoLeak
<1>1. ObjectInv /\ PlaceInv /\ CountInv
  BY DEF LeakInv
<1>2. \A w \in Workers : hand[w].at = "off" /\ cls[w].at = "off"
  BY DEF Quiet, Idle, InHandler
<1>3. Cardinality({c \in Conns : table[c] # None}) = Cardinality(InTable)
  BY <1>1, EntriesCounted
<1>4. count = Cardinality(InTable)
  <2>1. Owed = {} /\ Due = {}
    BY <1>2 DEF Owed, Due
  <2>2. Cardinality(Owed) = 0 /\ Cardinality(Due) = 0 /\ count \in Int
    BY <2>1, FS_EmptySet DEF TypeOK
  <2> QED
    BY <1>1, <2>2, Counted DEF CountInv
<1>5. Len(free) + Cardinality(InTable) = Cardinality(Sessions)
  <2> DEFINE P == {s \in Sessions : InPool(s)}
  <2>1. IsFiniteSet(P) /\ Cardinality(P) = Len(free)
    BY <1>1, PoolCounted
  <2>2. P \cup InTable = Sessions
    BY <1>1, <1>2 DEF PlaceInv, FreshOf, ReleasedBy, InTable
  <2>3. P \cap InTable = {}
    BY <1>1 DEF ObjectInv, PoolInv, InTable
  <2> HIDE DEF P
  <2>4. Cardinality(P \cup InTable) = Cardinality(P) + Cardinality(InTable) - Cardinality(P \cap InTable)
    BY <2>1, Counted, FS_Union
  <2>5. Cardinality(P \cap InTable) = 0
    BY <2>3, FS_EmptySet
  <2>6. free \in Seq(Sessions)
    BY DEF TypeOK
  <2>7. Len(free) \in Nat /\ Cardinality(InTable) \in Nat
    BY <2>6, Counted
  <2>8. Cardinality(Sessions) = Cardinality(P \cup InTable)
    BY <2>2
  <2> QED
    BY <2>1, <2>4, <2>5, <2>7, <2>8
<1> QED
  BY <1>3, <1>4, <1>5

-----------------------------------------------------------------------------
(* The ring, the receive buffer and ovRecv of a session, which no mutex    *)
(* protects, are used by one worker or one pending WSARecv: RecvCompletion *)
(* posts the next receive last, and AcceptCompletion the first one.        *)
THEOREM RecvExclusiveHolds == Spec => []RecvExclusive
<1>1. Init => TypeOK /\ (clean => RecvToken)
  BY TypeInit, TokenInit
<1>2. TypeOK /\ (clean => RecvToken) /\ [Next]_vars => (TypeOK /\ (clean => RecvToken))'
  BY TypeNext, TokenNext
<1>3. (clean => RecvToken) => RecvExclusive
  BY DEF RecvToken, RecvExclusive
<1> QED
  BY <1>1, <1>2, <1>3, PTL DEF Spec

(* CloseSession returns the receive buffer to its pool while a WSARecv may *)
(* be writing into it, or another worker is in RecvCompletion with it,     *)
(* only when it was called for a WSASend that failed.                      *)
THEOREM BufferIsHeld == Spec => BufferHeldAtClose
<1>1. Init => TypeOK /\ (clean => RecvToken)
  BY TypeInit, TokenInit
<1>2. TypeOK /\ (clean => RecvToken) /\ [Next]_vars => (TypeOK /\ (clean => RecvToken))'
  BY TypeNext, TokenNext
<1> DEFINE Step == \A w \in Workers, s \in Sessions :
                     clean /\ Closes(w, s) /\ InUse(w, s)' =>
                       snd[w].at = "wsaSend" /\ snd[w].s = s
<1>3. TypeOK /\ (clean => RecvToken) /\ [Next]_vars => [Step]_vars
  BY ClosesIdle
<1> QED
  BY <1>1, <1>2, <1>3, PTL DEF Spec, BufferHeldAtClose

(* One WSASend is outstanding on a session's ovSend, or one worker is      *)
(* preparing it: whoever finds `sending` false in EnqueueSend, or takes    *)
(* the completion of the last WSASend, is alone.                           *)
THEOREM SendExclusiveHolds == Spec => []SendExclusive
<1> DEFINE I == TypeOK /\ (clean => ObjectInv) /\ (clean => SendToken /\ SendingInv)
<1>1. Init => I
  BY TypeInit, ObjectsInit, SendInit
<1>2. I /\ [Next]_vars => I'
  BY TypeNext, ObjectsNext, CleanKept, SendNext
<1>3. I => SendExclusive
  BY DEF SendToken, SendExclusive
<1> QED
  BY <1>1, <1>2, <1>3, PTL DEF Spec

(* The whole invariant of the sessions: the tokens, who owns an object,    *)
(* and that what is in a session's ring came from the client it serves.    *)
THEOREM SessionsHold == Spec => []SessionInv
<1> DEFINE I == /\ TypeOK
                /\ clean => ObjectInv /\ RecvToken /\ SendToken /\ SendingInv
                /\ clean => RingInv /\ OriginInv
<1>1. Init => I
  BY TypeInit, ObjectsInit, TokenInit, SendInit, OriginInit
<1>2. I /\ [Next]_vars => I'
  BY TypeNext, ObjectsNext, TokenNext, CleanKept, SendNext, OriginNext DEF ObjectInv
<1>3. I => SessionInv
  BY DEF SessionInv, RecvExclusive, RecvToken, SendExclusive, SendToken, Attribution, RingInv
<1> QED
  BY <1>1, <1>2, <1>3, PTL DEF Spec

(* No AcceptEx is lost: every completion taken is replaced, on the path    *)
(* that serves the client and on the one that refuses it.                  *)
THEOREM AcceptsAreKept == Spec => []AcceptsKept
<1>1. Init => AcceptsKept
  <2> SUFFICES ASSUME Init PROVE AcceptsKept
    OBVIOUS
  <2>1. {w \in Workers : Accepting(w)} = {} /\ accepts = AcceptCount
    BY DEF Init, NoHandler, Accepting
  <2>2. Cardinality({}) = 0
    BY FS_EmptySet
  <2>3. Cardinality({w \in Workers : Accepting(w)}) = 0
    BY <2>1, <2>2
  <2>4. accepts + 0 = AcceptCount
    BY <2>1, ServerAssumption
  <2> QED
    BY <2>3, <2>4 DEF AcceptsKept
<1> QED
  BY <1>1, TypeInit, TypeNext, AcceptsNext, PTL DEF Spec

(* No session object is lost: whenever the workers are idle each is free   *)
(* or registered, and statCurConn_ is the number of registered sessions    *)
(* (AcceptCompletion and CloseSession, IOCP_EchoServer.cpp).               *)
THEOREM NothingLeaks == Spec => []NoLeak
<1> DEFINE I == TypeOK /\ (clean => ObjectInv) /\ LeakInv
<1>1. Init => I
  BY TypeInit, ObjectsInit, LeakInit
<1>2. I /\ [Next]_vars => I'
  BY TypeNext, ObjectsNext, LeakNext
<1>3. I => NoLeak
  BY LeakShown
<1> QED
  BY <1>1, <1>2, <1>3, PTL DEF Spec
=============================================================================
