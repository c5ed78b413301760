--------------------------- MODULE IocpServerLife ---------------------------
(***************************************************************************)
(* The life of a connection and of the session object that serves it: no   *)
(* connection is forgotten, and IocpServer implements ConnectionLife.      *)
(***************************************************************************)
EXTENDS IocpServerTokens

(***************************************************************************)
(* No connection is forgotten.  A session whose `closing` is set has its   *)
(* socket closed, or a CloseSession that is about to close it (MarkedInv), *)
(* so whoever gives the receive up because of the flag leaves somebody     *)
(* behind; and an object that is set up again served a connection whose    *)
(* socket is closed (GoneInv).                                             *)
(***************************************************************************)
Shuts(w, s) == cls[w].s = s /\ cls[w].at = "socket"

MarkedInv ==
  \A s \in Sessions :
    closing[s] /\ conn[s] \in Conns /\ link[conn[s]] # "closed" => \E w \in Workers : Shuts(w, s)

(* The session of object s is over.                                        *)
Past(s) ==
  \/ InPool(s)
  \/ \E w \in Workers : hand[w].at = "setup" /\ hand[w].s = s
  \/ \E w \in Workers : cls[w].at \in {"unregister", "release"} /\ cls[w].s = s

GoneInv == \A s \in Sessions : Past(s) /\ conn[s] \in Conns => link[conn[s]] = "closed"

(* What CloseSocket does.                                                  *)
LEMMA SocketFacts ==
  ASSUME TypeOK, NEW u \in Workers, CloseSocket(u)
  PROVE  /\ Shuts(u, cls[u].s) /\ cls[u].s \in Sessions /\ conn[cls[u].s] \in Conns
         /\ link'[conn[cls[u].s]] = "closed"
         /\ cls'[u].at = "unregister" /\ cls'[u].s = cls[u].s
         /\ UNCHANGED <<recvs, conn, closing, free, hand>>
<1>1. /\ link' = [link EXCEPT ![conn[cls[u].s]] = "closed"]
      /\ cls' = [cls EXCEPT ![u].at = "unregister"] /\ cls[u].at = "socket"
      /\ UNCHANGED <<recvs, conn, closing, free, hand>>
  BY DEF CloseSocket, InClose, shared
<1>2. cls[u].s \in Sessions /\ conn[cls[u].s] \in Conns
  BY <1>1 DEF TypeOK, FramesOK, Attached
<1>3. link'[conn[cls[u].s]] = "closed"
  BY <1>1, <1>2 DEF TypeOK
<1>4. cls'[u].at = "unregister" /\ cls'[u].s = cls[u].s
  BY <1>1 DEF TypeOK, CloseCall
<1> QED
  BY <1>1, <1>2, <1>3, <1>4 DEF Shuts

(* What CloseMark does.                                                    *)
LEMMA MarkFacts ==
  ASSUME TypeOK, NEW u \in Workers, CloseMark(u)
  PROVE  /\ cls[u].at = "mark" /\ cls[u].s \in Sessions
         /\ closing' = [closing EXCEPT ![cls[u].s] = TRUE]
         /\ closing[cls[u].s] \/ (cls'[u].at = "socket" /\ cls'[u].s = cls[u].s)
         /\ UNCHANGED <<recvs, link, conn, free, hand>>
<1>1. /\ cls[u].at = "mark" /\ closing' = [closing EXCEPT ![cls[u].s] = TRUE]
      /\ cls' = [cls EXCEPT ![u] = IF closing[cls[u].s] THEN NoClose
                                   ELSE [at |-> "socket", s |-> cls[u].s]]
      /\ UNCHANGED <<recvs, link, conn, free, hand>>
  BY DEF CloseMark, InClose, kernel, shared
<1>2. cls[u].s \in Sessions
  BY <1>1 DEF TypeOK, FramesOK, Attached
<1>3. ASSUME ~closing[cls[u].s] PROVE cls'[u] = [at |-> "socket", s |-> cls[u].s]
  BY <1>1, <1>3 DEF TypeOK
<1> QED
  BY <1>1, <1>2, <1>3

(* Every step of a worker leaves a marked session its closer, or its       *)
(* socket closed.                                                          *)
LEMMA MarkedStep ==
  ASSUME TypeOK, MarkedInv, NEW u \in Workers, WorkerThread(u)
  PROVE  MarkedInv'
<1>0. /\ OthersKeep(cls, cls', u) /\ closing \in [Sessions -> BOOLEAN]
      /\ conn \in [Sessions -> Conns \cup {None}] /\ cls \in [Workers -> CloseCall]
  BY RefsWorker DEF Others, TypeOK
<1>1. \A c \in Conns : link'[c] # "closed" => link[c] # "closed"
  BY NewKept DEF TakeAccept
<1> SUFFICES ASSUME NEW s \in Sessions, closing'[s], conn'[s] \in Conns, link'[conn'[s]] # "closed"
             PROVE  \E w \in Workers : Shuts(w, s)'
  BY DEF MarkedInv
<1>k. ASSUME closing[s], conn'[s] = conn[s], Shuts(u, s) => Shuts(u, s)'
      PROVE  \E w \in Workers : Shuts(w, s)'
  <2>1. PICK w \in Workers : Shuts(w, s)
    BY <1>1, <1>k DEF MarkedInv
  <2> QED
    BY <1>0, <1>k, <2>1 DEF OthersKeep, Shuts
<1>2. CASE AcceptAcquire(u) \/ AcceptSetup(u)
  <2>1. PICK h : /\ closing' = [closing EXCEPT ![h] = FALSE]
                 /\ conn' = conn \/ \E c : conn' = [conn EXCEPT ![h] = c]
                 /\ cls' = cls
    BY <1>2 DEF AcceptAcquire, AcceptSetup
  <2>2. closing[s] /\ h # s
    BY <1>0, <2>1
  <2>3. conn'[s] = conn[s]
    BY <1>0, <2>1, <2>2
  <2> QED
    BY <1>k, <2>1, <2>2, <2>3 DEF Shuts
<1>3. CASE CloseMark(u)
  <2>1. CASE closing[s]
    BY <1>k, <1>3, <2>1, MarkFacts DEF Shuts
  <2>2. CASE ~closing[s]
    <3>1. s = cls[u].s
      BY <1>0, <1>3, <2>2, MarkFacts
    <3> QED
      BY <1>3, <2>2, <3>1, MarkFacts DEF Shuts
  <2> QED
    BY <2>1, <2>2
<1>4. CASE CloseSocket(u)
  <2>1. closing[s] /\ conn'[s] = conn[s] /\ s # cls[u].s
    BY <1>4, SocketFacts
  <2> QED
    BY <1>k, <2>1 DEF Shuts
<1>5. CASE CloseUnregister(u) \/ CloseRelease(u)
  <2>1. cls[u].at # "socket" /\ closing' = closing /\ conn' = conn
    BY <1>5 DEF CloseUnregister, CloseRelease, InClose, session
  <2> QED
    BY <1>k, <2>1 DEF Shuts
<1>6. CASE ~CloseStep(u) /\ ~AcceptAcquire(u) /\ ~AcceptSetup(u)
  <2>1. closing' = closing /\ conn' = conn
    BY <1>6, Keeps DEF KeepsObjects, ObjectStep, CloseStep, AcceptRegister, session
  <2>2. cls'[u] = cls[u] \/ cls[u].at = "off"
    BY <1>6, ClosePhases
  <2> QED
    BY <1>k, <2>1, <2>2 DEF Shuts
<1> QED
  BY <1>2, <1>3, <1>4, <1>5, <1>6 DEF CloseStep

(* The network and stuttering steps.                                       *)
LEMMA NetworkLinks ==
  ASSUME TypeOK, Network \/ UNCHANGED vars
  PROVE  /\ UNCHANGED <<recvs, conn, closing, free, hand, cls>>
         /\ \A c \in Conns : link'[c] = link[c] \/ (link[c] = "up" /\ link'[c] = "down")
<1>0. link \in [Conns -> {"new", "up", "down", "closed"}]
  BY DEF TypeOK
<1>1. ASSUME NEW c \in Conns, PeerLeaves(c)
      PROVE  /\ UNCHANGED <<recvs, conn, closing, free, hand, cls>>
             /\ \A d \in Conns : link'[d] = link[d] \/ (link[d] = "up" /\ link'[d] = "down")
  BY <1>0, <1>1 DEF PeerLeaves, session, shared
<1>2. ASSUME NEW s \in Sessions, NEW c \in Conns, SendUnnotified(s, c)
      PROVE  UNCHANGED <<recvs, conn, closing, free, hand, cls, link>>
  BY <1>2 DEF SendUnnotified, session, shared
<1>3. CASE UNCHANGED vars
  BY <1>3 DEF vars, kernel, session, shared
<1> QED
  BY <1>1, <1>2, <1>3 DEF Network

(* MarkedInv needs nothing else.                                           *)
LEMMA MarkedNext == TypeOK /\ MarkedInv /\ [Next]_vars => MarkedInv'
<1> SUFFICES ASSUME TypeOK, MarkedInv, [Next]_vars PROVE MarkedInv'
  OBVIOUS
<1>1. CASE Network \/ UNCHANGED vars
  <2>1. /\ UNCHANGED <<conn, closing, cls>>
        /\ \A c \in Conns : link'[c] # "closed" => link[c] # "closed"
    BY <1>1, NetworkLinks
  <2> QED
    BY <2>1 DEF MarkedInv, Shuts
<1> QED
  BY <1>1, MarkedStep DEF Next

(* Every step of a worker: a session is over only once its socket is       *)
(* closed.                                                                 *)
LEMMA GoneStep ==
  ASSUME TypeOK, FreshInv, GoneInv, NEW u \in Workers, WorkerThread(u)
  PROVE  GoneInv'
<1>0. /\ OthersKeep(cls, cls', u) /\ OthersKeep(hand, hand', u)
      /\ conn \in [Sessions -> Conns \cup {None}]
      /\ hand \in [Workers -> Handler] /\ hand[u] \in Handler
      /\ cls \in [Workers -> CloseCall] /\ cls[u] \in CloseCall /\ free \in Seq(Sessions)
  BY RefsWorker DEF Others, TypeOK
<1>1. \A c \in Conns : link[c] = "closed" => link'[c] = "closed"
  BY NewKept DEF TakeAccept
<1> SUFFICES ASSUME NEW s \in Sessions, Past(s)', conn'[s] \in Conns
             PROVE  link'[conn'[s]] = "closed"
  BY DEF GoneInv
<1>k. ASSUME conn'[s] = conn[s], Past(s) PROVE link'[conn'[s]] = "closed"
  BY <1>1, <1>k DEF GoneInv
<1>2. CASE AcceptAcquire(u)
  <2>1. /\ free # <<>> /\ free' = Tail(free) /\ conn' = conn /\ cls' = cls
        /\ hand' = [hand EXCEPT ![u].at = "setup", ![u].s = Head(free)]
    BY <1>2 DEF AcceptAcquire
  <2>2. hand'[u].s = Head(free)
    BY <1>0, <2>1 DEF Handler
  <2>3. InPool(s)' => InPool(s)
    <3>1. Len(free') = Len(free) - 1 /\ \A i \in 1 .. Len(free') : free'[i] = free[i + 1]
      BY <1>0, <2>1
    <3>2. \A i \in 1 .. Len(free') : i + 1 \in 1 .. Len(free)
      BY <1>0, <3>1
    <3> QED
      BY <3>1, <3>2 DEF InPool
  <2>4. InPool(Head(free))
    BY <1>0, <2>1 DEF InPool
  <2> QED
    BY <1>0, <1>k, <2>1, <2>2, <2>3, <2>4 DEF Past, OthersKeep
<1>3. CASE AcceptSetup(u)
  <2>1. /\ hand[u].at = "setup" /\ GotoHandler(u, "register") /\ cls' = cls /\ free' = free
        /\ conn' = [conn EXCEPT ![hand[u].s] = hand[u].c]
    BY <1>3 DEF AcceptSetup, InHandler, shared
  <2>2. hand'[u].at = "register"
    BY <2>1, Labels, GotoFacts DEF Went
  <2>3. Past(s)
    BY <1>0, <2>1, <2>2 DEF Past, OthersKeep, InPool
  <2>4. s # hand[u].s
    BY <1>0, <2>1, <2>2 DEF FreshInv, OnlyHandlerOf, Past, OthersKeep, InPool
  <2> QED
    BY <1>0, <1>k, <2>1, <2>3, <2>4
<1>4. CASE CloseSocket(u)
  <2>1. s = cls[u].s \/ Past(s)
    BY <1>0, <1>4, SocketFacts DEF Past, OthersKeep, InPool
  <2> QED
    BY <1>k, <1>4, <2>1, SocketFacts
<1>5. CASE CloseUnregister(u)
  <2>1. /\ cls[u].at = "unregister" /\ cls' = [cls EXCEPT ![u].at = "release"]
        /\ UNCHANGED <<conn, free, hand>>
    BY <1>5 DEF CloseUnregister, InClose, session
  <2>2. cls'[u].s = cls[u].s
    BY <1>0, <2>1 DEF CloseCall
  <2> QED
    BY <1>0, <1>k, <2>1, <2>2 DEF Past, OthersKeep, InPool
<1>6. CASE CloseRelease(u)
  <2>1. /\ cls[u].at = "release" /\ cls' = [cls EXCEPT ![u] = NoClose]
        /\ free' = <<cls[u].s>> \o free /\ UNCHANGED <<conn, hand>>
    BY <1>6 DEF CloseRelease, InClose, session
  <2>2. cls[u].s \in Sessions
    BY <2>1 DEF TypeOK, FramesOK, Attached
  <2>3. InPool(s)' => InPool(s) \/ s = cls[u].s
    BY <1>0, <2>1, <2>2 DEF InPool
  <2>4. cls'[u].at = "off"
    BY <1>0, <2>1 DEF NoClose
  <2> QED
    BY <1>0, <1>k, <2>1, <2>3, <2>4 DEF Past, OthersKeep
<1>7. CASE ~ObjectStep(u) /\ ~CloseSocket(u)
  <2>1. UNCHANGED <<free, conn>> /\ (hand'[u] = hand[u] \/ hand'[u].at # "setup")
    BY <1>7, Keeps DEF KeepsObjects
  <2>2. cls'[u] = cls[u] \/ cls'[u].at \in {"off", "mark"}
    <3>1. CASE CloseStep(u)
      BY <1>7, <3>1 DEF CloseStep, ObjectStep
    <3>2. CASE ~CloseStep(u)
      BY <1>7, <3>2, ClosePhases, Keeps DEF KeepsObjects
    <3> QED
      BY <3>1, <3>2
  <2> QED
    BY <1>0, <1>k, <2>1, <2>2 DEF Past, OthersKeep, InPool
<1>8. CASE AcceptRegister(u) \/ CloseMark(u)
  <2>1. UNCHANGED <<free, conn>>
    BY <1>8, MarkFacts DEF AcceptRegister, session
  <2>2. hand'[u] = hand[u] \/ hand'[u].at = "associate"
    BY <1>8, MarkFacts, Labels, GotoFacts DEF AcceptRegister, Went
  <2>3. cls'[u] = cls[u] \/ cls'[u].at \in {"off", "socket"}
    <3>1. CASE CloseMark(u)
      BY <1>0, <3>1 DEF CloseMark, NoClose
    <3> QED
      BY <1>8, <3>1 DEF AcceptRegister
  <2> QED
    BY <1>0, <1>k, <2>1, <2>2, <2>3 DEF Past, OthersKeep, InPool
<1> QED
  BY <1>2, <1>3, <1>4, <1>5, <1>6, <1>7, <1>8 DEF ObjectStep

(* The connection of an object that is free, or on its way into the pool   *)
(* or out of it, has its socket closed.                                    *)
LEMMA GoneNext == TypeOK /\ FreshInv /\ GoneInv /\ [Next]_vars => GoneInv'
<1> SUFFICES ASSUME TypeOK, FreshInv, GoneInv, [Next]_vars PROVE GoneInv'
  OBVIOUS
<1>1. CASE Network \/ UNCHANGED vars
  <2>1. /\ UNCHANGED <<conn, free, hand, cls>>
        /\ \A c \in Conns : link[c] = "closed" => link'[c] = "closed"
    BY <1>1, NetworkLinks
  <2> QED
    BY <2>1 DEF GoneInv, Past, InPool
<1> QED
  BY <1>1, GoneStep DEF Next

(* The worker's frames that watch connection c.                            *)
Guards(w, c) ==
  \/ hand[w].at \in {"acquire", "setup"} /\ hand[w].c = c
  \/ /\ hand[w].at \in {"register", "associate", "firstRecv", "append", "pop", "chat", "exit",
                         "nextRecv"}
     /\ conn[hand[w].s] = c
  \/ cls[w].at \in {"mark", "socket"} /\ conn[cls[w].s] = c

Awaits(s, c) == conn[s] = c /\ recvs[s][c] > 0

WatchInv ==
  \A c \in Conns : link[c] \in {"up", "down"} =>
    (\E s \in Sessions : Awaits(s, c)) \/ \E w \in Workers : Guards(w, c)

(* A receive is outstanding until its completion is taken.                 *)
LEMMA AwaitsKept ==
  ASSUME TypeOK, NEW u \in Workers, WorkerThread(u), NEW s \in Sessions, NEW c \in Conns,
         recvs[s][c] > 0
  PROVE  recvs'[s][c] > 0 \/ TakeRecvData(u, s, c) \/ TakeRecvEnd(u, s, c)
<1>0. recvs \in [Sessions -> [Conns -> Nat]]
  BY DEF TypeOK
<1>p. ASSUME NEW h, PostRecv(u, h) PROVE recvs'[s][c] > 0
  <2>1. recvs' = recvs \/ recvs' = [recvs EXCEPT ![h][conn[h]] = @ + 1]
    BY <1>p DEF PostRecv
  <2> QED
    BY <1>0, <2>1
<1>1. CASE AcceptStep(u)
  BY <1>1, <1>p
  DEF AcceptStep, AcceptRefuse, AcceptAcquire, AcceptSetup, AcceptRegister, AcceptAssociate,
      AcceptPostRecv, AcceptPostAccept, AcceptWelcome, kernel
<1>2. CASE RecvStep(u)
  BY <1>2, <1>p
  DEF RecvStep, RecvFault, RecvAppend, RecvNeedMore, RecvMalformed, RecvPacket, Broadcast,
      BroadcastDone, RecvPostRecv, kernel
<1>3. CASE SendStep(u)
  BY <1>3
  DEF SendStep, EnqueuePush, EnqueueExchange, PostSendPop, PostSendClear, PostSendWSASend, kernel
<1>4. CASE CloseStep(u)
  BY <1>4 DEF CloseStep, CloseMark, CloseSocket, CloseUnregister, CloseRelease, kernel
<1>5. CASE TakeStep(u)
  <2>1. ASSUME NEW q \in Sessions, NEW d \in Conns, TakeRecvData(u, q, d) \/ TakeRecvEnd(u, q, d)
        PROVE  recvs'[s][c] > 0 \/ (q = s /\ d = c)
    <3>1. recvs' = [recvs EXCEPT ![q][d] = @ - 1]
      BY <2>1 DEF TakeRecvData, TakeRecvEnd
    <3> QED
      BY <1>0, <3>1
  <2>2. CASE recvs' = recvs
    BY <2>2
  <2> QED
    BY <1>5, <2>1, <2>2 DEF TakeStep, TakeAccept, TakeSend
<1> QED
  BY <1>1, <1>2, <1>3, <1>4, <1>5 DEF WorkerThread

Serving == {"register", "associate", "firstRecv", "append", "pop", "chat", "exit", "nextRecv"}

(* A handler that serves a session goes on serving it, or gives the        *)
(* receive up: to a WSARecv, to CloseSession, or because of `closing`.     *)
LEMMA ServingMoves ==
  ASSUME TypeOK, NEW u \in Workers, AcceptStep(u) \/ RecvStep(u), ~AcceptSetup(u),
         hand[u].at \in Serving
  PROVE  \/ hand'[u].at \in Serving /\ hand'[u].s = hand[u].s
         \/ hand'[u].at = "fault"
         \/ PostRecv(u, hand[u].s)
         \/ CallClose(u, hand[u].s)
<1> USE DEF Serving
<1>0. hand \in [Workers -> Handler] /\ hand[u] \in Handler
  BY DEF TypeOK
<1>1. CASE AcceptRegister(u) \/ AcceptAssociate(u) \/ RecvFault(u) \/ RecvNeedMore(u) \/ BroadcastDone(u)
  <2>1. \E l \in {"associate", "firstRecv", "fault", "nextRecv", "pop"} : GotoHandler(u, l)
    BY <1>1 DEF AcceptRegister, AcceptAssociate, RecvFault, RecvNeedMore, BroadcastDone
  <2> QED
    BY <2>1, Labels, GotoFacts DEF Went
<1>2. CASE RecvAppend(u)
  <2>1. hand' = [hand EXCEPT ![u].at = "pop", ![u].data = <<>>]
    BY <1>2 DEF RecvAppend
  <2>2. hand'[u].at = "pop" /\ hand'[u].s = hand[u].s
    BY <1>0, <2>1 DEF Handler
  <2> QED
    BY <2>2
<1>3. CASE RecvPacket(u)
  <2> DEFINE p == Head(rx[hand[u].s])
  <2>1. \/ /\ p.kind \in {"chat", "exit"}
           /\ hand' = [hand EXCEPT ![u].at = p.kind, ![u].targets = Snapshot(hand[u].s)]
        \/ UNCHANGED hand
    BY <1>3 DEF RecvPacket
  <2>2. hand'[u] = hand[u] \/ (hand'[u].at \in {"chat", "exit"} /\ hand'[u].s = hand[u].s)
    BY <1>0, <2>1 DEF Handler
  <2> QED
    BY <2>2
<1>4. CASE Broadcast(u)
  <2>1. \E t \in hand[u].targets : hand' = [hand EXCEPT ![u].targets = @ \ {t}]
    BY <1>4 DEF Broadcast
  <2>2. hand'[u].at = hand[u].at /\ hand'[u].s = hand[u].s
    BY <1>0, <2>1 DEF Handler
  <2> QED
    BY <2>2
<1>5. CASE RecvMalformed(u) \/ AcceptPostRecv(u) \/ RecvPostRecv(u)
  BY <1>5 DEF RecvMalformed, AcceptPostRecv, RecvPostRecv
<1>6. ~AcceptRefuse(u) /\ ~AcceptAcquire(u) /\ ~AcceptPostAccept(u) /\ ~AcceptWelcome(u)
  BY DEF AcceptRefuse, AcceptAcquire, AcceptPostAccept, AcceptWelcome, InHandler
<1> QED
  BY <1>1, <1>2, <1>3, <1>4, <1>5, <1>6 DEF AcceptStep, RecvStep

(* A worker that watches a connection and takes a step still watches it,   *)
(* or has posted a receive on it, or has closed its socket, or another     *)
(* worker is about to close it.                                            *)
LEMMA GuardMoves ==
  ASSUME TypeOK, MarkedInv, NEW u \in Workers, WorkerThread(u), Running', NEW c \in Conns,
         Guards(u, c), link'[c] # "closed", ~AcceptSetup(u)
  PROVE  \/ Guards(u, c)'
         \/ \E s \in Sessions : Awaits(s, c)'
         \/ \E s \in Sessions, w \in Workers : w # u /\ Shuts(w, s) /\ conn[s] = c
<1> DEFINE Kept == \/ Guards(u, c)'
                   \/ \E s \in Sessions : Awaits(s, c)'
                   \/ \E s \in Sessions, w \in Workers : w # u /\ Shuts(w, s) /\ conn[s] = c
<1>0. /\ hand \in [Workers -> Handler] /\ hand[u] \in Handler /\ FramesOK
      /\ cls \in [Workers -> CloseCall] /\ cls[u] \in CloseCall
      /\ recvs \in [Sessions -> [Conns -> Nat]] /\ conn \in [Sessions -> Conns \cup {None}]
  BY DEF TypeOK
<1>1. conn' = conn /\ link[c] # "closed"
  BY NewKept DEF TakeAccept
<1> SUFFICES Kept
  OBVIOUS
<1>g. ASSUME Guards(u, c)' PROVE Kept
  BY <1>g
<1>m. ASSUME NEW s \in Sessions, closing[s], conn[s] = c, ~Shuts(u, s) PROVE Kept
  <2>1. PICK w \in Workers : Shuts(w, s)
    BY <1>1, <1>m DEF MarkedInv
  <2> QED
    BY <1>m, <2>1
<1>2. CASE cls[u].at # "off"
  <2>1. CloseStep(u) /\ hand' = hand
    <3>1. ~AcceptStep(u) /\ ~RecvStep(u) /\ ~SendStep(u) /\ ~TakeStep(u)
      BY <1>2
      DEF AcceptStep, AcceptRefuse, AcceptAcquire, AcceptSetup, AcceptRegister, AcceptAssociate,
          AcceptPostRecv, AcceptPostAccept, AcceptWelcome, RecvStep, RecvFault, RecvAppend,
          RecvNeedMore, RecvMalformed, RecvPacket, Broadcast, BroadcastDone, RecvPostRecv,
          SendStep, EnqueuePush, EnqueueExchange, PostSendPop, PostSendClear, PostSendWSASend,
          TakeStep, TakeAccept, TakeRecvData, TakeRecvEnd, TakeSend, Idle, InHandler, InSend
    <3> QED
      BY <3>1 DEF WorkerThread, CloseStep, CloseMark, CloseSocket, CloseUnregister, CloseRelease
  <2>2. CASE cls[u].at \in {"mark", "socket"} /\ conn[cls[u].s] = c
    <3>1. CASE CloseMark(u)
      <4>1. CASE closing[cls[u].s]
        BY <1>m, <2>2, <3>1, <4>1, MarkFacts DEF Shuts
      <4>2. CASE ~closing[cls[u].s]
        BY <1>g, <2>2, <3>1, <4>2, MarkFacts DEF Guards
      <4> QED
        BY <4>1, <4>2
    <3>2. ~CloseSocket(u)
      BY <2>2, SocketFacts
    <3> QED
      BY <2>1, <2>2, <3>1, <3>2 DEF CloseStep, CloseUnregister, CloseRelease, InClose
  <2>3. CASE ~(cls[u].at \in {"mark", "socket"} /\ conn[cls[u].s] = c)
    BY <1>g, <1>1, <2>1, <2>3 DEF Guards
  <2> QED
    BY <2>2, <2>3
<1>3. CASE cls[u].at = "off"
  <2>0. ~CloseStep(u)
    BY <1>3 DEF CloseStep, CloseMark, CloseSocket, CloseUnregister, CloseRelease, InClose
  <2>1. CASE hand'[u] = hand[u]
    BY <1>g, <1>1, <1>3, <2>1 DEF Guards
  <2>2. CASE hand'[u] # hand[u]
    <3>1. AcceptStep(u) \/ RecvStep(u)
      <4>1. hand[u].at # "off"
        BY <1>3 DEF Guards
      <4>2. ~TakeStep(u)
        BY <4>1 DEF TakeStep, TakeAccept, TakeRecvData, TakeRecvEnd, TakeSend, Idle, InHandler
      <4>3. ~SendStep(u)
        BY <2>2 DEF SendStep, EnqueuePush, EnqueueExchange, PostSendPop, PostSendClear, PostSendWSASend
      <4> QED
        BY <2>0, <4>2, <4>3 DEF WorkerThread
    <3>2. CASE hand[u].at \in {"acquire", "setup"}
      <4>1. hand[u].c = c
        BY <1>3, <3>2 DEF Guards
      <4>2. AcceptAcquire(u)
        <5>1. ~AcceptRefuse(u)
          <6>1. link \in [Conns -> {"new", "up", "down", "closed"}]
            BY DEF TypeOK
          <6> QED
            BY <4>1, <6>1 DEF AcceptRefuse
        <5> QED
          BY <3>1, <3>2, <5>1
          DEF AcceptStep, AcceptRegister, AcceptAssociate, AcceptPostRecv, AcceptPostAccept,
              AcceptWelcome, RecvStep, RecvFault, RecvAppend, RecvNeedMore, RecvMalformed,
              RecvPacket, Broadcast, BroadcastDone, RecvPostRecv, InHandler
      <4>3. hand'[u].at = "setup" /\ hand'[u].c = c
        BY <1>0, <4>1, <4>2 DEF AcceptAcquire, Handler
      <4> QED
        BY <1>g, <4>3 DEF Guards
    <3>3. CASE hand[u].at \in Serving
      <4> DEFINE h == hand[u].s
      <4>1. h \in Sessions /\ conn[h] = c
        BY <1>0, <1>3, <3>3 DEF Guards, Serving, FramesOK, Attached
      <4>2. CASE hand'[u].at \in Serving /\ hand'[u].s = h
        BY <1>g, <1>1, <4>1, <4>2 DEF Guards, Serving
      <4>3. CASE CallClose(u, h)
        BY <1>g, <1>1, <4>1, <4>3, CallCloseFacts DEF Guards
      <4>4. CASE PostRecv(u, h)
        <5>1. CASE closing[h]
          BY <1>3, <1>m, <4>1, <5>1 DEF Shuts
        <5>2. CASE recvs' = [recvs EXCEPT ![h][conn[h]] = @ + 1]
          <6>1. recvs'[h][c] > 0
            BY <1>0, <4>1, <5>2
          <6> QED
            BY <1>1, <4>1, <6>1 DEF Awaits
        <5> QED
          BY <4>3, <4>4, <5>1, <5>2 DEF PostRecv
      <4>5. hand'[u].at # "fault"
        BY DEF Running
      <4> QED
        BY <3>1, <3>3, <4>2, <4>3, <4>4, <4>5, ServingMoves
    <3> QED
      BY <1>3, <3>2, <3>3 DEF Guards, Serving
  <2> QED
    BY <2>1, <2>2
<1> QED
  BY <1>2, <1>3

(* Nobody forgets a connection while the process runs.                     *)
LEMMA WatchStep ==
  ASSUME TypeOK, FreshInv, MarkedInv, GoneInv, WatchInv, NEW u \in Workers, WorkerThread(u), Running'
  PROVE  WatchInv'
<1>0. /\ OthersKeep(cls, cls', u) /\ OthersKeep(hand, hand', u)
      /\ hand \in [Workers -> Handler] /\ FramesOK
      /\ conn \in [Sessions -> Conns \cup {None}] /\ recvs \in [Sessions -> [Conns -> Nat]]
  BY RefsWorker DEF Others, TypeOK
<1> SUFFICES ASSUME NEW c \in Conns, link'[c] \in {"up", "down"}
             PROVE  (\E s \in Sessions : Awaits(s, c)') \/ \E w \in Workers : Guards(w, c)'
  BY DEF WatchInv
<1>1. CASE TakeAccept(u, c)
  <2>1. hand'[u].at = "acquire" /\ hand'[u].c = c
    BY <1>0, <1>1 DEF TakeAccept
  <2> QED
    BY <2>1 DEF Guards
<1>2. CASE ~TakeAccept(u, c)
  <2>1. link[c] \in {"up", "down"}
    BY <1>2, NewKept
  <2>2. CASE AcceptSetup(u)
    <3> DEFINE h == hand[u].s
    <3>1. /\ hand[u].at = "setup" /\ GotoHandler(u, "register") /\ conn' = [conn EXCEPT ![h] = hand[u].c]
          /\ UNCHANGED <<recvs, cls>>
      BY <2>2 DEF AcceptSetup, InHandler, kernel
    <3>2. h \in Sessions /\ hand'[u].at = "register" /\ hand'[u].s = h
      BY <1>0, <3>1, Labels, GotoFacts DEF Went, FramesOK
    <3>3. conn[h] # c
      BY <2>1, <3>1, <3>2 DEF GoneInv, Past
    <3>4. \A s \in Sessions : conn[s] = c => conn'[s] = c
      BY <1>0, <3>1, <3>3
    <3>5. ASSUME NEW s \in Sessions, Awaits(s, c) PROVE Awaits(s, c)'
      BY <3>1, <3>4, <3>5 DEF Awaits
    <3>6. ASSUME NEW w \in Workers, w # u, Guards(w, c) PROVE Guards(w, c)'
      <4>1. hand'[w] = hand[w] /\ cls'[w] = cls[w]
        BY <1>0, <3>6 DEF OthersKeep
      <4>2. hand[w].at \in Serving => hand[w].s \in Sessions
        BY <1>0 DEF Serving, FramesOK, Attached
      <4>3. cls[w].at \in {"mark", "socket"} => cls[w].s \in Sessions
        BY <1>0 DEF FramesOK, Attached
      <4> QED
        BY <3>4, <3>6, <4>1, <4>2, <4>3 DEF Guards, Serving
    <3>7. ASSUME Guards(u, c) PROVE Guards(u, c)'
      <4>1. CASE hand[u].c = c
        <5>1. conn'[h] = c
          BY <1>0, <3>1, <3>2, <4>1
        <5> QED
          BY <3>2, <5>1 DEF Guards
      <4>2. CASE hand[u].c # c
        BY <2>2, <3>1, <3>7, <4>2 DEF Guards, AcceptSetup, InHandler
      <4> QED
        BY <4>1, <4>2
    <3> QED
      BY <2>1, <3>5, <3>6, <3>7 DEF WatchInv
  <2>3. CASE ~AcceptSetup(u)
    <3>1. conn' = conn
      BY <2>3, NewKept
    <3>2. ASSUME NEW w \in Workers, w # u, Guards(w, c) PROVE Guards(w, c)'
      BY <1>0, <3>1, <3>2 DEF Guards, OthersKeep
    <3>3. CASE \E s \in Sessions : Awaits(s, c)
      <4>1. PICK s \in Sessions : Awaits(s, c)
        BY <3>3
      <4>2. CASE recvs'[s][c] > 0
        BY <3>1, <4>1, <4>2 DEF Awaits
      <4>3. CASE TakeRecvData(u, s, c)
        <5>1. hand'[u].at = "append" /\ hand'[u].s = s
          BY <1>0, <4>3 DEF TakeRecvData
        <5> QED
          BY <3>1, <4>1, <5>1 DEF Guards, Awaits
      <4>4. CASE TakeRecvEnd(u, s, c)
        <5>1. cls'[u].at = "mark" /\ cls'[u].s = s
          BY <4>4, CallCloseFacts DEF TakeRecvEnd
        <5> QED
          BY <3>1, <4>1, <5>1 DEF Guards, Awaits
      <4> QED
        BY <4>1, <4>2, <4>3, <4>4, AwaitsKept DEF Awaits
    <3>4. CASE Guards(u, c)
      <4>1. CASE \E s \in Sessions, w \in Workers : w # u /\ Shuts(w, s) /\ conn[s] = c
        BY <3>2, <4>1 DEF Guards, Shuts
      <4> QED
        BY <2>3, <3>4, <4>1, GuardMoves
    <3> QED
      BY <2>1, <3>2, <3>3, <3>4 DEF WatchInv
  <2> QED
    BY <2>2, <2>3
<1> QED
  BY <1>1, <1>2

(* A fault is final, so the process ran before a step after which it runs. *)
LEMMA RunningKept ==
  ASSUME TypeOK, [Next]_vars, Running'
  PROVE  Running
<1>0. hand \in [Workers -> Handler]
  BY DEF TypeOK
<1>1. CASE Network \/ UNCHANGED vars
  BY <1>1, NetworkLinks DEF Running
<1>2. ASSUME NEW u \in Workers, WorkerThread(u) PROVE Running
  BY <1>2
  DEF WorkerThread, AcceptStep, AcceptRefuse, AcceptAcquire, AcceptSetup, AcceptRegister,
      AcceptAssociate, AcceptPostRecv, AcceptPostAccept, AcceptWelcome, RecvStep, RecvFault,
      RecvAppend, RecvNeedMore, RecvMalformed, RecvPacket, Broadcast, BroadcastDone, RecvPostRecv,
      SendStep, EnqueuePush, EnqueueExchange, PostSendPop, PostSendClear, PostSendWSASend,
      CloseStep, CloseMark, CloseSocket, CloseUnregister, CloseRelease, TakeStep, TakeAccept,
      TakeRecvData, TakeRecvEnd, TakeSend, Idle, InHandler, InSend, InClose
<1> QED
  BY <1>1, <1>2 DEF Next

(* The network only tells that a peer left.                                *)
LEMMA WatchNetwork ==
  ASSUME TypeOK, WatchInv, Network \/ UNCHANGED vars
  PROVE  WatchInv'
<1>1. /\ UNCHANGED <<recvs, conn, hand, cls>>
      /\ \A c \in Conns : link'[c] \in {"up", "down"} => link[c] \in {"up", "down"}
  BY NetworkLinks
<1> QED
  BY <1>1 DEF WatchInv, Awaits, Guards

ForgetInv == MarkedInv /\ (clean => GoneInv) /\ (clean /\ Running => WatchInv)

(* ForgetInv is inductive relative to ObjectInv.                           *)
LEMMA ForgetNext ==
  ASSUME TypeOK, clean => ObjectInv, ForgetInv, [Next]_vars
  PROVE  ForgetInv'
<1>1. MarkedInv'
  BY MarkedNext DEF ForgetInv
<1>2. clean' => GoneInv'
  BY CleanKept, GoneNext DEF ForgetInv, ObjectInv
<1>3. ASSUME clean', Running' PROVE WatchInv'
  <2>1. ObjectInv /\ FreshInv /\ MarkedInv /\ GoneInv /\ WatchInv
    BY <1>3, CleanKept, RunningKept DEF ForgetInv, ObjectInv
  <2> QED
    BY <1>3, <2>1, WatchStep, WatchNetwork DEF Next
<1> QED
  BY <1>1, <1>2, <1>3 DEF ForgetInv

(* After Start() no connection is open.                                    *)
LEMMA ForgetInit == Init => ForgetInv
<1> SUFFICES ASSUME Init PROVE ForgetInv
  OBVIOUS
<1>1. \A s \in Sessions : conn[s] \notin Conns
  BY ServerAssumption DEF Init
<1>2. \A c \in Conns : link[c] = "new"
  BY DEF Init
<1> QED
  BY <1>1, <1>2 DEF ForgetInv, MarkedInv, GoneInv, WatchInv

(* Who watches a connection in the sense of WatchInv does so in the sense  *)
(* of the property.                                                        *)
LEMMA WatchShown ==
  ASSUME TypeOK, ForgetInv
  PROVE  NobodyForgotten
<1> SUFFICES ASSUME clean, Running, NEW c \in Conns, link[c] \in {"up", "down"}
             PROVE  Watched(c)
  BY DEF NobodyForgotten
<1>1. CASE \E s \in Sessions : Awaits(s, c)
  BY <1>1 DEF Awaits, Watched
<1>2. ASSUME NEW w \in Workers, Guards(w, c) PROVE Watched(c)
  <2>1. FramesOK
    BY DEF TypeOK
  <2>2. CASE hand[w].at \in {"acquire", "setup"} /\ hand[w].c = c
    BY <2>2 DEF Watched
  <2>3. CASE hand[w].at \in Serving /\ conn[hand[w].s] = c
    <3>1. hand[w].s \in Sessions /\ RecvHolder(w, hand[w].s)
      BY <2>1, <2>3 DEF FramesOK, Attached, Serving, RecvHolder
    <3> QED
      BY <2>3, <3>1 DEF Watched
  <2>4. CASE cls[w].at \in {"mark", "socket"} /\ conn[cls[w].s] = c
    <3>1. cls[w].s \in Sessions
      BY <2>1, <2>4 DEF FramesOK, Attached
    <3> QED
      BY <2>4, <3>1 DEF Watched
  <2> QED
    BY <1>2, <2>2, <2>3, <2>4 DEF Guards, Serving
<1> QED
  BY <1>1, <1>2 DEF ForgetInv, WatchInv

(***************************************************************************)
(* IocpServer implements ConnectionLife.  A connection that is brought to  *)
(* its session, or about to be registered, has an open socket (OpenInv);   *)
(* with this, ObjectInv, ConnInv and GoneInv each step is the step of      *)
(* ConnectionLife that its name suggests, or changes nothing of it.        *)
(***************************************************************************)
OpenInv ==
  /\ \A w \in Workers, c \in Conns : Brings(w, c) => c \in Opened
  /\ \A w \in Workers : hand[w].at = "register" => conn[hand[w].s] \in Opened

(* A socket is opened in one place and closed in two.                      *)
LEMMA LinkKept ==
  ASSUME TypeOK, NEW u \in Workers, WorkerThread(u), ~AcceptRefuse(u), ~CloseSocket(u),
         \A c \in Conns : ~TakeAccept(u, c)
  PROVE  link' = link
<1>1. CASE AcceptStep(u)
  BY <1>1
  DEF AcceptStep, AcceptAcquire, AcceptSetup, AcceptRegister, AcceptAssociate, AcceptPostRecv,
      AcceptPostAccept, AcceptWelcome, kernel
<1>2. CASE RecvStep(u)
  BY <1>2
  DEF RecvStep, RecvFault, RecvAppend, RecvNeedMore, RecvMalformed, RecvPacket, Broadcast,
      BroadcastDone, RecvPostRecv, kernel
<1>3. CASE SendStep(u)
  BY <1>3
  DEF SendStep, EnqueuePush, EnqueueExchange, PostSendPop, PostSendClear, PostSendWSASend, kernel
<1>4. CASE CloseStep(u)
  BY <1>4 DEF CloseStep, CloseMark, CloseUnregister, CloseRelease, kernel
<1>5. CASE TakeStep(u)
  BY <1>5 DEF TakeStep, TakeRecvData, TakeRecvEnd, TakeSend
<1> QED
  BY <1>1, <1>2, <1>3, <1>4, <1>5 DEF WorkerThread

(* The connection of a worker that is bringing or registering it.          *)
LEMMA BroughtNotClosed ==
  ASSUME TypeOK, ConnInv, FreshInv, NEW u \in Workers, WorkerThread(u),
         NEW w \in Workers, NEW c \in Conns, c \in Opened,
         \/ Brings(w, c)
         \/ hand[w].at = "register" /\ conn[hand[w].s] = c,
         hand'[w].at # "off"
  PROVE  c \in Opened'
<1>0. /\ link \in [Conns -> {"new", "up", "down", "closed"}] /\ FramesOK /\ hand \in [Workers -> Handler]
  BY DEF TypeOK
<1>1. link[c] \in {"up", "down"}
  BY DEF Opened
<1>2. CASE AcceptRefuse(u)
  <2>1. hand[u].at = "acquire" /\ ReturnHandler(u) /\ link' = [link EXCEPT ![hand[u].c] = "closed"]
    BY <1>2 DEF AcceptRefuse, InHandler
  <2>2. hand'[u].at = "off"
    BY <2>1, ReturnFacts
  <2>3. hand[u].c # c
    <3>1. SUFFICES ASSUME Brings(u, c) PROVE FALSE
      BY <2>1 DEF Brings
    <3>2. w # u
      BY <2>2
    <3>3. hand[w].at = "register" => hand[w].s \in Sessions
      BY <1>0 DEF FramesOK, Attached
    <3> QED
      BY <3>1, <3>2, <3>3 DEF ConnInv, Unserved
  <2> QED
    BY <1>0, <1>1, <2>1, <2>3 DEF Opened
<1>3. CASE CloseSocket(u)
  <2> DEFINE q == cls[u].s
  <2>1. link' = [link EXCEPT ![conn[q]] = "closed"]
    BY <1>3 DEF CloseSocket
  <2>2. q \in Sessions /\ conn[q] \in Conns
    BY <1>3, SocketFacts
  <2> HIDE DEF q
  <2>3. conn[q] # c
    <3>1. CASE Brings(w, c)
      BY <2>2, <3>1 DEF ConnInv, Unserved
    <3>2. CASE hand[w].at = "register" /\ conn[hand[w].s] = c
      <4>1. hand[w].s \in Sessions
        BY <1>0, <3>2 DEF FramesOK, Attached
      <4>2. q # hand[w].s
        BY <3>2 DEF FreshInv, OnlyHandlerOf, q
      <4> QED
        BY <2>2, <3>2, <4>1, <4>2 DEF ConnInv
    <3> QED
      BY <3>1, <3>2
  <2> QED
    BY <1>0, <1>1, <2>1, <2>3 DEF Opened
<1>4. CASE \E d \in Conns : TakeAccept(u, d)
  <2>1. PICK d \in Conns : link' = [link EXCEPT ![d] = "up"]
    BY <1>4 DEF TakeAccept
  <2> QED
    BY <1>0, <1>1, <2>1 DEF Opened
<1>5. CASE ~AcceptRefuse(u) /\ ~CloseSocket(u) /\ \A d \in Conns : ~TakeAccept(u, d)
  BY <1>5, LinkKept DEF Opened
<1> QED
  BY <1>2, <1>3, <1>4, <1>5

(* Every step of a worker keeps OpenInv.                                   *)
LEMMA OpenStep ==
  ASSUME TypeOK, ConnInv, FreshInv, OpenInv, NEW u \in Workers, WorkerThread(u)
  PROVE  OpenInv'
<1>0. /\ OthersKeep(hand, hand', u) /\ hand \in [Workers -> Handler] /\ hand[u] \in Handler
      /\ FramesOK /\ conn \in [Sessions -> Conns \cup {None}]
      /\ link \in [Conns -> {"new", "up", "down", "closed"}]
  BY RefsWorker DEF Others, TypeOK
<1>1. ASSUME NEW c \in Conns, TakeAccept(u, c)
      PROVE  c \in Opened' /\ hand'[u].at = "acquire" /\ hand'[u].c = c
  BY <1>0, <1>1 DEF TakeAccept, Opened
<1>2. ASSUME NEW w \in Workers, NEW c \in Conns, Brings(w, c)' PROVE c \in Opened'
  <2>1. CASE Brings(w, c)
    BY <1>2, <2>1, BroughtNotClosed DEF OpenInv, Brings
  <2>2. CASE ~Brings(w, c)
    <3>1. w = u /\ hand'[u] # hand[u]
      BY <1>0, <1>2, <2>2 DEF Brings, OthersKeep
    <3>2. ~AcceptAcquire(u)
      <4>1. ASSUME AcceptAcquire(u) PROVE FALSE
        <5>1. hand[u].at = "acquire" /\ hand' = [hand EXCEPT ![u].at = "setup", ![u].s = Head(free)]
          BY <4>1 DEF AcceptAcquire, InHandler
        <5>2. hand'[u].c = hand[u].c
          BY <1>0, <5>1 DEF Handler
        <5> QED
          BY <1>2, <2>2, <3>1, <5>1, <5>2 DEF Brings
      <4> QED
        BY <4>1
    <3>3. ~AcceptSetup(u) /\ ~AcceptRegister(u) /\ ~AcceptAssociate(u)
      <4>1. GotoHandler(u, "register") \/ GotoHandler(u, "associate") \/ GotoHandler(u, "firstRecv")
            => hand'[u].at \notin {"acquire", "setup"}
        BY Labels, GotoFacts DEF Went
      <4> QED
        BY <1>2, <3>1, <4>1 DEF Brings, AcceptSetup, AcceptRegister, AcceptAssociate
    <3>4. \E d \in Conns : TakeAccept(u, d)
      BY <1>2, <3>1, <3>2, <3>3, AcceptPhases DEF Brings
    <3> QED
      BY <1>1, <1>2, <3>1, <3>4 DEF Brings
  <2> QED
    BY <2>1, <2>2
<1>3. ASSUME NEW w \in Workers, hand'[w].at = "register" PROVE conn'[hand'[w].s] \in Opened'
  <2>1. CASE hand[w].at = "register" /\ hand'[w] = hand[w]
    <3>1. hand[w].s \in Sessions /\ conn[hand[w].s] \in Conns
      BY <1>0, <2>1 DEF FramesOK, Attached
    <3>2. conn[hand[w].s] \in Opened'
      BY <1>3, <2>1, <3>1, BroughtNotClosed DEF OpenInv
    <3>3. conn'[hand[w].s] = conn[hand[w].s]
      <4>1. CASE AcceptSetup(u)
        <5>1. hand[u].at = "setup" /\ conn' = [conn EXCEPT ![hand[u].s] = hand[u].c]
          BY <4>1 DEF AcceptSetup, InHandler
        <5>2. hand[u].s # hand[w].s
          BY <2>1, <5>1 DEF FreshInv, OnlyHandlerOf
        <5> QED
          BY <1>0, <3>1, <5>1, <5>2
      <4> QED
        BY <4>1, NewKept
    <3> QED
      BY <2>1, <3>2, <3>3
  <2>2. CASE AcceptSetup(u) /\ w = u
    <3> DEFINE h == hand[u].s
    <3>1. /\ hand[u].at = "setup" /\ GotoHandler(u, "register") /\ link' = link
          /\ conn' = [conn EXCEPT ![h] = hand[u].c]
      BY <2>2 DEF AcceptSetup, InHandler, kernel
    <3>2. hand'[u].s = h /\ h \in Sessions /\ hand[u].c \in Conns
      BY <1>0, <3>1, Labels, GotoFacts DEF Went, FramesOK
    <3>3. conn'[h] = hand[u].c
      BY <1>0, <3>1, <3>2
    <3>4. hand[u].c \in Opened
      BY <3>1, <3>2 DEF OpenInv, Brings
    <3> QED
      BY <2>2, <3>1, <3>2, <3>3, <3>4 DEF Opened
  <2>3. (hand[w].at = "register" /\ hand'[w] = hand[w]) \/ (AcceptSetup(u) /\ w = u)
    <3>1. CASE w # u \/ hand'[w] = hand[w]
      BY <1>0, <1>3, <3>1 DEF OthersKeep
    <3>2. CASE w = u /\ hand'[u] # hand[u]
      <4>1. ~AcceptAcquire(u)
        BY <1>0, <1>3, <3>2 DEF AcceptAcquire, Handler
      <4>2. ~AcceptRegister(u) /\ ~AcceptAssociate(u)
        <5>1. GotoHandler(u, "associate") \/ GotoHandler(u, "firstRecv") => hand'[u].at # "register"
          BY Labels, GotoFacts DEF Went
        <5> QED
          BY <1>3, <3>2, <5>1 DEF AcceptRegister, AcceptAssociate
      <4>3. \A d \in Conns : ~TakeAccept(u, d)
        BY <1>1, <1>3, <3>2
      <4> QED
        BY <1>3, <3>2, <4>1, <4>2, <4>3, AcceptPhases
    <3> QED
      BY <3>1, <3>2
  <2> QED
    BY <2>1, <2>2, <2>3
<1> QED
  BY <1>2, <1>3 DEF OpenInv

(* OpenInv is inductive relative to ConnInv and FreshInv.                  *)
LEMMA OpenNext == TypeOK /\ ConnInv /\ FreshInv /\ OpenInv /\ [Next]_vars => OpenInv'
<1> SUFFICES ASSUME TypeOK, ConnInv, FreshInv, OpenInv, [Next]_vars PROVE OpenInv'
  OBVIOUS
<1>1. CASE Network \/ UNCHANGED vars
  <2>1. UNCHANGED <<conn, hand>> /\ \A c \in Opened : c \in Opened'
    BY <1>1, NetworkLinks DEF Opened
  <2> QED
    BY <2>1 DEF OpenInv, Brings
<1> QED
  BY <1>1, OpenStep DEF Next

(* The pool of ConnectionLife is the stack of SessionPool.                 *)
LEMMA PoolIs == \A s : s \in Pool <=> InPool(s)
BY DEF Pool, InPool

LEMMA LeasesAre == \A c \in Conns, s \in Sessions : <<c, s>> \in Leases <=> Serves(c, s)
BY DEF Leases

(* A step that leaves conn, the pool and the objects being set up alone    *)
(* leaves the leases alone.                                                *)
LEMMA LeasesKept ==
  ASSUME UNCHANGED <<conn, free>>, NEW u \in Workers, OthersKeep(hand, hand', u),
         hand'[u] = hand[u] \/ (hand[u].at # "setup" /\ hand'[u].at # "setup")
  PROVE  Leases' = Leases /\ Pool' = Pool
<1>1. \A c, s : SetsUpFor(c, s)' <=> SetsUpFor(c, s)
  BY DEF SetsUpFor, OthersKeep
<1>2. \A c, s : Serves(c, s)' <=> Serves(c, s)
  BY <1>1 DEF Serves
<1> QED
  BY <1>2 DEF Leases, Pool

(* A connection that is being brought to its session has none.             *)
LEMMA BroughtUnleased ==
  ASSUME TypeOK, ConnInv, NEW w \in Workers, NEW c \in Conns, Brings(w, c), hand[w].at = "acquire"
  PROVE  ~Life!Leased(c)
<1> SUFFICES ASSUME NEW s \in Sessions, Serves(c, s) PROVE FALSE
  BY LeasesAre DEF Life!Leased
<1>1. conn[s] # c
  BY DEF ConnInv, Unserved
<1>2. ~SetsUpFor(c, s)
  BY DEF ConnInv, Brings, SetsUpFor
<1> QED
  BY <1>1, <1>2 DEF Serves

(* An object that is not in the pool, and that nobody sets up, serves the  *)
(* connection it records.                                                  *)
LEMMA RecordedServes ==
  ASSUME NEW s \in Sessions, conn[s] \in Conns, ~InPool(s),
         \A w \in Workers : hand[w].at = "setup" => hand[w].s # s
  PROVE  <<conn[s], s>> \in Leases /\ Life!Leased(conn[s])
BY LeasesAre DEF Serves, SetsUpFor, InPool, Life!Leased

(* A client arrives.                                                       *)
LEMMA AcceptArrives ==
  ASSUME TypeOK, NEW u \in Workers, NEW c \in Conns, TakeAccept(u, c)
  PROVE  Life!Arrive(c)
<1>0. link \in [Conns -> {"new", "up", "down", "closed"}] /\ hand \in [Workers -> Handler]
  BY DEF TypeOK
<1>1. /\ hand[u].at = "off" /\ link[c] = "new" /\ link' = [link EXCEPT ![c] = "up"]
      /\ hand' = [hand EXCEPT ![u] = [at |-> "acquire", s |-> None, c |-> c, data |-> <<>>,
                                      targets |-> {}]]
      /\ UNCHANGED <<conn, free, table>>
  BY DEF TakeAccept, Idle, InHandler, session, shared
<1>2. OthersKeep(hand, hand', u) /\ hand'[u].at = "acquire"
  BY <1>0, <1>1 DEF OthersKeep
<1>3. Leases' = Leases /\ Pool' = Pool
  BY <1>1, <1>2, LeasesKept
<1>4. c \in Fresh /\ Fresh' = Fresh \ {c} /\ Opened' = Opened \cup {c} /\ Entries' = Entries
  BY <1>0, <1>1 DEF Fresh, Opened, Entries
<1> QED
  BY <1>3, <1>4 DEF Life!Arrive

(* Setting one socket to "closed".                                         *)
LEMMA LinkCloses ==
  ASSUME TypeOK, NEW c \in Conns, c \notin Fresh, link' = [link EXCEPT ![c] = "closed"]
  PROVE  Fresh' = Fresh /\ Opened' = Opened \ {c}
<1>0. link \in [Conns -> {"new", "up", "down", "closed"}]
  BY DEF TypeOK
<1> QED
  BY <1>0 DEF Fresh, Opened

(* A client is refused.                                                    *)
LEMMA RefuseRefuses ==
  ASSUME TypeOK, ConnInv, OpenInv, NEW u \in Workers, AcceptRefuse(u)
  PROVE  Life!Refuse(hand[u].c)
<1> DEFINE c == hand[u].c
<1>1. /\ hand[u].at = "acquire" /\ free = <<>> /\ link' = [link EXCEPT ![c] = "closed"]
      /\ ReturnHandler(u) /\ UNCHANGED <<conn, free, table>>
  BY DEF AcceptRefuse, InHandler, session, shared
<1>2. c \in Conns /\ Brings(u, c)
  BY <1>1 DEF TypeOK, FramesOK, Brings
<1>3. c \in Opened /\ ~Life!Leased(c)
  BY <1>1, <1>2, BroughtUnleased DEF OpenInv
<1>4. OthersKeep(hand, hand', u) /\ hand'[u].at = "off"
  BY <1>1, ReturnFacts
<1>5. Leases' = Leases /\ Pool' = Pool
  BY <1>1, <1>4, LeasesKept
<1>6. Fresh' = Fresh /\ Opened' = Opened \ {c}
  <2>1. c \notin Fresh
    BY <1>3 DEF Fresh, Opened
  <2> QED
    BY <1>1, <1>2, <2>1, LinkCloses
<1>7. Pool = {} /\ Entries' = Entries
  BY <1>1 DEF Pool, Entries
<1> QED
  BY <1>3, <1>5, <1>6, <1>7 DEF Life!Refuse

(* SessionPool::Acquire leases the top of the stack.                       *)
LEMMA AcquireLeases ==
  ASSUME TypeOK, ConnInv, ObjectInv, OpenInv, NEW u \in Workers, AcceptAcquire(u)
  PROVE  hand[u].c \in Conns /\ Head(free) \in Sessions /\ Life!Lease(hand[u].c, Head(free))
<1> DEFINE c == hand[u].c  h == Head(free)
<1>0. hand \in [Workers -> Handler] /\ hand[u] \in Handler /\ free \in Seq(Sessions)
  BY DEF TypeOK
<1>1. /\ hand[u].at = "acquire" /\ free # <<>> /\ free' = Tail(free)
      /\ hand' = [hand EXCEPT ![u].at = "setup", ![u].s = h] /\ UNCHANGED <<link, conn, table>>
  BY DEF AcceptAcquire, InHandler, kernel
<1>2. c \in Conns /\ Brings(u, c)
  BY <1>1 DEF TypeOK, FramesOK, Brings
<1>3. c \in Opened /\ ~Life!Leased(c)
  BY <1>1, <1>2, BroughtUnleased DEF OpenInv
<1>4. /\ OthersKeep(hand, hand', u)
      /\ hand'[u].at = "setup" /\ hand'[u].s = h /\ hand'[u].c = c
  BY <1>0, <1>1 DEF Handler, OthersKeep
<1>5. /\ h \in Sessions /\ InPool(h) /\ Len(free') = Len(free) - 1 /\ h = free[1]
      /\ \A i \in 1 .. Len(free') : free'[i] = free[i + 1] /\ i + 1 \in 1 .. Len(free)
      /\ \A i \in 1 .. Len(free) : i # 1 => i - 1 \in 1 .. Len(free') /\ free'[i - 1] = free[i]
  <2>1. Len(free) \in Nat \ {0} /\ free' \in Seq(Sessions) /\ Len(free') = Len(free) - 1
    BY <1>0, <1>1
  <2>2. h \in Sessions /\ h = free[1]
    BY <1>0, <1>1
  <2>3. InPool(h)
    BY <2>1, <2>2 DEF InPool
  <2>4. \A i \in 1 .. Len(free') : free'[i] = free[i + 1] /\ i + 1 \in 1 .. Len(free)
    BY <1>0, <1>1, <2>1
  <2>5. \A i \in 1 .. Len(free) : i # 1 => i - 1 \in 1 .. Len(free') /\ (i - 1) + 1 = i
    BY <2>1
  <2>6. \A i \in 1 .. Len(free) : i # 1 => free'[i - 1] = free[i]
    BY <2>4, <2>5
  <2> QED
    BY <2>1, <2>2, <2>3, <2>4, <2>5, <2>6
<1> HIDE DEF c, h
<1>6. \A s : InPool(s)' <=> InPool(s) /\ s # h
  <2>1. \A i, j \in 1 .. Len(free) : free[i] = free[j] => i = j
    BY DEF ObjectInv, PoolInv
  <2>2. Len(free) \in Nat /\ Len(free') \in Nat /\ 1 \in 1 .. Len(free)
    BY <1>0, <1>1, <1>5
  <2>3. ASSUME NEW s, NEW i \in 1 .. Len(free'), free'[i] = s PROVE InPool(s) /\ s # h
    <3>1. i + 1 # 1
      BY <2>2
    <3> QED
      BY <1>5, <2>1, <2>2, <2>3, <3>1 DEF InPool
  <2>4. ASSUME NEW s, NEW i \in 1 .. Len(free), free[i] = s, s # h PROVE InPool(s)'
    BY <1>5, <2>4 DEF InPool
  <2> QED
    BY <2>3, <2>4 DEF InPool
<1>7. Pool' = Pool \ {h}
  BY <1>6, PoolIs DEF InPool, Pool
<1>8. \A d \in Conns : ~SetsUpFor(d, h)
  BY <1>5 DEF SetsUpFor, ObjectInv, FreshInv
<1>9. \A d \in Conns, s \in Sessions : SetsUpFor(d, s)' <=> SetsUpFor(d, s) \/ (d = c /\ s = h)
  BY <1>1, <1>4 DEF SetsUpFor, OthersKeep
<1>10. \A d \in Conns, s \in Sessions : Serves(d, s)' <=> Serves(d, s) \/ (d = c /\ s = h)
  <2>1. \A d \in Conns : ~Serves(d, h)
    BY <1>5, <1>8 DEF Serves, InPool
  <2> QED
    BY <1>1, <1>2, <1>6, <1>9, <2>1 DEF Serves, InPool
<1>11. Leases' = Leases \cup {<<c, h>>}
  BY <1>2, <1>5, <1>10 DEF Leases
<1>12. h \in Pool /\ Fresh' = Fresh /\ Opened' = Opened /\ Entries' = Entries
  BY <1>1, <1>5, PoolIs DEF Fresh, Opened, Entries
<1>13. Life!Lease(c, h)
  BY <1>3, <1>7, <1>11, <1>12 DEF Life!Lease
<1> QED
  BY <1>2, <1>5, <1>13 DEF c, h

(* AcceptSetup only writes down the lease.                                 *)
LEMMA SetupStutters ==
  ASSUME TypeOK, ConnInv, ObjectInv, NEW u \in Workers, AcceptSetup(u)
  PROVE  UNCHANGED Life!vars
<1> DEFINE c == hand[u].c  h == hand[u].s
<1>0. hand \in [Workers -> Handler] /\ conn \in [Sessions -> Conns \cup {None}]
  BY DEF TypeOK
<1>1. /\ hand[u].at = "setup" /\ GotoHandler(u, "register") /\ conn' = [conn EXCEPT ![h] = c]
      /\ UNCHANGED <<link, free, table, clean>>
  BY DEF AcceptSetup, InHandler, kernel, shared
<1>2. c \in Conns /\ h \in Sessions /\ Brings(u, c)
  BY <1>1 DEF TypeOK, FramesOK, Brings
<1>3. OthersKeep(hand, hand', u) /\ hand'[u].at = "register"
  BY <1>1, Labels, GotoFacts DEF Went
<1>4. ~InPool(h) /\ \A w \in Workers : w # u /\ hand[w].at = "setup" => hand[w].s # h
  BY <1>1 DEF ObjectInv, FreshInv, OnlyHandlerOf
<1>5. SetsUpFor(c, h)
  BY <1>1 DEF SetsUpFor
<1>d. \A d \in Conns : SetsUpFor(d, h) => d = c
  BY <1>4 DEF SetsUpFor
<1>6. \A d \in Conns, s \in Sessions : SetsUpFor(d, s)' <=> SetsUpFor(d, s) /\ s # h
  <2> HIDE DEF c
  <2>1. h = hand[u].s
    OBVIOUS
  <2> HIDE DEF h
  <2> QED
    BY <1>1, <1>3, <1>4, <2>1 DEF SetsUpFor, OthersKeep
<1> HIDE DEF c, h
<1>7. \A s \in Sessions : conn'[s] = IF s = h THEN c ELSE conn[s]
  BY <1>0, <1>1, <1>2
<1>8. \A d \in Conns, s \in Sessions : Serves(d, s)' <=> Serves(d, s)
  <2>1. ASSUME NEW d \in Conns, NEW s \in Sessions, s = h PROVE Serves(d, s)' <=> Serves(d, s)
    BY <1>1, <1>2, <1>4, <1>5, <1>6, <1>7, <1>d, <2>1 DEF Serves, InPool
  <2>2. ASSUME NEW d \in Conns, NEW s \in Sessions, s # h PROVE Serves(d, s)' <=> Serves(d, s)
    BY <1>1, <1>2, <1>6, <1>7, <2>2 DEF Serves
  <2> QED
    BY <2>1, <2>2
<1>9. Leases' = Leases
  BY <1>8 DEF Leases
<1>10. Fresh' = Fresh /\ Opened' = Opened /\ Entries' = Entries /\ Pool' = Pool
  BY <1>1 DEF Fresh, Opened, Entries, Pool
<1> QED
  BY <1>1, <1>9, <1>10 DEF Life!vars

(* The client enters the chat room.                                        *)
LEMMA RegisterEnters ==
  ASSUME TypeOK, ObjectInv, OpenInv, NEW u \in Workers, AcceptRegister(u)
  PROVE  conn[hand[u].s] \in Conns /\ Life!Enter(conn[hand[u].s])
<1> DEFINE h == hand[u].s  c == conn[h]
<1>1. /\ hand[u].at = "register" /\ GotoHandler(u, "associate") /\ table' = [table EXCEPT ![c] = h]
      /\ UNCHANGED <<link, conn, free, clean>>
  BY DEF AcceptRegister, InHandler, kernel, session
<1>2. h \in Sessions /\ c \in Conns /\ table \in [Conns -> Sessions \cup {None}]
  BY <1>1 DEF TypeOK, FramesOK, Attached
<1>3. OthersKeep(hand, hand', u) /\ hand'[u].at = "associate"
  BY <1>1, Labels, GotoFacts DEF Went
<1>4. Leases' = Leases /\ Pool' = Pool
  BY <1>1, <1>3, LeasesKept
<1>5. c \in Opened
  BY <1>1 DEF OpenInv
<1>6. Life!Leased(c)
  <2>1. ~InPool(h) /\ \A w \in Workers : hand[w].at = "setup" => hand[w].s # h
    BY <1>1 DEF ObjectInv, FreshInv, OnlyHandlerOf
  <2> QED
    BY <1>2, <2>1, RecordedServes
<1>7. Entries' = Entries \cup {c} /\ Fresh' = Fresh /\ Opened' = Opened
  <2>1. h # None
    BY <1>2, ServerAssumption
  <2> HIDE DEF h
  <2> QED
    BY <1>1, <1>2, <2>1 DEF Entries, Fresh, Opened
<1> QED
  BY <1>2, <1>4, <1>5, <1>6, <1>7 DEF Life!Enter

(* A session that is being closed serves its connection until it is put    *)
(* back.                                                                   *)
LEMMA CloserLeases ==
  ASSUME TypeOK, ObjectInv, NEW u \in Workers, NEW s \in Sessions, Closer(u, s)
  PROVE  conn[s] \in Conns /\ <<conn[s], s>> \in Leases /\ Life!Leased(conn[s])
<1>1. conn[s] \in Conns
  BY DEF Closer, TypeOK, FramesOK, Attached
<1>2. ~InPool(s)
  BY DEF ObjectInv, CloserInv
<1>3. \A w \in Workers : hand[w].at = "setup" => hand[w].s # s
  BY DEF ObjectInv, FreshInv, OnlyHandlerOf, Closer
<1> QED
  BY <1>1, <1>2, <1>3, RecordedServes

(* closesocket.                                                            *)
LEMMA SocketCloses ==
  ASSUME TypeOK, ObjectInv, NEW u \in Workers, CloseSocket(u), conn[cls[u].s] \in Opened
  PROVE  conn[cls[u].s] \in Conns /\ Life!Close(conn[cls[u].s])
<1> DEFINE s == cls[u].s  c == conn[s]
<1>1. link' = [link EXCEPT ![c] = "closed"] /\ UNCHANGED <<conn, free, table, hand>>
  BY DEF CloseSocket, shared
<1>2. s \in Sessions /\ Closer(u, s)
  BY SocketFacts DEF Shuts, Closer
<1>3. c \in Conns /\ Life!Leased(c) /\ c \notin Fresh
  BY <1>2, CloserLeases DEF Fresh, Opened
<1>4. Fresh' = Fresh /\ Opened' = Opened \ {c}
  BY <1>1, <1>3, LinkCloses
<1>5. Leases' = Leases /\ Pool' = Pool /\ Entries' = Entries
  <2>1. OthersKeep(hand, hand', u) /\ hand'[u] = hand[u]
    BY <1>1 DEF OthersKeep
  <2> QED
    BY <1>1, <2>1, LeasesKept DEF Entries
<1> QED
  BY <1>3, <1>4, <1>5 DEF Life!Close

(* The socket of a session that is being closed is closed once CloseSocket *)
(* is over.                                                                *)
LEMMA CloserNotOpen ==
  ASSUME GoneInv, NEW u \in Workers, NEW s \in Sessions, cls[u].s = s,
         cls[u].at \in {"unregister", "release"}, conn[s] \in Conns
  PROVE  conn[s] \notin Opened
BY DEF GoneInv, Past, Opened

(* The client leaves the chat room.                                        *)
LEMMA UnregisterLeaves ==
  ASSUME TypeOK, GoneInv, NEW u \in Workers, CloseUnregister(u)
  PROVE  UNCHANGED Life!vars \/ \E c \in Conns : Life!Leave(c)
<1> DEFINE s == cls[u].s  c == conn[s]
<1>1. /\ cls[u].at = "unregister" /\ table' = [table EXCEPT ![c] = None]
      /\ UNCHANGED <<link, conn, free, hand, clean>>
  BY DEF CloseUnregister, InClose, kernel, session
<1>2. s \in Sessions /\ c \in Conns /\ table \in [Conns -> Sessions \cup {None}]
  BY <1>1 DEF TypeOK, FramesOK, Attached
<1>3. c \notin Opened
  BY <1>1, <1>2, CloserNotOpen
<1>4. Entries' = Entries \ {c} /\ Fresh' = Fresh /\ Opened' = Opened
  BY <1>1, <1>2 DEF Entries, Fresh, Opened
<1>5. Leases' = Leases /\ Pool' = Pool
  <2>1. OthersKeep(hand, hand', u) /\ hand'[u] = hand[u]
    BY <1>1 DEF OthersKeep
  <2> QED
    BY <1>1, <2>1, LeasesKept
<1>6. CASE c \in Entries
  BY <1>2, <1>3, <1>4, <1>5, <1>6 DEF Life!Leave
<1>7. CASE c \notin Entries
  BY <1>1, <1>4, <1>5, <1>7 DEF Life!vars
<1> QED
  BY <1>6, <1>7

(* SessionPool::Release ends the lease.                                    *)
LEMMA ReleaseReturns ==
  ASSUME TypeOK, ConnInv, ObjectInv, GoneInv, NEW u \in Workers, CloseRelease(u)
  PROVE  \E c \in Conns, s \in Sessions : Life!Return(c, s)
<1> DEFINE s == cls[u].s  c == conn[s]
<1>0. free \in Seq(Sessions) /\ table \in [Conns -> Sessions \cup {None}]
  BY DEF TypeOK
<1>1. /\ cls[u].at = "release" /\ free' = <<s>> \o free
      /\ UNCHANGED <<link, conn, table, hand, clean>>
  BY DEF CloseRelease, InClose, kernel, session
<1>2. s \in Sessions /\ Closer(u, s)
  BY <1>1 DEF TypeOK, FramesOK, Attached, Closer
<1>3. c \in Conns /\ <<c, s>> \in Leases /\ c \notin Opened
  BY <1>1, <1>2, CloserLeases, CloserNotOpen
<1>4. c \notin Entries
  <2>1. ~Registered(s)
    BY <1>1, <1>2 DEF ObjectInv, CloserInv
  <2>2. ASSUME table[c] # None PROVE FALSE
    <3>1. table[c] \in Sessions /\ conn[table[c]] = c
      BY <1>0, <1>3, <2>2 DEF ObjectInv, TableInv
    <3>2. table[c] = s
      BY <1>2, <1>3, <3>1 DEF ConnInv
    <3> QED
      BY <1>3, <2>1, <3>2 DEF Registered
  <2> QED
    BY <2>2 DEF Entries
<1>5. ~SetsUpFor(c, s) /\ \A d \in Conns : ~SetsUpFor(d, s)
  BY <1>1 DEF SetsUpFor, ObjectInv, FreshInv, OnlyHandlerOf
<1> HIDE DEF s
<1>6. /\ Len(free') = Len(free) + 1 /\ free'[1] = s
      /\ \A i \in 1 .. Len(free) : free'[i + 1] = free[i] /\ i + 1 \in 1 .. Len(free')
      /\ \A i \in 1 .. Len(free') : i # 1 => i - 1 \in 1 .. Len(free) /\ free'[i] = free[i - 1]
  BY <1>0, <1>1, <1>2
<1>7. \A q : InPool(q)' <=> InPool(q) \/ q = s
  <2>1. 1 \in 1 .. Len(free')
    BY <1>0, <1>6
  <2> QED
    BY <1>6, <2>1 DEF InPool
<1>8. Pool' = Pool \cup {s}
  BY <1>7 DEF Pool, InPool
<1>9. \A d \in Conns, q \in Sessions : SetsUpFor(d, q)' <=> SetsUpFor(d, q)
  BY <1>1 DEF SetsUpFor
<1>10. \A d \in Conns, q \in Sessions : Serves(d, q)' <=> Serves(d, q) /\ ~(d = c /\ q = s)
  BY <1>1, <1>5, <1>7, <1>9 DEF Serves, InPool
<1>11. Leases' = Leases \ {<<c, s>>}
  BY <1>10 DEF Leases
<1>12. Fresh' = Fresh /\ Opened' = Opened /\ Entries' = Entries
  BY <1>1 DEF Fresh, Opened, Entries
<1>13. Life!Return(c, s)
  BY <1>3, <1>4, <1>8, <1>11, <1>12 DEF Life!Return
<1> QED
  BY <1>2, <1>3, <1>13

(* Every other step of a worker leaves the leases alone.                   *)
LEMMA OthersStutter ==
  ASSUME TypeOK, NEW u \in Workers, WorkerThread(u), LeakKeeps(u) \/ AcceptAssociate(u),
         ~AcceptRefuse(u), ~CloseSocket(u), \A c \in Conns : ~TakeAccept(u, c), clean' = clean
  PROVE  UNCHANGED Life!vars
<1>1. link' = link
  BY LinkKept
<1>2. UNCHANGED <<conn, free, table>>
  BY DEF LeakKeeps, AcceptAssociate, session
<1>3. OthersKeep(hand, hand', u)
  BY RefsWorker DEF Others
<1>4. hand'[u] = hand[u] \/ (hand[u].at # "setup" /\ hand'[u].at # "setup")
  <2>1. CASE AcceptAssociate(u)
    BY <2>1, Labels, GotoFacts DEF AcceptAssociate, InHandler, Went
  <2> QED
    BY <2>1 DEF LeakKeeps, SetsUp
<1>5. Leases' = Leases /\ Pool' = Pool
  BY <1>2, <1>3, <1>4, LeasesKept
<1>6. Fresh' = Fresh /\ Opened' = Opened /\ Entries' = Entries
  BY <1>1, <1>2 DEF Fresh, Opened, Entries
<1> QED
  BY <1>5, <1>6 DEF Life!vars

(* Every step of a worker is a step of ConnectionLife, or none, as long as *)
(* nothing is reused that something still points at.                       *)
LEMMA LifeWorker ==
  ASSUME TypeOK, ConnInv, ObjectInv, GoneInv, OpenInv, clean, clean',
         NEW u \in Workers, WorkerThread(u)
  PROVE  Life!Kept \/ UNCHANGED Life!vars
<1>1. clean' = clean
  BY DEF TypeOK
<1>2. ASSUME NEW c \in Conns, TakeAccept(u, c) PROVE Life!Kept
  BY <1>2, AcceptArrives DEF Life!Kept
<1>3. CASE AcceptRefuse(u)
  <2>1. hand[u].c \in Conns
    BY <1>3 DEF AcceptRefuse, InHandler, TypeOK, FramesOK
  <2> QED
    BY <1>3, <2>1, RefuseRefuses DEF Life!Kept
<1>4. CASE AcceptAcquire(u)
  BY <1>4, AcquireLeases DEF Life!Kept
<1>5. CASE AcceptSetup(u)
  BY <1>5, SetupStutters
<1>6. CASE AcceptRegister(u)
  BY <1>6, RegisterEnters DEF Life!Kept
<1>7. CASE CloseSocket(u)
  <2>1. CASE conn[cls[u].s] \in Opened
    BY <1>7, <2>1, SocketCloses DEF Life!Kept
  <2>2. CASE conn[cls[u].s] \notin Opened
    <3>1. /\ link' = [link EXCEPT ![conn[cls[u].s]] = "closed"]
          /\ UNCHANGED <<conn, free, table, hand>>
      BY <1>7 DEF CloseSocket, shared
    <3>2. link[conn[cls[u].s]] # "new" /\ conn[cls[u].s] \in Conns /\ cls[u].s \in Sessions
      BY <1>7, SocketFacts DEF ConnInv, Unserved
    <3>3. conn[cls[u].s] \notin Fresh
      BY <3>2 DEF Fresh
    <3>4. Fresh' = Fresh /\ Opened' = Opened
      BY <2>2, <3>1, <3>2, <3>3, LinkCloses
    <3>5. OthersKeep(hand, hand', u) /\ hand'[u] = hand[u] /\ Entries' = Entries
      BY <3>1 DEF OthersKeep, Entries
    <3>6. Leases' = Leases /\ Pool' = Pool
      BY <3>1, <3>5, LeasesKept
    <3> QED
      BY <1>1, <3>4, <3>5, <3>6 DEF Life!vars
  <2> QED
    BY <2>1, <2>2
<1>8. CASE CloseUnregister(u)
  BY <1>8, UnregisterLeaves DEF Life!Kept
<1>9. CASE CloseRelease(u)
  BY <1>9, ReleaseReturns DEF Life!Kept
<1>10. CASE CloseMark(u)
  <2>1. UNCHANGED <<link, conn, free, table, hand>>
    BY <1>10 DEF CloseMark, kernel, shared
  <2>2. OthersKeep(hand, hand', u) /\ hand'[u] = hand[u]
    BY <2>1 DEF OthersKeep
  <2>3. Leases' = Leases /\ Pool' = Pool
    BY <2>1, <2>2, LeasesKept
  <2> QED
    BY <1>1, <2>1, <2>3 DEF Life!vars, Fresh, Opened, Entries
<1> QED
  BY <1>1, <1>2, <1>3, <1>4, <1>5, <1>6, <1>7, <1>8, <1>9, <1>10, LeakMoves, OthersStutter
  DEF ObjectStep

(* So is every step of the network and every stuttering step.              *)
LEMMA LifeNetwork ==
  ASSUME TypeOK, Network \/ UNCHANGED vars
  PROVE  UNCHANGED Life!vars
<1>1. UNCHANGED <<conn, free, hand, table, clean>>
  BY DEF Network, PeerLeaves, SendUnnotified, vars, session, shared
<1>2. Fresh' = Fresh /\ Opened' = Opened
  BY NetworkLinks DEF Fresh, Opened
<1>3. Leases' = Leases /\ Pool' = Pool /\ Entries' = Entries
  BY <1>1 DEF Leases, Serves, SetsUpFor, Pool, Entries
<1> QED
  BY <1>1, <1>2, <1>3 DEF Life!vars

LifeInv == TypeOK /\ ConnInv /\ (clean => ObjectInv /\ OpenInv) /\ ForgetInv

LEMMA LifeNext ==
  ASSUME LifeInv, [Next]_vars
  PROVE  LifeInv' /\ [Life!Next]_(Life!vars)
<1> USE DEF LifeInv
<1>1. TypeOK' /\ ConnInv' /\ (clean' => ObjectInv') /\ ForgetInv'
  BY TypeNext, ConnNext, ObjectsNext, ForgetNext
<1>2. clean' => OpenInv'
  BY CleanKept, OpenNext DEF ObjectInv
<1>3. CASE clean'
  <2>1. clean /\ GoneInv
    BY <1>3, CleanKept DEF ForgetInv
  <2> QED
    BY <1>1, <1>2, <1>3, <2>1, LifeWorker, LifeNetwork DEF Next, Life!Next
<1>4. CASE ~clean'
  BY <1>1, <1>2, <1>4 DEF Life!Next
<1> QED
  BY <1>3, <1>4

(* After Start() every object is free and no client has arrived.           *)
LEMMA LifeInit == Init => LifeInv /\ Life!Init
<1> SUFFICES ASSUME Init PROVE LifeInv /\ Life!Init
  OBVIOUS
<1>1. /\ \A w \in Workers : hand[w].at = "off" /\ cls[w].at = "off"
      /\ \A c \in Conns : table[c] = None /\ link[c] = "new"
      /\ \A s \in Sessions : conn[s] = None
      /\ clean = TRUE
  BY DEF Init, NoHandler, NoClose
<1>2. None \notin Sessions /\ None \notin Conns
  BY ServerAssumption
<1>3. OpenInv
  BY <1>1 DEF OpenInv, Brings
<1>4. TypeOK /\ ConnInv /\ ObjectInv /\ ForgetInv /\ PlaceInv
  BY <1>1, TypeInit, ConnInit, ObjectsInit, ForgetInit, LeakInit DEF LeakInv
<1>5. \A s \in Sessions : InPool(s)
  BY <1>1, <1>2, <1>4 DEF PlaceInv, Registered, FreshOf, ReleasedBy
<1>6. Pool = Sessions
  <2>1. free \in Seq(Sessions)
    BY <1>4 DEF TypeOK
  <2> QED
    BY <1>5, <2>1, PoolIs DEF Pool
<1>7. Leases = {}
  BY <1>1, <1>2 DEF Leases, Serves, SetsUpFor
<1>8. Fresh = Conns /\ Opened = {} /\ Entries = {}
  BY <1>1 DEF Fresh, Opened, Entries
<1> QED
  BY <1>1, <1>3, <1>4, <1>6, <1>7, <1>8 DEF LifeInv, Life!Init

(* What ConnectionLife promises at every moment follows from its steps.    *)
LEMMA ExclusiveNext == Life!Exclusive /\ [Life!Next]_(Life!vars) => Life!Exclusive'
<1> DEFINE Held == /\ \A s \in Sessions : s \in Pool \/ \E c \in Conns : <<c, s>> \in Leases
                   /\ \A p, q \in Leases : p[1] = q[1] \/ p[2] = q[2] => p = q
                   /\ \A p \in Leases : p[2] \notin Pool
                   /\ \A c \in Entries : \E s \in Sessions : <<c, s>> \in Leases
<1>0. \A p \in Leases : p[1] \in Conns /\ p[2] \in Sessions /\ p = <<p[1], p[2]>>
  BY DEF Leases
<1>p. \A c, s, p : p = <<c, s>> => p[1] = c /\ p[2] = s
  OBVIOUS
<1>e. (Life!Exclusive <=> (clean => Held)) /\ (Life!Exclusive' <=> (clean' => Held'))
  BY DEF Life!Exclusive, Life!Leased
<1> SUFFICES ASSUME Life!Exclusive, [Life!Next]_(Life!vars), clean' PROVE Held'
  BY <1>e
<1>1. CASE UNCHANGED Life!vars
  BY <1>1, <1>e DEF Life!vars
<1>2. CASE Life!Next
  <2>1. clean /\ Held /\ Life!Kept
    BY <1>2, <1>e DEF Life!Next
  <2>2. ASSUME NEW c \in Conns, Life!Arrive(c) \/ Life!Refuse(c) \/ Life!Close(c) PROVE Held'
    BY <2>1, <2>2 DEF Life!Arrive, Life!Refuse, Life!Close
  <2>3. ASSUME NEW c \in Conns, Life!Enter(c) \/ Life!Leave(c) PROVE Held'
    BY <2>1, <2>3 DEF Life!Enter, Life!Leave, Life!Leased
  <2>4. ASSUME NEW c \in Conns, NEW s \in Sessions, Life!Lease(c, s) PROVE Held'
    <3>1. /\ s \in Pool /\ Pool' = Pool \ {s} /\ Leases' = Leases \cup {<<c, s>>}
          /\ \A q \in Sessions : <<c, q>> \notin Leases
          /\ Entries' = Entries
      BY <2>4 DEF Life!Lease, Life!Leased
    <3>2. \A p \in Leases : p[1] # c /\ p[2] # s
      BY <1>0, <2>1, <3>1
    <3>3. \A p, q \in Leases' : p[1] = q[1] \/ p[2] = q[2] => p = q
      BY <1>p, <2>1, <3>1, <3>2
    <3>4. \A p \in Leases' : p[2] \notin Pool'
      BY <1>p, <2>1, <3>1, <3>2
    <3> QED
      BY <2>1, <3>1, <3>3, <3>4
  <2>5. ASSUME NEW c \in Conns, NEW s \in Sessions, Life!Return(c, s) PROVE Held'
    <3>1. /\ <<c, s>> \in Leases /\ Pool' = Pool \cup {s} /\ Leases' = Leases \ {<<c, s>>}
          /\ c \notin Entries /\ Entries' = Entries
      BY <2>5 DEF Life!Return
    <3>2. \A p \in Leases' : p[2] # s
      BY <1>0, <1>p, <2>1, <3>1
    <3>3. \A q \in Sessions : q \in Pool' \/ \E d \in Conns : <<d, q>> \in Leases'
      <4> SUFFICES ASSUME NEW q \in Sessions, q # s, q \notin Pool
                   PROVE  \E d \in Conns : <<d, q>> \in Leases'
        BY <3>1
      <4>1. PICK d \in Conns : <<d, q>> \in Leases
        BY <2>1
      <4>2. <<d, q>> # <<c, s>>
        OBVIOUS
      <4> QED
        BY <3>1, <4>1, <4>2
    <3>4. \A d \in Entries' : \E q \in Sessions : <<d, q>> \in Leases'
      <4> SUFFICES ASSUME NEW d \in Entries PROVE \E q \in Sessions : <<d, q>> \in Leases'
        BY <3>1
      <4>1. PICK q \in Sessions : <<d, q>> \in Leases
        BY <2>1
      <4>2. <<d, q>> # <<c, s>>
        BY <3>1
      <4> QED
        BY <3>1, <4>1, <4>2
    <3> QED
      BY <2>1, <3>1, <3>2, <3>3, <3>4
  <2> QED
    BY <2>1, <2>2, <2>3, <2>4, <2>5 DEF Life!Kept
<1> QED
  BY <1>1, <1>2

-----------------------------------------------------------------------------
(* While the process runs, no connection with an open socket is forgotten: *)
(* a worker or a pending WSARecv will find out that its peer has left,     *)
(* however the early returns of PostRecv and CloseSession on `closing`     *)
(* interleave.  DroppedIsClosed needs this of the code; the rest of it is  *)
(* the fairness of the scheduler.                                          *)
THEOREM NobodyIsForgotten == Spec => []NobodyForgotten
<1> DEFINE I == TypeOK /\ (clean => ObjectInv) /\ ForgetInv
<1>1. Init => I
  BY TypeInit, ObjectsInit, ForgetInit
<1>2. I /\ [Next]_vars => I'
  BY TypeNext, ObjectsNext, ForgetNext
<1>3. I => NobodyForgotten
  BY WatchShown
<1> QED
  BY <1>1, <1>2, <1>3, PTL DEF Spec

(* Sessions are leased as ConnectionLife promises, for every number of     *)
(* workers, session objects and connections: a client is refused only      *)
(* while the pool is empty, an object serves one connection at a time, and *)
(* comes back once, after its socket is closed and its table entry gone    *)
(* (AcceptCompletion, CloseSession, SessionPool.h).                        *)
THEOREM SessionsAreLeased == Spec => IsConnectionLife
BY LifeInit, LifeNext, PTL DEF Spec, IsConnectionLife, Life!Spec

(* At every moment each session object is free or serves exactly one       *)
(* connection, and only a connection that has one is in sessionTable_, as  *)
(* long as no object is reused while something still points at it.         *)
THEOREM OneLeaseForEach == Spec => []Life!Exclusive
<1>1. Life!Init => Life!Exclusive
  BY DEF Life!Init, Life!Exclusive
<1> QED
  BY <1>1, LifeInit, LifeNext, ExclusiveNext, PTL DEF Spec
=============================================================================
