----------------------------- MODULE IocpServer -----------------------------
(***************************************************************************)
(* The session life cycle of the chat server of IOCP_Basic/: worker        *)
(* threads that take completions from one I/O completion port, a fixed     *)
(* pool of Session objects that successive client connections reuse, and   *)
(* the accept, receive, send and close paths that the workers run          *)
(* concurrently on those objects.                                          *)
(*                                                                         *)
(* A worker's call stack is never deeper than three frames, so it is three *)
(* records: hand[w] is the completion handler (AcceptCompletion or         *)
(* RecvCompletion), snd[w] a call of EnqueueSend/PostSend and cls[w] a     *)
(* call of CloseSession; the innermost active frame runs.  Every step is   *)
(* one access to shared state: an atomic, a mutex-protected block, or a    *)
(* system call.                                                            *)
(***************************************************************************)
EXTENDS Integers, Sequences, FiniteSets

CONSTANTS
  Workers,      \* the worker threads (workerCount_)
  Sessions,     \* the Session objects of the pool (cap_ of them)
  Conns,        \* the client connections; c stands for the SOCKET and the id
  None,         \* no session, no connection
  AcceptCount,  \* acceptOutstanding_
  MaxBatch,     \* packets PostSend merges into one WSASend (16)
  Budget,       \* bound: receives with data per connection
  Bursts        \* bound: the packets one receive may complete

Kinds == {"chat", "exit", "query", "junk", "bad"}

ASSUME ServerAssumption ==
  /\ IsFiniteSet(Workers) /\ IsFiniteSet(Sessions)
  /\ None \notin Sessions /\ None \notin Conns
  /\ AcceptCount \in Nat /\ MaxBatch \in Nat \ {0} /\ Budget \in Nat
  /\ Bursts \subseteq Seq(Kinds)

VARIABLES
  link,     \* a connection: "new", "up", "down" (peer left), "closed" (here)
  assoc,    \* the sockets associated with the completion port
  accepts,  \* AcceptEx operations outstanding
  recvs,    \* WSARecv operations outstanding, by session object and socket
  sends,    \* WSASend operations outstanding, by session object and socket
  budget,   \* receives with data still to come, by connection
  conn,     \* session->sock and session->id
  closing,  \* session->closing
  sending,  \* session->sending
  rxBuf,    \* session->rxBuf is leased (not nullptr)
  rx,       \* session->rx: the packets in the ring, with their origin
  queue,    \* session->sendQueue: for each packet, the client it is meant for
  free,     \* SessionPool::free_, the top of the stack first
  table,    \* sessionTable_
  count,    \* statCurConn_
  hand,     \* a worker's completion handler
  snd,      \* a worker's EnqueueSend or PostSend call
  cls,      \* a worker's CloseSession call
  clean     \* history: no object was reused while anything still pointed at it

kernel  == <<link, assoc, accepts, recvs, sends, budget>>
session == <<conn, closing, sending, rxBuf, rx, queue>>
shared  == <<free, table, count>>
vars    == <<kernel, session, shared, hand, snd, cls, clean>>

Packet == [kind : Kinds, from : Conns]

HandlerAt == {"off", "acquire", "setup", "register", "associate", "firstRecv",
              "reaccept", "welcome", "append", "pop", "chat", "exit", "nextRecv",
              "fault"}
SendAt    == {"off", "push", "exchange", "pop", "clear", "wsaSend"}
CloseAt   == {"off", "mark", "socket", "unregister", "release"}

NoHandler == [at |-> "off", s |-> None, c |-> None, data |-> <<>>, targets |-> {}]
NoSend    == [at |-> "off", s |-> None, msgs |-> <<>>]
NoClose   == [at |-> "off", s |-> None]

Handler   == [at : HandlerAt, s : Sessions \cup {None}, c : Conns \cup {None},
              data : Seq(Kinds), targets : SUBSET (Conns \X Sessions)]
SendCall  == [at : SendAt, s : Sessions \cup {None}, msgs : Seq(Conns)]
CloseCall == [at : CloseAt, s : Sessions \cup {None}]

(* An operation on session object s that the system has not completed.     *)
Pending(s) == \E c \in Conns : recvs[s][c] > 0 \/ sends[s][c] > 0

(* Objects that have served a connection: only these are referred to by    *)
(* the table, a pending operation or a running frame, AcceptSetup's aside. *)
Attached == {s \in Sessions : conn[s] \in Conns}

FramesOK ==
  /\ \A w \in Workers :
       /\ hand[w].at = "setup" => hand[w].s \in Sessions
       /\ hand[w].at \notin {"off", "acquire", "setup"} => hand[w].s \in Attached
       /\ hand[w].at \in {"acquire", "setup", "register", "associate", "firstRecv",
                          "reaccept", "welcome", "append"} => hand[w].c \in Conns
       /\ \A t \in hand[w].targets : t[2] \in Attached
       /\ snd[w].at # "off" => snd[w].s \in Attached
       /\ cls[w].at # "off" => cls[w].s \in Attached
  /\ \A c \in Conns : table[c] \in Attached \cup {None}
  /\ \A s \in Sessions : Pending(s) => s \in Attached

(* Every variable has its type, and every reference in use its object.     *)
TypeOK ==
  /\ link \in [Conns -> {"new", "up", "down", "closed"}]
  /\ assoc \subseteq Conns
  /\ accepts \in Nat
  /\ recvs \in [Sessions -> [Conns -> Nat]]
  /\ sends \in [Sessions -> [Conns -> Nat]]
  /\ budget \in [Conns -> Nat]
  /\ conn \in [Sessions -> Conns \cup {None}]
  /\ closing \in [Sessions -> BOOLEAN]
  /\ sending \in [Sessions -> BOOLEAN]
  /\ rxBuf \in [Sessions -> BOOLEAN]
  /\ rx \in [Sessions -> Seq(Packet)]
  /\ queue \in [Sessions -> Seq(Conns)]
  /\ free \in Seq(Sessions)
  /\ table \in [Conns -> Sessions \cup {None}]
  /\ count \in Int
  /\ hand \in [Workers -> Handler]
  /\ snd \in [Workers -> SendCall]
  /\ cls \in [Workers -> CloseCall]
  /\ clean \in BOOLEAN
  /\ FramesOK

(***************************************************************************)
(* The state after Start(): AcceptCount operations posted, workers idle.   *)
(* The pool is filled in some order.                                       *)
(***************************************************************************)
Init ==
  /\ link = [c \in Conns |-> "new"]
  /\ assoc = {}
  /\ accepts = AcceptCount
  /\ recvs = [s \in Sessions |-> [c \in Conns |-> 0]]
  /\ sends = [s \in Sessions |-> [c \in Conns |-> 0]]
  /\ budget = [c \in Conns |-> Budget]
  /\ conn = [s \in Sessions |-> None]
  /\ closing = [s \in Sessions |-> FALSE]
  /\ sending = [s \in Sessions |-> FALSE]
  /\ rxBuf = [s \in Sessions |-> FALSE]
  /\ rx = [s \in Sessions |-> <<>>]
  /\ queue = [s \in Sessions |-> <<>>]
  /\ free \in {f \in [1 .. Cardinality(Sessions) -> Sessions] :
                 \A i, j \in DOMAIN f : f[i] = f[j] => i = j}
  /\ table = [c \in Conns |-> None]
  /\ count = 0
  /\ hand = [w \in Workers |-> NoHandler]
  /\ snd = [w \in Workers |-> NoSend]
  /\ cls = [w \in Workers |-> NoClose]
  /\ clean = TRUE

-----------------------------------------------------------------------------
(***************************************************************************)
(* Which frame of a worker runs.  An access violation in one worker ends   *)
(* the process.                                                            *)
(***************************************************************************)
Running == \A w \in Workers : hand[w].at # "fault"

InClose(w, l)   == Running /\ cls[w].at = l
InSend(w, l)    == Running /\ cls[w].at = "off" /\ snd[w].at = l
InHandler(w, l) == Running /\ cls[w].at = "off" /\ snd[w].at = "off" /\ hand[w].at = l
Idle(w)         == InHandler(w, "off")

GotoHandler(w, l) == hand' = [hand EXCEPT ![w].at = l]
ReturnHandler(w)  == hand' = [hand EXCEPT ![w] = NoHandler]
CallSend(w, s, m) == snd' = [snd EXCEPT ![w] = [at |-> "push", s |-> s, msgs |-> <<m>>]]
ReturnSend(w)     == snd' = [snd EXCEPT ![w] = NoSend]
CallClose(w, s)   == cls' = [cls EXCEPT ![w] = [at |-> "mark", s |-> s]]

(* Something still points at session object s: an operation the system     *)
(* has not completed, or a frame of a worker.                              *)
Holds(w, s) ==
  \/ s \in {hand[w].s, snd[w].s, cls[w].s}
  \/ \E c \in Conns : <<c, s>> \in hand[w].targets
Referenced(s) == Pending(s) \/ \E w \in Workers : Holds(w, s)

-----------------------------------------------------------------------------
(***************************************************************************)
(* The clients and the network.                                            *)
(***************************************************************************)
PeerLeaves(c) ==
  /\ link[c] = "up"
  /\ link' = [link EXCEPT ![c] = "down"]
  /\ UNCHANGED <<assoc, accepts, recvs, sends, budget, session, shared, hand, snd, cls, clean>>

(* A send that completes before its socket is associated with the port     *)
(* queues no completion.                                                   *)
SendUnnotified(s, c) ==
  /\ sends[s][c] > 0 /\ c \notin assoc
  /\ sends' = [sends EXCEPT ![s][c] = @ - 1]
  /\ UNCHANGED <<link, assoc, accepts, recvs, budget, session, shared, hand, snd, cls, clean>>

(***************************************************************************)
(* WorkerThread: an idle worker takes one completion.  What a pending      *)
(* operation completed with is chosen here; an operation on a socket that  *)
(* was closed meanwhile may have completed with data before it, or is      *)
(* cancelled.                                                              *)
(***************************************************************************)
TakeAccept(w, c) ==
  /\ Idle(w) /\ accepts > 0 /\ link[c] = "new"
  /\ accepts' = accepts - 1
  /\ link' = [link EXCEPT ![c] = "up"]
  /\ hand' = [hand EXCEPT ![w] = [at |-> "acquire", s |-> None, c |-> c, data |-> <<>>, targets |-> {}]]
  /\ UNCHANGED <<assoc, recvs, sends, budget, session, shared, snd, cls, clean>>

TakeRecvData(w, s, c) ==
  /\ Idle(w) /\ recvs[s][c] > 0 /\ budget[c] > 0
  /\ recvs' = [recvs EXCEPT ![s][c] = @ - 1]
  /\ budget' = [budget EXCEPT ![c] = @ - 1]
  /\ \E b \in Bursts :
       hand' = [hand EXCEPT ![w] = [at |-> "append", s |-> s, c |-> c, data |-> b, targets |-> {}]]
  /\ UNCHANGED <<link, assoc, accepts, sends, session, shared, snd, cls, clean>>

TakeRecvEnd(w, s, c) ==
  /\ Idle(w) /\ recvs[s][c] > 0 /\ link[c] \in {"down", "closed"}
  /\ recvs' = [recvs EXCEPT ![s][c] = @ - 1]
  /\ CallClose(w, s)
  /\ UNCHANGED <<link, assoc, accepts, sends, budget, session, shared, hand, snd, clean>>

TakeSend(w, s, c) ==
  /\ Idle(w) /\ sends[s][c] > 0 /\ c \in assoc
  /\ sends' = [sends EXCEPT ![s][c] = @ - 1]
  /\ snd' = [snd EXCEPT ![w] = [at |-> "pop", s |-> s, msgs |-> <<>>]]
  /\ UNCHANGED <<link, assoc, accepts, recvs, budget, session, shared, hand, cls, clean>>

-----------------------------------------------------------------------------
(***************************************************************************)
(* AcceptCompletion.                                                       *)
(***************************************************************************)
(* The AcceptEx taken is not replaced.                                     *)
AcceptRefuseOnly(w) ==
  /\ InHandler(w, "acquire") /\ free = <<>>
  /\ link' = [link EXCEPT ![hand[w].c] = "closed"]
  /\ ReturnHandler(w)
  /\ UNCHANGED <<assoc, accepts, recvs, sends, budget, session, shared, snd, cls, clean>>

(* The pool is empty: refuse the client and post another AcceptEx.         *)
AcceptRefuse(w) ==
  /\ InHandler(w, "acquire") /\ free = <<>>
  /\ link' = [link EXCEPT ![hand[w].c] = "closed"]
  /\ accepts' = accepts + 1
  /\ ReturnHandler(w)
  /\ UNCHANGED <<assoc, recvs, sends, budget, session, shared, snd, cls, clean>>

(* top() without pop().                                                    *)
AcceptAcquireTop(w) ==
  /\ InHandler(w, "acquire") /\ free # <<>>
  /\ LET s == Head(free) IN
       /\ rx' = [rx EXCEPT ![s] = <<>>]
       /\ closing' = [closing EXCEPT ![s] = FALSE]
       /\ hand' = [hand EXCEPT ![w].at = "setup", ![w].s = s]
       /\ clean' = (clean /\ ~Referenced(s))
  /\ UNCHANGED <<kernel, conn, sending, rxBuf, queue, shared, snd, cls>>

(* SessionPool::Acquire.                                                   *)
AcceptAcquire(w) ==
  /\ InHandler(w, "acquire") /\ free # <<>>
  /\ LET s == Head(free) IN
       /\ free' = Tail(free)
       /\ rx' = [rx EXCEPT ![s] = <<>>]
       /\ closing' = [closing EXCEPT ![s] = FALSE]
       /\ hand' = [hand EXCEPT ![w].at = "setup", ![w].s = s]
       /\ clean' = (clean /\ ~Referenced(s))
  /\ UNCHANGED <<kernel, conn, sending, rxBuf, queue, table, count, snd, cls>>

(* The socket and the id are not assigned.                                 *)
AcceptSetupPart(w) ==
  /\ InHandler(w, "setup")
  /\ LET s == hand[w].s IN
       /\ sending' = [sending EXCEPT ![s] = FALSE]
       /\ closing' = [closing EXCEPT ![s] = FALSE]
       /\ rx' = [rx EXCEPT ![s] = <<>>]
       /\ rxBuf' = [rxBuf EXCEPT ![s] = TRUE]
  /\ GotoHandler(w, "register")
  /\ UNCHANGED <<kernel, conn, queue, shared, snd, cls, clean>>

(* The field assignments; the send queue is not among them.                *)
AcceptSetup(w) ==
  /\ InHandler(w, "setup")
  /\ LET s == hand[w].s IN
       /\ conn' = [conn EXCEPT ![s] = hand[w].c]
       /\ sending' = [sending EXCEPT ![s] = FALSE]
       /\ closing' = [closing EXCEPT ![s] = FALSE]
       /\ rx' = [rx EXCEPT ![s] = <<>>]
       /\ rxBuf' = [rxBuf EXCEPT ![s] = TRUE]
  /\ GotoHandler(w, "register")
  /\ UNCHANGED <<kernel, queue, shared, snd, cls, clean>>

AcceptRegister(w) ==
  /\ InHandler(w, "register")
  /\ table' = [table EXCEPT ![conn[hand[w].s]] = hand[w].s]
  /\ GotoHandler(w, "associate")
  /\ UNCHANGED <<kernel, session, free, count, snd, cls, clean>>

(* statCurConn_++ and CreateIoCompletionPort.                              *)
AcceptAssociate(w) ==
  /\ InHandler(w, "associate")
  /\ count' = count + 1
  /\ assoc' = assoc \cup {conn[hand[w].s]}
  /\ GotoHandler(w, "firstRecv")
  /\ UNCHANGED <<link, accepts, recvs, sends, budget, session, free, table, snd, cls, clean>>

(* The error of WSARecv is ignored.                                        *)
PostRecvUnchecked(w, s) ==
  LET c == conn[s] IN
  \/ closing[s] /\ UNCHANGED <<recvs, cls>>
  \/ ~closing[s] /\ link[c] # "closed"
     /\ recvs' = [recvs EXCEPT ![s][c] = @ + 1] /\ UNCHANGED cls
  \/ ~closing[s] /\ link[c] \in {"down", "closed"} /\ UNCHANGED <<recvs, cls>>

(* PostRecv: WSARecv fails on a closed socket and may fail once the peer   *)
(* left; then the session is closed.                                       *)
PostRecv(w, s) ==
  LET c == conn[s] IN
  \/ closing[s] /\ UNCHANGED <<recvs, cls>>
  \/ ~closing[s] /\ link[c] # "closed"
     /\ recvs' = [recvs EXCEPT ![s][c] = @ + 1] /\ UNCHANGED cls
  \/ ~closing[s] /\ link[c] \in {"down", "closed"}
     /\ CallClose(w, s) /\ UNCHANGED recvs

AcceptPostRecv(w) ==
  /\ InHandler(w, "firstRecv")
  /\ PostRecv(w, hand[w].s)
  /\ GotoHandler(w, "reaccept")
  /\ UNCHANGED <<link, assoc, accepts, sends, budget, session, shared, snd, clean>>

AcceptPostAccept(w) ==
  /\ InHandler(w, "reaccept")
  /\ accepts' = accepts + 1
  /\ GotoHandler(w, "welcome")
  /\ UNCHANGED <<link, assoc, recvs, sends, budget, session, shared, snd, cls, clean>>

(* OnClientConnected.                                                      *)
AcceptWelcome(w) ==
  /\ InHandler(w, "welcome")
  /\ CallSend(w, hand[w].s, hand[w].c)
  /\ ReturnHandler(w)
  /\ UNCHANGED <<kernel, session, shared, cls, clean>>

-----------------------------------------------------------------------------
(***************************************************************************)
(* RecvCompletion with bytes > 0.  The ring never overflows (module        *)
(* ReceivePath), so append takes everything; it reads through rxBuf, which *)
(* CloseSession sets to nullptr.                                           *)
(***************************************************************************)
RecvFault(w) ==
  /\ InHandler(w, "append") /\ ~rxBuf[hand[w].s]
  /\ GotoHandler(w, "fault")
  /\ UNCHANGED <<kernel, session, shared, snd, cls, clean>>

RecvAppend(w) ==
  /\ InHandler(w, "append") /\ rxBuf[hand[w].s]
  /\ LET d == hand[w].data IN
       rx' = [rx EXCEPT ![hand[w].s] =
                @ \o [i \in 1 .. Len(d) |-> [kind |-> d[i], from |-> hand[w].c]]]
  /\ hand' = [hand EXCEPT ![w].at = "pop", ![w].data = <<>>]
  /\ UNCHANGED <<kernel, conn, closing, sending, rxBuf, queue, shared, snd, cls, clean>>

(* No complete packet is left: on to the next receive.                     *)
RecvNeedMore(w) ==
  /\ InHandler(w, "pop") /\ rx[hand[w].s] = <<>>
  /\ GotoHandler(w, "nextRecv")
  /\ UNCHANGED <<kernel, session, shared, snd, cls, clean>>

RecvMalformed(w) ==
  /\ InHandler(w, "pop") /\ rx[hand[w].s] # <<>> /\ Head(rx[hand[w].s]).kind = "bad"
  /\ CallClose(w, hand[w].s)
  /\ ReturnHandler(w)
  /\ UNCHANGED <<kernel, session, shared, snd, clean>>

(* One packet is handled: a chat message or an exit is broadcast to a      *)
(* snapshot of the table, a query (login, user count) is answered, a       *)
(* packet of the wrong size or type is only logged.                        *)
Snapshot(s) == {<<c, table[c]>> : c \in {d \in Conns : table[d] \notin {None, s}}}

RecvPacket(w) ==
  LET s == hand[w].s  p == Head(rx[s]) IN
  /\ InHandler(w, "pop") /\ rx[s] # <<>>
  /\ rx' = [rx EXCEPT ![s] = Tail(@)]
  /\ \/ /\ p.kind \in {"chat", "exit"}
        /\ hand' = [hand EXCEPT ![w].at = p.kind, ![w].targets = Snapshot(s)]
        /\ UNCHANGED snd
     \/ /\ p.kind = "query"
        /\ CallSend(w, s, p.from)
        /\ UNCHANGED hand
     \/ /\ p.kind = "junk"
        /\ UNCHANGED <<hand, snd>>
  /\ UNCHANGED <<kernel, conn, closing, sending, rxBuf, queue, shared, cls, clean>>

Broadcast(w) ==
  /\ \/ InHandler(w, "chat") \/ InHandler(w, "exit")
  /\ \E t \in hand[w].targets :
       /\ hand' = [hand EXCEPT ![w].targets = @ \ {t}]
       /\ CallSend(w, t[2], t[1])
  /\ UNCHANGED <<kernel, session, shared, cls, clean>>

(* The broadcast is over; HandleExit then closes the session and, like     *)
(* HandleChatMessage, returns into the framer loop.                        *)
BroadcastDone(w) ==
  /\ hand[w].targets = {}
  /\ \/ InHandler(w, "chat") /\ UNCHANGED cls
     \/ InHandler(w, "exit") /\ CallClose(w, hand[w].s)
  /\ GotoHandler(w, "pop")
  /\ UNCHANGED <<kernel, session, shared, snd, clean>>

(* The handler goes back into the framer loop after posting.               *)
RecvPostRecvLoop(w) ==
  /\ InHandler(w, "nextRecv")
  /\ PostRecv(w, hand[w].s)
  /\ GotoHandler(w, "pop")
  /\ UNCHANGED <<link, assoc, accepts, sends, budget, session, shared, snd, clean>>

RecvPostRecv(w) ==
  /\ InHandler(w, "nextRecv")
  /\ PostRecv(w, hand[w].s)
  /\ ReturnHandler(w)
  /\ UNCHANGED <<link, assoc, accepts, sends, budget, session, shared, snd, clean>>

-----------------------------------------------------------------------------
(***************************************************************************)
(* EnqueueSend and PostSend.                                               *)
(***************************************************************************)
EnqueuePush(w) ==
  LET s == snd[w].s IN
  /\ InSend(w, "push")
  /\ \/ closing[s] /\ ReturnSend(w) /\ UNCHANGED queue
     \/ /\ ~closing[s]
        /\ queue' = [queue EXCEPT ![s] = @ \o snd[w].msgs]
        /\ snd' = [snd EXCEPT ![w].at = "exchange", ![w].msgs = <<>>]
  /\ UNCHANGED <<kernel, conn, closing, sending, rxBuf, rx, shared, hand, cls, clean>>

(* The flag is set, and its old value not looked at.                       *)
EnqueueExchangeBlind(w) ==
  LET s == snd[w].s IN
  /\ InSend(w, "exchange")
  /\ sending' = [sending EXCEPT ![s] = TRUE]
  /\ snd' = [snd EXCEPT ![w].at = "pop"]
  /\ UNCHANGED <<kernel, conn, closing, rxBuf, rx, queue, shared, hand, cls, clean>>

(* sending.exchange(true): only the caller that finds it false goes on.    *)
EnqueueExchange(w) ==
  LET s == snd[w].s IN
  /\ InSend(w, "exchange")
  /\ sending' = [sending EXCEPT ![s] = TRUE]
  /\ \/ sending[s] /\ ReturnSend(w)
     \/ ~sending[s] /\ snd' = [snd EXCEPT ![w].at = "pop"]
  /\ UNCHANGED <<kernel, conn, closing, rxBuf, rx, queue, shared, hand, cls, clean>>

Batch(q) == IF Len(q) <= MaxBatch THEN Len(q) ELSE MaxBatch

PostSendPop(w) ==
  LET s == snd[w].s  n == Batch(queue[s]) IN
  /\ InSend(w, "pop")
  /\ \/ closing[s] /\ ReturnSend(w) /\ UNCHANGED queue
     \/ /\ ~closing[s] /\ queue[s] = <<>>
        /\ snd' = [snd EXCEPT ![w].at = "clear"] /\ UNCHANGED queue
     \/ /\ ~closing[s] /\ queue[s] # <<>>
        /\ queue' = [queue EXCEPT ![s] = SubSeq(@, n + 1, Len(@))]
        /\ snd' = [snd EXCEPT ![w].at = "wsaSend", ![w].msgs = SubSeq(queue[s], 1, n)]
  /\ UNCHANGED <<kernel, conn, closing, sending, rxBuf, rx, shared, hand, cls, clean>>

(* The queue was empty when it was looked at, under the mutex; sending is  *)
(* cleared after the mutex is released.                                    *)
PostSendClear(w) ==
  /\ InSend(w, "clear")
  /\ sending' = [sending EXCEPT ![snd[w].s] = FALSE]
  /\ ReturnSend(w)
  /\ UNCHANGED <<kernel, conn, closing, rxBuf, rx, queue, shared, hand, cls, clean>>

PostSendWSASend(w) ==
  LET s == snd[w].s  c == conn[s] IN
  /\ InSend(w, "wsaSend")
  /\ \/ /\ link[c] # "closed"
        /\ sends' = [sends EXCEPT ![s][c] = @ + 1] /\ UNCHANGED cls
     \/ /\ link[c] \in {"down", "closed"}
        /\ CallClose(w, s) /\ UNCHANGED sends
  /\ ReturnSend(w)
  /\ UNCHANGED <<link, assoc, accepts, recvs, budget, session, shared, hand, clean>>

-----------------------------------------------------------------------------
(***************************************************************************)
(* CloseSession.                                                           *)
(***************************************************************************)
(* The old value of "closing" is not looked at.                            *)
CloseMarkBlind(w) ==
  LET s == cls[w].s IN
  /\ InClose(w, "mark")
  /\ closing' = [closing EXCEPT ![s] = TRUE]
  /\ cls' = [cls EXCEPT ![w] = [at |-> "socket", s |-> s]]
  /\ UNCHANGED <<kernel, conn, sending, rxBuf, rx, queue, shared, hand, snd, clean>>

CloseMark(w) ==
  LET s == cls[w].s IN
  /\ InClose(w, "mark")
  /\ closing' = [closing EXCEPT ![s] = TRUE]
  /\ cls' = [cls EXCEPT ![w] = IF closing[s] THEN NoClose ELSE [at |-> "socket", s |-> s]]
  /\ UNCHANGED <<kernel, conn, sending, rxBuf, rx, queue, shared, hand, snd, clean>>

(* closesocket, and the receive buffer goes back to its pool.              *)
CloseSocket(w) ==
  LET s == cls[w].s IN
  /\ InClose(w, "socket")
  /\ link' = [link EXCEPT ![conn[s]] = "closed"]
  /\ rxBuf' = [rxBuf EXCEPT ![s] = FALSE]
  /\ cls' = [cls EXCEPT ![w].at = "unregister"]
  /\ UNCHANGED <<assoc, accepts, recvs, sends, budget, conn, closing, sending, rx, queue,
                 shared, hand, snd, clean>>

(* The table entry stays.                                                  *)
CloseUnregisterNot(w) ==
  /\ InClose(w, "unregister")
  /\ cls' = [cls EXCEPT ![w].at = "release"]
  /\ UNCHANGED <<kernel, session, shared, hand, snd, clean>>

CloseUnregister(w) ==
  /\ InClose(w, "unregister")
  /\ table' = [table EXCEPT ![conn[cls[w].s]] = None]
  /\ cls' = [cls EXCEPT ![w].at = "release"]
  /\ UNCHANGED <<kernel, session, free, count, hand, snd, clean>>

(* statCurConn_ is not decremented.                                        *)
CloseReleaseOnly(w) ==
  /\ InClose(w, "release")
  /\ free' = <<cls[w].s>> \o free
  /\ cls' = [cls EXCEPT ![w] = NoClose]
  /\ UNCHANGED <<kernel, session, table, count, hand, snd, clean>>

CloseRelease(w) ==
  /\ InClose(w, "release")
  /\ count' = count - 1
  /\ free' = <<cls[w].s>> \o free
  /\ cls' = [cls EXCEPT ![w] = NoClose]
  /\ UNCHANGED <<kernel, session, table, hand, snd, clean>>

-----------------------------------------------------------------------------
AcceptStep(w) ==
  \/ AcceptRefuse(w) \/ AcceptAcquire(w) \/ AcceptSetup(w) \/ AcceptRegister(w)
  \/ AcceptAssociate(w) \/ AcceptPostRecv(w) \/ AcceptPostAccept(w) \/ AcceptWelcome(w)

RecvStep(w) ==
  \/ RecvFault(w) \/ RecvAppend(w) \/ RecvNeedMore(w) \/ RecvMalformed(w) \/ RecvPacket(w)
  \/ Broadcast(w) \/ BroadcastDone(w) \/ RecvPostRecv(w)

SendStep(w) ==
  \/ EnqueuePush(w) \/ EnqueueExchange(w) \/ PostSendPop(w) \/ PostSendClear(w)
  \/ PostSendWSASend(w)

CloseStep(w) ==
  CloseMark(w) \/ CloseSocket(w) \/ CloseUnregister(w) \/ CloseRelease(w)

TakeStep(w) ==
  \/ \E c \in Conns : TakeAccept(w, c)
  \/ \E s \in Sessions, c \in Conns :
       TakeRecvData(w, s, c) \/ TakeRecvEnd(w, s, c) \/ TakeSend(w, s, c)

WorkerThread(w) ==
  TakeStep(w) \/ AcceptStep(w) \/ RecvStep(w) \/ SendStep(w) \/ CloseStep(w)

Network ==
  \/ \E c \in Conns : PeerLeaves(c)
  \/ \E s \in Sessions, c \in Conns : SendUnnotified(s, c)

Next == Network \/ \E w \in Workers : WorkerThread(w)

Spec == Init /\ [][Next]_vars

(* The operating system keeps scheduling every worker; clients promise     *)
(* nothing.                                                                *)
FairSpec == Spec /\ \A w \in Workers : WF_vars(WorkerThread(w))
-----------------------------------------------------------------------------
(***************************************************************************)
(* Properties.  A token is the right to do something on a session object:  *)
(* the receive token (post a receive, touch the ring) is with one frame or *)
(* with one pending WSARecv, the send token with one frame or one pending  *)
(* WSASend.  Those that say "clean =>" hold until an object is reused      *)
(* while something still points at it.                                     *)
(***************************************************************************)
RecvHolder(w, s) ==
  /\ hand[w].s = s
  /\ hand[w].at \notin {"off", "reaccept", "welcome", "fault"}

SendHolder(w, s) == snd[w].s = s /\ snd[w].at \in {"pop", "clear", "wsaSend"}

Closer(w, s) == cls[w].s = s /\ cls[w].at \in {"socket", "unregister", "release"}

Accepting(w) == hand[w].at \in {"acquire", "setup", "register", "associate",
                                "firstRecv", "reaccept"}

(* "Always N" AcceptEx operations (AcceptCompletion): each is outstanding  *)
(* or is being replaced by the worker that took its completion, whatever   *)
(* became of the connection it accepted.                                   *)
AcceptsKept == accepts + Cardinality({w \in Workers : Accepting(w)}) = AcceptCount

(* A session's ring, receive buffer and ovRecv, which no mutex protects,   *)
(* are used by one worker or by one pending WSARecv, never by two.         *)
RecvExclusive ==
  clean =>
    \A s \in Sessions :
      /\ \A v, w \in Workers : RecvHolder(v, s) /\ RecvHolder(w, s) => v = w
      /\ \A c \in Conns : recvs[s][c] > 0 =>
           /\ recvs[s][c] = 1
           /\ \A d \in Conns : recvs[s][d] > 0 => d = c
           /\ \A w \in Workers : ~RecvHolder(w, s)

(* The flag "sending" admits one PostSend at a time: one WSASend is        *)
(* outstanding on ovSend or one worker is preparing it, never two.         *)
SendExclusive ==
  clean =>
    \A s \in Sessions :
      /\ \A v, w \in Workers : SendHolder(v, s) /\ SendHolder(w, s) => v = w
      /\ \A c \in Conns : sends[s][c] > 0 =>
           /\ sends[s][c] = 1
           /\ \A d \in Conns : sends[s][d] > 0 => d = c
           /\ \A w \in Workers : ~SendHolder(w, s)

(* CloseSession gives the receive buffer back to its pool.  The handlers   *)
(* that call it hold the receive token, so neither is the system writing   *)
(* into the buffer nor another worker reading it; only a WSASend that      *)
(* failed closes a session under its WSARecv or its RecvCompletion.        *)
Closes(w, s) == cls[w].at = "off" /\ cls'[w] = [at |-> "mark", s |-> s]

InUse(w, s) ==
  \/ \E c \in Conns : recvs[s][c] > 0
  \/ \E v \in Workers \ {w} : RecvHolder(v, s)

BufferHeldAtClose ==
  [][\A w \in Workers, s \in Sessions :
       clean /\ Closes(w, s) /\ InUse(w, s)' => snd[w].at = "wsaSend" /\ snd[w].s = s]_vars

(* CloseSession releases an object once: one worker closes it, and only    *)
(* then is it free, once on the stack and no longer in the table.          *)
ReleasedOnce ==
  clean =>
    /\ \A i, j \in 1 .. Len(free) : free[i] = free[j] => i = j
    /\ \A i \in 1 .. Len(free), c \in Conns : table[c] # free[i]
    /\ \A v, w \in Workers, s \in Sessions : Closer(v, s) /\ Closer(w, s) => v = w
    /\ \A i \in 1 .. Len(free), w \in Workers : ~Closer(w, free[i])

(* A packet in a session's ring came from the client the session serves.   *)
Attribution ==
  clean => \A s \in Sessions : \A i \in 1 .. Len(rx[s]) : rx[s][i].from = conn[s]

Quiet == \A w \in Workers : Idle(w)

(* When every worker waits at the port, no object has leaked (each is free *)
(* or registered) and statCurConn_ is the number of registered sessions.   *)
NoLeak ==
  clean /\ Quiet =>
    /\ Len(free) + Cardinality({c \in Conns : table[c] # None}) = Cardinality(Sessions)
    /\ count = Cardinality({c \in Conns : table[c] # None})

(* Who will find out that the peer of c has left: the worker that accepts  *)
(* c, a WSARecv, the worker that took its completion, or a CloseSession    *)
(* that has not closed the socket yet.                                     *)
Watched(c) ==
  \/ \E w \in Workers : hand[w].at \in {"acquire", "setup"} /\ hand[w].c = c
  \/ \E s \in Sessions :
       /\ conn[s] = c
       /\ \/ recvs[s][c] > 0
          \/ \E w \in Workers :
               RecvHolder(w, s) \/ (cls[w].s = s /\ cls[w].at \in {"mark", "socket"})

(* No connection is forgotten: while its socket is open somebody watches   *)
(* it, although every path of RecvCompletion may give the receive up       *)
(* (PostRecv returns when `closing` is set) and a second CloseSession      *)
(* returns at once.                                                        *)
NobodyForgotten ==
  clean /\ Running => \A c \in Conns : link[c] \in {"up", "down"} => Watched(c)

(* The session object of a connection: AcceptSetup records it in conn, and *)
(* until then the worker that took it from the pool knows.                 *)
SetsUpFor(c, s) == \E w \in Workers : hand[w].at = "setup" /\ hand[w].s = s /\ hand[w].c = c

Serves(c, s) ==
  \/ SetsUpFor(c, s)
  \/ /\ conn[s] = c
     /\ \A i \in 1 .. Len(free) : free[i] # s
     /\ ~\E d \in Conns : SetsUpFor(d, s)

Fresh   == {c \in Conns : link[c] = "new"}
Opened  == {c \in Conns : link[c] \in {"up", "down"}}
Entries == {c \in Conns : table[c] # None}
Leases  == {p \in Conns \X Sessions : Serves(p[1], p[2])}
Pool    == {free[i] : i \in 1 .. Len(free)}

Life == INSTANCE ConnectionLife WITH
  fresh <- Fresh, open <- Opened, known <- Entries, lease <- Leases, pool <- Pool, ok <- clean

(* Sessions are leased as ConnectionLife promises, whatever the workers    *)
(* that accept, serve and close them do in between.                        *)
IsConnectionLife == Life!Spec

(* A connection whose peer left is closed here in the end.                 *)
DroppedIsClosed ==
  [](clean /\ Running) => \A c \in Conns : (link[c] = "down") ~> (link[c] = "closed")

-----------------------------------------------------------------------------
(***************************************************************************)
(* What comments of the source promise and the code does not keep.         *)
(***************************************************************************)
(* A packet waits in the queue only while a send is under way.             *)
NoStrandedPacket ==
  \A s \in Sessions :
    ~closing[s] /\ queue[s] # <<>> =>
      sending[s] \/ \E w \in Workers : snd[w].at = "exchange" /\ snd[w].s = s

(* A packet is sent only to the client it was queued for.                  *)
SentToItsClient ==
  \A w \in Workers : snd[w].at = "wsaSend" =>
    \A i \in 1 .. Len(snd[w].msgs) : snd[w].msgs[i] = conn[snd[w].s]

(* CloseSession puts an object back once, reused or not.                   *)
NoDoubleRelease == \A i, j \in 1 .. Len(free) : free[i] = free[j] => i = j
=============================================================================
