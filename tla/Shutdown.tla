------------------------------ MODULE Shutdown ------------------------------
(***************************************************************************)
(* Starting and stopping the server (IOCP_EchoServer::Start and Stop,      *)
(* called from main).  Start listens, posts the AcceptEx operations and    *)
(* starts the threads, and opens the log last.  Stop clears running_,      *)
(* closes the listen socket, wakes the workers with one empty completion   *)
(* each, joins them and the statistics thread, then closes the sessions    *)
(* that are left under sessionMtx_, and the log.                           *)
(*                                                                         *)
(* Of the sessions (module IocpServer) this module keeps which are in the  *)
(* table, and of the workers what Stop has to wait for: the wait at the    *)
(* port, the mutex, and PostAccept; and that they write to the log.        *)
(***************************************************************************)
EXTENDS Integers, Sequences, FiniteSets

CONSTANTS
  Workers,      \* the worker threads (workerCount_)
  Conns,        \* the client connections
  Main,         \* the thread that calls Stop
  None,         \* nobody
  AcceptCount   \* acceptOutstanding_

ASSUME ShutdownAssumption ==
  /\ IsFiniteSet(Workers)
  /\ Main \notin Workers /\ None \notin Workers \cup {Main} /\ None \notin Conns
  /\ AcceptCount \in Nat

VARIABLES
  running,    \* running_
  listening,  \* listenSocket_ is open
  accepts,    \* AcceptEx operations outstanding
  link,       \* a connection: "new", "up", "down" (peer left), "closed"
  port,       \* the completions queued at iocpHandle_, oldest first
  table,      \* the connections whose session is in sessionTable_
  lock,       \* who holds sessionMtx_
  main,       \* where the main thread is
  at,         \* where a worker is
  item,       \* the completion a worker has taken
  stat,       \* where the statistics thread is
  log,        \* the log files: "closed", "opening", "open" or "failed"
  lost        \* lines that were not written

vars == <<running, listening, accepts, link, port, table, lock, main, at, item, stat,
          log, lost>>

Completion == [op : {"accept", "recv", "none"}, c : Conns \cup {None}]
Accept(c)  == [op |-> "accept", c |-> c]
Closed(c)  == [op |-> "recv", c |-> c]
Aborted    == [op |-> "accept", c |-> None]
Dummy      == [op |-> "none", c |-> None]

StartAt  == {"start", "accept", "spawn", "spawnStat", "openLog", "opening"}
StopAt   == {"closeListen", "wake", "join", "joinStat", "lock", "close", "relock",
             "closeHandle", "returned"}
WorkerAt == {"unborn", "loop", "wait", "check", "register", "reaccept", "overflow",
             "write", "unregister", "out"}

TypeOK ==
  /\ running \in BOOLEAN /\ listening \in BOOLEAN
  /\ accepts \in 0 .. AcceptCount
  /\ link \in [Conns -> {"new", "up", "down", "closed"}]
  /\ port \in Seq(Completion)
  /\ table \subseteq Conns
  /\ lock \in Workers \cup {Main, None}
  /\ main \in StartAt \cup {"failed", "serving"} \cup StopAt
  /\ at \in [Workers -> WorkerAt]
  /\ item \in [Workers -> Completion]
  /\ stat \in {"unborn", "loop", "sleep", "out"}
  /\ log \in {"closed", "opening", "open", "failed"} /\ lost \in Nat
  /\ \A w \in Workers : at[w] \in {"register", "unregister"} => item[w].c \in Conns

Init ==
  /\ running = FALSE /\ listening = FALSE /\ accepts = 0
  /\ link = [c \in Conns |-> "new"]
  /\ port = <<>> /\ table = {} /\ lock = None
  /\ main = "start"
  /\ at = [w \in Workers |-> "unborn"]
  /\ item = [w \in Workers |-> Dummy]
  /\ stat = "unborn"
  /\ log = "closed" /\ lost = 0

-----------------------------------------------------------------------------
(***************************************************************************)
(* Start.                                                                  *)
(***************************************************************************)
StartListen ==
  /\ main = "start"
  /\ listening' = TRUE
  /\ main' = "accept"
  /\ UNCHANGED <<running, accepts, link, port, table, lock, at, item, stat, log, lost>>

(* Winsock, the socket, its address or the port cannot be had: nothing is  *)
(* undone.                                                                 *)
StartFails ==
  /\ main = "start"
  /\ listening' \in BOOLEAN
  /\ main' = "failed"
  /\ UNCHANGED <<running, accepts, link, port, table, lock, at, item, stat, log, lost>>

(* running_ is not set yet when the threads look at it.                    *)
StartAcceptsOnly ==
  /\ main = "accept"
  /\ accepts' = AcceptCount
  /\ main' = "spawn"
  /\ UNCHANGED <<running, listening, link, port, table, lock, at, item, stat, log, lost>>

StartAccepts ==
  /\ main = "accept"
  /\ running' = TRUE
  /\ accepts' = AcceptCount
  /\ main' = "spawn"
  /\ UNCHANGED <<listening, link, port, table, lock, at, item, stat, log, lost>>

StartWorker(w) ==
  /\ main = "spawn" /\ at[w] = "unborn"
  /\ at' = [at EXCEPT ![w] = "loop"]
  /\ main' = IF \A v \in Workers \ {w} : at[v] # "unborn" THEN "spawnStat" ELSE main
  /\ UNCHANGED <<running, listening, accepts, link, port, table, lock, item, stat, log, lost>>

StartStat ==
  /\ main = "spawnStat"
  /\ stat' = "loop"
  /\ main' = "openLog"
  /\ UNCHANGED <<running, listening, accepts, link, port, table, lock, at, item, log, lost>>

(* Logger::Init opens two files without the mutex of the writers.  When    *)
(* one or both cannot be opened Start goes on all the same.                *)
LogInit ==
  /\ \/ main = "openLog" /\ log' = "opening" /\ main' = "opening"
     \/ main = "opening" /\ log' \in {"open", "failed"} /\ main' = "serving"
  /\ UNCHANGED <<running, listening, accepts, link, port, table, lock, at, item, stat, lost>>

Start ==
  \/ StartListen \/ StartFails \/ StartAccepts \/ StartStat \/ LogInit
  \/ \E w \in Workers : StartWorker(w)

-----------------------------------------------------------------------------
(***************************************************************************)
(* The clients.  A connection made and one that ended each queue a         *)
(* completion, as long as the operation that waits for it can complete.    *)
(***************************************************************************)
Connect(c) ==
  /\ link[c] = "new" /\ listening /\ accepts > 0
  /\ link' = [link EXCEPT ![c] = "up"]
  /\ accepts' = accepts - 1
  /\ port' = Append(port, Accept(c))
  /\ UNCHANGED <<running, listening, table, lock, main, at, item, stat, log, lost>>

Leave(c) ==
  /\ link[c] = "up" /\ c \in table
  /\ link' = [link EXCEPT ![c] = "down"]
  /\ port' = Append(port, Closed(c))
  /\ UNCHANGED <<running, listening, accepts, table, lock, main, at, item, stat, log, lost>>

-----------------------------------------------------------------------------
(***************************************************************************)
(* WorkerThread.  running_ is looked at before the wait and after it.      *)
(***************************************************************************)
Go(w, l) == at' = [at EXCEPT ![w] = l]

WorkerLoop(w) ==
  /\ at[w] = "loop"
  /\ Go(w, IF running THEN "wait" ELSE "out")
  /\ UNCHANGED <<running, listening, accepts, link, port, table, lock, main, item, stat, log, lost>>

WorkerWait(w) ==
  /\ at[w] = "wait" /\ port # <<>>
  /\ port' = Tail(port)
  /\ item' = [item EXCEPT ![w] = Head(port)]
  /\ Go(w, "check")
  /\ UNCHANGED <<running, listening, accepts, link, table, lock, main, stat, log, lost>>

WorkerCheck(w) ==
  /\ at[w] = "check"
  /\ Go(w, IF ~running THEN "out"
            ELSE CASE item[w].op = "accept" -> "register"
                   [] item[w].op = "recv"   -> "unregister"
                   [] item[w].op = "none"   -> "loop")
  /\ UNCHANGED <<running, listening, accepts, link, port, table, lock, main, item, stat, log, lost>>

(* AcceptCompletion up to the table, and PostAccept.                       *)
WorkerRegister(w) ==
  /\ at[w] = "register" /\ lock = None
  /\ table' = table \cup {item[w].c}
  /\ Go(w, "reaccept")
  /\ UNCHANGED <<running, listening, accepts, link, port, lock, main, item, stat, log, lost>>

WorkerReaccept(w) ==
  /\ at[w] = "reaccept" /\ listening
  /\ accepts' = accepts + 1
  /\ Go(w, "write")
  /\ UNCHANGED <<running, listening, link, port, table, lock, main, item, stat, log, lost>>

(* OnClientConnected writes a line, which is lost while the log is closed; *)
(* against Init it is a data race, and after an Init that failed its file  *)
(* is open or not.                                                         *)
WorkerWrite(w) ==
  /\ at[w] = "write"
  /\ \/ log # "closed" /\ UNCHANGED lost
     \/ log # "open" /\ lost' = lost + 1
  /\ Go(w, "loop")
  /\ UNCHANGED <<running, listening, accepts, link, port, table, lock, main, item, stat, log>>

(* AcceptEx on a closed socket fails, and PostAccept calls itself until    *)
(* the stack is used up.                                                   *)
WorkerOverflow(w) ==
  /\ at[w] = "reaccept" /\ ~listening
  /\ Go(w, "overflow")
  /\ UNCHANGED <<running, listening, accepts, link, port, table, lock, main, item, stat, log, lost>>

(* An AcceptEx is posted for the connection closed.                        *)
WorkerUnregisterAccept(w) ==
  /\ at[w] = "unregister" /\ lock = None
  /\ table' = table \ {item[w].c}
  /\ link' = [link EXCEPT ![item[w].c] = "closed"]
  /\ Go(w, "reaccept")
  /\ UNCHANGED <<running, listening, accepts, port, lock, main, item, stat, log, lost>>

(* CloseSession for a client that left.                                    *)
WorkerUnregister(w) ==
  /\ at[w] = "unregister" /\ lock = None
  /\ table' = table \ {item[w].c}
  /\ link' = [link EXCEPT ![item[w].c] = "closed"]
  /\ Go(w, "loop")
  /\ UNCHANGED <<running, listening, accepts, port, lock, main, item, stat, log, lost>>

Worker(w) ==
  \/ WorkerLoop(w) \/ WorkerWait(w) \/ WorkerCheck(w) \/ WorkerRegister(w) 
  \/ WorkerReaccept(w) \/ WorkerWrite(w) \/ WorkerOverflow(w) \/ WorkerUnregister(w)

StatThread ==
  /\ \/ stat = "loop" /\ stat' = IF running THEN "sleep" ELSE "out"
     \/ stat = "sleep" /\ stat' = "loop"
  /\ UNCHANGED <<running, listening, accepts, link, port, table, lock, main, at, item, log, lost>>

-----------------------------------------------------------------------------
(***************************************************************************)
(* Stop.                                                                   *)
(***************************************************************************)
StopBegin ==
  /\ main = "serving"
  /\ running' = FALSE
  /\ main' = "closeListen"
  /\ UNCHANGED <<listening, accepts, link, port, table, lock, at, item, stat, log, lost>>

(* The log is closed first.                                                *)
StopListeningAndLog ==
  /\ main = "closeListen"
  /\ listening' = FALSE
  /\ port' = port \o [i \in 1 .. accepts |-> Aborted]
  /\ accepts' = 0
  /\ log' = "closed"
  /\ main' = "wake"
  /\ UNCHANGED <<running, link, table, lock, at, item, stat, lost>>

(* The outstanding AcceptEx operations complete, aborted.                  *)
StopListening ==
  /\ main = "closeListen"
  /\ listening' = FALSE
  /\ port' = port \o [i \in 1 .. accepts |-> Aborted]
  /\ accepts' = 0
  /\ main' = "wake"
  /\ UNCHANGED <<running, link, table, lock, at, item, stat, log, lost>>

(* Nothing is posted.                                                      *)
StopWakeNobody ==
  /\ main = "wake"
  /\ main' = "join"
  /\ UNCHANGED <<running, listening, accepts, link, port, table, lock, at, item, stat, log, lost>>

StopWake ==
  /\ main = "wake"
  /\ port' = port \o [i \in 1 .. Cardinality(Workers) |-> Dummy]
  /\ main' = "join"
  /\ UNCHANGED <<running, listening, accepts, link, table, lock, at, item, stat, log, lost>>

(* The first worker that ends is enough.                                   *)
StopJoinOne ==
  /\ main = "join" /\ \E w \in Workers : at[w] = "out"
  /\ main' = "joinStat"
  /\ UNCHANGED <<running, listening, accepts, link, port, table, lock, at, item, stat, log, lost>>

StopJoin ==
  /\ main = "join" /\ \A w \in Workers : at[w] = "out"
  /\ main' = "joinStat"
  /\ UNCHANGED <<running, listening, accepts, link, port, table, lock, at, item, stat, log, lost>>

StopJoinStat ==
  /\ main = "joinStat" /\ stat = "out"
  /\ main' = "lock"
  /\ UNCHANGED <<running, listening, accepts, link, port, table, lock, at, item, stat, log, lost>>

StopLock ==
  /\ main = "lock" /\ lock = None
  /\ lock' = Main
  /\ main' = "close"
  /\ UNCHANGED <<running, listening, accepts, link, port, table, at, item, stat, log, lost>>

(* CloseSession of the first session closes its socket and then locks      *)
(* sessionMtx_, which this thread holds: there is no step from "relock".   *)
StopClose ==
  /\ main = "close"
  /\ \E c \in table : link' = [link EXCEPT ![c] = "closed"]
  /\ main' = "relock"
  /\ UNCHANGED <<running, listening, accepts, port, table, lock, at, item, stat, log, lost>>

StopClear ==
  /\ main = "close" /\ table = {}
  /\ lock' = None
  /\ main' = "closeHandle"
  /\ UNCHANGED <<running, listening, accepts, link, port, table, at, item, stat, log, lost>>

StopReturn ==
  /\ main = "closeHandle"
  /\ log' = "closed"
  /\ main' = "returned"
  /\ UNCHANGED <<running, listening, accepts, link, port, table, lock, at, item, stat, lost>>

Stop ==
  \/ StopListening \/ StopWake \/ StopJoin \/ StopJoinStat \/ StopLock \/ StopClose
  \/ StopClear \/ StopReturn

Next ==
  \/ \E c \in Conns : Connect(c) \/ Leave(c)
  \/ \E w \in Workers : Worker(w)
  \/ StatThread \/ Start \/ StopBegin \/ Stop

Spec == Init /\ [][Next]_vars

(* The threads run on.  Nobody has to stop the server, and clients promise *)
(* nothing.                                                                *)
FairSpec ==
  /\ Spec /\ WF_vars(Stop) /\ WF_vars(StatThread)
  /\ \A w \in Workers : WF_vars(Worker(w))

-----------------------------------------------------------------------------
(* While the server serves every thread started is running: none has seen  *)
(* running_ before Start had set it.                                       *)
AllServe ==
  main \in {"openLog", "opening", "serving"} =>
    running /\ stat \in {"loop", "sleep"} /\ \A w \in Workers : at[w] \notin {"unborn", "out"}

(* Stop closes the sessions, the port and the log only after every other   *)
(* thread has ended: the joins are complete.  A Start that failed leaves   *)
(* no thread behind.                                                       *)
NobodyLeft ==
  /\ main \in {"lock", "close", "relock", "closeHandle", "returned"} =>
       stat = "out" /\ \A w \in Workers : at[w] = "out"
  /\ main = "failed" => stat = "unborn" /\ \A w \in Workers : at[w] = "unborn"

(* A line is lost only before Start has opened the log, or when it could   *)
(* not open it; what the workers write while Stop is under way is kept.    *)
LogKept == [][lost' # lost => main \in StartAt \/ log = "failed"]_vars

(* While Stop waits in join, there is a completion in the port for every   *)
(* worker that waits at it, however many AcceptEx operations were aborted  *)
(* and whatever the workers took meanwhile: none sleeps on.                *)
EnoughWoken ==
  main = "join" => Cardinality({w \in Workers : at[w] = "wait"}) <= Len(port)

(* One empty completion per worker is enough, whatever the workers are     *)
(* doing and whatever else is queued: Stop returns, but for its two flaws, *)
(* the mutex it locks twice when a session is left and PostAccept on the   *)
(* closed socket.                                                          *)
StopEnds ==
  (main = "join") ~>
    \/ main = "returned"
    \/ main = "relock" /\ table # {}
    \/ \E w \in Workers : at[w] = "overflow"

(* Stop ends the threads and closes what is left.                          *)
StopReturns == (main = "closeListen") ~> (main = "returned")
=============================================================================
