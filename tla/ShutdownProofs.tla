-------------------------- MODULE ShutdownProofs --------------------------
(***************************************************************************)
(* Start and Stop for every number of workers, clients and AcceptEx        *)
(* operations.  AllServe and NobodyLeft say what holds while main is in    *)
(* some places; Phase says it of every place on the way, and where the log *)
(* is open, and is inductive with the types.  That there are never more    *)
(* AcceptEx operations than Start has posted takes a count of those whose  *)
(* completion is queued or in the hands of a worker (AcceptInv).           *)
(***************************************************************************)
EXTENDS Shutdown, TLAPS, FiniteSetTheorems, FunctionTheorems

(* The part of TypeOK that the proof uses.                                 *)
Kinds ==
  /\ accepts \in Nat
  /\ port \in Seq(Completion)
  /\ item \in [Workers -> Completion]
  /\ at \in [Workers -> WorkerAt]

Unborn == stat = "unborn" /\ \A w \in Workers : at[w] = "unborn"

(* Until the last worker is started main has not left "spawn", and until   *)
(* Stop clears running_ no thread can end.                                 *)
Phase ==
  /\ main \in StartAt \cup {"failed", "serving"} \cup StopAt
  /\ main \in {"start", "accept", "failed"} => Unborn
  /\ main \in {"spawn", "spawnStat"} => stat = "unborn"
  /\ main \in {"spawn", "spawnStat", "openLog", "opening", "serving"} =>
       running /\ stat # "out" /\ \A w \in Workers : at[w] # "out"
  /\ main \notin {"start", "accept", "failed", "spawn"} => \A w \in Workers : at[w] # "unborn"
  /\ main \in {"openLog", "opening", "serving"} => stat \in {"loop", "sleep"}
  /\ main \in {"joinStat", "lock", "close", "relock", "closeHandle", "returned"} =>
       \A w \in Workers : at[w] = "out"
  /\ main \in {"lock", "close", "relock", "closeHandle", "returned"} => stat = "out"
  /\ main \in ({"serving"} \cup StopAt) \ {"returned"} => log \in {"open", "failed"}

(* Nothing runs before Start.                                              *)
LEMMA ShutdownInit == Init => Kinds /\ Phase
<1> SUFFICES ASSUME Init PROVE Kinds /\ Phase
  OBVIOUS
<1>1. <<>> \in Seq(Completion)
  OBVIOUS
<1>2. Dummy \in Completion
  BY DEF Dummy, Completion
<1>3. Kinds
  BY <1>1, <1>2 DEF Init, Kinds, WorkerAt
<1>4. Phase
  BY DEF Init, Phase, Unborn, StartAt, StopAt
<1> QED
  BY <1>3, <1>4

(* A number of equal completions is a sequence of completions.             *)
LEMMA Queued ==
  ASSUME port \in Seq(Completion), NEW n \in Nat, NEW x \in Completion
  PROVE  port \o [i \in 1 .. n |-> x] \in Seq(Completion)
<1>1. [i \in 1 .. n |-> x] \in Seq(Completion)
  OBVIOUS
<1> QED
  BY <1>1

(* A worker's step.                                                        *)
LEMMA WorkerKinds ==
  ASSUME Kinds, NEW w \in Workers, Worker(w)
  PROVE  Kinds'
<1> USE DEF Kinds, Go, WorkerAt
<1>1. CASE WorkerLoop(w)
  BY <1>1 DEF WorkerLoop
<1>2. CASE WorkerWait(w)
  <2>1. Head(port) \in Completion /\ Tail(port) \in Seq(Completion)
    BY <1>2 DEF WorkerWait
  <2> QED
    BY <1>2, <2>1 DEF WorkerWait
<1>3. CASE WorkerCheck(w)
  <2>1. item[w].op \in {"accept", "recv", "none"}
    BY DEF Completion
  <2> QED
    BY <1>3, <2>1 DEF WorkerCheck
<1>4. CASE WorkerRegister(w)
  BY <1>4 DEF WorkerRegister
<1>5. CASE WorkerReaccept(w)
  BY <1>5 DEF WorkerReaccept
<1>6. CASE WorkerWrite(w)
  BY <1>6 DEF WorkerWrite
<1>7. CASE WorkerOverflow(w)
  BY <1>7 DEF WorkerOverflow
<1>8. CASE WorkerUnregister(w)
  BY <1>8 DEF WorkerUnregister
<1> QED
  BY <1>1, <1>2, <1>3, <1>4, <1>5, <1>6, <1>7, <1>8 DEF Worker

(* Every step keeps the types.                                             *)
LEMMA KindsStep ==
  ASSUME Kinds, [Next]_vars
  PROVE  Kinds'
<1>0. Dummy \in Completion /\ Aborted \in Completion /\ \A c \in Conns :
        Accept(c) \in Completion /\ Closed(c) \in Completion
  BY DEF Completion, Dummy, Aborted, Accept, Closed
<1>1. ASSUME NEW c \in Conns, Connect(c) \/ Leave(c) PROVE Kinds'
  <2>1. /\ Append(port, Accept(c)) \in Seq(Completion)
        /\ Append(port, Closed(c)) \in Seq(Completion)
    BY <1>0 DEF Kinds
  <2>2. CASE Connect(c)
    <3>1. accepts - 1 \in Nat
      BY <2>2 DEF Connect, Kinds
    <3> QED
      BY <2>1, <2>2, <3>1 DEF Connect, Kinds
  <2>3. CASE Leave(c)
    BY <2>1, <2>3 DEF Leave, Kinds
  <2> QED
    BY <1>1, <2>2, <2>3
<1>2. ASSUME NEW w \in Workers, Worker(w) PROVE Kinds'
  BY <1>2, WorkerKinds
<1>3. CASE StatThread
  BY <1>3 DEF StatThread, Kinds
<1>4. CASE Start
  <2>1. ASSUME NEW w \in Workers, StartWorker(w) PROVE Kinds'
    BY <2>1 DEF StartWorker, Kinds, WorkerAt
  <2>2. CASE StartAccepts
    BY <2>2, ShutdownAssumption DEF StartAccepts, Kinds
  <2> QED
    BY <1>4, <2>1, <2>2 DEF Start, StartListen, StartFails, StartStat, LogInit, Kinds
<1>5. CASE StopBegin
  BY <1>5 DEF StopBegin, Kinds
<1>6. CASE Stop
  <2>1. CASE StopListening
    <3>1. port \o [i \in 1 .. accepts |-> Aborted] \in Seq(Completion)
      BY <1>0, Queued DEF Kinds
    <3> QED
      BY <2>1, <3>1 DEF StopListening, Kinds
  <2>2. CASE StopWake
    <3>1. Cardinality(Workers) \in Nat
      BY ShutdownAssumption, FS_CardinalityType
    <3>2. port \o [i \in 1 .. Cardinality(Workers) |-> Dummy] \in Seq(Completion)
      BY <1>0, <3>1, Queued DEF Kinds
    <3> QED
      BY <2>2, <3>2 DEF StopWake, Kinds
  <2> QED
    BY <1>6, <2>1, <2>2
    DEF Stop, StopJoin, StopJoinStat, StopLock, StopClose, StopClear, StopReturn, Kinds
<1>7. CASE UNCHANGED vars
  BY <1>7 DEF vars, Kinds
<1> QED
  BY <1>1, <1>2, <1>3, <1>4, <1>5, <1>6, <1>7 DEF Next

(* A worker goes on as long as running_ is set, and never starts again.    *)
LEMMA WorkerPhase ==
  ASSUME Kinds, Phase, NEW w \in Workers, Worker(w)
  PROVE  Phase'
<1>1. /\ UNCHANGED <<running, main, stat, log>>
      /\ at[w] \notin {"unborn", "out"}
      /\ \A v \in Workers \ {w} : at'[v] = at[v]
      /\ at'[w] # "unborn" /\ (running => at'[w] # "out")
  <2> USE DEF Go
  <2> at \in [Workers -> WorkerAt]
    BY DEF Kinds
  <2>1. CASE WorkerLoop(w)
    BY <2>1 DEF WorkerLoop
  <2>2. CASE WorkerWait(w)
    BY <2>2 DEF WorkerWait
  <2>3. CASE WorkerCheck(w)
    <3>1. item[w].op \in {"accept", "recv", "none"}
      BY DEF Completion, Kinds
    <3> QED
      BY <2>3, <3>1 DEF WorkerCheck
  <2>4. CASE WorkerRegister(w)
    BY <2>4 DEF WorkerRegister
  <2>5. CASE WorkerReaccept(w)
    BY <2>5 DEF WorkerReaccept
  <2>6. CASE WorkerWrite(w)
    BY <2>6 DEF WorkerWrite
  <2>7. CASE WorkerOverflow(w)
    BY <2>7 DEF WorkerOverflow
  <2>8. CASE WorkerUnregister(w)
    BY <2>8 DEF WorkerUnregister
  <2> QED
    BY <2>1, <2>2, <2>3, <2>4, <2>5, <2>6, <2>7, <2>8 DEF Worker
<1>2. main \notin {"start", "accept", "failed", "joinStat", "lock", "close", "relock",
                   "closeHandle", "returned"}
  BY <1>1 DEF Phase, Unborn
<1> QED
  BY <1>1, <1>2 DEF Phase, StartAt, StopAt

(* Start gets on when all workers are born.                                *)
LEMMA StartPhase ==
  ASSUME Kinds, Phase, Start
  PROVE  Phase'
<1> USE DEF Phase, Unborn, StartAt, StopAt
<1>1. CASE StartListen \/ StartFails
  BY <1>1 DEF StartListen, StartFails
<1>2. CASE StartAccepts
  BY <1>2 DEF StartAccepts
<1>3. ASSUME NEW w \in Workers, StartWorker(w) PROVE Phase'
  <2>1. \A v \in Workers : at'[v] = IF v = w THEN "loop" ELSE at[v]
    BY <1>3 DEF StartWorker, Kinds
  <2>2. main' \in {"spawn", "spawnStat"} /\ main = "spawn"
    BY <1>3 DEF StartWorker
  <2>3. main' = "spawnStat" => \A v \in Workers : at'[v] # "unborn"
    BY <1>3, <2>1 DEF StartWorker
  <2> QED
    BY <1>3, <2>1, <2>2, <2>3 DEF StartWorker
<1>4. CASE StartStat
  BY <1>4 DEF StartStat
<1>5. CASE LogInit
  BY <1>5 DEF LogInit
<1> QED
  BY <1>1, <1>2, <1>3, <1>4, <1>5 DEF Start

(* The joins let Stop pass when the threads are out.                       *)
LEMMA StopPhase ==
  ASSUME Kinds, Phase, Stop
  PROVE  Phase'
<1> USE DEF Phase, Unborn, StartAt, StopAt
<1>1. CASE StopListening
  BY <1>1 DEF StopListening
<1>2. CASE StopWake
  BY <1>2 DEF StopWake
<1>3. CASE StopJoin
  BY <1>3 DEF StopJoin
<1>4. CASE StopJoinStat
  BY <1>4 DEF StopJoinStat
<1>5. CASE StopLock
  BY <1>5 DEF StopLock
<1>6. CASE StopClose
  BY <1>6 DEF StopClose
<1>7. CASE StopClear
  BY <1>7 DEF StopClear
<1>8. CASE StopReturn
  BY <1>8 DEF StopReturn
<1> QED
  BY <1>1, <1>2, <1>3, <1>4, <1>5, <1>6, <1>7, <1>8 DEF Stop

(* Every step keeps Phase.                                                 *)
LEMMA PhaseStep ==
  ASSUME Kinds, Phase, [Next]_vars
  PROVE  Phase'
<1>1. ASSUME NEW c \in Conns, Connect(c) \/ Leave(c) PROVE Phase'
  BY <1>1 DEF Connect, Leave, Phase, Unborn
<1>2. ASSUME NEW w \in Workers, Worker(w) PROVE Phase'
  BY <1>2, WorkerPhase
<1>3. CASE StatThread
  BY <1>3 DEF StatThread, Phase, Unborn, StartAt, StopAt
<1>4. CASE Start
  BY <1>4, StartPhase
<1>5. CASE StopBegin
  BY <1>5 DEF StopBegin, Phase, Unborn, StartAt, StopAt
<1>6. CASE Stop
  BY <1>6, StopPhase
<1>7. CASE UNCHANGED vars
  BY <1>7 DEF vars, Phase, Unborn
<1> QED
  BY <1>1, <1>2, <1>3, <1>4, <1>5, <1>6, <1>7 DEF Next

(* A line is lost by a worker that writes while the log is not open.       *)
LEMMA LostStep ==
  ASSUME Kinds, Phase, [Next]_vars, lost' # lost
  PROVE  main \in StartAt \/ log = "failed"
<1>1. PICK w \in Workers : WorkerWrite(w)
  <2>1. ASSUME NEW w \in Workers, Worker(w), ~WorkerWrite(w) PROVE FALSE
    BY <2>1
    DEF Worker, WorkerLoop, WorkerWait, WorkerCheck, WorkerRegister, WorkerReaccept,
        WorkerOverflow, WorkerUnregister
  <2>2. ASSUME Start PROVE FALSE
    BY <2>2 DEF Start, StartListen, StartFails, StartAccepts, StartWorker, StartStat, LogInit
  <2>3. ASSUME Stop \/ StopBegin PROVE FALSE
    BY <2>3
    DEF Stop, StopBegin, StopListening, StopWake, StopJoin, StopJoinStat, StopLock, StopClose,
        StopClear, StopReturn
  <2> QED
    BY <2>1, <2>2, <2>3 DEF Next, Connect, Leave, StatThread, vars
<1>2. log # "open" /\ at[w] = "write"
  BY <1>1 DEF WorkerWrite
<1> QED
  BY <1>2 DEF Phase, Unborn, StopAt, StartAt

-----------------------------------------------------------------------------
(* The completions of AcceptEx operations queued and those a worker has    *)
(* taken and not replaced yet.                                             *)
Pending(q) == {i \in 1 .. Len(q) : q[i].op = "accept"}
Held       == {w \in Workers : \/ at[w] = "check" /\ item[w].op = "accept"
                               \/ at[w] \in {"register", "reaccept"}}

(* An AcceptEx is outstanding, queued or held.  An operation is aborted    *)
(* only after running_ has been cleared, so what a worker registers is a   *)
(* connection.                                                             *)
AcceptInv ==
  /\ main \in {"start", "accept", "failed"} =>
       accepts = 0 /\ port = <<>> /\ table = {}
  /\ accepts + Cardinality(Pending(port)) + Cardinality(Held) <= AcceptCount
  /\ main \in {"closeListen", "wake", "join"} => ~running
  /\ \A i \in 1 .. Len(port) : running \/ port[i].op = "recv" => port[i].c \in Conns
  /\ \A w \in Workers :
       /\ at[w] = "check" /\ (running \/ item[w].op = "recv") => item[w].c \in Conns
       /\ at[w] \in {"register", "unregister"} => item[w].c \in Conns

(* The other types.                                                        *)
PlainTypes ==
  /\ running \in BOOLEAN /\ listening \in BOOLEAN
  /\ link \in [Conns -> {"new", "up", "down", "closed"}]
  /\ table \subseteq Conns
  /\ lock \in Workers \cup {Main, None}
  /\ stat \in {"unborn", "loop", "sleep", "out"}
  /\ log \in {"closed", "opening", "open", "failed"} /\ lost \in Nat

(* Both sets are finite.                                                   *)
LEMMA Finite ==
  /\ \A q \in Seq(Completion) : IsFiniteSet(Pending(q)) /\ Cardinality(Pending(q)) \in Nat
  /\ IsFiniteSet(Held) /\ Cardinality(Held) \in Nat
<1>1. ASSUME NEW q \in Seq(Completion)
      PROVE  IsFiniteSet(Pending(q)) /\ Cardinality(Pending(q)) \in Nat
  <2>1. Len(q) \in Nat
    OBVIOUS
  <2>2. IsFiniteSet(1 .. Len(q))
    BY <2>1, FS_Interval
  <2>3. Pending(q) \in SUBSET (1 .. Len(q))
    BY DEF Pending
  <2>4. IsFiniteSet(Pending(q))
    BY <2>2, <2>3, FS_Subset
  <2> QED
    BY <2>4, FS_CardinalityType
<1>2. IsFiniteSet(Held)
  <2>1. Held \in SUBSET Workers
    BY DEF Held
  <2> QED
    BY <2>1, FS_Subset, ShutdownAssumption
<1> QED
  BY <1>1, <1>2, FS_CardinalityType

(* Taking the oldest completion from the queue.                            *)
LEMMA PendingTail ==
  ASSUME NEW q \in Seq(Completion), q # <<>>
  PROVE  Cardinality(Pending(Tail(q)))
           <= Cardinality(Pending(q)) - (IF Head(q).op = "accept" THEN 1 ELSE 0)
<1> DEFINE S == Pending(q) \ {1}
           T == Pending(Tail(q))
           f == [i \in T |-> i + 1]
<1>1. /\ Len(q) \in Nat /\ Len(q) > 0 /\ Head(q) = q[1]
      /\ Len(Tail(q)) = Len(q) - 1
      /\ \A i \in 1 .. Len(q) - 1 : Tail(q)[i] = q[i + 1]
  OBVIOUS
<1>2. \A i \in T : i \in Nat /\ i + 1 \in S
  BY <1>1 DEF Pending
<1>3. f \in Injection(T, S)
  <2>1. f \in [T -> S]
    BY <1>2
  <2>2. \A a, b \in T : f[a] = f[b] => a = b
    BY <1>2
  <2> QED
    BY <2>1, <2>2, Fun_IsInj, Zenon
<1>4. IsFiniteSet(Pending(q)) /\ Cardinality(Pending(q)) \in Nat
  BY Finite
<1>5. IsFiniteSet(S)
      /\ Cardinality(S) = IF 1 \in Pending(q) THEN Cardinality(Pending(q)) - 1
                          ELSE Cardinality(Pending(q))
  BY <1>4, FS_RemoveElement
<1>6. 1 \in Pending(q) <=> Head(q).op = "accept"
  BY <1>1 DEF Pending
<1> HIDE DEF S, T, f
<1>7. Cardinality(T) <= Cardinality(S)
  BY <1>3, <1>5, FS_Injection
<1> SUFFICES Cardinality(T) <= Cardinality(Pending(q)) - (IF Head(q).op = "accept" THEN 1 ELSE 0)
  BY DEF T
<1> QED
  BY <1>4, <1>5, <1>6, <1>7

(* Adding a number of completions to the queue.                            *)
LEMMA PendingMore ==
  ASSUME NEW q \in Seq(Completion), NEW n \in Nat, NEW x \in Completion
  PROVE  Cardinality(Pending(q \o [i \in 1 .. n |-> x]))
           <= Cardinality(Pending(q)) + (IF x.op = "accept" THEN n ELSE 0)
<1> DEFINE r == [i \in 1 .. n |-> x]
           T == (Len(q) + 1) .. (Len(q) + n)
<1>1. r \in Seq(Completion) /\ Len(r) = n /\ Len(q) \in Nat
  OBVIOUS
<1>2. /\ Len(q \o r) = Len(q) + n
      /\ \A i \in 1 .. Len(q) + n : (q \o r)[i] = IF i <= Len(q) THEN q[i] ELSE x
  BY <1>1
<1>3. Pending(q \o r) \subseteq Pending(q) \cup (IF x.op = "accept" THEN T ELSE {})
  BY <1>1, <1>2 DEF Pending
<1>4. IsFiniteSet(Pending(q)) /\ Cardinality(Pending(q)) \in Nat
  BY Finite
<1>5. IsFiniteSet(T) /\ Cardinality(T) = n
  <2>1. Len(q) + 1 \in Int /\ Len(q) + n \in Int
    BY <1>1
  <2>2. \A a, b \in Int : IsFiniteSet(a .. b)
                          /\ Cardinality(a .. b) = IF a > b THEN 0 ELSE b - a + 1
    BY FS_Interval
  <2>3. ASSUME NEW a \in Int, NEW b \in Int, a = Len(q) + 1, b = Len(q) + n
        PROVE  IsFiniteSet(a .. b) /\ Cardinality(a .. b) = n
    <3>1. Cardinality(a .. b) = IF a > b THEN 0 ELSE b - a + 1
      BY <2>2
    <3>2. IsFiniteSet(a .. b)
      BY <2>2
    <3> QED
      BY <1>1, <2>3, <3>1, <3>2
  <2> QED
    BY <2>1, <2>3, Zenon
<1>6. /\ IsFiniteSet(Pending(q) \cup T)
      /\ Cardinality(Pending(q) \cup T) <= Cardinality(Pending(q)) + n
  <2>1. /\ IsFiniteSet(Pending(q) \cup T) /\ IsFiniteSet(Pending(q) \cap T)
        /\ Cardinality(Pending(q) \cup T)
             = Cardinality(Pending(q)) + Cardinality(T) - Cardinality(Pending(q) \cap T)
    BY <1>4, <1>5, FS_Union, FS_Intersection
  <2>2. Cardinality(Pending(q) \cap T) \in Nat
    BY <2>1, FS_CardinalityType
  <2> QED
    BY <1>4, <1>5, <2>1, <2>2
<1> HIDE DEF T, r
<1>7. CASE x.op = "accept"
  <2>1. Pending(q \o r) \in SUBSET (Pending(q) \cup T)
    BY <1>3, <1>7
  <2>2. Cardinality(Pending(q \o r)) <= Cardinality(Pending(q) \cup T)
    BY <1>6, <2>1, FS_Subset
  <2>3. q \o r \in Seq(Completion)
    BY <1>1
  <2>4. Cardinality(Pending(q \o r)) \in Nat
    BY <2>3, Finite
  <2>5. Cardinality(Pending(q \o r)) <= Cardinality(Pending(q)) + n
    <3>1. Cardinality(Pending(q) \cup T) \in Nat
      BY <1>6, FS_CardinalityType
    <3> QED
      BY <1>4, <1>6, <2>2, <2>4, <3>1
  <2> QED
    BY <1>7, <2>5 DEF r
<1>8. CASE x.op # "accept"
  <2>1. Pending(q \o r) \in SUBSET Pending(q)
    BY <1>3, <1>8
  <2>2. Cardinality(Pending(q \o r)) <= Cardinality(Pending(q))
    BY <1>4, <2>1, FS_Subset
  <2> QED
    BY <1>4, <1>8, <2>2 DEF r
<1> QED
  BY <1>7, <1>8

(* One completion more.                                                    *)
LEMMA PendingOne ==
  ASSUME NEW q \in Seq(Completion), NEW x \in Completion
  PROVE  Cardinality(Pending(Append(q, x)))
           <= Cardinality(Pending(q)) + (IF x.op = "accept" THEN 1 ELSE 0)
<1>1. Append(q, x) = q \o [i \in 1 .. 1 |-> x]
  OBVIOUS
<1> QED
  BY <1>1, PendingMore

(* A step of one worker changes at most its own place in Held.             *)
LEMMA HeldStep ==
  ASSUME NEW w \in Workers, \A v \in Workers \ {w} : at'[v] = at[v] /\ item'[v] = item[v]
  PROVE  Cardinality(Held') <= Cardinality(Held)
           - (IF w \in Held THEN 1 ELSE 0) + (IF w \in Held' THEN 1 ELSE 0)
<1>1. Held' \ {w} = Held \ {w}
  BY DEF Held
<1>2. /\ IsFiniteSet(Held) /\ Cardinality(Held) \in Nat
      /\ IsFiniteSet(Held') /\ Cardinality(Held') \in Nat
  <2>1. Held' \in SUBSET Workers
    BY DEF Held
  <2>2. IsFiniteSet(Held')
    BY <2>1, FS_Subset, ShutdownAssumption
  <2> QED
    BY <2>2, Finite, FS_CardinalityType
<1>3. \A H : IsFiniteSet(H) => Cardinality(H \ {w}) =
               IF w \in H THEN Cardinality(H) - 1 ELSE Cardinality(H)
  BY FS_RemoveElement
<1>4. Cardinality(Held' \ {w}) =
        IF w \in Held' THEN Cardinality(Held') - 1 ELSE Cardinality(Held')
  BY <1>2, <1>3
<1>5. Cardinality(Held \ {w}) = IF w \in Held THEN Cardinality(Held) - 1 ELSE Cardinality(Held)
  BY <1>2, <1>3
<1> QED
  BY <1>1, <1>2, <1>4, <1>5

(* Nothing is outstanding at first.                                        *)
LEMMA AcceptInit == Init => AcceptInv /\ PlainTypes
<1> SUFFICES ASSUME Init PROVE AcceptInv /\ PlainTypes
  OBVIOUS
<1>1. Held = {} /\ Pending(port) = {}
  BY DEF Init, Held, Pending
<1>2. Cardinality({}) = 0
  BY FS_EmptySet
<1>3. AcceptInv
  <2>1. accepts = 0 /\ port = <<>> /\ table = {} /\ main = "start"
    BY DEF Init
  <2>2. Cardinality(Held) = 0 /\ Cardinality(Pending(port)) = 0 /\ Len(port) = 0
    BY <1>1, <1>2, <2>1
  <2>3. \A w \in Workers : at[w] = "unborn"
    BY DEF Init
  <2>4. accepts + Cardinality(Pending(port)) + Cardinality(Held) <= AcceptCount
    BY <2>1, <2>2, ShutdownAssumption
  <2> QED
    BY <2>1, <2>2, <2>3, <2>4 DEF AcceptInv
<1>4. PlainTypes
  BY DEF Init, PlainTypes
<1> QED
  BY <1>3, <1>4

(* What a worker does with the completion it takes.                        *)
LEMMA WorkerAccepts ==
  ASSUME Kinds, Phase, AcceptInv, PlainTypes, NEW w \in Workers, Worker(w)
  PROVE  AcceptInv' /\ PlainTypes'
<1>0. /\ port \in Seq(Completion) /\ Cardinality(Pending(port)) \in Nat
      /\ Cardinality(Held) \in Nat /\ accepts \in Nat /\ AcceptCount \in Nat
      /\ accepts + Cardinality(Pending(port)) + Cardinality(Held) <= AcceptCount
      /\ at \in [Workers -> WorkerAt] /\ item \in [Workers -> Completion]
  BY Finite, ShutdownAssumption DEF Kinds, AcceptInv
<1>t. /\ at[w] # "unborn" /\ main \notin {"start", "accept", "failed"}
      /\ UNCHANGED <<main, running, listening>>
      /\ \A v \in Workers \ {w} : at'[v] = at[v] /\ item'[v] = item[v]
  <2>1. /\ at[w] # "unborn" /\ UNCHANGED <<main, running, listening>>
        /\ \A v \in Workers \ {w} : at'[v] = at[v] /\ item'[v] = item[v]
    BY <1>0
    DEF Worker, WorkerLoop, WorkerWait, WorkerCheck, WorkerRegister, WorkerReaccept, WorkerWrite,
        WorkerOverflow, WorkerUnregister, Go
  <2> QED
    BY <2>1 DEF Phase, Unborn
<1>h. /\ Cardinality(Held') \in Nat
      /\ Cardinality(Held') <= Cardinality(Held)
           - (IF w \in Held THEN 1 ELSE 0) + (IF w \in Held' THEN 1 ELSE 0)
  <2>1. Held' \in SUBSET Workers
    BY DEF Held
  <2>2. IsFiniteSet(Held')
    BY <2>1, FS_Subset, ShutdownAssumption
  <2> QED
    BY <1>t, <2>2, HeldStep, FS_CardinalityType
<1>c. ASSUME /\ accepts' + Cardinality(Pending(port')) + Cardinality(Held') <= AcceptCount
             /\ \A i \in 1 .. Len(port') :
                  running \/ port'[i].op = "recv" => port'[i].c \in Conns
             /\ at'[w] = "check" /\ (running \/ item'[w].op = "recv") => item'[w].c \in Conns
             /\ at'[w] \in {"register", "unregister"} => item'[w].c \in Conns
      PROVE  AcceptInv'
  <2>1. \A v \in Workers :
          /\ at'[v] = "check" /\ (running' \/ item'[v].op = "recv") => item'[v].c \in Conns
          /\ at'[v] \in {"register", "unregister"} => item'[v].c \in Conns
    BY <1>t, <1>c DEF AcceptInv
  <2>2. Pending(port)' = Pending(port')
    BY DEF Pending
  <2> QED
    BY <1>t, <1>c, <2>1, <2>2 DEF AcceptInv
<1>k. ASSUME UNCHANGED <<port, item>>,
             accepts' + Cardinality(Held') <= accepts + Cardinality(Held),
             accepts' \in Nat,
             at'[w] # "check",
             at'[w] \in {"register", "unregister"} => item[w].c \in Conns
      PROVE  AcceptInv'
  <2>1. accepts' + Cardinality(Pending(port')) + Cardinality(Held') <= AcceptCount
    BY <1>0, <1>h, <1>k
  <2> QED
    BY <1>c, <1>k, <2>1 DEF AcceptInv
<1>1. CASE WorkerLoop(w) \/ WorkerWrite(w) \/ WorkerOverflow(w) \/ WorkerUnregister(w)
  <2>1. /\ UNCHANGED <<port, item, accepts>>
        /\ at'[w] \in {"wait", "out", "loop", "overflow"}
    BY <1>0, <1>1 DEF WorkerLoop, WorkerWrite, WorkerOverflow, WorkerUnregister, Go
  <2>2. w \notin Held'
    BY <2>1 DEF Held
  <2>3. AcceptInv'
    BY <1>0, <1>h, <1>k, <2>1, <2>2
  <2>4. CASE WorkerUnregister(w)
    <3>1. item[w].c \in Conns
      BY <2>4 DEF WorkerUnregister, AcceptInv
    <3> QED
      BY <2>3, <2>4, <3>1 DEF WorkerUnregister, PlainTypes
  <2> QED
    BY <1>1, <2>3, <2>4 DEF PlainTypes, WorkerLoop, WorkerWrite, WorkerOverflow
<1>2. CASE WorkerWait(w)
  <2>1. /\ port # <<>> /\ port' = Tail(port) /\ item'[w] = Head(port) /\ at'[w] = "check"
        /\ accepts' = accepts /\ at[w] = "wait"
    BY <1>0, <1>2 DEF WorkerWait, Go
  <2>2. w \notin Held /\ (w \in Held' <=> Head(port).op = "accept")
    BY <2>1 DEF Held
  <2>3. Cardinality(Pending(port'))
          <= Cardinality(Pending(port)) - (IF Head(port).op = "accept" THEN 1 ELSE 0)
    BY <1>0, <2>1, PendingTail
  <2>4. Cardinality(Pending(port')) \in Nat
    <3>1. port' \in Seq(Completion)
      BY <1>0, <2>1
    <3> QED
      BY <3>1, Finite
  <2>5. accepts' + Cardinality(Pending(port')) + Cardinality(Held') <= AcceptCount
    BY <1>0, <1>h, <2>1, <2>2, <2>3, <2>4
  <2>6. /\ Len(port) \in Nat /\ Len(port) > 0 /\ Head(port) = port[1]
        /\ Len(port') = Len(port) - 1
        /\ \A i \in 1 .. Len(port) - 1 : port'[i] = port[i + 1]
    BY <1>0, <2>1
  <2>7. \A i \in 1 .. Len(port') : running \/ port'[i].op = "recv" => port'[i].c \in Conns
    BY <2>6 DEF AcceptInv
  <2>8. running \/ item'[w].op = "recv" => item'[w].c \in Conns
    BY <2>1, <2>6 DEF AcceptInv
  <2>9. AcceptInv'
    BY <1>c, <2>1, <2>5, <2>7, <2>8
  <2> QED
    BY <1>2, <2>9 DEF WorkerWait, PlainTypes
<1>3. CASE WorkerCheck(w)
  <2>1. item[w].op \in {"accept", "recv", "none"}
    BY <1>0 DEF Completion
  <2>2. /\ UNCHANGED <<port, item, accepts>> /\ at[w] = "check"
        /\ \/ at'[w] = "out"
           \/ running /\ item[w].op = "accept" /\ at'[w] = "register"
           \/ running /\ item[w].op = "recv" /\ at'[w] = "unregister"
           \/ at'[w] = "loop"
    BY <1>0, <1>3, <2>1 DEF WorkerCheck, Go
  <2>3. w \in Held' => w \in Held
    BY <2>2 DEF Held
  <2>4. at'[w] \in {"register", "unregister"} => item[w].c \in Conns
    BY <2>2 DEF AcceptInv
  <2>5. AcceptInv'
    BY <1>0, <1>h, <1>k, <2>2, <2>3, <2>4
  <2> QED
    BY <1>3, <2>5 DEF WorkerCheck, PlainTypes
<1>4. CASE WorkerRegister(w)
  <2>1. UNCHANGED <<port, item, accepts>> /\ at[w] = "register" /\ at'[w] = "reaccept"
    BY <1>0, <1>4 DEF WorkerRegister, Go
  <2>2. w \in Held /\ w \in Held'
    BY <2>1 DEF Held
  <2>3. AcceptInv'
    BY <1>0, <1>h, <1>k, <2>1, <2>2
  <2>4. item[w].c \in Conns
    BY <2>1 DEF AcceptInv
  <2> QED
    BY <1>4, <2>3, <2>4 DEF WorkerRegister, PlainTypes
<1>5. CASE WorkerReaccept(w)
  <2>1. /\ UNCHANGED <<port, item>> /\ accepts' = accepts + 1
        /\ at[w] = "reaccept" /\ at'[w] = "write"
    BY <1>0, <1>5 DEF WorkerReaccept, Go
  <2>2. w \in Held /\ w \notin Held'
    BY <2>1 DEF Held
  <2>3. AcceptInv'
    BY <1>0, <1>h, <1>k, <2>1, <2>2
  <2> QED
    BY <1>5, <2>3 DEF WorkerReaccept, PlainTypes
<1> QED
  BY <1>1, <1>2, <1>3, <1>4, <1>5 DEF Worker

(* A step of nobody who holds a completion.                                *)
LEMMA AcceptKeep ==
  ASSUME Kinds, Kinds', AcceptInv, UNCHANGED <<at, item>>,
         accepts' + Cardinality(Pending(port')) <= accepts + Cardinality(Pending(port)),
         main' \in {"start", "accept", "failed"} => accepts' = 0 /\ port' = <<>> /\ table' = {},
         main' \in {"closeListen", "wake", "join"} => ~running',
         running' => running,
         \A i \in 1 .. Len(port') : running' \/ port'[i].op = "recv" => port'[i].c \in Conns
  PROVE  AcceptInv'
<1>1. Held' = Held
  BY DEF Held
<1>2. /\ Cardinality(Pending(port)) \in Nat /\ Cardinality(Pending(port')) \in Nat
      /\ Cardinality(Held) \in Nat /\ accepts \in Nat /\ accepts' \in Nat
      /\ AcceptCount \in Nat
  BY Finite, ShutdownAssumption DEF Kinds
<1>3. accepts' + Cardinality(Pending(port')) + Cardinality(Held) <= AcceptCount
  BY <1>2 DEF AcceptInv
<1>4. Cardinality(Held') = Cardinality(Held)
  BY <1>1
<1>5. Pending(port)' = Pending(port')
  BY DEF Pending
<1>6. \A w \in Workers :
        /\ at'[w] = "check" /\ (running' \/ item'[w].op = "recv") => item'[w].c \in Conns
        /\ at'[w] \in {"register", "unregister"} => item'[w].c \in Conns
  BY DEF AcceptInv
<1> QED
  BY <1>3, <1>4, <1>5, <1>6 DEF AcceptInv

(* And of one who does not touch the queue either.                         *)
LEMMA AcceptSame ==
  ASSUME Kinds, Kinds', AcceptInv, UNCHANGED <<at, item, accepts, port, table>>,
         main' \in {"start", "accept", "failed"} => main \in {"start", "accept", "failed"},
         main' \in {"closeListen", "wake", "join"} => ~running',
         running' => running
  PROVE  AcceptInv'
<1>1. /\ \A i \in 1 .. Len(port) : running \/ port[i].op = "recv" => port[i].c \in Conns
      /\ main \in {"start", "accept", "failed"} => accepts = 0 /\ port = <<>> /\ table = {}
  BY DEF AcceptInv
<1>2. accepts' + Cardinality(Pending(port')) <= accepts + Cardinality(Pending(port))
  BY Finite DEF Kinds
<1> QED
  BY <1>1, <1>2, AcceptKeep

(* One completion more is queued, of a client.                             *)
LEMMA AcceptQueued ==
  ASSUME Kinds, Kinds', AcceptInv, UNCHANGED <<at, item, main, running>>,
         NEW x \in Completion, x.c \in Conns, port' = Append(port, x), table # {} \/ accepts > 0,
         accepts' = accepts - (IF x.op = "accept" THEN 1 ELSE 0)
  PROVE  AcceptInv'
<1>1. main \notin {"start", "accept", "failed"}
  BY DEF AcceptInv, Kinds
<1>2. Cardinality(Pending(port'))
        <= Cardinality(Pending(port)) + (IF x.op = "accept" THEN 1 ELSE 0)
  BY PendingOne DEF Kinds
<1>3. Cardinality(Pending(port')) \in Nat /\ Cardinality(Pending(port)) \in Nat
      /\ accepts \in Nat /\ accepts' \in Nat
  BY Finite DEF Kinds
<1>4. accepts' + Cardinality(Pending(port')) <= accepts + Cardinality(Pending(port))
  BY <1>2, <1>3
<1>5. \A i \in 1 .. Len(port') : running \/ port'[i].op = "recv" => port'[i].c \in Conns
  <2>1. /\ Len(port') = Len(port) + 1 /\ Len(port) \in Nat /\ port'[Len(port) + 1] = x
        /\ \A i \in 1 .. Len(port) : port'[i] = port[i]
    BY DEF Kinds
  <2>2. \A i \in 1 .. Len(port) : running \/ port[i].op = "recv" => port[i].c \in Conns
    BY DEF AcceptInv
  <2> QED
    BY <2>1, <2>2
<1>6. main \in {"closeListen", "wake", "join"} => ~running
  BY DEF AcceptInv
<1> QED
  BY <1>1, <1>4, <1>5, <1>6, AcceptKeep

(* Stop queues n equal completions of nobody, aborted ones for those       *)
(* outstanding.                                                            *)
LEMMA StopQueues ==
  ASSUME Kinds, Kinds', AcceptInv, UNCHANGED <<at, item, running, table>>,
         NEW n \in Nat, NEW x \in Completion, x.op # "recv", ~running,
         port' = port \o [i \in 1 .. n |-> x],
         accepts' = accepts - (IF x.op = "accept" THEN n ELSE 0),
         main' \in {"wake", "join"}
  PROVE  AcceptInv'
<1>1. Cardinality(Pending(port'))
        <= Cardinality(Pending(port)) + (IF x.op = "accept" THEN n ELSE 0)
  BY PendingMore DEF Kinds
<1>2. Cardinality(Pending(port')) \in Nat /\ Cardinality(Pending(port)) \in Nat
      /\ accepts \in Nat /\ accepts' \in Nat
  BY Finite DEF Kinds
<1>3. accepts' + Cardinality(Pending(port')) <= accepts + Cardinality(Pending(port))
  BY <1>1, <1>2
<1>4. \A i \in 1 .. Len(port') : running' \/ port'[i].op = "recv" => port'[i].c \in Conns
  <2>1. /\ Len(port') = Len(port) + n /\ Len(port) \in Nat
        /\ \A i \in 1 .. Len(port) : port'[i] = port[i]
        /\ \A i \in 1 .. Len(port') : i > Len(port) => port'[i] = x
    <3>1. [i \in 1 .. n |-> x] \in Seq(Completion) /\ Len([i \in 1 .. n |-> x]) = n
      OBVIOUS
    <3> QED
      BY <3>1 DEF Kinds
  <2>2. \A i \in 1 .. Len(port) : port[i].op = "recv" => port[i].c \in Conns
    BY DEF AcceptInv
  <2> QED
    BY <2>1, <2>2
<1> QED
  BY <1>3, <1>4, AcceptKeep

(* Every step keeps them.                                                  *)
LEMMA AcceptStep ==
  ASSUME Kinds, Phase, Kinds', AcceptInv, PlainTypes, [Next]_vars
  PROVE  AcceptInv' /\ PlainTypes'
<1>1. ASSUME NEW c \in Conns, Connect(c) PROVE AcceptInv' /\ PlainTypes'
  <2>1. Accept(c) \in Completion /\ Accept(c).op = "accept" /\ Accept(c).c \in Conns
    BY DEF Accept, Completion
  <2>2. /\ UNCHANGED <<at, item, main, running>> /\ port' = Append(port, Accept(c))
        /\ accepts > 0 /\ accepts' = accepts - 1
    BY <1>1 DEF Connect
  <2>3. accepts' = accepts - (IF Accept(c).op = "accept" THEN 1 ELSE 0)
    BY <2>1, <2>2
  <2>4. AcceptInv'
    BY <2>1, <2>2, <2>3, AcceptQueued
  <2> QED
    BY <1>1, <2>4 DEF Connect, PlainTypes
<1>2. ASSUME NEW c \in Conns, Leave(c) PROVE AcceptInv' /\ PlainTypes'
  <2>1. Closed(c) \in Completion /\ Closed(c).op = "recv" /\ Closed(c).c \in Conns
    BY DEF Closed, Completion
  <2>2. /\ UNCHANGED <<at, item, main, running, accepts>> /\ port' = Append(port, Closed(c))
        /\ table # {}
    BY <1>2 DEF Leave
  <2>3. accepts' = accepts - (IF Closed(c).op = "accept" THEN 1 ELSE 0)
    BY <2>1, <2>2 DEF Kinds
  <2>4. AcceptInv'
    BY <2>1, <2>2, <2>3, AcceptQueued
  <2> QED
    BY <1>2, <2>4 DEF Leave, PlainTypes
<1>3. ASSUME NEW w \in Workers, Worker(w) PROVE AcceptInv' /\ PlainTypes'
  BY <1>3, WorkerAccepts
<1>4. CASE StatThread
  <2>1. UNCHANGED <<at, item, accepts, port, table, main, running>>
    BY <1>4 DEF StatThread
  <2>2. AcceptInv'
    BY <2>1, AcceptSame DEF AcceptInv
  <2> QED
    BY <1>4, <2>2 DEF StatThread, PlainTypes
<1>5. CASE Start
  <2>1. CASE StartAccepts
    <3>1. /\ main = "accept" /\ main' = "spawn" /\ running' = TRUE /\ accepts' = AcceptCount
          /\ UNCHANGED <<port, at, item, table>> /\ port = <<>>
      BY <2>1 DEF StartAccepts, AcceptInv
    <3>2. /\ Held' = {} /\ Pending(port)' = {} /\ Len(port') = 0
          /\ \A w \in Workers : at'[w] = "unborn"
      <4>1. \A w \in Workers : at[w] = "unborn"
        BY <3>1 DEF Phase, Unborn
      <4> QED
        BY <3>1, <4>1 DEF Held, Pending
    <3>3. accepts' + Cardinality(Pending(port)') + Cardinality(Held') <= AcceptCount
      <4>1. Cardinality(Pending(port)') = 0 /\ Cardinality(Held') = 0
        BY <3>2, FS_EmptySet
      <4> QED
        BY <3>1, <4>1, ShutdownAssumption
    <3>4. AcceptInv'
      BY <3>1, <3>2, <3>3 DEF AcceptInv
    <3> QED
      BY <2>1, <3>4 DEF StartAccepts, PlainTypes
  <2>2. CASE StartListen \/ StartFails \/ StartStat \/ LogInit
    <3>1. /\ UNCHANGED <<at, item, accepts, port, table, running>>
          /\ main' \in {"start", "accept", "failed"} => main \in {"start", "accept", "failed"}
          /\ main' \notin {"closeListen", "wake", "join"}
      BY <2>2 DEF StartListen, StartFails, StartStat, LogInit
    <3>2. AcceptInv'
      BY <3>1, AcceptSame
    <3> QED
      BY <2>2, <3>2 DEF StartListen, StartFails, StartStat, LogInit, PlainTypes
  <2>3. ASSUME NEW w \in Workers, StartWorker(w) PROVE AcceptInv' /\ PlainTypes'
    <3>1. /\ UNCHANGED <<port, item, accepts, table, running>>
          /\ main = "spawn" /\ main' \in {"spawn", "spawnStat"}
          /\ \A v \in Workers : at'[v] = IF v = w THEN "loop" ELSE at[v]
          /\ at[w] = "unborn"
      BY <2>3 DEF StartWorker, Kinds
    <3>2. Held' = Held
      BY <3>1 DEF Held
    <3>3. Cardinality(Held') = Cardinality(Held) /\ Pending(port)' = Pending(port)
      BY <3>1, <3>2 DEF Pending
    <3>4. AcceptInv'
      BY <3>1, <3>3 DEF AcceptInv
    <3> QED
      BY <2>3, <3>4 DEF StartWorker, PlainTypes
  <2> QED
    BY <1>5, <2>1, <2>2, <2>3 DEF Start
<1>6. CASE StopBegin
  <2>1. /\ UNCHANGED <<at, item, accepts, port, table>> /\ running' = FALSE
        /\ main' = "closeListen"
    BY <1>6 DEF StopBegin
  <2>2. AcceptInv'
    BY <2>1, AcceptSame
  <2> QED
    BY <1>6, <2>2 DEF StopBegin, PlainTypes
<1>7. CASE Stop
  <2>1. CASE StopListening
    <3>1. Aborted \in Completion /\ Aborted.op = "accept"
      BY DEF Aborted, Completion
    <3>2. /\ UNCHANGED <<at, item, running, table>> /\ accepts' = 0 /\ main' = "wake"
          /\ port' = port \o [i \in 1 .. accepts |-> Aborted]
      BY <2>1 DEF StopListening
    <3>3. ~running
      BY <2>1 DEF StopListening, AcceptInv
    <3>4. accepts \in Nat /\ accepts' = accepts - accepts
      BY <3>2 DEF Kinds
    <3>5. AcceptInv'
      BY <3>1, <3>2, <3>3, <3>4, StopQueues
    <3> QED
      BY <2>1, <3>5 DEF StopListening, PlainTypes
  <2>2. CASE StopWake
    <3>1. Dummy \in Completion /\ Dummy.op = "none"
      BY DEF Dummy, Completion
    <3>2. /\ UNCHANGED <<at, item, running, table, accepts>> /\ main' = "join"
          /\ port' = port \o [i \in 1 .. Cardinality(Workers) |-> Dummy]
      BY <2>2 DEF StopWake
    <3>3. ~running
      BY <2>2 DEF StopWake, AcceptInv
    <3>4. Cardinality(Workers) \in Nat /\ accepts' = accepts - 0
      BY <3>2, ShutdownAssumption, FS_CardinalityType DEF Kinds
    <3>5. AcceptInv'
      BY <3>1, <3>2, <3>3, <3>4, StopQueues
    <3> QED
      BY <2>2, <3>5 DEF StopWake, PlainTypes
  <2>3. CASE StopJoin \/ StopJoinStat \/ StopLock \/ StopClose \/ StopClear \/ StopReturn
    <3>1. /\ UNCHANGED <<at, item, accepts, port, table, running>>
          /\ main' \in {"joinStat", "lock", "close", "relock", "closeHandle", "returned"}
      BY <2>3 DEF StopJoin, StopJoinStat, StopLock, StopClose, StopClear, StopReturn
    <3>2. /\ main' \notin {"start", "accept", "failed"}
          /\ main' \notin {"closeListen", "wake", "join"}
          /\ running' => running
      BY <3>1
    <3>3. AcceptInv'
      BY <3>1, <3>2, AcceptSame
    <3> QED
      BY <2>3, <3>3
      DEF StopJoin, StopJoinStat, StopLock, StopClose, StopClear, StopReturn, PlainTypes
  <2> QED
    BY <1>7, <2>1, <2>2, <2>3 DEF Stop
<1>8. CASE UNCHANGED vars
  <2>1. UNCHANGED <<at, item, accepts, port, table, main, running>>
    BY <1>8 DEF vars
  <2>2. AcceptInv'
    BY <2>1, AcceptSame DEF AcceptInv
  <2> QED
    BY <1>8, <2>2 DEF vars, PlainTypes
<1> QED
  BY <1>1, <1>2, <1>3, <1>4, <1>5, <1>6, <1>7, <1>8 DEF Next

(* The workers that wait at the port.                                      *)
Waiting == {w \in Workers : at[w] = "wait"}

(* A step in which nobody begins to wait and the queue does not shrink.    *)
LEMMA WaitingKept ==
  ASSUME Kinds, Kinds', EnoughWoken, main' = "join" => main = "join",
         Waiting' \subseteq Waiting, Len(port') >= Len(port)
  PROVE  EnoughWoken'
<1>1. IsFiniteSet(Waiting) /\ Cardinality(Waiting) \in Nat
  <2>1. Waiting \in SUBSET Workers
    BY DEF Waiting
  <2> QED
    BY <2>1, FS_Subset, FS_CardinalityType, ShutdownAssumption
<1>2. Cardinality(Waiting') \in Nat /\ Cardinality(Waiting') <= Cardinality(Waiting)
  BY <1>1, FS_Subset, FS_CardinalityType
<1>3. Len(port) \in Nat /\ Len(port') \in Nat
  BY DEF Kinds
<1> QED
  BY <1>1, <1>2, <1>3 DEF EnoughWoken, Waiting

(* A worker that takes a completion waits no longer, and with running_     *)
(* cleared none begins to.                                                 *)
LEMMA WaitingWorker ==
  ASSUME Kinds, Kinds', AcceptInv, EnoughWoken, NEW w \in Workers, Worker(w)
  PROVE  EnoughWoken'
<1>0. at \in [Workers -> WorkerAt] /\ port \in Seq(Completion)
  BY DEF Kinds
<1>1. CASE WorkerLoop(w)
  <2>1. main' = main /\ port' = port
    BY <1>1 DEF WorkerLoop
  <2>2. CASE main = "join"
    <3>1. ~running
      BY <2>2 DEF AcceptInv
    <3>2. Waiting' \subseteq Waiting
      BY <1>0, <1>1, <3>1 DEF WorkerLoop, Go, Waiting
    <3> QED
      BY <1>0, <2>1, <3>2, WaitingKept
  <2> QED
    BY <2>1, <2>2 DEF EnoughWoken
<1>2. CASE WorkerWait(w)
  <2>1. /\ main' = main /\ port # <<>> /\ port' = Tail(port) /\ at[w] = "wait"
        /\ at' = [at EXCEPT ![w] = "check"]
    BY <1>2 DEF WorkerWait, Go
  <2>2. w \in Waiting /\ Waiting' = Waiting \ {w}
    BY <1>0, <2>1 DEF Waiting
  <2>3. IsFiniteSet(Waiting) /\ Cardinality(Waiting) \in Nat
    <3>1. Waiting \in SUBSET Workers
      BY DEF Waiting
    <3> QED
      BY <3>1, FS_Subset, FS_CardinalityType, ShutdownAssumption
  <2>4. Cardinality(Waiting') = Cardinality(Waiting) - 1
    BY <2>2, <2>3, FS_RemoveElement
  <2>5. Len(port) \in Nat /\ Len(port') = Len(port) - 1
    BY <1>0, <2>1
  <2> QED
    BY <2>1, <2>3, <2>4, <2>5 DEF EnoughWoken, Waiting
<1>3. ASSUME ~WorkerLoop(w), ~WorkerWait(w) PROVE EnoughWoken'
  <2>0. item[w].op \in {"accept", "recv", "none"}
    BY DEF Kinds, Completion
  <2>1. /\ main' = main /\ port' = port /\ at'[w] # "wait"
        /\ \A v \in Workers \ {w} : at'[v] = at[v]
    BY <1>0, <1>3, <2>0
    DEF Worker, WorkerCheck, WorkerRegister, WorkerReaccept, WorkerWrite, WorkerOverflow,
        WorkerUnregister, Go
  <2>2. Waiting' \subseteq Waiting
    BY <1>0, <2>1 DEF Waiting
  <2> QED
    BY <1>0, <2>1, <2>2, WaitingKept
<1> QED
  BY <1>1, <1>2, <1>3

(* Every step keeps it; StopWake makes it true.                            *)
LEMMA WokenStep ==
  ASSUME Kinds, Phase, Kinds', AcceptInv, EnoughWoken, [Next]_vars
  PROVE  EnoughWoken'
<1>0. port \in Seq(Completion) /\ Len(port) \in Nat
  BY DEF Kinds
<1>1. ASSUME main' # "join" PROVE EnoughWoken'
  BY <1>1 DEF EnoughWoken
<1>2. ASSUME UNCHANGED <<main, at>>, Len(port') >= Len(port) PROVE EnoughWoken'
  BY <1>2, WaitingKept DEF Waiting
<1>3. ASSUME NEW c \in Conns, Connect(c) \/ Leave(c) PROVE EnoughWoken'
  <2>1. /\ UNCHANGED <<main, at>>
        /\ port' = Append(port, Accept(c)) \/ port' = Append(port, Closed(c))
    BY <1>3 DEF Connect, Leave
  <2>2. Len(port') = Len(port) + 1
    BY <1>0, <2>1
  <2> QED
    BY <1>0, <1>2, <2>1, <2>2
<1>4. ASSUME NEW w \in Workers, Worker(w) PROVE EnoughWoken'
  BY <1>4, WaitingWorker
<1>5. CASE StatThread
  BY <1>0, <1>2, <1>5 DEF StatThread
<1>6. CASE Start \/ StopBegin
  BY <1>1, <1>6
  DEF Start, StartListen, StartFails, StartAccepts, StartWorker, StartStat, LogInit, StopBegin
<1>7. CASE Stop
  <2>1. CASE StopWake
    <3>1. Cardinality(Workers) \in Nat /\ IsFiniteSet(Workers)
      BY ShutdownAssumption, FS_CardinalityType
    <3>2. Len([i \in 1 .. Cardinality(Workers) |-> Dummy]) = Cardinality(Workers)
      BY <3>1
    <3>3. Dummy \in Completion
      BY DEF Dummy, Completion
    <3>4. Len(port') = Len(port) + Cardinality(Workers)
      BY <1>0, <2>1, <3>1, <3>2, <3>3 DEF StopWake
    <3>5. Waiting' \in SUBSET Workers
      BY DEF Waiting
    <3>6. Cardinality(Waiting') <= Cardinality(Workers) /\ Cardinality(Waiting') \in Nat
      BY <3>1, <3>5, FS_Subset, FS_CardinalityType
    <3> QED
      BY <1>0, <3>1, <3>4, <3>6 DEF EnoughWoken, Waiting
  <2> QED
    BY <1>1, <1>7, <2>1
    DEF Stop, StopListening, StopJoin, StopJoinStat, StopLock, StopClose, StopClear, StopReturn
<1>8. CASE UNCHANGED vars
  BY <1>0, <1>2, <1>8 DEF vars
<1> QED
  BY <1>3, <1>4, <1>5, <1>6, <1>7, <1>8 DEF Next

-----------------------------------------------------------------------------
(* While the server serves, every thread of it is running, and when Stop   *)
(* tears down (or Start has failed) none is.                               *)
THEOREM StartStopHolds == Spec => [](AllServe /\ NobodyLeft)
<1>1. Kinds /\ Phase /\ [Next]_vars => Kinds' /\ Phase'
  BY KindsStep, PhaseStep
<1>2. Phase => AllServe /\ NobodyLeft
  BY DEF Phase, Unborn, AllServe, NobodyLeft
<1> QED
  BY ShutdownInit, <1>1, <1>2, PTL DEF Spec

(* A line of the log is only ever lost before Start has opened the files,  *)
(* or when a file could not be opened.                                     *)
THEOREM LogIsKept == Spec => LogKept
<1>1. Kinds /\ Phase /\ [Next]_vars => Kinds' /\ Phase'
  BY KindsStep, PhaseStep
<1>2. Kinds /\ Phase /\ [Next]_vars => [lost' # lost => main \in StartAt \/ log = "failed"]_vars
  BY LostStep
<1> QED
  BY ShutdownInit, <1>1, <1>2, PTL DEF Spec, LogKept

(* The types of Start and Stop; in particular there are never more than    *)
(* acceptOutstanding_ AcceptEx operations, and only connections are        *)
(* registered.                                                             *)
THEOREM ShutdownTypes == Spec => []TypeOK
<1> DEFINE I == Kinds /\ Phase /\ AcceptInv /\ PlainTypes
<1>1. I /\ [Next]_vars => I'
  <2> SUFFICES ASSUME I, [Next]_vars PROVE I'
    OBVIOUS
  <2>1. Kinds' /\ Phase'
    BY KindsStep, PhaseStep
  <2> QED
    BY <2>1, AcceptStep
<1>2. I => TypeOK
  <2> SUFFICES ASSUME I PROVE TypeOK
    OBVIOUS
  <2>1. accepts \in 0 .. AcceptCount
    <3>1. /\ Cardinality(Pending(port)) \in Nat /\ Cardinality(Held) \in Nat
          /\ accepts \in Nat /\ AcceptCount \in Nat
      BY Finite, ShutdownAssumption DEF Kinds
    <3> QED
      BY <3>1 DEF AcceptInv
  <2>2. main \in StartAt \cup {"failed", "serving"} \cup StopAt
    BY DEF Phase
  <2> QED
    BY <2>1, <2>2 DEF TypeOK, Kinds, PlainTypes, AcceptInv
<1>3. Init => I
  BY ShutdownInit, AcceptInit
<1> HIDE DEF I
<1> QED
  BY <1>1, <1>2, <1>3, PTL DEF Spec

(* The empty completions of Stop reach every worker that waits, so that    *)
(* the joins do not wait for a sleeping thread, for every number of them.  *)
THEOREM AllAreWoken == Spec => []EnoughWoken
<1> DEFINE I == Kinds /\ Phase /\ AcceptInv /\ PlainTypes /\ EnoughWoken
<1>1. I /\ [Next]_vars => I'
  <2> SUFFICES ASSUME I, [Next]_vars PROVE I'
    OBVIOUS
  <2>1. Kinds' /\ Phase'
    BY KindsStep, PhaseStep
  <2> QED
    BY <2>1, AcceptStep, WokenStep
<1>2. Init => I
  BY ShutdownInit, AcceptInit DEF EnoughWoken, Init
<1>3. I => EnoughWoken
  OBVIOUS
<1> HIDE DEF I
<1> QED
  BY <1>1, <1>2, <1>3, PTL DEF Spec
=============================================================================
