-------------------------- MODULE EchoClientProofs --------------------------
(***************************************************************************)
(* The client, for all texts and bounds.  It cleans up once: ClosedOnce    *)
(* speaks of the end, and Closer says who is on the way to it: while       *)
(* running_ is set nobody, afterwards one thread until it has cleaned up.  *)
(* It sends whole packets, and none the server refuses: that needs to know *)
(* which packet an unfinished send belongs to (UpInv).  It shows what it   *)
(* is sent whole and in order (ShowInv); while its session is not to be    *)
(* closed, each of its questions gets an answer into the queue or out of   *)
(* it (CountInv).  The others know it by one name: the nickname is set     *)
(* once, the login goes first (NameInv), and an exit last (ExitInv).       *)
(***************************************************************************)
EXTENDS EchoClient, TLAPS, SequenceTheorems, FiniteSetTheorems

StopSteps == {"close", "forget", "cleanup"}

MainAt   == StartAt \cup {"joinTx", "joinRx"} \cup StopAt
ThreadAt == {"idle", "loop", "recv", "blocked", "getline", "send"} \cup StopAt

Begun == at["rx"] # "idle"

(* Before run() there is one thread, and it knows what it has to undo.     *)
Starting ==
  /\ at["tx"] = "idle" /\ ~running
  /\ at["main"] \in StartAt \cup {"done"}
  /\ at["main"] = "init" => started = 0 /\ cleaned = 0 /\ ~open /\ ~sock
  /\ at["main"] = "create" => started = 1 /\ cleaned = 0 /\ ~open /\ ~sock
  /\ at["main"] \in {"connect", "run"} => started = 1 /\ cleaned = 0 /\ open /\ sock
  /\ at["main"] = "done" => started \in {0, 1} /\ cleaned = started /\ ~open

(* The first stop() finds running_ set; the thread it is in closes.        *)
Closer ==
  /\ at["tx"] # "idle" /\ at["main"] \notin StartAt
  /\ started = 1
  /\ at["main"] \in {"joinRx"} \cup StopAt => at["tx"] = "done"
  /\ at["main"] \in StopAt => at["rx"] = "done"
  /\ at["main"] = "done" => ~running
  /\ running => /\ cleaned = 0 /\ open /\ sock
                /\ \A t \in Threads : at[t] \notin StopSteps
  /\ ~running =>
       \/ /\ cleaned = 1 /\ ~open
          /\ \A t \in Threads : at[t] \notin StopSteps
       \/ \E t \in Threads :
            /\ at[t] \in StopSteps /\ cleaned = 0
            /\ at[t] = "close" => open /\ sock
            /\ at[t] # "close" => ~open
            /\ \A u \in Threads \ {t} : at[u] \notin StopSteps

ClientInv ==
  /\ at \in [Threads -> MainAt \cup ThreadAt]
  /\ running \in BOOLEAN /\ sock \in BOOLEAN /\ open \in BOOLEAN
  /\ at["main"] \in MainAt /\ at["rx"] \in ThreadAt /\ at["tx"] \in ThreadAt
  /\ IF Begun THEN Closer ELSE Starting

(* The client starts in main, with nothing to undo.                        *)
LEMMA ClientInit == Init => ClientInv
BY DEF Init, ClientInv, Begun, Starting, Threads, MainAt, ThreadAt, StartAt, StopAt

(* A step of a thread outside stop() that leaves the socket alone.         *)
LEMMA Elsewhere ==
  ASSUME ClientInv, Begun, NEW t \in {"rx", "tx"}, NEW l \in ThreadAt \ ({"idle"} \cup StopSteps),
         at[t] \notin StopSteps \cup {"done", "idle"},
         l # "done", at' = [at EXCEPT ![t] = l], UNCHANGED socket
  PROVE  ClientInv'
<1>1. \A u \in Threads : at'[u] = IF u = t THEN l ELSE at[u]
  BY DEF ClientInv
<1>2. UNCHANGED <<running, sock, open, started, cleaned>>
  BY DEF socket
<1>3. t \in Threads /\ Begun'
  BY <1>1 DEF Begun, Threads
<1>4. at' \in [Threads -> MainAt \cup ThreadAt]
  BY DEF ClientInv
<1>5. at'["main"] = at["main"] /\ at'["rx"] \in ThreadAt /\ at'["tx"] \in ThreadAt
  BY <1>1 DEF ClientInv, Threads
<1>6. Closer
  BY DEF ClientInv
<1>7. Closer'
  BY <1>1, <1>2, <1>3, <1>5, <1>6 DEF Closer, Threads, StopSteps
<1> QED
  BY <1>2, <1>3, <1>4, <1>5, <1>7 DEF ClientInv

(* A step of stop(), in whichever thread.                                  *)
LEMMA Stopping ==
  ASSUME ClientInv, NEW t \in Threads, StopStep(t)
  PROVE  ClientInv'
<1>0. at \in [Threads -> MainAt \cup ThreadAt] /\ t \in {"main", "rx", "tx"}
  BY DEF ClientInv, Threads
<1>1. at[t] \in StopAt \ {"done"}
  BY DEF StopStep, Stop, StopClose, StopForget, StopCleanup, StopAt
<1>2. Begun /\ Closer
  BY <1>1 DEF ClientInv, Starting, Begun, Threads, StopAt, StartAt
<1>3. /\ \A u \in Threads \ {t} : at'[u] = at[u]
      /\ at'[t] \in StopAt \ {"stop"}
      /\ at' \in [Threads -> MainAt \cup ThreadAt]
  BY <1>0 DEF StopStep, Stop, StopClose, StopForget, StopCleanup, Go, StopAt, MainAt
<1>4. Begun' /\ at'["tx"] # "idle"
  BY <1>0, <1>2, <1>3 DEF Begun, Closer, StopAt, Threads
<1>5. /\ at'["main"] \in MainAt \ StartAt /\ at'["rx"] \in ThreadAt
      /\ at'["tx"] \in ThreadAt
  BY <1>0, <1>2, <1>3 DEF ClientInv, Closer, StopAt, StartAt, Threads, MainAt, ThreadAt
<1>6. /\ started' = 1
      /\ running' = FALSE
      /\ sock' \in BOOLEAN /\ open' \in BOOLEAN
  BY <1>2 DEF StopStep, Stop, StopClose, StopForget, StopCleanup, ClientInv, Closer, StopSteps
<1>7. Closer'
  <2>1. /\ at'["main"] \in {"joinRx"} \cup StopAt => at'["tx"] = "done"
        /\ at'["main"] \in StopAt => at'["rx"] = "done"
    BY <1>0, <1>1, <1>2, <1>3 DEF Closer, Threads, StopAt
  <2>2. \/ /\ cleaned' = 1 /\ ~open'
           /\ \A u \in Threads : at'[u] \notin StopSteps
        \/ \E v \in Threads :
             /\ at'[v] \in StopSteps /\ cleaned' = 0
             /\ at'[v] = "close" => open' /\ sock'
             /\ at'[v] # "close" => ~open'
             /\ \A u \in Threads \ {v} : at'[u] \notin StopSteps
    <3> USE DEF Go, StopSteps
    <3>1. CASE Stop(t)
      <4>1. CASE running
        BY <1>0, <1>2, <1>3, <3>1, <4>1 DEF Stop, Closer
      <4>2. CASE ~running
        BY <1>0, <1>2, <1>3, <3>1, <4>2 DEF Stop, Closer
      <4> QED
        BY <4>1, <4>2
    <3>2. CASE StopClose(t)
      BY <1>0, <1>2, <1>3, <3>2 DEF StopClose, Closer
    <3>3. CASE StopForget(t)
      BY <1>0, <1>2, <1>3, <3>3 DEF StopForget, Closer
    <3>4. CASE StopCleanup(t)
      BY <1>0, <1>2, <1>3, <3>4 DEF StopCleanup, Closer
    <3> QED
      BY <3>1, <3>2, <3>3, <3>4 DEF StopStep
  <2> QED
    BY <1>4, <1>5, <1>6, <2>1, <2>2 DEF Closer
<1> QED
  BY <1>3, <1>4, <1>5, <1>6, <1>7 DEF ClientInv

(* The steps of main before run() and at the joins.                        *)
LEMMA MainSteps ==
  ASSUME ClientInv, InitWinsock \/ CreateSocket \/ ConnectToServer \/ Run \/ Join
  PROVE  ClientInv'
<1>0. at \in [Threads -> MainAt \cup ThreadAt]
  BY DEF ClientInv
<1> USE DEF Go, ClientInv, Begun, Starting, Threads, MainAt, ThreadAt, StartAt, StopAt
<1>1. CASE InitWinsock
  BY <1>0, <1>1 DEF InitWinsock, Closer
<1>2. CASE CreateSocket
  <2>1. Starting /\ ~Begun /\ at["main"] = "create"
    BY <1>2 DEF CreateSocket, Closer
  <2>2. \E l \in {"connect", "done"} :
          /\ at' = [at EXCEPT !["main"] = l]
          /\ l = "connect" => sock' = TRUE /\ open' = TRUE /\ cleaned' = 0
          /\ l = "done" => sock' = FALSE /\ open' = FALSE /\ cleaned' = 1
    BY <1>2, <2>1 DEF CreateSocket
  <2>3. started' = 1 /\ running' = FALSE
    BY <1>2, <2>1 DEF CreateSocket
  <2> QED
    BY <1>0, <2>1, <2>2, <2>3
<1>3. CASE ConnectToServer
  <2>1. Starting /\ ~Begun /\ at["main"] = "connect"
    BY <1>3 DEF ConnectToServer, Closer
  <2>2. \E l \in {"run", "done"} :
          /\ at' = [at EXCEPT !["main"] = l]
          /\ l = "run" => open' /\ cleaned' = 0
          /\ l = "done" => ~open' /\ cleaned' = 1
          /\ open' \in BOOLEAN
    <3>1. open \in BOOLEAN /\ open /\ cleaned = 0
      BY <2>1
    <3>2. CASE UNCHANGED <<open, cleaned>> /\ Go("main", "run")
      BY <3>1, <3>2
    <3>3. CASE open' = FALSE /\ cleaned' = cleaned + 1 /\ Go("main", "done")
      <4>1. at' = [at EXCEPT !["main"] = "done"] /\ ~open' /\ open' \in BOOLEAN
        BY <3>3
      <4>2. cleaned' = 1
        BY <3>1, <3>3
      <4> QED
        BY <4>1, <4>2, Zenon
    <3> QED
      BY <1>3, <3>2, <3>3 DEF ConnectToServer
  <2>3. started' = 1 /\ running' = FALSE /\ sock' = TRUE
    BY <1>3, <2>1 DEF ConnectToServer
  <2> QED
    BY <1>0, <2>1, <2>2, <2>3
<1>4. CASE Run
  BY <1>0, <1>4 DEF Run, Closer, StopSteps
<1>5. CASE Join
  BY <1>0, <1>5 DEF Join, socket, Closer, StopSteps
<1> QED
  BY <1>1, <1>2, <1>3, <1>4, <1>5

(* A thread outside stop() leaves the socket alone.                        *)
LEMMA ThreadSteps ==
  ASSUME ClientInv, (ReceiveThread /\ ~StopStep("rx")) \/ (SendThread /\ ~StopStep("tx")) \/ User
  PROVE  ClientInv'
<1> DEFINE Moves(t) ==
      /\ at[t] \notin StopSteps \cup {"done", "idle"}
      /\ UNCHANGED socket
      /\ \E l \in ThreadAt \ ({"idle", "done"} \cup StopSteps) : at' = [at EXCEPT ![t] = l]
<1>1. ASSUME ReceiveThread /\ ~StopStep("rx") PROVE Moves("rx")
  BY <1>1
  DEF ReceiveThread, ReceiveLoop, Recv, RecvEnd, RecvData, Go, ThreadAt, StopAt, StopSteps
<1>2. ASSUME (SendThread /\ ~StopStep("tx")) \/ User PROVE Moves("tx")
  BY <1>2
  DEF SendThread, SendLoop, Send, SendFails, User, EndOfInput, TypeLine, Go, ThreadAt, StopAt,
      StopSteps
<1>3. PICK t \in {"rx", "tx"} : Moves(t)
  BY <1>1, <1>2
<1>4. Begun
  BY <1>3 DEF ClientInv, Begun, Starting
<1> QED
  BY <1>3, <1>4, Elsewhere

(* Every step keeps the places of the threads and the state of the socket. *)
LEMMA ClientStep == ClientInv /\ [Next]_vars => ClientInv'
<1> SUFFICES ASSUME ClientInv, [Next]_vars PROVE ClientInv'
  OBVIOUS
<1>1. CASE MainThread
  BY <1>1, MainSteps, Stopping DEF MainThread, Threads
<1>2. CASE ReceiveThread \/ SendThread \/ User
  BY <1>2, ThreadSteps, Stopping DEF Threads
<1>3. CASE UNCHANGED <<socket, at>>
  BY <1>3 DEF socket, ClientInv, Begun, Starting, Closer
<1> QED
  BY <1>1, <1>2, <1>3
  DEF Next, OnPacket, OnClientConnected, OtherTalks, PostSend, ServerLeaves, vars

-----------------------------------------------------------------------------
(* A packet is the faulty one, or as long as it says and as its class is;  *)
(* all questions for the number of users are alike.                        *)
Record   == [id : Requests, size : Nat, len : Nat, name : Nat, text : Nat, ok : BOOLEAN]
Sound    == {p \in Record : /\ p.len = p.size /\ p.size = PacketSize(p.id)
                            /\ p.id = "UserCountReq" => p = PKUserCountReq}
Message  == {p \in Record : p = FakePacket \/ p \in Sound}
Transfer == [p : Message, from : Nat, out : Nat]

(* Nothing can be sent any more.                                           *)
Mute == peer = "dead" \/ ~sock \/ ~open

(* A packet begun and not finished is the one being sent, or the last.     *)
UpInv ==
  /\ msg \in Message /\ nick \in Nat /\ peer \in {"up", "left", "dead"}
  /\ up \in Seq(Transfer)
  /\ \A i \in 1 .. Len(up) : up[i].out \in 1 .. up[i].p.len
  /\ ~Begun => up = <<>>
  /\ up # <<>> /\ up[Len(up)].out # up[Len(up)].p.len =>
       Mute \/ (at["tx"] = "send" /\ msg = up[Len(up)].p)

(* The packets of the client are packets.                                  *)
LEMMA Lengths ==
  \A c \in {"ChatMessage", "Exit", "LoginReq", "UserCountReq"} :
    Blank(c) \in Sound /\ Blank(c).id = c
<1>1. /\ PacketSize("ChatMessage") = 300 /\ PacketSize("Exit") = 36
      /\ PacketSize("LoginReq") = 36 /\ PacketSize("UserCountReq") = 4
  BY DEF PacketSize, BodySize, HeaderSize, NameField, TextField
<1>2. ASSUME NEW c \in {"ChatMessage", "Exit", "LoginReq", "UserCountReq"}
      PROVE  Blank(c) \in Sound /\ Blank(c).id = c
  <2>1. PacketSize(c) \in Nat
    BY <1>1
  <2>2. c \in Requests
    BY DEF Requests
  <2>3. /\ Blank(c).id = c /\ Blank(c) \in Record
        /\ Blank(c).len = PacketSize(c) /\ Blank(c).size = PacketSize(c)
    BY <2>1, <2>2 DEF Blank, Record
  <2>4. c = "UserCountReq" => Blank(c) = PKUserCountReq
    BY Zenon DEF PKUserCountReq
  <2> QED
    BY <2>3, <2>4 DEF Sound
<1> QED
  BY <1>2

(* What a line is sent as is a packet.                                     *)
LEMMA Typed ==
  ASSUME NEW l \in Line, nick \in Nat
  PROVE  Packet(l) \in Message /\ l.text \in Nat
<1>1. l.text \in Nat
  <2>1. CASE l \in [cmd : Commands, text : {0}]
    BY <2>1
  <2>2. CASE l \in [cmd : {"none"}, text : Texts]
    BY <2>2, ClientAssumption
  <2> QED
    BY <2>1, <2>2 DEF Line
<1>2. \A n \in Nat : Cut(n, NameField) \in Nat /\ Cut(n, TextField) \in Nat
  BY DEF Cut, NameField, TextField
<1>3. PKExit(nick) \in Sound
  BY <1>2, Lengths DEF PKExit, Named, Sound, Record
<1>4. PKUserCountReq \in Sound
  BY Lengths DEF PKUserCountReq
<1>5. FakePacket \in Message
  <2>1. Blank("ChatMessage") \in Sound /\ Blank("ChatMessage").id = "ChatMessage"
    BY Lengths
  <2>2. FakeSize \in Nat /\ HeaderSize + 4 \in Nat
    BY ClientAssumption DEF HeaderSize
  <2> QED
    BY <2>1, <2>2 DEF FakePacket, Message, Sound, Record
<1>6. PKLoginReq(l.text) \in Sound
  BY <1>1, <1>2, Lengths DEF PKLoginReq, Named, Sound, Record
<1>7. ASSUME NEW n \in Nat PROVE PKChatMessage(n, l.text) \in Sound
  <2>1. Named("ChatMessage", n) \in Sound /\ Named("ChatMessage", n).id = "ChatMessage"
    BY <1>2, Lengths DEF Named, Sound, Record
  <2> QED
    BY <1>1, <1>2, <2>1 DEF PKChatMessage, Said, Sound, Record
<1>8. (IF nick = 0 THEN NoName ELSE nick) \in Nat
  BY DEF NoName
<1>9. l.cmd \in {"leave", "count", "error", "none"}
  BY DEF Line, Commands
<1>10. PKChatMessage(IF nick = 0 THEN NoName ELSE nick, l.text) \in Sound
  BY <1>7, <1>8
<1>11. /\ l.cmd = "leave" => Packet(l) = PKExit(nick)
       /\ l.cmd = "count" => Packet(l) = PKUserCountReq
       /\ l.cmd = "error" => Packet(l) = FakePacket
       /\ l.cmd = "none" /\ NeedsLogin(l) => Packet(l) = PKLoginReq(l.text)
       /\ l.cmd = "none" /\ ~NeedsLogin(l) =>
            Packet(l) = PKChatMessage(IF nick = 0 THEN NoName ELSE nick, l.text)
  BY Zenon DEF Packet, NeedsLogin
<1> QED
  BY <1>1, <1>3, <1>4, <1>5, <1>6, <1>9, <1>10, <1>11 DEF Message, Sound

(* At first nothing has been sent.                                         *)
LEMMA UpInit == Init => UpInv
<1> SUFFICES ASSUME Init PROVE UpInv
  OBVIOUS
<1>1. up = <<>> /\ msg = PKUserCountReq /\ nick = 0 /\ peer = "up"
  BY DEF Init
<1>2. msg \in Message
  BY <1>1, Lengths DEF PKUserCountReq, Message, Sound
<1>3. <<>> \in Seq(Transfer) /\ Len(<<>>) = 0
  OBVIOUS
<1> QED
  BY <1>1, <1>2, <1>3 DEF UpInv

(* The number of bytes sent.                                               *)
LEMMA Totals == UpInv => Total \in Nat
<1> SUFFICES ASSUME UpInv, up # <<>> PROVE Total \in Nat
  BY DEF Total
<1>1. up \in Seq(Transfer) /\ Len(up) \in 1 .. Len(up)
  BY DEF UpInv
<1>2. up[Len(up)] \in Transfer
  BY <1>1, ElementOfSeq
<1> QED
  BY <1>2 DEF Total, Transfer

(* The same of the next state.                                             *)
LEMMA NextTotals == (UpInv => Total \in Nat)'
BY Totals, PTL

(* A send goes on with the packet under way, or begins the next.           *)
LEMMA SendUp ==
  ASSUME ClientInv, UpInv, NEW n \in 1 .. msg.len, Send(n)
  PROVE  UpInv' /\ (WholePackets => WholePackets')
<1> DEFINE m == Len(up)
<1>1. /\ at["tx"] = "send" /\ sock /\ open /\ peer # "dead"
      /\ n \in Nat \ {0} /\ n > Sent /\ msg.len \in Nat /\ n <= msg.len
  BY DEF Send, UpInv, Message, Record
<1>2. up \in Seq(Transfer) /\ m \in Nat
  BY DEF UpInv
<1>3. Begun
  BY <1>1 DEF ClientInv, Starting
<1>4. UNCHANGED <<peer, sock, open, nick>>
  BY DEF Send, socket
<1>5. msg' \in Message
  <2>1. PKUserCountReq \in Message
    BY Lengths DEF PKUserCountReq, Message, Sound
  <2> QED
    BY <2>1 DEF Send, UpInv
<1>6. n < msg.len => at'["tx"] = "send" /\ msg' = msg
  BY DEF Send, Go, ClientInv, Threads
<1>7. Begun'
  BY <1>3 DEF Send, Go, ClientInv, Begun, Threads
<1>8. CASE Sent = 0
  <2> DEFINE x == [p |-> msg, from |-> Total, out |-> n]
  <2>1. up' = Append(up, x) /\ x.p = msg /\ x.out = n
    BY <1>8 DEF Send
  <2>2. x \in Transfer
    BY <1>1, Totals DEF UpInv, Transfer
  <2> HIDE DEF x
  <2>3. /\ up' \in Seq(Transfer) /\ Len(up') = m + 1 /\ up'[m + 1] = x
        /\ \A i \in 1 .. m : up'[i] = up[i]
    BY <1>2, <2>1, <2>2
  <2>4. m > 0 => up[m].out = up[m].p.len
    <3> SUFFICES ASSUME m > 0 PROVE up[m].out = up[m].p.len
      OBVIOUS
    <3>1. up # <<>> /\ m \in 1 .. m
      BY <1>2
    <3>2. up[m] \in Transfer
      BY <1>2, <3>1, ElementOfSeq
    <3>3. up[m].out \in 1 .. up[m].p.len /\ up[m].p.len \in Nat
      BY <3>1, <3>2 DEF UpInv, Transfer, Message, Record
    <3>4. ~(up[m].out < up[m].p.len)
      BY <1>8, <3>1, <3>3 DEF Sent
    <3> QED
      BY <3>3, <3>4
  <2>5. \A i \in 1 .. m + 1 : up'[i].out \in 1 .. up'[i].p.len
    BY <1>1, <1>2, <2>1, <2>3 DEF UpInv
  <2>6. up'[m + 1].out # up'[m + 1].p.len => at'["tx"] = "send" /\ msg' = up'[m + 1].p
    BY <1>1, <1>6, <2>1, <2>3
  <2>7. UpInv'
    <3> HIDE DEF m
    <3> QED
      BY <1>4, <1>5, <1>7, <2>3, <2>5, <2>6 DEF UpInv
  <2>8. WholePackets => WholePackets'
    BY <1>2, <2>3, <2>4 DEF WholePackets
  <2> QED
    BY <2>7, <2>8
<1>9. CASE Sent # 0
  <2>1. m \in 1 .. m /\ up # <<>> /\ up[m].out # up[m].p.len
    <3>1. up # <<>> /\ up[m].out < up[m].p.len
      BY <1>9 DEF Sent
    <3>2. m \in 1 .. m
      BY <1>2, <3>1
    <3>3. up[m] \in Transfer
      BY <1>2, <3>2, ElementOfSeq
    <3>4. up[m].out \in Nat /\ up[m].p.len \in Nat
      BY <3>3 DEF Transfer, Message, Record
    <3> QED
      BY <3>1, <3>2, <3>4
  <2>2. msg = up[m].p
    BY <1>1, <2>1 DEF UpInv, Mute
  <2>3. up' = [up EXCEPT ![m].out = n]
    BY <1>9 DEF Send
  <2>4. up[m] \in Transfer
    BY <1>2, <2>1, ElementOfSeq
  <2> DEFINE x == [up[m] EXCEPT !.out = n]
  <2>5. x.p = msg /\ x.out = n
    BY <2>2, <2>4 DEF Transfer
  <2>6. x \in Transfer
    BY <1>1, <2>4 DEF Transfer
  <2>7. up' = [up EXCEPT ![m] = x]
    BY <2>3
  <2> HIDE DEF x
  <2>8. /\ up' \in Seq(Transfer) /\ Len(up') = m /\ up'[m] = x
        /\ \A i \in 1 .. m : i # m => up'[i] = up[i]
    BY <1>2, <2>1, <2>6, <2>7
  <2>9. \A i \in 1 .. m : up'[i].out \in 1 .. up'[i].p.len
    BY <1>1, <1>2, <2>5, <2>8 DEF UpInv
  <2>10. up'[m].out # up'[m].p.len => at'["tx"] = "send" /\ msg' = up'[m].p
    BY <1>1, <1>6, <2>5, <2>8
  <2>11. UpInv'
    <3> HIDE DEF m
    <3> QED
      BY <1>4, <1>5, <1>7, <2>8, <2>9, <2>10 DEF UpInv
  <2>12. WholePackets => WholePackets'
    BY <1>2, <2>8 DEF WholePackets
  <2> QED
    BY <2>11, <2>12
<1> QED
  BY <1>8, <1>9

(* stop() sends nothing and only closes.                                   *)
LEMMA StopUp ==
  ASSUME ClientInv, NEW t, StopStep(t)
  PROVE  UNCHANGED <<peer, msg, nick, up>> /\ (Mute => Mute')
<1>1. UNCHANGED <<peer, msg, nick, up>>
  BY DEF StopStep, Stop, StopClose, StopForget, StopCleanup, sending
<1>2. (sock' => sock) /\ (open' => open)
  BY DEF StopStep, Stop, StopClose, StopForget, StopCleanup, ClientInv, socket
<1> QED
  BY <1>1, <1>2 DEF Mute

(* No other step sends, and what cannot be sent any more stays so.         *)
LEMMA UpStep ==
  ASSUME ClientInv, UpInv, [Next]_vars
  PROVE  UpInv' /\ (WholePackets => WholePackets')
<1>1. ASSUME NEW n \in 1 .. msg.len, Send(n) PROVE UpInv' /\ (WholePackets => WholePackets')
  BY <1>1, SendUp
<1>2. ASSUME up' = up, UpInv' PROVE UpInv' /\ (WholePackets => WholePackets')
  BY <1>2 DEF WholePackets
<1>q. PKUserCountReq \in Message
  BY Lengths DEF PKUserCountReq, Message, Sound
<1>3. CASE MainThread
  <2>1. UNCHANGED <<peer, msg, nick, up>>
    BY <1>3
    DEF MainThread, InitWinsock, CreateSocket, ConnectToServer, Run, Join, StopStep, Stop,
        StopClose, StopForget, StopCleanup, sending
  <2>2. (at'["tx"] = at["tx"] /\ at'["rx"] = at["rx"]) \/ ~Begun
    BY <1>3
    DEF MainThread, InitWinsock, CreateSocket, ConnectToServer, Run, Join, StopStep, Stop,
        StopClose, StopForget, StopCleanup, Go, ClientInv, Closer, Starting, StartAt, Threads
  <2>3. Mute => Mute' \/ ~Begun
    BY <1>3, <2>1
    DEF MainThread, InitWinsock, CreateSocket, ConnectToServer, Run, Join, StopStep, Stop,
        StopClose, StopForget, StopCleanup, Mute, socket, ClientInv, Closer, StartAt
  <2> QED
    BY <1>2, <2>1, <2>2, <2>3 DEF UpInv, Begun
<1>4. CASE ReceiveThread
  <2>1. ASSUME NEW last, NEW part, RecvData(last, part)
        PROVE  UNCHANGED <<peer, msg, nick, up>> /\ (Mute => Mute') /\ at'["tx"] = at["tx"]
    BY <2>1 DEF RecvData, Go, ClientInv, Threads, sending, socket, Mute
  <2>2. ASSUME ReceiveLoop \/ Recv \/ RecvEnd
        PROVE  UNCHANGED <<peer, msg, nick, up>> /\ (Mute => Mute') /\ at'["tx"] = at["tx"]
    BY <2>2 DEF ReceiveLoop, Recv, RecvEnd, Go, ClientInv, Threads, sending, socket, Mute
  <2>3. ASSUME StopStep("rx")
        PROVE  UNCHANGED <<peer, msg, nick, up>> /\ (Mute => Mute') /\ at'["tx"] = at["tx"]
    <3>1. at'["tx"] = at["tx"]
      BY <2>3 DEF StopStep, Stop, StopClose, StopForget, StopCleanup, Go, ClientInv, Threads
    <3> QED
      BY <2>3, <3>1, StopUp
  <2>4. UNCHANGED <<peer, msg, nick, up>> /\ (Mute => Mute') /\ at'["tx"] = at["tx"]
    BY <1>4, <2>1, <2>2, <2>3 DEF ReceiveThread
  <2>5. Begun
    BY <1>4
    DEF ReceiveThread, ReceiveLoop, Recv, RecvEnd, RecvData, StopStep, Stop, StopClose,
        StopForget, StopCleanup, Begun
  <2>6. Begun'
    BY <2>4, <2>5, ClientStep DEF ClientInv, Closer, Starting
  <2> QED
    BY <1>2, <2>4, <2>5, <2>6 DEF UpInv
<1>5. CASE SendThread \/ User
  <2>0. Begun /\ at["rx"] = at'["rx"]
    BY <1>5
    DEF SendThread, User, EndOfInput, TypeLine, SendLoop, Send, SendFails, StopStep, Stop,
        StopClose, StopForget, StopCleanup, Go, ClientInv, Starting, Threads
  <2>1. ASSUME NEW l \in Line, TypeLine(l) PROVE UpInv' /\ up' = up
    <3>1. msg' \in Message /\ nick' \in Nat
      BY <2>1, Typed DEF TypeLine, UpInv
    <3> QED
      BY <2>0, <2>1, <3>1 DEF TypeLine, UpInv, Mute, socket, Begun
  <2>2. CASE SendFails
    <3>1. Mute'
      BY <2>2 DEF SendFails, Mute, socket, UpInv
    <3> QED
      BY <1>2, <1>q, <2>0, <2>2, <3>1 DEF SendFails, UpInv, Begun
  <2>3. CASE SendLoop \/ EndOfInput \/ StopStep("tx")
    <3>1. UNCHANGED <<peer, msg, nick, up>> /\ (Mute => Mute')
      BY <2>3, StopUp DEF SendLoop, EndOfInput, sending, Mute, socket
    <3>2. at["tx"] # "send"
      BY <2>3 DEF SendLoop, EndOfInput, StopStep, Stop, StopClose, StopForget, StopCleanup
    <3> QED
      BY <1>2, <2>0, <3>1, <3>2 DEF UpInv, Begun
  <2> QED
    BY <1>1, <1>2, <1>5, <2>1, <2>2, <2>3 DEF SendThread, User
<1>6. CASE \/ OnPacket \/ OnClientConnected \/ OtherTalks \/ PostSend \/ ServerLeaves
           \/ UNCHANGED vars
  <2>1. UNCHANGED <<msg, nick, up, at, sock, open>> /\ peer' \in {"up", "left", "dead"}
    BY <1>6
    DEF OnPacket, OnClientConnected, OtherTalks, PostSend, ServerLeaves, vars, sending, socket,
        UpInv
  <2>2. Mute => Mute'
    BY <1>6, <2>1
    DEF OnPacket, OnClientConnected, OtherTalks, PostSend, ServerLeaves, vars, Mute
  <2> QED
    BY <1>2, <2>1, <2>2 DEF UpInv, Begun
<1> QED
  BY <1>3, <1>4, <1>5, <1>6 DEF Next

-----------------------------------------------------------------------------
(* The server handles a packet when as many bytes as it declares have      *)
(* come: but for the faulty packet, the packet itself.                     *)
HandledInv ==
  /\ came \in Nat /\ came <= Total
  /\ handled \in 0 .. Len(up)
  /\ \A i \in 1 .. handled : up[i].out >= up[i].p.size \/ up[i].p = FakePacket

(* At first it has handled nothing.                                        *)
LEMMA HandledInit == Init => HandledInv
<1>1. Len(<<>>) = 0
  OBVIOUS
<1> QED
  BY <1>1 DEF Init, HandledInv, Total

(* What has arrived was sent, and what has been sent stays sent.           *)
LEMMA HandledSend ==
  ASSUME ClientInv, UpInv, HandledInv, NEW n \in 1 .. msg.len, Send(n)
  PROVE  HandledInv'
<1>0. /\ up \in Seq(Transfer) /\ up' \in Seq(Transfer) /\ Len(up) \in Nat /\ Len(up') \in Nat
      /\ handled' = handled /\ handled \in 0 .. Len(up)
  <2>1. UpInv'
    BY SendUp
  <2> QED
    BY <2>1 DEF Send, serving, UpInv, HandledInv
<1>1. /\ Total \in Nat /\ Total' \in Nat /\ n \in Nat /\ Sent \in Nat /\ n > Sent
      /\ came' = IF peer = "up" THEN Total + n - Sent ELSE came
      /\ came \in Nat /\ came <= Total
  <2>1. UpInv'
    BY SendUp
  <2>2. n \in Nat /\ n > Sent /\ came' = IF peer = "up" THEN Total + n - Sent ELSE came
    BY DEF Send, UpInv, Message, Record
  <2>3. Sent \in Nat
    <3>1. CASE up = <<>>
      BY <3>1 DEF Sent
    <3>2. CASE up # <<>>
      <4>1. Len(up) \in 1 .. Len(up)
        BY <1>0, <3>2
      <4>2. up[Len(up)] \in Transfer
        BY <1>0, <4>1, ElementOfSeq
      <4> QED
        BY <4>2 DEF Sent, Transfer
    <3> QED
      BY <3>1, <3>2
  <2>4. Total' \in Nat
    BY <2>1, NextTotals
  <2> QED
    BY <2>2, <2>3, <2>4, Totals DEF HandledInv
<1>2. /\ Total' = Total + n - Sent
      /\ Len(up') >= Len(up)
      /\ \A i \in 1 .. Len(up) : up'[i].p = up[i].p /\ up'[i].out >= up[i].out
  <2>1. CASE Sent = 0
    <3> DEFINE x == [p |-> msg, from |-> Total, out |-> n]
    <3>1. up' = Append(up, x) /\ x.from = Total /\ x.out = n
      BY <2>1 DEF Send
    <3> HIDE DEF x
    <3>2. /\ Len(up') = Len(up) + 1 /\ up'[Len(up) + 1] = x /\ up' # <<>>
          /\ \A i \in 1 .. Len(up) : up'[i] = up[i]
      BY <1>0, <3>1
    <3>3. Total' = Total + n
      BY <3>1, <3>2 DEF Total
    <3>4. \A i \in 1 .. Len(up) : up[i].out \in Nat
      <4>1. \A i \in 1 .. Len(up) : up[i] \in Transfer
        BY <1>0, ElementOfSeq
      <4> QED
        BY <4>1 DEF Transfer
    <3> QED
      BY <1>0, <1>1, <2>1, <3>2, <3>3, <3>4
  <2>2. CASE Sent # 0
    <3>1. up # <<>> /\ Sent = up[Len(up)].out /\ Len(up) \in 1 .. Len(up)
      BY <1>0, <2>2 DEF Sent
    <3>2. up' = [up EXCEPT ![Len(up)].out = n]
      BY <2>2 DEF Send
    <3>3. \A i \in 1 .. Len(up) : up[i] \in Transfer
      BY <1>0, ElementOfSeq
    <3>4. /\ Len(up') = Len(up) /\ up' # <<>>
          /\ up'[Len(up)].from = up[Len(up)].from /\ up'[Len(up)].out = n
          /\ up'[Len(up)].p = up[Len(up)].p
          /\ \A i \in 1 .. Len(up) : i # Len(up) => up'[i] = up[i]
      BY <1>0, <3>1, <3>2, <3>3 DEF Transfer
    <3>5. Total = up[Len(up)].from + Sent /\ Total' = up[Len(up)].from + n
      BY <3>1, <3>4 DEF Total
    <3>6. \A i \in 1 .. Len(up) : up[i].out \in Nat /\ up[i].from \in Nat
      BY <3>3 DEF Transfer
    <3>7. Total' = Total + n - Sent
      <4>1. up[Len(up)].from \in Nat
        BY <3>1, <3>6
      <4> QED
        BY <1>1, <3>5, <4>1
    <3>8. ASSUME NEW i \in 1 .. Len(up) PROVE up'[i].p = up[i].p /\ up'[i].out >= up[i].out
      BY <1>1, <3>1, <3>4, <3>6
    <3> QED
      BY <1>0, <3>4, <3>7, <3>8
  <2> QED
    BY <2>1, <2>2
<1>3. came' \in Nat /\ came' <= Total'
  BY <1>1, <1>2
<1>4. ASSUME NEW i \in 1 .. handled PROVE up'[i].out >= up'[i].p.size \/ up'[i].p = FakePacket
  <2>1. i \in 1 .. Len(up) /\ i \in 1 .. Len(up')
        /\ (up[i].out >= up[i].p.size \/ up[i].p = FakePacket)
    BY <1>0, <1>2 DEF HandledInv
  <2>2. up[i] \in Transfer /\ up'[i] \in Transfer
    BY <1>0, <2>1, ElementOfSeq
  <2>3. up[i].out \in Nat /\ up'[i].out \in Nat /\ up[i].p.size \in Nat
    BY <2>2 DEF Transfer, Message, Record
  <2> QED
    BY <1>2, <2>1, <2>3
<1> QED
  BY <1>0, <1>2, <1>3, <1>4 DEF HandledInv

(* The server goes on to the next packet.  All but the last have been sent *)
(* whole.                                                                  *)
LEMMA HandledStep ==
  ASSUME ClientInv, UpInv, WholePackets, HandledInv, [Next]_vars
  PROVE  HandledInv'
<1>1. CASE OnPacket
  <2> DEFINE h == handled + 1
  <2>1. /\ up' = up /\ came' = came /\ handled' = h /\ handled < Len(up)
        /\ Arrived >= up[h].p.size
    BY <1>1 DEF OnPacket, sending, Popped
  <2>2. handled \in Nat /\ Len(up) \in Nat /\ up \in Seq(Transfer)
    BY DEF UpInv, HandledInv
  <2>3. handled' \in 0 .. Len(up') /\ h \in 1 .. Len(up)
    BY <2>1, <2>2
  <2>4. up[h] \in Transfer
    BY <2>2, <2>3, ElementOfSeq
  <2>5. up[h].out >= up[h].p.size \/ up[h].p = FakePacket
    <3>1. CASE h = Len(up)
      <4>1. up # <<>> /\ Total = up[h].from + up[h].out
        BY <2>1, <2>2, <3>1 DEF Total
      <4>2. came - up[h].from >= up[h].p.size /\ came <= Total
        BY <2>1 DEF Arrived, HandledInv
      <4>3. came \in Nat /\ up[h].from \in Nat /\ up[h].out \in Nat /\ up[h].p.size \in Nat
        BY <2>4 DEF HandledInv, Transfer, Message, Record
      <4> HIDE DEF h
      <4> QED
        BY <4>1, <4>2, <4>3
    <3>2. CASE h # Len(up)
      <4>1. up[h].out = up[h].p.len
        BY <2>2, <2>3, <3>2 DEF WholePackets
      <4>2. up[h].p = FakePacket \/ up[h].p \in Sound
        BY <2>4 DEF Transfer, Message
      <4> QED
        BY <4>1, <4>2 DEF Sound, Record
    <3> QED
      BY <3>1, <3>2
  <2>6. ASSUME NEW i \in 1 .. handled' PROVE up[i].out >= up[i].p.size \/ up[i].p = FakePacket
    <3>1. i \in 1 .. handled \/ i = h
      BY <2>1, <2>2
    <3> QED
      BY <2>5, <3>1 DEF HandledInv
  <2>7. came' \in Nat /\ came' <= Total'
    BY <2>1 DEF HandledInv, Total
  <2> QED
    BY <2>1, <2>3, <2>6, <2>7 DEF HandledInv
<1>2. ASSUME NEW n \in 1 .. msg.len, Send(n) PROVE HandledInv'
  BY <1>2, HandledSend
<1>3. CASE UNCHANGED <<up, came, handled>>
  BY <1>3 DEF HandledInv, Total
<1>4. OnPacket \/ UNCHANGED <<up, came, handled>> \/ \E n \in 1 .. msg.len : Send(n)
  BY
  DEF Next, vars, MainThread, InitWinsock, CreateSocket, ConnectToServer, Run, Join,
      ReceiveThread, ReceiveLoop, Recv, RecvEnd, RecvData, SendThread, SendLoop, SendFails,
      User, EndOfInput, TypeLine, StopStep, Stop, StopClose, StopForget, StopCleanup,
      OnClientConnected, OtherTalks, PostSend, ServerLeaves, sending, serving
<1> QED
  BY <1>1, <1>2, <1>3, <1>4

(* A packet of the client that comes whole is as its class says.           *)
LEMMA HandledWell ==
  ASSUME UpInv, NEW i \in 1 .. Len(up), up[i].p # FakePacket
  PROVE  LET p == up[i].p IN
         /\ p \in Record /\ Popped(p) = p /\ Handler(p) = p.id
         /\ p.len = p.size /\ p.size = PacketSize(p.id)
<1>1. up[i] \in Transfer
  BY ElementOfSeq DEF UpInv
<1> DEFINE p == up[i].p
<1>2. p \in Record /\ p \in Sound
  BY <1>1 DEF Transfer, Message, Record
<1>3. p.len = p.size /\ p.size = PacketSize(p.id)
  BY <1>2 DEF Sound
<1> HIDE DEF p
<1>4. p.size >= HeaderSize
  BY <1>2, <1>3
  DEF PacketSize, BodySize, HeaderSize, NameField, TextField, Record, Requests
<1>5. p.id \in Requests /\ "error" \notin Requests
  BY <1>2 DEF Record, Requests
<1>6. Handler(p) = p.id
  BY <1>2, <1>3, <1>4, <1>5 DEF Handler, IsHeaderValid, Record
<1>7. Popped(p) = p
  BY <1>2, <1>3 DEF Popped, Record
<1> QED
  BY <1>2, <1>3, <1>6, <1>7 DEF p

(* The faulty packet, when others have completed it, is refused: it is     *)
(* neither answered nor passed on.                                         *)
LEMMA Refused ==
  LET p == Popped(FakePacket) IN
  /\ Handler(p) = "error" /\ Answer(p) = <<>> /\ News(p) = <<>>
  /\ FakePacket.id = "ChatMessage" /\ FakePacket.size = FakeSize /\ ~(FakeSize = 300)
<1> DEFINE p == Popped(FakePacket)
<1>1. p.id = "ChatMessage" /\ p.size = FakeSize
      /\ FakePacket.id = "ChatMessage" /\ FakePacket.size = FakeSize
  BY DEF Popped, FakePacket, Blank
<1>2. ~(FakeSize = 300) /\ PacketSize("ChatMessage") = 300
  BY ClientAssumption DEF PacketSize, BodySize, HeaderSize, NameField, TextField
<1> HIDE DEF p
<1>3. Handler(p) = "error"
  BY <1>1, <1>2 DEF Handler
<1>4. Answer(p) = <<>> /\ News(p) = <<>>
  BY <1>3, Zenon DEF Answer, News
<1> QED
  BY <1>1, <1>2, <1>3, <1>4 DEF p

-----------------------------------------------------------------------------
(* What the server sends this client: the welcome and whole packets.       *)
Whole(p) == p.id \in Answers /\ p.size = PacketSize(p.id) /\ p.len = p.size
Fields   == [id : Answers \cup {"text"}, size : Nat, len : Nat, name : Nat, text : Nat,
             ok : BOOLEAN]
Reply    == {p \in Fields : p = Greeting \/ Whole(p)}

(* Everything shown has been taken, and while each recv takes one packet   *)
(* everything taken has been shown.                                        *)
ShowInv ==
  /\ down \in Seq(Reply) /\ queue \in Seq(Reply) /\ shown \in Seq(Nat \ {0})
  /\ taken \in 0 .. Len(down) /\ (cut => taken < Len(down))
  /\ neat => ~cut
  /\ ShownInOrder /\ AllShown

(* The server answers and passes on whole packets.                         *)
LEMMA Replies ==
  /\ Greeting \in Reply /\ PKUserCountAck \in Reply
  /\ \A p : Answer(p) \in Seq(Reply)
  /\ \A n, m \in Nat : PKChatBroadcast(n, m) \in Reply
<1>1. /\ PacketSize("LoginAck") = 81 /\ PacketSize("ChatBroadcast") = 300
      /\ PacketSize("UserCountAck") = 8
  BY DEF PacketSize, BodySize, HeaderSize, NameField, TextField
<1>2. Greeting \in Reply
  BY DEF Greeting, Reply, Fields
<1>3. \A c \in Answers : Blank(c) \in Reply /\ Blank(c).id = c
  BY <1>1 DEF Blank, Reply, Fields, Whole, Answers
<1>4. PKUserCountAck \in Reply
  BY <1>3 DEF PKUserCountAck, Answers
<1>5. \A n, m \in Nat : PKChatBroadcast(n, m) \in Reply
  <2>1. Blank("ChatBroadcast") \in Reply /\ Blank("ChatBroadcast").id = "ChatBroadcast"
    BY <1>3 DEF Answers
  <2>2. \A n \in Nat : Cut(n, NameField) \in Nat /\ Cut(n, TextField) \in Nat
    BY DEF Cut, NameField, TextField
  <2>3. \A n \in Nat : /\ Named("ChatBroadcast", n) \in Reply
                       /\ Named("ChatBroadcast", n).id = "ChatBroadcast"
    BY <2>1, <2>2 DEF Named, Reply, Fields, Whole, Greeting
  <2> QED
    BY <2>2, <2>3 DEF PKChatBroadcast, Said, Reply, Fields, Whole, Greeting
<1>6. \A ok \in BOOLEAN : PKLoginAck(ok) \in Reply
  <2>1. Blank("LoginAck") \in Reply /\ Blank("LoginAck").id = "LoginAck"
    BY <1>3 DEF Answers
  <2> QED
    BY <2>1 DEF PKLoginAck, Reply, Fields, Whole, Greeting
<1>7. ASSUME NEW p PROVE Answer(p) \in Seq(Reply)
  <2>1. Answer(p) \in {<<HandleLogin(p)>>, <<PKUserCountAck>>, <<>>}
    BY Zenon DEF Answer
  <2>2. HandleLogin(p) \in Reply
    BY <1>6 DEF HandleLogin
  <2>3. <<>> \in Seq(Reply) /\ \A r \in Reply : <<r>> \in Seq(Reply)
    OBVIOUS
  <2> QED
    BY <1>4, <2>1, <2>2, <2>3, Zenon
<1> QED
  BY <1>2, <1>4, <1>5, <1>7

(* At first nothing has been sent to the client, and the queue holds the   *)
(* answers to the one before.                                              *)
LEMMA ShowInit == Init => ShowInv
<1> SUFFICES ASSUME Init PROVE ShowInv
  OBVIOUS
<1>1. /\ down = <<>> /\ shown = <<>> /\ taken = 0 /\ cut = FALSE
      /\ old \in Nat /\ queue = [i \in 1 .. old |-> PKUserCountAck]
  BY ClientAssumption DEF Init
<1>2. queue \in Seq(Reply)
  BY <1>1, Replies
<1> QED
  BY <1>1, <1>2 DEF ShowInv, ShownInOrder, AllShown

(* A recv shows the packet it begins with, or nothing.                     *)
LEMMA RecvShows ==
  ASSUME ShowInv, NEW last \in taken .. Len(down), NEW part \in {0, 1, HeaderSize},
         RecvData(last, part)
  PROVE  ShowInv'
<1>0. /\ taken \in Nat /\ Len(down) \in Nat /\ last \in Nat /\ part \in Nat
      /\ taken <= last /\ last <= Len(down) /\ taken < Len(down)
  BY DEF ShowInv, HeaderSize, RecvData
<1>1. /\ down' = down /\ taken' = last /\ cut' = (part > 0)
      /\ part > 0 => last < Len(down) /\ part < down[last + 1].len
      /\ last + part > taken
      /\ neat' = (neat /\ ~cut /\ last = taken + 1 /\ part = 0)
      /\ queue' = queue
  BY DEF RecvData, serving
<1>2. down[taken + 1] \in Reply
  BY <1>0 DEF ShowInv
<1> DEFINE received == IF last > taken THEN down[taken + 1].len ELSE part
           showing  == ~cut /\ Shows(down[taken + 1], received)
<1>3. shown' = IF showing THEN Append(shown, taken + 1) ELSE shown
  BY DEF RecvData
<1>4. showing => taken + 1 <= last
  <2> SUFFICES ASSUME showing, last = taken PROVE FALSE
    BY <1>0
  <2>1. part > 0 /\ part < down[taken + 1].len /\ received = part
    BY <1>0, <1>1
  <2>2. down[taken + 1].id \in Answers /\ part >= down[taken + 1].size
    BY <2>1 DEF Shows
  <2> QED
    BY <1>0, <1>2, <2>1, <2>2 DEF Reply, Fields, Whole, Greeting, Answers
<1>5. last > taken /\ ~cut => down[taken + 1] = Greeting \/ showing
  <2> SUFFICES ASSUME last > taken, ~cut, Whole(down[taken + 1]) PROVE showing
    BY <1>2 DEF Reply
  <2>1. received = down[taken + 1].len
    OBVIOUS
  <2>2. PacketSize(down[taken + 1].id) >= HeaderSize /\ PacketSize(down[taken + 1].id) \in Nat
    BY DEF Whole, Answers, PacketSize, BodySize, HeaderSize, NameField, TextField
  <2> QED
    BY <2>1, <2>2 DEF Shows, Whole
<1> HIDE DEF showing
<1>6. /\ shown \in Seq(Nat \ {0}) /\ Len(shown) \in Nat
      /\ \A i \in 1 .. Len(shown) : shown[i] \in Nat /\ shown[i] <= taken
      /\ \A i, j \in 1 .. Len(shown) : i < j => shown[i] < shown[j]
      /\ neat => ~cut /\ \A i \in 1 .. taken :
                          down[i] = Greeting \/ \E j \in 1 .. Len(shown) : shown[j] = i
  BY DEF ShowInv, ShownInOrder, AllShown
<1>7. /\ shown' \in Seq(Nat \ {0}) /\ Len(shown') \in Nat
      /\ \A i \in 1 .. Len(shown') : shown'[i] <= last
      /\ \A i, j \in 1 .. Len(shown') : i < j => shown'[i] < shown'[j]
      /\ \A i \in 1 .. Len(shown) : i \in 1 .. Len(shown') /\ shown'[i] = shown[i]
      /\ showing => Len(shown') \in 1 .. Len(shown') /\ shown'[Len(shown')] = taken + 1
  <2>1. CASE showing
    <3>1. /\ shown' = Append(shown, taken + 1) /\ shown' \in Seq(Nat \ {0})
          /\ Len(shown') = Len(shown) + 1 /\ shown'[Len(shown) + 1] = taken + 1
          /\ \A i \in 1 .. Len(shown) : shown'[i] = shown[i]
      BY <1>0, <1>3, <1>6, <2>1
    <3> QED
      BY <1>0, <1>4, <1>6, <2>1, <3>1
  <2>2. CASE ~showing
    BY <1>0, <1>3, <1>6, <2>2
  <2> QED
    BY <2>1, <2>2
<1>8. ShownInOrder'
  BY <1>1, <1>7 DEF ShownInOrder
<1>9. AllShown'
  <2> SUFFICES ASSUME neat', NEW i \in 1 .. last
               PROVE  down[i] = Greeting \/ \E j \in 1 .. Len(shown') : shown'[j] = i
    BY <1>1 DEF AllShown
  <2>1. neat /\ ~cut /\ last = taken + 1
    BY <1>1
  <2>2. CASE i = taken + 1
    BY <1>0, <1>5, <1>7, <2>1, <2>2
  <2>3. CASE i \in 1 .. taken
    BY <1>6, <1>7, <2>1, <2>3
  <2> QED
    BY <1>0, <2>1, <2>2, <2>3
<1>10. cut' => part > 0
  BY <1>1
<1>11. neat' => part = 0
  BY <1>1
<1>12. taken' \in 0 .. Len(down') /\ (cut' => taken' < Len(down')) /\ (neat' => ~cut')
  BY <1>0, <1>1, <1>10, <1>11
<1>13. down' \in Seq(Reply) /\ queue' \in Seq(Reply)
  BY <1>1 DEF ShowInv
<1> QED
  BY <1>7, <1>8, <1>9, <1>12, <1>13 DEF ShowInv

(* What the server adds leaves what was sent as it is.                     *)
LEMMA ShowMore ==
  ASSUME ShowInv, NEW d \in Seq(Reply), down' = down \o d, queue' \in Seq(Reply),
         UNCHANGED receiving
  PROVE  ShowInv'
<1>1. /\ down' \in Seq(Reply) /\ Len(down') = Len(down) + Len(d)
      /\ \A i \in 1 .. Len(down) : down'[i] = down[i]
  BY DEF ShowInv
<1>2. UNCHANGED <<taken, cut, shown, neat>>
  BY DEF receiving
<1>3. Len(down) \in Nat /\ Len(d) \in Nat
  BY DEF ShowInv
<1>4. ShownInOrder'
  BY <1>2 DEF ShowInv, ShownInOrder
<1>5. AllShown'
  <2> SUFFICES ASSUME neat, NEW i \in 1 .. taken
               PROVE  down'[i] = Greeting \/ \E j \in 1 .. Len(shown) : shown[j] = i
    BY <1>2 DEF AllShown
  <2>1. i \in 1 .. Len(down)
    BY <1>3 DEF ShowInv
  <2> QED
    BY <1>1, <2>1 DEF ShowInv, AllShown
<1> QED
  BY <1>1, <1>2, <1>3, <1>4, <1>5 DEF ShowInv

(* Every step shows whole packets in order.                                *)
LEMMA ShowStep == ShowInv /\ [Next]_vars => ShowInv'
<1> SUFFICES ASSUME ShowInv, [Next]_vars PROVE ShowInv'
  OBVIOUS
<1>1. ASSUME UNCHANGED <<down, queue, receiving>> PROVE ShowInv'
  BY <1>1 DEF receiving, ShowInv, ShownInOrder, AllShown
<1>2. CASE ReceiveThread
  <2>1. ASSUME NEW t, StopStep(t) PROVE UNCHANGED <<down, queue, receiving>>
    BY <2>1 DEF StopStep, Stop, StopClose, StopForget, StopCleanup, serving
  <2> QED
    BY <1>1, <1>2, <2>1, RecvShows DEF ReceiveThread, ReceiveLoop, Recv, RecvEnd, serving
<1>3. CASE MainThread \/ SendThread \/ User \/ ServerLeaves \/ UNCHANGED vars
  <2>1. ASSUME NEW t, StopStep(t) PROVE UNCHANGED <<down, queue, receiving>>
    BY <2>1 DEF StopStep, Stop, StopClose, StopForget, StopCleanup, serving
  <2>2. UNCHANGED <<down, queue, receiving>>
    BY <1>3, <2>1
    DEF MainThread, InitWinsock, CreateSocket, ConnectToServer, Run, Join, SendThread, SendLoop,
        Send, SendFails, User, EndOfInput, TypeLine, ServerLeaves, vars, serving
  <2> QED
    BY <1>1, <2>2
<1>4. CASE OnPacket \/ OnClientConnected \/ OtherTalks
  <2>1. \E ps \in Seq(Reply) : EnqueueSend(ps) /\ UNCHANGED <<down, receiving>>
    <3>1. \A x \in Reply : <<x>> \in Seq(Reply)
      OBVIOUS
    <3> QED
      BY <1>4, <3>1, Replies DEF OnPacket, OnClientConnected, OtherTalks
  <2>2. PICK ps \in Seq(Reply) : EnqueueSend(ps) /\ UNCHANGED <<down, receiving>>
    BY <2>1
  <2>3. queue' \in Seq(Reply)
    BY <2>2 DEF EnqueueSend, ShowInv
  <2>4. UNCHANGED <<down, taken, cut, shown, neat>>
    BY <2>2 DEF receiving
  <2> QED
    BY <2>3, <2>4 DEF ShowInv, ShownInOrder, AllShown
<1>5. CASE PostSend
  <2> DEFINE n == IF Len(queue) > MaxBatch THEN MaxBatch ELSE Len(queue)
  <2>1. /\ down' = down \o SubSeq(queue, 1, n) /\ queue' = SubSeq(queue, n + 1, Len(queue))
        /\ UNCHANGED receiving
    BY <1>5 DEF PostSend
  <2>2. queue \in Seq(Reply) /\ Len(queue) \in Nat
    BY DEF ShowInv
  <2>3. n \in 0 .. Len(queue)
    BY <2>2 DEF MaxBatch
  <2> HIDE DEF n
  <2>4. SubSeq(queue, 1, n) \in Seq(Reply) /\ SubSeq(queue, n + 1, Len(queue)) \in Seq(Reply)
    BY <2>2, <2>3
  <2> QED
    BY <2>1, <2>4, ShowMore
<1> QED
  BY <1>2, <1>3, <1>4, <1>5 DEF Next

-----------------------------------------------------------------------------
(* A login the server accepts, and whether there is one among the first n. *)
IsLogin(p) == p.id = "LoginReq" /\ p.name # 0
Logged(n)  == \E j \in 1 .. n : IsLogin(up[j].p)

(* A packet of this client bears its name, after a login only.             *)
Signed(p, logged) ==
  /\ IsLogin(p) => nick # 0 /\ p.name = Cut(nick, NameField)
  /\ p.id = "ChatMessage" /\ p.size # FakeSize => logged /\ p.name = Cut(nick, NameField)
  /\ p.id = "Exit" => p = PKExit(IF logged THEN nick ELSE 0)

(* The nickname is set once, with the login that is sent before all else.  *)
NameInv ==
  /\ ~Begun => nick = 0
  /\ nick = 0 => ~Logged(Len(up))
  /\ nick # 0 => Mute \/ Logged(Len(up)) \/ (at["tx"] = "send" /\ IsLogin(msg))
  /\ at["tx"] = "send" => Mute \/ Signed(msg, Logged(Len(up)))
  /\ \A i \in 1 .. Len(up) : Signed(up[i].p, Logged(i - 1))
  /\ accepted = IF Logged(handled) THEN Cut(nick, NameField) ELSE 0

(* An exit packet is the last one sent.                                    *)
ExitInv ==
  \A i \in 1 .. Len(up) :
    up[i].p.id = "Exit" =>
      /\ i = Len(up)
      /\ \/ at["tx"] \in StopAt
         \/ at["tx"] = "send" /\ msg = up[i].p /\ up[i].out # up[i].p.len

(* What the others hear bears the name accepted, but for the last notice.  *)
HeardInv ==
  /\ heard \in Seq(Reply)
  /\ \A i \in 1 .. Len(heard) :
       \/ heard[i].name = accepted /\ accepted # 0
       \/ /\ handled # 0 /\ up[handled].p.id = "Exit"
          /\ heard[i] = HandleExit(PKExit(accepted))

(* At first there is no name.                                              *)
LEMMA NameInit == Init => NameInv /\ HeardInv
<1> SUFFICES ASSUME Init PROVE NameInv /\ HeardInv
  OBVIOUS
<1>1. /\ up = <<>> /\ nick = 0 /\ handled = 0 /\ accepted = 0 /\ heard = <<>>
      /\ at["tx"] = "idle"
  BY DEF Init, Threads
<1>2. ~Logged(0)
  BY DEF Logged
<1> QED
  BY <1>1, <1>2 DEF NameInv, HeardInv

(* run() is never taken back, and what cannot be sent stays so.            *)
LEMMA MuteStays ==
  ASSUME ClientInv, Begun, [Next]_vars
  PROVE  Begun' /\ (Mute => Mute')
<1>1. at \in [Threads -> MainAt \cup ThreadAt] /\ at["main"] \notin StartAt /\ "rx" \in Threads
  BY DEF ClientInv, Closer, Threads
<1>2. ASSUME NEW t, StopStep(t) PROVE at'["rx"] # "idle" /\ (Mute => Mute')
  <2>1. at'["rx"] # "idle"
    BY <1>1, <1>2 DEF StopStep, Stop, StopClose, StopForget, StopCleanup, Go, Begun
  <2> QED
    BY <1>2, <2>1, StopUp
<1>3. CASE MainThread
  <2>1. CASE StopStep("main")
    BY <1>2, <2>1 DEF Begun
  <2>2. CASE Join
    BY <1>1, <2>2 DEF Join, Go, Begun, Mute, socket
  <2> QED
    BY <1>1, <1>3, <2>1, <2>2
    DEF MainThread, InitWinsock, CreateSocket, ConnectToServer, Run, StartAt
<1>4. CASE ReceiveThread
  <2>1. CASE StopStep("rx")
    BY <1>2, <2>1 DEF Begun
  <2>2. ASSUME ~StopStep("rx") PROVE at'["rx"] # "idle" /\ UNCHANGED <<peer, sock, open>>
    BY <1>1, <1>4, <2>2
    DEF ReceiveThread, ReceiveLoop, Recv, RecvEnd, RecvData, Go, socket
  <2> QED
    BY <2>1, <2>2 DEF Begun, Mute
<1>5. CASE SendThread \/ User
  <2>1. CASE StopStep("tx")
    BY <1>2, <2>1 DEF Begun
  <2>2. ASSUME ~StopStep("tx")
        PROVE  at'["rx"] = at["rx"] /\ UNCHANGED <<sock, open>> /\ (peer = "dead" => peer' = "dead")
    BY <1>1, <1>5, <2>2
    DEF SendThread, SendLoop, Send, SendFails, User, EndOfInput, TypeLine, Go, socket
  <2> QED
    BY <2>1, <2>2 DEF Begun, Mute
<1>6. CASE \/ OnPacket \/ OnClientConnected \/ OtherTalks \/ PostSend \/ ServerLeaves
           \/ UNCHANGED vars
  <2>1. UNCHANGED <<at, sock, open>> /\ (peer = "dead" => peer' = "dead")
    BY <1>6
    DEF OnPacket, OnClientConnected, OtherTalks, PostSend, ServerLeaves, vars, socket
  <2> QED
    BY <2>1 DEF Begun, Mute
<1> QED
  BY <1>3, <1>4, <1>5, <1>6 DEF Next

(* At first nothing has been sent.                                         *)
LEMMA ExitInit == Init => ExitInv
<1>1. Len(<<>>) = 0
  OBVIOUS
<1> QED
  BY <1>1 DEF Init, ExitInv

(* When an exit packet is sent, or cannot be, the sending thread stops.    *)
LEMMA ExitStep ==
  ASSUME ClientInv, UpInv, ExitInv, [Next]_vars
  PROVE  ExitInv'
<1>0. at \in [Threads -> MainAt \cup ThreadAt] /\ "tx" \in Threads
  BY DEF ClientInv, Threads
<1>1. ASSUME NEW n \in 1 .. msg.len, Send(n) PROVE ExitInv'
  <2>0. /\ up \in Seq(Transfer) /\ Len(up) \in Nat /\ msg \in Message
        /\ at["tx"] = "send" /\ n \in Nat /\ msg.len \in Nat /\ ~Mute
    BY <1>1 DEF Send, UpInv, Message, Record, Mute
  <2>1. at'["tx"] = IF n < msg.len THEN "send" ELSE IF msg.id = "Exit" THEN "stop" ELSE "loop"
    BY <1>0, <1>1 DEF Send, Go
  <2>2. n < msg.len => msg' = msg
    BY <1>1 DEF Send
  <2>3. CASE Sent = 0
    <3> DEFINE x == [p |-> msg, from |-> Total, out |-> n]
    <3>1. up' = Append(up, x) /\ x.p = msg /\ x.out = n
      BY <1>1, <2>3 DEF Send
    <3> HIDE DEF x
    <3>2. /\ Len(up') = Len(up) + 1 /\ up'[Len(up) + 1] = x
          /\ \A i \in 1 .. Len(up) : up'[i] = up[i]
      BY <2>0, <3>1
    <3>3. ASSUME NEW i \in 1 .. Len(up) PROVE up[i].p.id # "Exit"
      <4> SUFFICES ASSUME up[i].p.id = "Exit" PROVE FALSE
        OBVIOUS
      <4>1. i = Len(up) /\ up # <<>> /\ up[i].out # up[i].p.len
        BY <2>0 DEF ExitInv, StopAt
      <4>2. up[i].out \in 1 .. up[i].p.len /\ up[i] \in Transfer
        BY <2>0, ElementOfSeq DEF UpInv
      <4>3. up[i].out < up[i].p.len /\ up[i].out # 0
        BY <4>1, <4>2 DEF Transfer, Message, Record
      <4> QED
        BY <2>3, <4>1, <4>3 DEF Sent
    <3>4. ASSUME NEW i \in 1 .. Len(up'), up'[i].p.id = "Exit" PROVE i = Len(up')
      <4>1. CASE i \in 1 .. Len(up)
        BY <3>2, <3>3, <3>4, <4>1
      <4>2. CASE i \notin 1 .. Len(up)
        BY <2>0, <3>2, <4>2
      <4> QED
        BY <4>1, <4>2
    <3>5. msg.id = "Exit" => \/ at'["tx"] \in StopAt
                             \/ at'["tx"] = "send" /\ msg' = msg /\ n # msg.len
      BY <2>0, <2>1, <2>2 DEF StopAt
    <3> QED
      BY <3>1, <3>2, <3>4, <3>5 DEF ExitInv
  <2>4. CASE Sent # 0
    <3>1. up # <<>> /\ up[Len(up)].out < up[Len(up)].p.len /\ Len(up) \in 1 .. Len(up)
      BY <2>0, <2>4 DEF Sent
    <3>2. \A i \in 1 .. Len(up) : up[i] \in Transfer
      BY <2>0, ElementOfSeq
    <3>3. up[Len(up)].out # up[Len(up)].p.len
      BY <3>1, <3>2 DEF Transfer, Message, Record
    <3>4. msg = up[Len(up)].p
      BY <2>0, <3>1, <3>3 DEF UpInv
    <3>5. up' = [up EXCEPT ![Len(up)].out = n]
      BY <1>1, <2>4 DEF Send
    <3>6. /\ Len(up') = Len(up) /\ up'[Len(up)].p = msg /\ up'[Len(up)].out = n
          /\ \A i \in 1 .. Len(up) : up'[i].p = up[i].p
      BY <2>0, <3>1, <3>2, <3>4, <3>5 DEF Transfer
    <3>7. ASSUME NEW i \in 1 .. Len(up), up[i].p.id = "Exit" PROVE i = Len(up)
      BY <3>7 DEF ExitInv
    <3>8. msg.id = "Exit" => \/ at'["tx"] \in StopAt
                             \/ at'["tx"] = "send" /\ msg' = msg /\ n # msg.len
      BY <2>0, <2>1, <2>2 DEF StopAt
    <3> QED
      BY <3>6, <3>7, <3>8 DEF ExitInv
  <2> QED
    BY <2>3, <2>4
<1>2. CASE SendFails
  <2>1. UNCHANGED up /\ at["tx"] = "send" /\ (msg.id = "Exit" => at'["tx"] = "stop")
    BY <1>0, <1>2 DEF SendFails, Go
  <2> QED
    BY <2>1 DEF ExitInv, StopAt
<1>3. ASSUME UNCHANGED up, at["tx"] \in {"loop", "getline"} PROVE ExitInv'
  BY <1>3 DEF ExitInv, StopAt
<1>4. ASSUME UNCHANGED <<up, msg>>, at["tx"] \in StopAt => at'["tx"] \in StopAt,
             at["tx"] = "send" => at'["tx"] = "send"
      PROVE  ExitInv'
  BY <1>4 DEF ExitInv
<1>5. ASSUME NEW t \in Threads, StopStep(t) PROVE ExitInv'
  <2>1. UNCHANGED <<up, msg>>
    BY <1>5 DEF StopStep, Stop, StopClose, StopForget, StopCleanup, sending
  <2>2. \A u \in Threads : at'[u] = at[u] \/ (u = t /\ at[u] \in StopAt /\ at'[u] \in StopAt)
    BY <1>0, <1>5 DEF StopStep, Stop, StopClose, StopForget, StopCleanup, Go, StopAt
  <2>3. at["tx"] = "send" => at'["tx"] = "send"
    BY <1>0, <2>2 DEF StopAt
  <2>4. at["tx"] \in StopAt => at'["tx"] \in StopAt
    BY <1>0, <2>2
  <2> QED
    BY <1>4, <2>1, <2>3, <2>4
<1>6. CASE Run
  <2>1. up = <<>> /\ UNCHANGED up /\ Len(<<>>) = 0
    BY <1>6 DEF Run, sending, UpInv, ClientInv, Closer, StartAt
  <2> QED
    BY <2>1 DEF ExitInv
<1>7. CASE InitWinsock \/ CreateSocket \/ ConnectToServer \/ Join
  BY <1>0, <1>4, <1>7
  DEF InitWinsock, CreateSocket, ConnectToServer, Join, Go, sending, Threads
<1>8. CASE \/ ReceiveLoop \/ Recv \/ RecvEnd
           \/ \E last \in taken .. Len(down), part \in {0, 1, HeaderSize} : RecvData(last, part)
  BY <1>0, <1>4, <1>8 DEF ReceiveLoop, Recv, RecvEnd, RecvData, Go, sending, Threads
<1>9. CASE SendLoop \/ User
  BY <1>3, <1>9 DEF SendLoop, User, EndOfInput, TypeLine, sending
<1>10. CASE \/ OnPacket \/ OnClientConnected \/ OtherTalks \/ PostSend \/ ServerLeaves
            \/ UNCHANGED vars
  BY <1>4, <1>10
  DEF OnPacket, OnClientConnected, OtherTalks, PostSend, ServerLeaves, vars, sending
<1> QED
  BY <1>1, <1>2, <1>5, <1>6, <1>7, <1>8, <1>9, <1>10
  DEF Next, MainThread, ReceiveThread, SendThread, Threads

(* A step that types, sends and handles nothing.                           *)
LEMMA NameKeep ==
  ASSUME ClientInv, NameInv, [Next]_vars, UNCHANGED <<up, nick, handled, accepted>>,
         Mute' \/ (msg' = msg /\ (at'["tx"] = "send" => at["tx"] = "send")
                   /\ (at["tx"] = "send" => at'["tx"] = "send"))
  PROVE  NameInv'
<1>1. at["tx"] = "send" => Begun
  BY DEF ClientInv, Starting
<1>2. Begun => Begun' /\ (Mute => Mute')
  BY MuteStays
<1>4. Len(up') = Len(up) /\ nick' = nick /\ handled' = handled /\ accepted' = accepted
  OBVIOUS
<1>5. /\ ~Begun' => nick' = 0
      /\ nick' = 0 => ~Logged(Len(up))'
      /\ accepted' = IF Logged(handled)' THEN Cut(nick', NameField) ELSE 0
  BY <1>2, <1>4 DEF NameInv, Logged
<1>6. nick' # 0 => Mute' \/ Logged(Len(up))' \/ (at'["tx"] = "send" /\ IsLogin(msg'))
  BY <1>1, <1>2, <1>4 DEF NameInv, Logged
<1>7. at'["tx"] = "send" => Mute' \/ Signed(msg, Logged(Len(up)))'
  BY <1>1, <1>2, <1>4 DEF NameInv, Logged, Signed
<1>8. \A i \in 1 .. Len(up') : Signed(up[i].p, Logged(i - 1))'
  BY <1>4 DEF NameInv, Logged, Signed
<1> QED
  BY <1>5, <1>6, <1>7, <1>8 DEF NameInv

(* The names and ids of the packets of a client.                           *)
LEMMA Signatures ==
  ASSUME NEW n \in Nat, NEW t
  PROVE  /\ PKLoginReq(n).id = "LoginReq" /\ PKLoginReq(n).name = Cut(n, NameField)
         /\ PKChatMessage(n, t).id = "ChatMessage"
         /\ PKChatMessage(n, t).name = Cut(n, NameField)
         /\ PKExit(n).id = "Exit" /\ PKExit(n).name = Cut(n, NameField)
         /\ PKExit(n) = PKExit(Cut(n, NameField))
         /\ PKUserCountReq.id = "UserCountReq"
         /\ FakePacket.id = "ChatMessage" /\ FakePacket.size = FakeSize
         /\ Cut(Cut(n, NameField), NameField) = Cut(n, NameField)
         /\ Cut(n, NameField) \in Nat /\ (n # 0 <=> Cut(n, NameField) # 0)
<1>1. /\ Cut(n, NameField) \in Nat /\ (n # 0 <=> Cut(n, NameField) # 0)
      /\ Cut(Cut(n, NameField), NameField) = Cut(n, NameField)
  BY DEF Cut, NameField
<1>2. \A c, m : /\ Named(c, m).id = c /\ Named(c, m).name = Cut(m, NameField)
  BY DEF Named, Blank
<1>3. PKExit(n) = PKExit(Cut(n, NameField))
  BY <1>1 DEF PKExit, Named
<1>4. /\ PKChatMessage(n, t).id = "ChatMessage"
      /\ PKChatMessage(n, t).name = Cut(n, NameField)
  BY DEF PKChatMessage, Said, Named, Blank
<1>5. /\ PKUserCountReq.id = "UserCountReq"
      /\ FakePacket.id = "ChatMessage" /\ FakePacket.size = FakeSize
  BY DEF PKUserCountReq, FakePacket, Blank
<1> QED
  BY <1>1, <1>2, <1>3, <1>4, <1>5 DEF PKLoginReq, PKExit

(* A line typed is the login, or a packet under the name there is.         *)
LEMMA NameType ==
  ASSUME ClientInv, UpInv, HandledInv, NameInv, NEW l \in Line, TypeLine(l)
  PROVE  NameInv'
<1>1. /\ UNCHANGED <<up, handled, accepted, peer, sock, open>>
      /\ at["tx"] = "getline" /\ at'["tx"] = "send" /\ at'["rx"] = at["rx"]
      /\ nick' = (IF NeedsLogin(l) THEN l.text ELSE nick) /\ msg' = Packet(l)
  BY DEF TypeLine, serving, socket, Go, ClientInv, Threads
<1>2. nick \in Nat /\ l.text \in Nat /\ handled <= Len(up) /\ handled \in Nat /\ Len(up) \in Nat
  BY Typed DEF UpInv, HandledInv
<1>3. Begun /\ Begun' /\ (Mute <=> Mute')
  BY <1>1 DEF ClientInv, Starting, Begun, Mute
<1>4. l.cmd \in {"leave", "count", "error", "none"}
  BY DEF Line, Commands
<1>5. /\ l.cmd = "leave" => Packet(l) = PKExit(nick)
      /\ l.cmd = "count" => Packet(l) = PKUserCountReq
      /\ l.cmd = "error" => Packet(l) = FakePacket
      /\ l.cmd = "none" /\ NeedsLogin(l) => Packet(l) = PKLoginReq(l.text)
      /\ l.cmd = "none" /\ ~NeedsLogin(l) =>
           Packet(l) = PKChatMessage(IF nick = 0 THEN NoName ELSE nick, l.text)
  BY Zenon DEF Packet, NeedsLogin
<1>6. CASE NeedsLogin(l)
  <2>1. nick = 0 /\ nick' = l.text /\ msg' = PKLoginReq(l.text)
    BY <1>1, <1>5, <1>6 DEF NeedsLogin
  <2>2. \A i \in 1 .. Len(up) : ~IsLogin(up[i].p)
    BY <2>1 DEF NameInv, Logged
  <2>3. \A n \in Nat : n <= Len(up) => ~Logged(n) /\ ~Logged(n)'
    BY <1>1, <1>2, <2>2 DEF Logged, IsLogin
  <2>4. accepted' = 0 /\ ~Logged(handled)' /\ ~Logged(Len(up))'
    BY <1>1, <1>2, <2>2, <2>3 DEF NameInv, Logged, IsLogin
  <2>5. \A i \in 1 .. Len(up') : Signed(up[i].p, Logged(i - 1))'
    <3> SUFFICES ASSUME NEW i \in 1 .. Len(up) PROVE Signed(up[i].p, Logged(i - 1))'
      BY <1>1
    <3>1. ~Logged(i - 1) /\ ~Logged(i - 1)'
      BY <1>1, <1>2, <2>2 DEF Logged, IsLogin
    <3>2. Signed(up[i].p, FALSE) /\ ~IsLogin(up[i].p)
      <4>1. Signed(up[i].p, Logged(i - 1)) /\ Logged(i - 1) = FALSE
        BY <3>1 DEF NameInv, Logged
      <4> QED
        BY <2>2, <4>1
    <3>3. /\ ~(up[i].p.id = "ChatMessage" /\ up[i].p.size # FakeSize)
          /\ up[i].p.id = "Exit" => up[i].p = PKExit(0)
      BY <3>2 DEF Signed
    <3>4. (IF Logged(i - 1)' THEN nick' ELSE 0) = 0
      BY <3>1
    <3> QED
      BY <1>1, <3>2, <3>3, <3>4 DEF Signed, IsLogin
  <2>s. /\ PKLoginReq(l.text).id = "LoginReq" /\ PKLoginReq(l.text).name = Cut(l.text, NameField)
        /\ l.text # 0 => Cut(l.text, NameField) # 0
        /\ l.text = 0 => Cut(l.text, NameField) = 0
    BY <1>2, Signatures
  <2>6. nick' # 0 => at'["tx"] = "send" /\ IsLogin(msg')
    BY <1>1, <2>1, <2>s DEF IsLogin
  <2>7. Signed(msg, Logged(Len(up)))'
    BY <1>1, <2>1, <2>s DEF Signed, IsLogin
  <2> QED
    BY <1>3, <2>4, <2>5, <2>6, <2>7 DEF NameInv
<1>7. CASE ~NeedsLogin(l)
  <2>1. nick' = nick /\ (l.cmd = "none" => nick # 0)
    BY <1>1, <1>7 DEF NeedsLogin
  <2>2. /\ ~Begun' => nick' = 0
        /\ nick' = 0 => ~Logged(Len(up))'
        /\ nick' # 0 => Mute' \/ Logged(Len(up))'
        /\ accepted' = IF Logged(handled)' THEN Cut(nick', NameField) ELSE 0
    BY <1>1, <1>3, <2>1 DEF NameInv, Logged
  <2>3. \A i \in 1 .. Len(up') : Signed(up[i].p, Logged(i - 1))'
    BY <1>1, <2>1 DEF NameInv, Logged, Signed
  <2>4. Mute \/ Signed(msg', Logged(Len(up)))
    <3> SUFFICES ASSUME ~Mute PROVE Signed(msg', Logged(Len(up)))
      OBVIOUS
    <3>1. Logged(Len(up)) <=> nick # 0
      BY <1>1 DEF NameInv
    <3>2. CASE l.cmd = "none"
      BY <1>1, <1>2, <1>5, <1>7, <2>1, <3>1, <3>2, Signatures DEF Signed, IsLogin
    <3>3. CASE l.cmd = "leave"
      BY <1>1, <1>2, <1>5, <3>1, <3>3, Signatures DEF Signed, IsLogin
    <3>4. CASE l.cmd \in {"count", "error"}
      BY <1>1, <1>2, <1>5, <3>4, Signatures DEF Signed, IsLogin
    <3> QED
      BY <1>4, <3>2, <3>3, <3>4
  <2>5. Mute' \/ Signed(msg, Logged(Len(up)))'
    BY <1>1, <1>3, <2>1, <2>4 DEF Signed, Logged
  <2> QED
    BY <2>2, <2>3, <2>5 DEF NameInv
<1> QED
  BY <1>6, <1>7

(* A send takes what the client is about to send, under its name.          *)
LEMMA NameSend ==
  ASSUME ClientInv, UpInv, HandledInv, NameInv, NEW n \in 1 .. msg.len, Send(n)
  PROVE  NameInv'
<1>1. /\ UNCHANGED <<handled, accepted, nick, peer, sock, open>>
      /\ at["tx"] = "send" /\ at'["rx"] = at["rx"] /\ ~Mute /\ ~Mute'
      /\ at'["tx"] = "send" => msg' = msg
  BY DEF Send, serving, socket, Go, ClientInv, Threads, Mute
<1>2. handled <= Len(up) /\ handled \in Nat /\ Len(up) \in Nat
  BY DEF UpInv, HandledInv
<1>3. Begun /\ Begun'
  BY <1>1 DEF ClientInv, Starting, Begun
<1>4. Signed(msg, Logged(Len(up)))
  BY <1>1 DEF NameInv
<1>5. \/ /\ Len(up') = Len(up) /\ up # <<>> /\ msg = up[Len(up)].p
         /\ \A i \in 1 .. Len(up) : up'[i].p = up[i].p
      \/ /\ Len(up') = Len(up) + 1 /\ up'[Len(up) + 1].p = msg
         /\ \A i \in 1 .. Len(up) : up'[i].p = up[i].p
  <2> up \in Seq(Transfer)
    BY DEF UpInv
  <2>1. CASE Sent = 0
    BY <2>1 DEF Send
  <2>2. CASE Sent # 0
    <3>1. up # <<>> /\ up[Len(up)].out < up[Len(up)].p.len /\ Len(up) \in 1 .. Len(up)
      BY <1>2, <2>2 DEF Sent
    <3>2. up[Len(up)] \in Transfer
      BY <3>1, ElementOfSeq
    <3>3. up[Len(up)].out # up[Len(up)].p.len
      BY <3>1, <3>2 DEF Transfer, Message, Record
    <3>4. msg = up[Len(up)].p
      BY <1>1, <3>1, <3>3 DEF UpInv
    <3>5. up' = [up EXCEPT ![Len(up)].out = n]
      BY <2>2 DEF Send
    <3> QED
      BY <3>1, <3>2, <3>4, <3>5 DEF Transfer
  <2> QED
    BY <2>1, <2>2
<1>6. ASSUME NEW i \in 0 .. Len(up) PROVE Logged(i)' <=> Logged(i)
  <2>1. \A j \in 1 .. i : j \in 1 .. Len(up) /\ up'[j].p = up[j].p
    BY <1>2, <1>5
  <2> QED
    BY <2>1 DEF Logged, IsLogin
<1>7. accepted' = IF Logged(handled)' THEN Cut(nick', NameField) ELSE 0
  <2>1. \A j \in 1 .. handled : j \in 1 .. Len(up) /\ up'[j].p = up[j].p
    BY <1>2, <1>5
  <2>2. Logged(handled)' <=> Logged(handled)
    BY <1>1, <2>1 DEF Logged, IsLogin
  <2> QED
    BY <1>1, <2>2 DEF NameInv
<1>8. nick' = 0 => ~Logged(Len(up))'
  BY <1>1, <1>2, <1>4, <1>5 DEF NameInv, Logged, Signed, IsLogin
<1>9. nick' # 0 => Mute' \/ Logged(Len(up))' \/ (at'["tx"] = "send" /\ IsLogin(msg'))
  BY <1>1, <1>2, <1>5 DEF NameInv, Logged, IsLogin
<1>10. \A i \in 1 .. Len(up') : Signed(up[i].p, Logged(i - 1))'
  <2> SUFFICES ASSUME NEW i \in 1 .. Len(up') PROVE Signed(up[i].p, Logged(i - 1))'
    OBVIOUS
  <2>1. i - 1 \in 0 .. Len(up)
    BY <1>2, <1>5
  <2>2. Logged(i - 1)' <=> Logged(i - 1)
    BY <1>6, <2>1
  <2>3. Signed(up'[i].p, Logged(i - 1))
    BY <1>2, <1>4, <1>5 DEF NameInv
  <2> QED
    BY <1>1, <2>2, <2>3 DEF Signed, IsLogin
<1>11. at'["tx"] = "send" => Signed(msg, Logged(Len(up)))'
  <2> SUFFICES ASSUME at'["tx"] = "send" PROVE Signed(msg, Logged(Len(up)))'
    OBVIOUS
  <2>1. msg' = msg
    BY <1>1
  <2>2. IsLogin(msg) \/ (Logged(Len(up))' <=> Logged(Len(up)))
    BY <1>2, <1>5 DEF Logged, IsLogin
  <2> QED
    BY <1>1, <1>4, <2>1, <2>2 DEF Signed, IsLogin
<1> QED
  BY <1>1, <1>3, <1>7, <1>8, <1>9, <1>10, <1>11 DEF NameInv

(* Only a login with a name is accepted, and only talk and exit are news.  *)
LEMMA Handling ==
  ASSUME NEW p \in Record, Handler(p) = p.id, p.len = p.size, p.size = PacketSize(p.id)
  PROVE  /\ Answer(p) = <<PKLoginAck(TRUE)>> <=> IsLogin(p)
         /\ p.id = "ChatMessage" => News(p) = <<HandleChatMessage(p)>>
         /\ p.id = "Exit" => News(p) = <<HandleExit(p)>>
         /\ p.id \in {"LoginReq", "UserCountReq"} => News(p) = <<>>
         /\ HandleChatMessage(p) \in Reply /\ HandleExit(p) \in Reply
         /\ HandleChatMessage(p).name = Cut(p.name, NameField)
<1>0. /\ p.id \in {"LoginReq", "ChatMessage", "Exit", "UserCountReq"}
      /\ p.name \in Nat /\ p.text \in Nat
  BY DEF Record, Requests
<1>1. /\ p.id = "LoginReq" => Answer(p) = <<HandleLogin(p)>>
      /\ p.id = "UserCountReq" => Answer(p) = <<PKUserCountAck>>
      /\ p.id \in {"ChatMessage", "Exit"} => Answer(p) = <<>>
  BY Zenon DEF Answer
<1>2. \A c \in {"LoginReq", "Exit"} : p.id = c => Deserialize(c, p) = p
  BY DEF Deserialize, IsValid, ValidId, Record
<1>3. \A a, b \in BOOLEAN : PKLoginAck(a) = PKLoginAck(b) => a = b
  <2> SUFFICES ASSUME NEW a \in BOOLEAN, NEW b \in BOOLEAN, PKLoginAck(a) = PKLoginAck(b)
               PROVE  a = b
    OBVIOUS
  <2>1. PKLoginAck(a).ok = a /\ PKLoginAck(b).ok = b
    BY DEF PKLoginAck, Blank
  <2> QED
    BY <2>1
<1>4. PKUserCountAck # PKLoginAck(TRUE)
  <2>1. PKUserCountAck.id = "UserCountAck" /\ PKLoginAck(TRUE).id = "LoginAck"
    BY DEF PKUserCountAck, PKLoginAck, Blank
  <2> QED
    BY <2>1
<1>5. Answer(p) = <<PKLoginAck(TRUE)>> <=> IsLogin(p)
  <2>1. CASE p.id = "LoginReq"
    <3>1. Answer(p) = <<PKLoginAck(p.name # 0)>>
      BY <1>1, <1>2, <2>1 DEF HandleLogin
    <3>2. PKLoginAck(p.name # 0) = PKLoginAck(TRUE) <=> p.name # 0
      <4>1. CASE p.name # 0
        BY <4>1
      <4>2. CASE p.name = 0
        BY <1>3, <4>2
      <4> QED
        BY <4>1, <4>2
    <3>3. \A a, b : <<a>> = <<b>> => a = b
      OBVIOUS
    <3> QED
      BY <2>1, <3>1, <3>2, <3>3 DEF IsLogin
  <2>2. CASE p.id = "UserCountReq"
    <3>1. \A a, b : <<a>> = <<b>> => a = b
      OBVIOUS
    <3> QED
      BY <1>1, <1>4, <2>2, <3>1 DEF IsLogin
  <2>3. CASE p.id \in {"ChatMessage", "Exit"}
    <3>1. \A a : <<>> # <<a>>
      OBVIOUS
    <3> QED
      BY <1>1, <2>3, <3>1 DEF IsLogin
  <2> QED
    BY <1>0, <2>1, <2>2, <2>3
<1>6. /\ p.id = "ChatMessage" => News(p) = <<HandleChatMessage(p)>>
      /\ p.id = "Exit" => News(p) = <<HandleExit(p)>>
      /\ p.id \in {"LoginReq", "UserCountReq"} => News(p) = <<>>
  BY Zenon DEF News
<1>7. HandleChatMessage(p) \in Reply /\ HandleChatMessage(p).name = Cut(p.name, NameField)
  <2>1. HandleChatMessage(p).name = Cut(p.name, NameField)
    BY DEF HandleChatMessage, PKChatBroadcast, Said, Named, Blank
  <2> QED
    BY <1>0, <2>1, Replies DEF HandleChatMessage
<1>8. HandleExit(p) \in Reply
  <2>1. Deserialize("Exit", p).name \in Nat
    BY <1>0 DEF Deserialize, Blank
  <2>2. \A n \in Nat : Notice(n) \in Nat
    BY DEF Notice
  <2>3. UnknownName \in Nat /\ ServerName \in Nat
    BY DEF UnknownName, ServerName
  <2> DEFINE name == Deserialize("Exit", p).name
  <2>4. Notice(IF name = 0 THEN UnknownName ELSE name) \in Nat
    BY <2>1, <2>2, <2>3
  <2> QED
    BY <2>3, <2>4, Replies DEF HandleExit
<1> QED
  BY <1>5, <1>6, <1>7, <1>8

(* The server handles the login first, and the exit last.                  *)
LEMMA NameHandle ==
  ASSUME ClientInv, UpInv, HandledInv, NameInv, ExitInv, HeardInv, OnPacket,
         up[handled + 1].p # FakePacket
  PROVE  NameInv' /\ HeardInv'
<1> DEFINE p == up[handled + 1].p
<1>1. /\ UNCHANGED <<up, nick, msg, at, sock, open>> /\ handled' = handled + 1
      /\ handled + 1 \in 1 .. Len(up) /\ handled \in Nat
      /\ peer' = peer \/ (peer = "up" /\ peer' = "left")
  BY DEF OnPacket, sending, socket, HandledInv, UpInv
<1>2. /\ p \in Record /\ Popped(p) = p /\ Handler(p) = p.id
      /\ p.len = p.size /\ p.size = PacketSize(p.id)
  BY <1>1, HandledWell
<1>a. /\ heard' = heard \o News(p)
      /\ accepted' = IF Answer(p) = <<PKLoginAck(TRUE)>> THEN p.name ELSE accepted
  BY <1>2 DEF OnPacket
<1>b. handled # 0 => up[handled].p.id # "Exit"
  <2> SUFFICES ASSUME handled # 0 PROVE up[handled].p.id # "Exit"
    OBVIOUS
  <2>1. handled \in 1 .. Len(up) /\ handled # Len(up)
    BY <1>1 DEF HandledInv
  <2> QED
    BY <2>1 DEF ExitInv
<1>3. Signed(p, Logged(handled))
  <2>1. (handled + 1) - 1 = handled
    BY <1>1
  <2> QED
    BY <1>1, <2>1 DEF NameInv
<1>4. Begun' <=> Begun
  BY <1>1 DEF Begun
<1>5. Logged(handled + 1) <=> Logged(handled) \/ IsLogin(p)
  BY <1>1 DEF Logged
<1>6. Logged(handled)' <=> Logged(handled + 1)
  BY <1>1 DEF Logged
<1> HIDE DEF p
<1>7. nick \in Nat /\ (nick # 0 => Cut(nick, NameField) # 0)
      /\ PKExit(nick) = PKExit(Cut(nick, NameField))
      /\ Cut(Cut(nick, NameField), NameField) = Cut(nick, NameField)
  BY Signatures DEF UpInv
<1>8. /\ Answer(p) = <<PKLoginAck(TRUE)>> <=> IsLogin(p)
      /\ p.id = "ChatMessage" => News(p) = <<HandleChatMessage(p)>>
      /\ p.id = "Exit" => News(p) = <<HandleExit(p)>>
      /\ p.id \in {"LoginReq", "UserCountReq"} => News(p) = <<>>
      /\ HandleChatMessage(p) \in Reply /\ HandleExit(p) \in Reply
      /\ HandleChatMessage(p).name = Cut(p.name, NameField)
  BY <1>2, Handling
<1>9. Logged(handled) => nick # 0
  BY <1>1 DEF NameInv, Logged
<1>10. accepted = IF Logged(handled) THEN Cut(nick, NameField) ELSE 0
  BY DEF NameInv
<1>11. /\ accepted' = IF Logged(handled)' THEN Cut(nick', NameField) ELSE 0
       /\ accepted # 0 => accepted' = accepted
       /\ ~IsLogin(p) => accepted' = accepted
  <2>1. CASE IsLogin(p)
    <3>1. p.name = Cut(nick, NameField)
      BY <1>3, <2>1 DEF Signed
    <3> QED
      BY <1>1, <1>a, <1>5, <1>6, <1>8, <1>10, <2>1, <3>1
  <2>2. CASE ~IsLogin(p)
    BY <1>1, <1>a, <1>5, <1>6, <1>8, <1>10, <2>2
  <2> QED
    BY <2>1, <2>2
<1>12. \A i \in 1 .. Len(heard) : heard[i].name = accepted' /\ accepted' # 0
  BY <1>b, <1>11 DEF HeardInv
<1>13. heard \in Seq(Reply)
  BY DEF HeardInv
<1>14. ASSUME NEW r \in Reply, News(p) = <<r>>,
              \/ r.name = accepted' /\ accepted' # 0
              \/ p.id = "Exit" /\ r = HandleExit(PKExit(accepted'))
       PROVE  HeardInv'
  <2>1. heard' = Append(heard, r)
    BY <1>a, <1>13, <1>14, AppendIsConcat
  <2>2. /\ heard' \in Seq(Reply) /\ Len(heard') = Len(heard) + 1 /\ heard'[Len(heard) + 1] = r
        /\ \A i \in 1 .. Len(heard) : heard'[i] = heard[i]
    BY <1>13, <2>1
  <2>3. HandleExit(PKExit(accepted))' = HandleExit(PKExit(accepted'))
    OBVIOUS
  <2>4. handled' # 0 /\ up[handled].p' = p
    BY <1>1 DEF p
  <2> QED
    BY <1>12, <1>13, <1>14, <2>2, <2>3, <2>4 DEF HeardInv
<1>15. HeardInv'
  <2>1. CASE p.id = "ChatMessage"
    <3>1. p.size # FakeSize
      <4>1. p.size = 300
        BY <1>2, <2>1 DEF PacketSize, BodySize, HeaderSize, NameField, TextField
      <4> QED
        BY <4>1, Refused
    <3>2. Logged(handled) /\ p.name = Cut(nick, NameField) /\ ~IsLogin(p)
      BY <1>3, <2>1, <3>1 DEF Signed, IsLogin
    <3>3. HandleChatMessage(p).name = accepted' /\ accepted' # 0
      BY <1>7, <1>8, <1>9, <1>10, <1>11, <3>2
    <3> QED
      BY <1>8, <1>14, <2>1, <3>3
  <2>2. CASE p.id = "Exit"
    <3>1. ~IsLogin(p) /\ p = PKExit(accepted)
      BY <1>3, <1>7, <1>10, <2>2 DEF Signed, IsLogin
    <3>2. HandleExit(p) = HandleExit(PKExit(accepted'))
      BY <1>11, <3>1
    <3> QED
      BY <1>8, <1>14, <2>2, <3>2
  <2>3. CASE p.id \in {"LoginReq", "UserCountReq"}
    <3>1. heard' = heard
      BY <1>a, <1>8, <1>13, <2>3
    <3> QED
      BY <1>12, <1>13, <3>1 DEF HeardInv
  <2> QED
    BY <1>2, <2>1, <2>2, <2>3 DEF Record, Requests
<1>16. NameInv'
  <2>1. (Mute' <=> Mute) /\ (Begun' <=> Begun)
    BY <1>1 DEF Mute, Begun
  <2>2. /\ ~Begun' => nick' = 0
        /\ nick' = 0 => ~Logged(Len(up))'
    BY <1>1, <2>1 DEF NameInv, Logged
  <2>3. nick' # 0 => Mute' \/ Logged(Len(up))' \/ (at'["tx"] = "send" /\ IsLogin(msg'))
    BY <1>1, <2>1 DEF NameInv, Logged
  <2>4. at'["tx"] = "send" => Mute' \/ Signed(msg, Logged(Len(up)))'
    BY <1>1, <2>1 DEF NameInv, Logged, Signed
  <2>5. \A i \in 1 .. Len(up') : Signed(up[i].p, Logged(i - 1))'
    BY <1>1 DEF NameInv, Logged, Signed
  <2> QED
    BY <1>11, <2>2, <2>3, <2>4, <2>5 DEF NameInv
<1> QED
  BY <1>15, <1>16

(* The faulty packet, completed by others, has no say in names.            *)
LEMMA NameRefused ==
  ASSUME ClientInv, UpInv, HandledInv, NameInv, ExitInv, HeardInv, OnPacket,
         up[handled + 1].p = FakePacket
  PROVE  NameInv' /\ HeardInv'
<1>1. /\ UNCHANGED <<up, nick, msg, at, sock, open>> /\ handled' = handled + 1
      /\ handled + 1 \in 1 .. Len(up) /\ handled \in Nat
      /\ peer' = peer \/ (peer = "up" /\ peer' = "left")
  BY DEF OnPacket, sending, socket, HandledInv, UpInv
<1>2. heard' = heard \o <<>> /\ accepted' = accepted
  <2>1. \A a : <<>> # <<a>>
    OBVIOUS
  <2> QED
    BY <2>1, Refused DEF OnPacket
<1>3. heard' = heard
  BY <1>2 DEF HeardInv
<1>4. handled # 0 => up[handled].p.id # "Exit"
  <2> SUFFICES ASSUME handled # 0 PROVE up[handled].p.id # "Exit"
    OBVIOUS
  <2>1. handled \in 1 .. Len(up) /\ handled # Len(up)
    BY <1>1 DEF HandledInv
  <2> QED
    BY <2>1 DEF ExitInv
<1>5. HeardInv'
  BY <1>2, <1>3, <1>4 DEF HeardInv
<1>6. Logged(handled)' <=> Logged(handled)
  <2>1. ~IsLogin(up[handled + 1].p)
    BY Refused DEF IsLogin
  <2>2. 1 .. handled + 1 = (1 .. handled) \cup {handled + 1}
    BY <1>1
  <2> QED
    BY <1>1, <2>1, <2>2 DEF Logged
<1>7. (Mute' <=> Mute) /\ (Begun' <=> Begun)
  BY <1>1 DEF Mute, Begun
<1>8. /\ ~Begun' => nick' = 0
      /\ nick' = 0 => ~Logged(Len(up))'
      /\ nick' # 0 => Mute' \/ Logged(Len(up))' \/ (at'["tx"] = "send" /\ IsLogin(msg'))
  BY <1>1, <1>7 DEF NameInv, Logged
<1>9. at'["tx"] = "send" => Mute' \/ Signed(msg, Logged(Len(up)))'
  BY <1>1, <1>7 DEF NameInv, Logged, Signed
<1>10. \A i \in 1 .. Len(up') : Signed(up[i].p, Logged(i - 1))'
  BY <1>1 DEF NameInv, Logged, Signed
<1>11. accepted' = IF Logged(handled)' THEN Cut(nick', NameField) ELSE 0
  BY <1>1, <1>2, <1>6 DEF NameInv
<1> QED
  BY <1>5, <1>8, <1>9, <1>10, <1>11 DEF NameInv

(* Every step keeps the names.                                             *)
LEMMA NameStep ==
  ASSUME ClientInv, UpInv, HandledInv, NameInv, ExitInv, HeardInv, [Next]_vars
  PROVE  NameInv' /\ HeardInv'
<1>1. ASSUME UNCHANGED <<heard, accepted, handled, up>> PROVE HeardInv'
  BY <1>1 DEF HeardInv
<1>2. CASE OnPacket
  <2>1. CASE up[handled + 1].p # FakePacket
    BY <1>2, <2>1, NameHandle
  <2>2. CASE up[handled + 1].p = FakePacket
    BY <1>2, <2>2, NameRefused
  <2> QED
    BY <2>1, <2>2
<1>3. ASSUME NEW n \in 1 .. msg.len, Send(n) PROVE NameInv' /\ HeardInv'
  <2>1. NameInv'
    BY <1>3, NameSend
  <2>2. UNCHANGED <<heard, accepted, handled>>
    BY <1>3 DEF Send, serving
  <2>3. handled # 0 => up'[handled].p = up[handled].p
    BY <1>3, <2>2 DEF Send, UpInv, HandledInv, Sent
  <2> QED
    BY <2>1, <2>2, <2>3 DEF HeardInv
<1>4. ASSUME NEW l \in Line, TypeLine(l) PROVE NameInv' /\ HeardInv'
  BY <1>1, <1>4, NameType DEF TypeLine, serving
<1>5. CASE SendFails
  <2>1. UNCHANGED <<up, nick, handled, accepted, heard>>
    BY <1>5 DEF SendFails, serving
  <2>2. Mute'
    BY <1>5 DEF SendFails, Mute, socket, UpInv
  <2> QED
    BY <1>1, <2>1, <2>2, NameKeep
<1>6. ASSUME NEW t \in Threads, StopStep(t) PROVE NameInv' /\ HeardInv'
  <2>1. UNCHANGED <<up, nick, handled, accepted, heard, msg>>
    BY <1>6 DEF StopStep, Stop, StopClose, StopForget, StopCleanup, serving, sending
  <2>2. at'["tx"] = "send" <=> at["tx"] = "send"
    BY <1>6 DEF StopStep, Stop, StopClose, StopForget, StopCleanup, Go, ClientInv, Threads
  <2> QED
    BY <1>1, <2>1, <2>2, NameKeep
<1>7. CASE \/ InitWinsock \/ CreateSocket \/ ConnectToServer \/ Run \/ Join
           \/ ReceiveLoop \/ Recv \/ RecvEnd
           \/ \E last \in taken .. Len(down), part \in {0, 1, HeaderSize} : RecvData(last, part)
           \/ SendLoop \/ EndOfInput \/ OnClientConnected \/ OtherTalks \/ PostSend
           \/ ServerLeaves \/ UNCHANGED vars
  <2>1. UNCHANGED <<up, nick, handled, accepted, heard, msg>>
    BY <1>7
    DEF InitWinsock, CreateSocket, ConnectToServer, Run, Join, ReceiveLoop, Recv, RecvEnd,
        RecvData, SendLoop, EndOfInput, OnClientConnected, OtherTalks, PostSend, ServerLeaves,
        vars, serving, sending
  <2>2. at'["tx"] = "send" <=> at["tx"] = "send"
    <3> at \in [Threads -> MainAt \cup ThreadAt]
      BY DEF ClientInv
    <3>1. CASE Run
      BY <3>1 DEF Run, ClientInv, Closer, Starting, StartAt, Threads
    <3>2. CASE InitWinsock \/ CreateSocket \/ ConnectToServer \/ Join
      BY <3>2 DEF InitWinsock, CreateSocket, ConnectToServer, Join, Go, Threads
    <3>3. ASSUME NEW last, NEW part, RecvData(last, part)
          PROVE  at'["tx"] = "send" <=> at["tx"] = "send"
      BY <3>3 DEF RecvData, Go, Threads
    <3>4. CASE ReceiveLoop \/ Recv \/ RecvEnd \/ SendLoop \/ EndOfInput
      BY <3>4 DEF ReceiveLoop, Recv, RecvEnd, SendLoop, EndOfInput, Go, Threads
    <3>5. CASE OnClientConnected \/ OtherTalks \/ PostSend \/ ServerLeaves \/ UNCHANGED vars
      BY <3>5 DEF OnClientConnected, OtherTalks, PostSend, ServerLeaves, vars
    <3> QED
      BY <1>7, <3>1, <3>2, <3>3, <3>4, <3>5
  <2> QED
    BY <1>1, <2>1, <2>2, NameKeep
<1> QED
  BY <1>2, <1>3, <1>4, <1>5, <1>6, <1>7
  DEF Next, MainThread, ReceiveThread, SendThread, User, Threads

-----------------------------------------------------------------------------
(* What the types say beyond the invariants above.                         *)
RestInv ==
  /\ lines \in 0 .. MaxPackets /\ nick \in Texts \cup {0}
  /\ greeted \in BOOLEAN /\ talk \in 0 .. MaxPackets /\ old \in 0 .. MaxPackets
  /\ cut \in BOOLEAN /\ neat \in BOOLEAN
  /\ \A i \in 1 .. Len(heard) : heard[i].id = "ChatBroadcast"

(* The others are sent nothing but broadcasts.                             *)
LEMMA Broadcasts ==
  ASSUME NEW p, NEW i \in 1 .. Len(News(p))
  PROVE  News(p)[i].id = "ChatBroadcast"
<1>1. \A n, m : PKChatBroadcast(n, m).id = "ChatBroadcast"
  BY DEF PKChatBroadcast, Said, Named, Blank
<1>2. HandleChatMessage(p).id = "ChatBroadcast" /\ HandleExit(p).id = "ChatBroadcast"
  BY <1>1 DEF HandleChatMessage, HandleExit
<1>3. News(p) \in {<<HandleChatMessage(p)>>, <<HandleExit(p)>>, <<>>}
  BY Zenon DEF News
<1>4. CASE News(p) = <<>>
  BY <1>4
<1>5. ASSUME NEW r, News(p) = <<r>>, r.id = "ChatBroadcast" PROVE News(p)[i].id = "ChatBroadcast"
  <2>1. i = 1 /\ <<r>>[1] = r
    BY <1>5
  <2> QED
    BY <1>5, <2>1
<1> QED
  BY <1>2, <1>3, <1>4, <1>5

(* At first they hold.                                                     *)
LEMMA RestInit == Init => RestInv
<1> SUFFICES ASSUME Init PROVE RestInv
  OBVIOUS
<1>1. lines = 0 /\ nick = 0 /\ greeted \in BOOLEAN /\ talk = 0 /\ old \in 0 .. MaxPackets
  BY DEF Init
<1>2. cut \in BOOLEAN /\ neat \in BOOLEAN /\ heard = <<>>
  BY DEF Init
<1>3. 0 \in 0 .. MaxPackets
  BY ClientAssumption
<1>4. Len(heard) = 0
  BY <1>2
<1> QED
  BY <1>1, <1>2, <1>3, <1>4 DEF RestInv

(* Every step keeps them.                                                  *)
LEMMA RestStep ==
  ASSUME HeardInv, HeardInv', RestInv, [Next]_vars
  PROVE  RestInv'
<1>k. ASSUME UNCHANGED <<lines, nick, greeted, talk, old, cut, neat, heard>> PROVE RestInv'
  BY <1>k DEF RestInv
<1>s. ASSUME NEW t, StopStep(t) PROVE RestInv'
  <2>1. UNCHANGED <<lines, nick, greeted, talk, old, cut, neat, heard>>
    BY <1>s DEF StopStep, Stop, StopClose, StopForget, StopCleanup, sending, serving, receiving
  <2> QED
    BY <1>k, <2>1
<1>1. CASE MainThread
  BY <1>1, <1>k, <1>s
  DEF MainThread, InitWinsock, CreateSocket, ConnectToServer, Run, Join, sending, serving, receiving
<1>2. CASE ReceiveThread
  <2>1. ASSUME NEW last \in taken .. Len(down), NEW part \in {0, 1, HeaderSize}, RecvData(last, part)
        PROVE  RestInv'
    <3>1. /\ UNCHANGED <<lines, nick, greeted, talk, old, heard>>
          /\ cut' = (part > 0)
          /\ neat' = (neat /\ ~cut /\ last = taken + 1 /\ part = 0)
      BY <2>1 DEF RecvData, sending, serving
    <3>2. cut' \in BOOLEAN /\ neat' \in BOOLEAN
      BY <3>1
    <3> QED
      BY <3>1, <3>2 DEF RestInv
  <2> QED
    BY <1>2, <1>k, <1>s, <2>1
    DEF ReceiveThread, ReceiveLoop, Recv, RecvEnd, sending, serving, receiving
<1>3. CASE SendThread \/ User
  <2>1. ASSUME NEW l \in Line, TypeLine(l) PROVE RestInv'
    <3>1. /\ UNCHANGED <<greeted, talk, old, cut, neat, heard>>
          /\ lines + talk + old < MaxPackets /\ lines' = lines + 1
          /\ nick' = IF NeedsLogin(l) THEN l.text ELSE nick
      BY <2>1 DEF TypeLine, serving, receiving
    <3>2. l.text \in Texts \cup {0}
      BY DEF Line
    <3>3. lines' \in 0 .. MaxPackets
      BY <3>1, ClientAssumption DEF RestInv
    <3> QED
      BY <3>1, <3>2, <3>3 DEF RestInv
  <2>2. ASSUME NEW n, Send(n) PROVE RestInv'
    BY <2>2, <1>k DEF Send, serving, receiving
  <2> QED
    BY <1>3, <1>k, <1>s, <2>1, <2>2
    DEF SendThread, SendLoop, SendFails, User, EndOfInput, sending, serving, receiving
<1>4. CASE OnPacket
  <2> DEFINE p == Popped(up[handled + 1].p)
  <2>1. /\ heard' = heard \o News(p)
        /\ UNCHANGED <<lines, nick, greeted, talk, old, cut, neat>>
    BY <1>4 DEF OnPacket, sending, receiving
  <2>2. heard \in Seq(Reply) /\ heard' \in Seq(Reply)
    BY <1>4 DEF HeardInv
  <2> HIDE DEF p
  <2>3. News(p) \in {<<HandleChatMessage(p)>>, <<HandleExit(p)>>, <<>>}
    BY Zenon DEF News
  <2>4. \A i \in 1 .. Len(heard') : heard'[i].id = "ChatBroadcast"
    <3>1. /\ Len(heard') = Len(heard) + Len(News(p)) /\ Len(News(p)) \in Nat
          /\ \A i \in 1 .. Len(heard) : heard'[i] = heard[i]
          /\ \A i \in 1 .. Len(News(p)) : heard'[Len(heard) + i] = News(p)[i]
      BY <2>1, <2>2, <2>3
    <3> SUFFICES ASSUME NEW i \in 1 .. Len(heard') PROVE heard'[i].id = "ChatBroadcast"
      OBVIOUS
    <3>2. CASE i <= Len(heard)
      BY <2>2, <3>1, <3>2 DEF RestInv
    <3>3. CASE i > Len(heard)
      <4>1. i - Len(heard) \in 1 .. Len(News(p)) /\ i = Len(heard) + (i - Len(heard))
        BY <2>2, <3>1, <3>3
      <4> QED
        BY <3>1, <4>1, Broadcasts
    <3> QED
      BY <2>2, <3>2, <3>3
  <2> QED
    BY <2>1, <2>4 DEF RestInv
<1>5. CASE OnClientConnected \/ OtherTalks
  <2>1. /\ UNCHANGED <<lines, nick, old, cut, neat, heard>>
        /\ greeted' \in {greeted, TRUE}
        /\ talk' = talk \/ (lines + talk + old < MaxPackets /\ talk' = talk + 1)
    BY <1>5 DEF OnClientConnected, OtherTalks, sending, receiving
  <2>2. talk' \in 0 .. MaxPackets
    BY <2>1, ClientAssumption DEF RestInv
  <2> QED
    BY <2>1, <2>2 DEF RestInv
<1>6. CASE PostSend \/ ServerLeaves \/ UNCHANGED vars
  BY <1>6, <1>k DEF PostSend, ServerLeaves, vars, sending, serving, receiving
<1> QED
  BY <1>1, <1>2, <1>3, <1>4, <1>5, <1>6 DEF Next

-----------------------------------------------------------------------------
(* The questions among the first n packets, and the answers: what was sent *)
(* to the client or is queued for it.                                      *)
Questions(n) == {i \in 1 .. n : up[i].p = PKUserCountReq}
Put(i)       == IF i <= Len(down) THEN down[i] ELSE queue[i - Len(down)]
Counts       == {i \in 1 .. Len(down) + Len(queue) : Put(i) = PKUserCountAck}

(* Until the session is to be closed nothing is dropped.                   *)
CountInv ==
  peer = "up" => Cardinality(Questions(handled)) + old = Cardinality(Counts)

(* Counting the next one, when it is to be counted.                        *)
LEMMA OneMore ==
  ASSUME NEW n \in Nat, NEW S \in SUBSET (1 .. n)
  PROVE  /\ IsFiniteSet(S) /\ Cardinality(S) \in Nat
         /\ Cardinality(S \cup {n + 1}) = Cardinality(S) + 1
<1>1. IsFiniteSet(1 .. n)
  BY FS_Interval
<1>2. IsFiniteSet(S)
  BY <1>1, FS_Subset
<1>3. n + 1 \notin S
  OBVIOUS
<1> QED
  BY <1>2, <1>3, FS_AddElement, FS_CardinalityType

(* At first nothing is asked, and the queue holds `old` answers.           *)
LEMMA CountInit == Init => CountInv
<1> SUFFICES ASSUME Init PROVE CountInv
  OBVIOUS
<1>1. /\ handled = 0 /\ Len(down) = 0 /\ old \in Nat
      /\ queue = [i \in 1 .. old |-> PKUserCountAck]
  BY ClientAssumption DEF Init
<1>2. Len(queue) = old /\ \A i \in 1 .. old : queue[i] = PKUserCountAck
  BY <1>1
<1>3. Questions(handled) = {} /\ Counts = 1 .. old
  BY <1>1, <1>2 DEF Questions, Counts, Put
<1>4. Cardinality(1 .. old) = old
  <2>1. \A n \in Nat : Cardinality(1 .. n) = IF 1 > n THEN 0 ELSE n - 1 + 1
    BY FS_Interval
  <2>2. Cardinality(1 .. old) = IF 1 > old THEN 0 ELSE old - 1 + 1
    BY <1>1, <2>1
  <2> QED
    BY <1>1, <2>2
<1>5. Cardinality({}) = 0
  BY FS_EmptySet
<1>6. Cardinality(Questions(handled)) = 0 /\ Cardinality(Counts) = old
  BY <1>3, <1>4, <1>5
<1>7. old \in Nat
  BY <1>1
<1> QED
  BY <1>6, <1>7 DEF CountInv

(* What the server queues, one packet more or none.                        *)
LEMMA CountsMore ==
  ASSUME ShowInv, NEW d, d = <<>> \/ \E r \in Reply : d = <<r>>,
         queue' = queue \o d, UNCHANGED down
  PROVE  Counts' = IF d = <<PKUserCountAck>>
                   THEN Counts \cup {Len(down) + Len(queue) + 1} ELSE Counts
<1>1. queue \in Seq(Reply) /\ Len(queue) \in Nat /\ Len(down) \in Nat
  BY DEF ShowInv
<1>0. PICK all \in Nat : all = Len(down) + Len(queue)
  BY <1>1
<1>2. CASE d = <<>>
  <2>1. queue' = queue
    BY <1>1, <1>2
  <2> QED
    BY <1>2, <2>1 DEF Counts, Put
<1>3. ASSUME NEW r \in Reply, d = <<r>>
      PROVE  Counts' = IF d = <<PKUserCountAck>> THEN Counts \cup {all + 1} ELSE Counts
  <2>1. /\ Len(queue') = Len(queue) + 1 /\ queue'[Len(queue) + 1] = r
        /\ \A i \in 1 .. Len(queue) : queue'[i] = queue[i]
    BY <1>1, <1>3
  <2>2. d = <<PKUserCountAck>> <=> r = PKUserCountAck
    BY <1>3
  <2>3. Len(down') + Len(queue') = all + 1
    BY <1>0, <1>1, <2>1
  <2>4. ASSUME NEW i \in 1 .. all PROVE Put(i)' = Put(i)
    <3>1. CASE i <= Len(down)
      BY <3>1 DEF Put
    <3>2. CASE ~(i <= Len(down))
      <4>1. i - Len(down) \in 1 .. Len(queue)
        BY <1>0, <1>1, <3>2
      <4> QED
        BY <2>1, <3>2, <4>1 DEF Put
    <3> QED
      BY <3>1, <3>2
  <2>5. Put(all + 1)' = r
    <3>1. ~(all + 1 <= Len(down)) /\ (all + 1) - Len(down) = Len(queue) + 1
      BY <1>0, <1>1
    <3> QED
      BY <2>1, <3>1 DEF Put
  <2>6. 1 .. all + 1 = (1 .. all) \cup {all + 1} /\ all + 1 \notin 1 .. all
    BY <1>0
  <2>7. Counts = {i \in 1 .. all : Put(i) = PKUserCountAck}
    BY <1>0 DEF Counts
  <2>8. Counts' = {i \in 1 .. all + 1 : Put(i)' = PKUserCountAck}
    <3>1. PKUserCountAck' = PKUserCountAck
      BY DEF PKUserCountAck, Blank
    <3> QED
      BY <2>3, <3>1 DEF Counts
  <2> QED
    BY <2>2, <2>4, <2>5, <2>6, <2>7, <2>8
<1> QED
  BY <1>0, <1>2, <1>3

(* A batch taken from the queue is what is sent.                           *)
LEMMA CountsPosted ==
  ASSUME ShowInv, PostSend
  PROVE  Counts' = Counts
<1> DEFINE n == IF Len(queue) > MaxBatch THEN MaxBatch ELSE Len(queue)
           s == SubSeq(queue, 1, n)
           t == SubSeq(queue, n + 1, Len(queue))
<1>1. down' = down \o s /\ queue' = t
  BY DEF PostSend
<1>2. /\ queue \in Seq(Reply) /\ down \in Seq(Reply)
      /\ Len(queue) \in Nat /\ Len(down) \in Nat /\ n \in 0 .. Len(queue)
  BY DEF ShowInv, MaxBatch
<1> HIDE DEF n
<1>3. /\ s \in Seq(Reply) /\ Len(s) = n /\ \A i \in 1 .. n : s[i] = queue[i]
      /\ t \in Seq(Reply) /\ Len(t) = Len(queue) - n
      /\ \A i \in 1 .. Len(queue) - n : t[i] = queue[n + i]
  BY <1>2
<1> HIDE DEF s, t
<1>4. /\ Len(down') = Len(down) + n
      /\ \A i \in 1 .. Len(down) : down'[i] = down[i]
      /\ \A i \in 1 .. n : down'[Len(down) + i] = queue[i]
  <2>1. /\ Len(down') = Len(down) + Len(s)
        /\ \A i \in 1 .. Len(down) : down'[i] = down[i]
        /\ \A i \in 1 .. Len(s) : down'[Len(down) + i] = s[i]
    <3>1. ASSUME NEW a \in Seq(Reply), NEW b \in Seq(Reply)
          PROVE  /\ Len(a \o b) = Len(a) + Len(b)
                 /\ \A i \in 1 .. Len(a) : (a \o b)[i] = a[i]
                 /\ \A i \in 1 .. Len(b) : (a \o b)[Len(a) + i] = b[i]
      OBVIOUS
    <3>2. down \in Seq(Reply) /\ s \in Seq(Reply) /\ down' = down \o s
      BY <1>1, <1>2, <1>3
    <3> QED
      BY <3>1, <3>2, Zenon
  <2> QED
    BY <1>3, <2>1
<1>5. Len(down') + Len(queue') = Len(down) + Len(queue)
  BY <1>1, <1>2, <1>3, <1>4
<1>6. ASSUME NEW i \in 1 .. Len(down) + Len(queue) PROVE Put(i)' = Put(i)
  <2>1. CASE i <= Len(down)
    BY <1>2, <1>4, <2>1 DEF Put
  <2>2. CASE ~(i <= Len(down)) /\ i <= Len(down) + n
    <3>1. i - Len(down) \in 1 .. n /\ i = Len(down) + (i - Len(down))
      BY <1>2, <2>2
    <3>2. down'[i] = queue[i - Len(down)]
      BY <1>4, <3>1
    <3> QED
      BY <1>4, <2>2, <3>2 DEF Put
  <2>3. CASE ~(i <= Len(down) + n)
    <3>1. /\ i - (Len(down) + n) \in 1 .. Len(queue) - n
          /\ n + (i - (Len(down) + n)) = i - Len(down) /\ ~(i <= Len(down))
      BY <1>2, <2>3
    <3>2. queue'[i - Len(down')] = queue[i - Len(down)]
      BY <1>1, <1>3, <1>4, <3>1
    <3> QED
      BY <1>4, <2>3, <3>1, <3>2 DEF Put
  <2> QED
    BY <2>1, <2>2, <2>3
<1>7. PKUserCountAck' = PKUserCountAck
  BY DEF PKUserCountAck, Blank
<1> QED
  BY <1>5, <1>6, <1>7 DEF Counts

(* The server answers each question, and nothing else, with the number.    *)
LEMMA Numbers ==
  ASSUME UpInv, NEW i \in 1 .. Len(up)
  PROVE  LET a == Answer(Popped(up[i].p)) IN
         /\ a = <<>> \/ \E r \in Reply : a = <<r>>
         /\ up[i].p = PKUserCountReq <=> a = <<PKUserCountAck>>
<1> DEFINE p == up[i].p
<1>1. PKUserCountReq.id = "UserCountReq" /\ PKUserCountAck.id = "UserCountAck"
  BY DEF PKUserCountReq, PKUserCountAck, Blank
<1>2. CASE p = FakePacket
  <2>1. \A r : <<>> # <<r>>
    OBVIOUS
  <2>2. p # PKUserCountReq
    BY <1>1, <1>2, Refused
  <2> QED
    BY <1>2, <2>1, <2>2, Refused
<1>3. CASE p # FakePacket
  <2>1. Popped(p) = p /\ Handler(p) = p.id /\ p \in Message
    <3>1. up[i] \in Transfer
      BY ElementOfSeq DEF UpInv
    <3> QED
      BY <1>3, <3>1, HandledWell DEF Transfer
  <2> HIDE DEF p
  <2>2. Answer(p) = <<>> \/ \E r \in Reply : Answer(p) = <<r>>
    <3>1. Answer(p) \in {<<HandleLogin(p)>>, <<PKUserCountAck>>, <<>>}
      BY Zenon DEF Answer
    <3>2. \A r : <<r>> \in Seq(Reply) => r \in Reply
      OBVIOUS
    <3> QED
      BY <3>1, <3>2, Replies, Zenon
  <2>3. p = PKUserCountReq <=> Answer(p) = <<PKUserCountAck>>
    <3>1. p = PKUserCountReq <=> Handler(p) = "UserCountReq"
      <4>1. p # FakePacket
        BY <1>3 DEF p
      <4> QED
        BY <1>1, <2>1, <4>1 DEF Message, Sound
    <3>2. HandleLogin(p).id = "LoginAck"
      BY DEF HandleLogin, PKLoginAck, Blank
    <3>3. <<HandleLogin(p)>> # <<PKUserCountAck>> /\ <<>> # <<PKUserCountAck>>
      BY <1>1, <3>2
    <3>4. /\ Handler(p) = "UserCountReq" => Answer(p) = <<PKUserCountAck>>
          /\ Handler(p) # "UserCountReq" => Answer(p) \in {<<HandleLogin(p)>>, <<>>}
      BY Zenon DEF Answer
    <3> QED
      BY <3>1, <3>3, <3>4
  <2> QED
    BY <2>1, <2>2, <2>3 DEF p
<1> QED
  BY <1>2, <1>3

(* Every step keeps the count.                                             *)
LEMMA CountStep ==
  ASSUME ClientInv, UpInv, HandledInv, HandledInv', ShowInv, RestInv, CountInv, [Next]_vars
  PROVE  CountInv'
<1>0. /\ Len(up) \in Nat /\ handled \in Nat /\ Len(down) + Len(queue) \in Nat
      /\ Len(down) \in Nat /\ old \in Nat
  BY ClientAssumption DEF UpInv, HandledInv, ShowInv, RestInv
<1>1. CASE OnPacket
  <2> SUFFICES ASSUME peer' = "up"
               PROVE  Cardinality(Questions(handled))' + old' = Cardinality(Counts)'
    BY DEF CountInv
  <2> DEFINE h == handled + 1
             a == Answer(Popped(up[h].p))
             k == Len(down) + Len(queue) + 1
  <2>1. /\ up' = up /\ handled' = h /\ h \in 1 .. Len(up) /\ UNCHANGED <<down, old>>
        /\ peer = "up" /\ queue' = queue \o a
    <3>1. peer = "up"
      BY <1>1 DEF OnPacket
    <3> QED
      BY <1>0, <1>1, <3>1 DEF OnPacket, sending, EnqueueSend
  <2>2. /\ a = <<>> \/ \E r \in Reply : a = <<r>>
        /\ up[h].p = PKUserCountReq <=> a = <<PKUserCountAck>>
    BY <2>1, Numbers
  <2> HIDE DEF a
  <2>3. Counts' = IF up[h].p = PKUserCountReq THEN Counts \cup {k} ELSE Counts
    BY <2>1, <2>2, CountsMore
  <2>4. Questions(handled)' =
          IF up[h].p = PKUserCountReq THEN Questions(handled) \cup {h} ELSE Questions(handled)
    <3>1. 1 .. h = (1 .. handled) \cup {h}
      BY <1>0
    <3> QED
      BY <2>1, <3>1 DEF Questions
  <2>5. Questions(handled) \in SUBSET (1 .. handled)
        /\ Counts \in SUBSET (1 .. Len(down) + Len(queue))
    BY DEF Questions, Counts
  <2>6. /\ Cardinality(Questions(handled) \cup {h}) = Cardinality(Questions(handled)) + 1
        /\ Cardinality(Questions(handled)) \in Nat
    BY <1>0, <2>5, OneMore
  <2>7. /\ Cardinality(Counts \cup {k}) = Cardinality(Counts) + 1
        /\ Cardinality(Counts) \in Nat
    BY <1>0, <2>5, OneMore
  <2>8. Cardinality(Questions(handled)) + old = Cardinality(Counts)
    BY <2>1 DEF CountInv
  <2>9. old' = old
    BY <2>1
  <2> HIDE DEF h, k
  <2>10. CASE up[h].p = PKUserCountReq
    <3>1. /\ Cardinality(Questions(handled)') = Cardinality(Questions(handled)) + 1
          /\ Cardinality(Counts') = Cardinality(Counts) + 1
      BY <2>3, <2>4, <2>6, <2>7, <2>10
    <3> QED
      BY <1>0, <2>6, <2>7, <2>8, <2>9, <3>1
  <2>11. CASE up[h].p # PKUserCountReq
    BY <2>3, <2>4, <2>8, <2>9, <2>11
  <2> QED
    BY <2>10, <2>11
<1>2. CASE OnClientConnected \/ OtherTalks
  <2>1. PICK r \in Reply : queue' = queue \o <<r>> /\ r # PKUserCountAck
    <3>1. Greeting.id = "text" /\ PKUserCountAck.id = "UserCountAck"
      BY DEF Greeting, PKUserCountAck, Blank
    <3>2. PKChatBroadcast(5, 5).id = "ChatBroadcast"
      BY DEF PKChatBroadcast, Said, Named, Blank
    <3>3. Greeting # PKUserCountAck /\ PKChatBroadcast(5, 5) # PKUserCountAck
      BY <3>1, <3>2
    <3> QED
      BY <1>2, <3>3, Replies DEF OnClientConnected, OtherTalks, EnqueueSend
  <2>2. <<r>> # <<PKUserCountAck>>
    BY <2>1
  <2>3. UNCHANGED <<up, handled, down, old, peer>>
    BY <1>2 DEF OnClientConnected, OtherTalks, sending
  <2>4. Counts' = Counts
    BY <2>1, <2>2, <2>3, CountsMore
  <2> QED
    BY <2>3, <2>4 DEF CountInv, Questions
<1>3. ASSUME NEW n \in 1 .. msg.len, Send(n) PROVE CountInv'
  <2>1. UNCHANGED <<handled, down, queue, old, peer>>
    BY <1>3 DEF Send, serving
  <2>2. \A i \in 1 .. Len(up) : up'[i].p = up[i].p
    BY <1>3 DEF Send, UpInv, Sent
  <2>3. Questions(handled)' = Questions(handled)
    BY <1>0, <2>1, <2>2 DEF Questions, HandledInv
  <2> QED
    BY <2>1, <2>3 DEF CountInv, Counts, Put
<1>4. CASE PostSend
  <2>1. Counts' = Counts
    BY <1>4, CountsPosted
  <2> QED
    BY <1>4, <2>1 DEF PostSend, sending, CountInv, Questions
<1>5. CASE UNCHANGED <<up, handled, down, queue, old>> /\ (peer' = "up" => peer = "up")
  BY <1>5 DEF CountInv, Questions, Counts, Put
<1>6. \/ OnPacket \/ OnClientConnected \/ OtherTalks \/ PostSend
      \/ UNCHANGED <<up, handled, down, queue, old>> /\ (peer' = "up" => peer = "up")
      \/ \E n \in 1 .. msg.len : Send(n)
  BY
  DEF Next, vars, MainThread, InitWinsock, CreateSocket, ConnectToServer, Run, Join,
      ReceiveThread, ReceiveLoop, Recv, RecvEnd, RecvData, SendThread, SendLoop, SendFails,
      User, EndOfInput, TypeLine, StopStep, Stop, StopClose, StopForget, StopCleanup,
      ServerLeaves, sending, serving
<1> QED
  BY <1>1, <1>2, <1>3, <1>4, <1>5, <1>6

(* What the server has handled came whole.                                 *)
LEMMA AllAsked ==
  ASSUME UpInv, HandledInv, handled = Len(up)
  PROVE  Asked = Cardinality(Questions(handled))
<1>1. ASSUME NEW i \in 1 .. Len(up), up[i].p = PKUserCountReq PROVE up[i].out = up[i].p.len
  <2>1. up[i].p # FakePacket
    <3>1. PKUserCountReq.id = "UserCountReq"
      BY DEF PKUserCountReq, Blank
    <3> QED
      BY <1>1, <3>1, Refused
  <2>2. up[i].out >= up[i].p.size /\ up[i].p.len = up[i].p.size
    BY <2>1, HandledWell DEF HandledInv
  <2>3. up[i].out \in 1 .. up[i].p.len /\ up[i] \in Transfer
    BY DEF UpInv
  <2> QED
    BY <2>2, <2>3 DEF Transfer, Message, Record
<1>2. {i \in 1 .. Len(up) : up[i].p = PKUserCountReq /\ up[i].out = up[i].p.len}
      = Questions(handled)
  BY <1>1 DEF Questions
<1> QED
  BY <1>2 DEF Asked

(* Each number sent is shown in one place.                                 *)
LEMMA ToldOnce ==
  ASSUME ShowInv, neat, queue = <<>>, taken = Len(down)
  PROVE  Told = Cardinality(Counts)
<1> DEFINE T == {i \in 1 .. Len(shown) : down[shown[i]] = PKUserCountAck}
           f == [i \in T |-> shown[i]]
<1>1. /\ Len(shown) \in Nat /\ taken \in Nat
      /\ \A i \in 1 .. Len(shown) : shown[i] \in 1 .. taken
      /\ \A i, j \in 1 .. Len(shown) : i < j => shown[i] < shown[j]
  BY DEF ShowInv, ShownInOrder
<1>0. Counts = {k \in 1 .. taken : down[k] = PKUserCountAck}
  BY <1>1 DEF Counts, Put
<1>2. f \in [T -> Counts]
  BY <1>0, <1>1
<1>3. ASSUME NEW i \in T, NEW j \in T, f[i] = f[j] PROVE i = j
  BY <1>1, <1>3
<1>4. ASSUME NEW k \in Counts PROVE \E j \in T : f[j] = k
  <2>1. k \in 1 .. taken /\ down[k] = PKUserCountAck
    BY <1>0
  <2>2. down[k] # Greeting
    BY <2>1 DEF Greeting, PKUserCountAck, Blank
  <2>3. PICK j \in 1 .. Len(shown) : shown[j] = k
    BY <2>1, <2>2 DEF ShowInv, AllShown
  <2>4. j \in T
    BY <2>1, <2>3
  <2> QED
    BY <2>3, <2>4
<1>5. IsFiniteSet(T)
  <2>1. T \in SUBSET (1 .. Len(shown))
    OBVIOUS
  <2> QED
    BY <1>1, <2>1, OneMore
<1> HIDE DEF T, f
<1>6. f \in Bijection(T, Counts)
  <2>1. f \in Injection(T, Counts)
    <3>1. DOMAIN f = T
      BY <1>2
    <3> QED
      BY <1>2, <1>3, <3>1, Zenon DEF Injection, IsInjective
  <2>2. f \in Surjection(T, Counts)
    BY <1>2, <1>4, Zenon DEF Surjection
  <2> QED
    BY <2>1, <2>2, Zenon DEF Bijection
<1>7. Cardinality(Counts) = Cardinality(T)
  BY <1>5, <1>6, FS_Bijection DEF ExistsBijection
<1> QED
  BY <1>7 DEF T, Told

-----------------------------------------------------------------------------
(* The client closes its socket and cleans up Winsock exactly once,        *)
(* however the calls of stop() by its three threads overlap.               *)
THEOREM ClosedOnceHolds == Spec => []ClosedOnce
<1>1. ClientInv => ClosedOnce
  <2> SUFFICES ASSUME ClientInv PROVE ClosedOnce
    OBVIOUS
  <2>1. CASE Begun
    <3>1. Closer
      BY <2>1 DEF ClientInv
    <3>2. started = 1 /\ cleaned \in {0, 1}
      BY <3>1 DEF Closer, ClientInv
    <3>3. at["main"] = "done" => cleaned = 1 /\ ~open
      BY <3>1 DEF Closer, StopSteps, StopAt, Threads
    <3>4. ~running => ~open \/ \E t \in Threads : at[t] = "close"
      BY <3>1 DEF Closer
    <3> QED
      BY <3>2, <3>3, <3>4 DEF ClosedOnce
  <2>2. CASE ~Begun
    <3>1. Starting
      BY <2>2 DEF ClientInv
    <3>2. \/ started = cleaned /\ started \in {0, 1}
          \/ started = 1 /\ cleaned = 0
      BY <3>1 DEF Starting, StartAt
    <3>3. cleaned <= started
      BY <3>2
    <3>4. at["main"] = "done" => cleaned = started /\ ~open
      BY <3>1 DEF Starting
    <3> QED
      BY <2>2, <3>3, <3>4 DEF ClosedOnce, Begun
  <2> QED
    BY <2>1, <2>2
<1> QED
  BY ClientInit, ClientStep, <1>1, PTL DEF Spec

(* At first nothing has been sent.                                         *)
LEMMA WholeInit == Init => WholePackets
<1>1. Len(<<>>) = 0
  OBVIOUS
<1> QED
  BY <1>1 DEF Init, WholePackets

(* A packet cut short by a failing send is the last one sent, so it never  *)
(* shifts the server's framing.                                            *)
THEOREM PacketsAreWhole == Spec => []WholePackets
<1>1. /\ ClientInv /\ UpInv /\ WholePackets /\ [Next]_vars
      => ClientInv' /\ UpInv' /\ WholePackets'
  BY ClientStep, UpStep
<1> QED
  BY ClientInit, UpInit, WholeInit, <1>1, PTL DEF Spec

(* The server refuses no packet but the faulty one: the client never puts  *)
(* a size or an id on another that its class does not have, and none is    *)
(* cut short before another.                                               *)
THEOREM NothingIsRefused == Spec => []NothingRefused
<1>1. UpInv /\ HandledInv => NothingRefused
  <2> SUFFICES ASSUME UpInv, HandledInv, NEW i \in 1 .. handled, up[i].p # FakePacket
               PROVE  Handler(Popped(up[i].p)) # "error"
    BY DEF NothingRefused
  <2>1. i \in 1 .. Len(up)
    BY DEF HandledInv, UpInv
  <2> QED
    BY <2>1, HandledWell DEF Record, Requests
<1> QED
  BY ClientInit, UpInit, WholeInit, HandledInit, ClientStep, UpStep, HandledStep, <1>1,
     PTL DEF Spec

(* What the client shows as a packet was sent to it whole, and is shown    *)
(* once and in order, however the stream is cut and merged.                *)
THEOREM ShownIsInOrder == Spec => []ShownInOrder
<1>1. ShowInv => ShownInOrder
  BY DEF ShowInv
<1> QED
  BY <1>1, ShowInit, ShowStep, PTL DEF Spec

(* A client whose recv calls take one packet each shows all of them, and   *)
(* when everything has arrived at a server that has nothing queued it has  *)
(* been shown as many numbers of users as it has sent questions for it,    *)
(* besides those left over from its session's former client.               *)
THEOREM NothingIsMissed == Spec => []NothingMissed
<1> DEFINE I == /\ ClientInv /\ UpInv /\ WholePackets /\ HandledInv /\ NameInv /\ ExitInv
                /\ HeardInv /\ ShowInv /\ RestInv /\ CountInv
<1>1. I /\ [Next]_vars => I'
  <2> SUFFICES ASSUME I, [Next]_vars PROVE I'
    OBVIOUS
  <2>1. /\ ClientInv' /\ UpInv' /\ WholePackets' /\ HandledInv' /\ NameInv' /\ ExitInv'
        /\ HeardInv' /\ ShowInv'
    BY ClientStep, UpStep, HandledStep, NameStep, ExitStep, ShowStep
  <2>2. RestInv' /\ CountInv'
    BY <2>1, RestStep, CountStep
  <2> QED
    BY <2>1, <2>2
<1>2. I => NothingMissed
  <2> SUFFICES ASSUME I PROVE NothingMissed
    OBVIOUS
  <2>1. AllShown
    BY DEF ShowInv
  <2>2. AllTold
    BY AllAsked, ToldOnce DEF AllTold, CountInv
  <2> QED
    BY <2>1, <2>2 DEF NothingMissed
<1>3. Init => I
  BY ClientInit, UpInit, WholeInit, HandledInit, NameInit, ExitInit, ShowInit, RestInit, CountInit
<1> QED
  BY <1>1, <1>2, <1>3, PTL DEF Spec

(* The others know the client by one name: nothing of it is passed on      *)
(* before its login or under another name, and the last is its notice.     *)
THEOREM SameNameHolds == Spec => []SameName
<1> DEFINE I == /\ ClientInv /\ UpInv /\ WholePackets /\ HandledInv /\ NameInv /\ ExitInv
                /\ HeardInv
<1>1. HeardInv => SameName
  BY DEF HeardInv, SameName
<1>2. I /\ [Next]_vars => I'
  BY ClientStep, UpStep, HandledStep, NameStep, ExitStep
<1> QED
  BY ClientInit, UpInit, WholeInit, HandledInit, NameInit, ExitInit, <1>1, <1>2, PTL DEF Spec

(* The types, for every set of texts and all bounds.                       *)
THEOREM ClientTypes == Spec => []TypeOK
<1> DEFINE I == /\ ClientInv /\ UpInv /\ WholePackets /\ HandledInv /\ NameInv /\ ExitInv
                /\ HeardInv /\ ShowInv /\ RestInv
<1>2. I /\ [Next]_vars => I'
  <2> SUFFICES ASSUME I, [Next]_vars PROVE I'
    OBVIOUS
  <2>1. /\ ClientInv' /\ UpInv' /\ WholePackets' /\ HandledInv' /\ NameInv' /\ ExitInv'
        /\ HeardInv' /\ ShowInv'
    BY ClientStep, UpStep, HandledStep, NameStep, ExitStep, ShowStep
  <2>2. RestInv'
    BY <2>1, RestStep
  <2> QED
    BY <2>1, <2>2
<1>3. I => TypeOK
  <2> SUFFICES ASSUME I PROVE TypeOK
    OBVIOUS
  <2>1. started \in {0, 1} /\ cleaned \in Nat
    BY DEF ClientInv, Starting, Closer, MainAt, StartAt, StopAt, Begun
  <2>2. at \in [Threads -> {"idle", "loop", "recv", "blocked", "getline", "send",
                            "joinTx", "joinRx"} \cup StartAt \cup StopAt]
    <3>1. MainAt \cup ThreadAt \subseteq
            {"idle", "loop", "recv", "blocked", "getline", "send", "joinTx", "joinRx"}
            \cup StartAt \cup StopAt
      BY DEF MainAt, ThreadAt
    <3> QED
      BY <3>1 DEF ClientInv
  <2>3. \A i \in 1 .. Len(up) :
          up[i].p.id \in Requests /\ up[i].from \in Nat /\ up[i].out \in 1 .. up[i].p.len
    <3>1. \A x \in Transfer : x.p.id \in Requests /\ x.from \in Nat
      BY DEF Transfer, Message, Record
    <3>2. \A i \in 1 .. Len(up) : up[i] \in Transfer
      BY DEF UpInv
    <3> QED
      BY <3>1, <3>2 DEF UpInv
  <2>4. msg.id \in Requests
    BY DEF UpInv, Message, Record
  <2>5. accepted \in 0 .. NameField - 1
    <3>1. nick \in Nat /\ accepted \in {Cut(nick, NameField), 0}
      BY DEF UpInv, NameInv
    <3> QED
      BY <3>1 DEF Cut, NameField
  <2>6. shown \in Seq(1 .. Len(down))
    <3>1. shown \in Seq(Nat) /\ Len(shown) \in Nat /\ taken <= Len(down) /\ Len(down) \in Nat
          /\ taken \in Nat
      BY DEF ShowInv
    <3>2. \A i \in 1 .. Len(shown) : shown[i] >= 1 /\ shown[i] <= taken /\ shown[i] \in Nat
      BY <3>1 DEF ShowInv, ShownInOrder
    <3>3. \A i \in 1 .. Len(shown) : shown[i] \in 1 .. Len(down)
      BY <3>1, <3>2
    <3> QED
      BY <3>1, <3>3
  <2>7. /\ running \in BOOLEAN /\ sock \in BOOLEAN /\ open \in BOOLEAN
        /\ peer \in {"up", "left", "dead"} /\ handled \in 0 .. Len(up)
        /\ taken \in 0 .. Len(down) /\ (cut => taken < Len(down)) /\ came \in Nat
    BY DEF ClientInv, UpInv, HandledInv, ShowInv
  <2>8. RestInv
    OBVIOUS
  <2>9. \A i \in 1 .. Len(queue) : queue[i].id \in Answers \cup {"text"}
    <3>1. queue \in Seq(Reply)
      BY DEF ShowInv
    <3> QED
      BY <3>1 DEF Reply, Fields
  <2> QED
    BY <2>1, <2>2, <2>3, <2>4, <2>5, <2>6, <2>7, <2>8, <2>9 DEF TypeOK, RestInv
<1> HIDE DEF I
<1>4. Init => I
  BY ClientInit, UpInit, WholeInit, HandledInit, NameInit, ExitInit, ShowInit, RestInit DEF I
<1> QED
  BY <1>2, <1>3, <1>4, PTL DEF Spec
=============================================================================
