----------------------------- MODULE EchoClient -----------------------------
(***************************************************************************)
(* The chat client (EchoClient/) and its conversation with the server.     *)
(* run() starts a receiving and a sending thread and joins them, and all   *)
(* three threads call stop(), which closes the socket for the first of     *)
(* them only.  The receiving thread is stopped by closing the socket under *)
(* its recv; nothing interrupts the sending thread while it waits for a    *)
(* line from the user.                                                     *)
(*                                                                         *)
(* Of the server there is what this client sees: its packets are framed    *)
(* and handled in order (PacketHandler), answers and the talk of others    *)
(* are queued and come back as one stream, which TCP cuts and merges.      *)
(* The queue is SendPath's: a closing session takes and sends nothing, it  *)
(* may begin with what was left by the client before, and packets may be   *)
(* left in it by all senders.                                              *)
(***************************************************************************)
EXTENDS PacketHandler, FiniteSets

CONSTANTS
  Texts,     \* the texts a user may type, as lengths
  FakeSize,  \* the size the faulty packet declares, 9999
  MaxPackets \* bound: packets of this client, packets of others to it, and answers
             \*   left in the queue by the client before, together

(* The faulty packet declares more than it has, and does not end where     *)
(* another packet ends: the sizes of the others are multiples of four.     *)
ASSUME ClientAssumption ==
  /\ Texts \subseteq Nat /\ MaxPackets \in Nat
  /\ FakeSize \in Nat /\ FakeSize > HeaderSize + 4 /\ FakeSize % 4 # 0

Threads == {"main", "rx", "tx"}

VARIABLES
  running,  \* running_
  sock,     \* sock_ is not INVALID_SOCKET
  open,     \* the socket is open
  started,  \* successful calls of WSAStartup
  cleaned,  \* calls of WSACleanup
  at,       \* where each thread is
  lines,    \* lines typed
  nick,     \* nickname_
  msg,      \* the packet the sending thread is about to send
  peer,     \* the server: "up", "left" or "dead" (a send has failed)
  up,       \* what was sent: packets, after how many bytes, and how many of each
  came,     \* the bytes sent before the server left
  handled,  \* how many of them the server has handled
  accepted, \* the name the server has accepted, 0: none
  heard,    \* what other clients were sent because of this one
  greeted,  \* the server has sent its welcome
  talk,     \* messages of other clients
  old,      \* the answers to its former client sendQueue began with
  queue,    \* session->sendQueue
  down,     \* what the server sent to this client
  taken,    \* how many of these recv has taken whole
  cut,      \* and whether it has taken a part of the next
  shown,    \* which of them were shown as packets
  neat      \* history: so far each recv took exactly one

socket    == <<running, sock, open, started, cleaned>>
sending   == <<lines, nick, msg, up, came>>
serving   == <<handled, accepted, heard, greeted, talk, old, queue, down>>
receiving == <<taken, cut, shown, neat>>
vars      == <<socket, at, peer, sending, serving, receiving>>

(* A line is one of three commands or a text.                              *)
Commands == {"leave", "count", "error"}
Line     == [cmd : Commands, text : {0}] \cup [cmd : {"none"}, text : Texts]

Answers == {"LoginAck", "ChatBroadcast", "UserCountAck"}

StartAt == {"init", "create", "connect", "run"}
StopAt  == {"stop", "close", "forget", "cleanup", "done"}

TypeOK ==
  /\ running \in BOOLEAN /\ sock \in BOOLEAN /\ open \in BOOLEAN
  /\ started \in {0, 1} /\ cleaned \in Nat
  /\ at \in [Threads -> {"idle", "loop", "recv", "blocked", "getline", "send",
                         "joinTx", "joinRx"} \cup StartAt \cup StopAt]
  /\ lines \in 0 .. MaxPackets /\ nick \in Texts \cup {0}
  /\ msg.id \in Requests
  /\ peer \in {"up", "left", "dead"}
  /\ \A i \in 1 .. Len(up) :
       up[i].p.id \in Requests /\ up[i].from \in Nat /\ up[i].out \in 1 .. up[i].p.len
  /\ came \in Nat
  /\ handled \in 0 .. Len(up) /\ accepted \in 0 .. NameField - 1
  /\ \A i \in 1 .. Len(heard) : heard[i].id = "ChatBroadcast"
  /\ greeted \in BOOLEAN /\ talk \in 0 .. MaxPackets
  /\ old \in 0 .. MaxPackets
  /\ \A i \in 1 .. Len(queue) : queue[i].id \in Answers \cup {"text"}
  /\ taken \in 0 .. Len(down) /\ cut \in BOOLEAN /\ neat \in BOOLEAN
  /\ cut => taken < Len(down)
  /\ shown \in Seq(1 .. Len(down))

Init ==
  /\ running = FALSE /\ sock = FALSE /\ open = FALSE /\ started = 0 /\ cleaned = 0
  /\ at = [t \in Threads |-> IF t = "main" THEN "init" ELSE "idle"]
  /\ lines = 0 /\ nick = 0 /\ msg = PKUserCountReq
  /\ peer = "up" /\ up = <<>> /\ came = 0
  /\ handled = 0 /\ accepted = 0 /\ heard = <<>>
  /\ greeted = FALSE /\ talk = 0 /\ down = <<>>
  /\ old \in 0 .. MaxPackets /\ queue = [i \in 1 .. old |-> PKUserCountAck]
  /\ taken = 0 /\ cut = FALSE /\ shown = <<>> /\ neat = TRUE

Go(t, l) == at' = [at EXCEPT ![t] = l]

-----------------------------------------------------------------------------
(***************************************************************************)
(* main: a step that fails undoes those before it.                         *)
(***************************************************************************)
InitWinsock ==
  /\ at["main"] = "init"
  /\ \/ started' = 1 /\ Go("main", "create")
     \/ UNCHANGED started /\ Go("main", "done")
  /\ UNCHANGED <<running, sock, open, cleaned, peer, sending, serving, receiving>>

CreateSocket ==
  /\ at["main"] = "create"
  /\ \/ sock' = TRUE /\ open' = TRUE /\ UNCHANGED cleaned /\ Go("main", "connect")
     \/ cleaned' = cleaned + 1 /\ UNCHANGED <<sock, open>> /\ Go("main", "done")
  /\ UNCHANGED <<running, started, peer, sending, serving, receiving>>

ConnectToServer ==
  /\ at["main"] = "connect"
  /\ \/ UNCHANGED <<open, cleaned>> /\ Go("main", "run")
     \/ open' = FALSE /\ cleaned' = cleaned + 1 /\ Go("main", "done")
  /\ UNCHANGED <<running, sock, started, peer, sending, serving, receiving>>

Run ==
  /\ at["main"] = "run"
  /\ running' = TRUE
  /\ at' = [t \in Threads |-> IF t = "main" THEN "joinTx" ELSE "loop"]
  /\ UNCHANGED <<sock, open, started, cleaned, peer, sending, serving, receiving>>

(* Join the sending thread, then the receiving one, then stop().           *)
Join ==
  /\ \/ at["main"] = "joinTx" /\ at["tx"] = "done" /\ Go("main", "joinRx")
     \/ at["main"] = "joinRx" /\ at["rx"] = "done" /\ Go("main", "stop")
  /\ UNCHANGED <<socket, peer, sending, serving, receiving>>

-----------------------------------------------------------------------------
(***************************************************************************)
(* stop(), by any thread.                                                  *)
(***************************************************************************)
(* The old value is not compared.                                          *)
StopAlways(t) ==
  /\ at[t] = "stop"
  /\ running' = FALSE
  /\ Go(t, "close")
  /\ UNCHANGED <<sock, open, started, cleaned, peer, sending, serving, receiving>>

Stop(t) ==
  /\ at[t] = "stop"
  /\ running' = FALSE
  /\ Go(t, IF running THEN "close" ELSE "done")
  /\ UNCHANGED <<sock, open, started, cleaned, peer, sending, serving, receiving>>

(* sock_ is forgotten, the socket stays open.                              *)
StopCloseNot(t) ==
  /\ at[t] = "close"
  /\ Go(t, "forget")
  /\ UNCHANGED <<socket, peer, sending, serving, receiving>>

(* shutdown and closesocket: a recv in progress returns.                   *)
StopClose(t) ==
  /\ at[t] = "close"
  /\ open' = (open /\ ~sock)
  /\ Go(t, IF sock THEN "forget" ELSE "cleanup")
  /\ UNCHANGED <<running, sock, started, cleaned, peer, sending, serving, receiving>>

StopForget(t) ==
  /\ at[t] = "forget"
  /\ sock' = FALSE
  /\ Go(t, "cleanup")
  /\ UNCHANGED <<running, open, started, cleaned, peer, sending, serving, receiving>>

StopCleanup(t) ==
  /\ at[t] = "cleanup"
  /\ cleaned' = cleaned + 1
  /\ Go(t, "done")
  /\ UNCHANGED <<running, sock, open, started, peer, sending, serving, receiving>>

StopStep(t) == Stop(t) \/ StopClose(t) \/ StopForget(t) \/ StopCleanup(t)

MainThread ==
  InitWinsock \/ CreateSocket \/ ConnectToServer \/ Run \/ Join \/ StopStep("main")

-----------------------------------------------------------------------------
(***************************************************************************)
(* receiveLoop.                                                            *)
(***************************************************************************)
ReceiveLoop ==
  /\ at["rx"] = "loop"
  /\ Go("rx", IF running THEN "recv" ELSE "stop")
  /\ UNCHANGED <<socket, peer, sending, serving, receiving>>

Recv ==
  /\ at["rx"] = "recv"
  /\ Go("rx", IF sock THEN "blocked" ELSE "stop")
  /\ UNCHANGED <<socket, peer, sending, serving, receiving>>

(* That all of the packet has come is not looked at.                       *)
ShowsEarly(p, received) ==
  received >= HeaderSize /\ p.id \in Answers /\ p.size = PacketSize(p.id)

(* More than the packet has to have come.                                  *)
ShowsLate(p, received) ==
  received > p.size /\ p.id \in Answers /\ p.size = PacketSize(p.id)

(* A recv that begins with packet p shows it; otherwise there is a warning *)
(* or the bytes are printed as text.                                       *)
Shows(p, received) ==
  /\ received >= HeaderSize
  /\ p.id \in Answers /\ received >= p.size /\ p.size = PacketSize(p.id)

(* A recv takes the packets up to `last` and `part` bytes of the next; the *)
(* stream is cut once in a packet, before or after its header.  Only what  *)
(* comes first is looked at.  Bytes from the middle of a packet are taken  *)
(* not to look like the header of one.                                     *)
RecvData(last, part) ==
  LET received == IF last > taken THEN down[taken + 1].len ELSE part IN
  /\ at["rx"] = "blocked" /\ open
  /\ last + part > taken
  /\ part > 0 => last < Len(down) /\ ~(last = taken /\ cut) /\ part < down[last + 1].len
  /\ taken' = last /\ cut' = (part > 0)
  /\ shown' = IF ~cut /\ Shows(down[taken + 1], received)
              THEN Append(shown, taken + 1) ELSE shown
  /\ neat' = (neat /\ ~cut /\ last = taken + 1 /\ part = 0)
  /\ Go("rx", "loop")
  /\ UNCHANGED <<socket, peer, sending, serving>>

RecvEnd ==
  /\ at["rx"] = "blocked" /\ (~open \/ peer # "up")
  /\ Go("rx", "stop")
  /\ UNCHANGED <<socket, peer, sending, serving, receiving>>

ReceiveThread ==
  \/ ReceiveLoop \/ Recv \/ RecvEnd \/ StopStep("rx")
  \/ \E last \in taken .. Len(down), part \in {0, 1, HeaderSize} : RecvData(last, part)

-----------------------------------------------------------------------------
(***************************************************************************)
(* sendLoop.                                                               *)
(***************************************************************************)
SendLoop ==
  /\ at["tx"] = "loop"
  /\ Go("tx", IF running THEN "getline" ELSE "stop")
  /\ UNCHANGED <<socket, peer, sending, serving, receiving>>

(* A line that is no command is the nickname until there is one.           *)
NeedsLogin(l) == nick = 0 /\ l.cmd = "none"

FakePacket == [Blank("ChatMessage") EXCEPT !.size = FakeSize, !.len = HeaderSize + 4]

NoName == 7  \* "Unknown"

(* The nickname is not asked for.                                          *)
PacketUnnamed(l) ==
  CASE l.cmd = "leave" -> PKExit(nick)
    [] l.cmd = "count" -> PKUserCountReq
    [] l.cmd = "error" -> FakePacket
    [] l.cmd = "none"  -> PKChatMessage(IF nick = 0 THEN NoName ELSE nick, l.text)

(* A count is asked for with the class for the answer.                     *)
PacketAck(l) ==
  CASE l.cmd = "leave" -> PKExit(nick)
    [] l.cmd = "count" -> PKUserCountAck
    [] l.cmd = "error" -> FakePacket
    [] NeedsLogin(l)   -> PKLoginReq(l.text)
    [] OTHER           -> PKChatMessage(IF nick = 0 THEN NoName ELSE nick, l.text)

Packet(l) ==
  CASE l.cmd = "leave" -> PKExit(nick)
    [] l.cmd = "count" -> PKUserCountReq
    [] l.cmd = "error" -> FakePacket
    [] NeedsLogin(l)   -> PKLoginReq(l.text)
    [] OTHER           -> PKChatMessage(IF nick = 0 THEN NoName ELSE nick, l.text)

TypeLine(l) ==
  /\ at["tx"] = "getline" /\ lines + talk + old < MaxPackets
  /\ lines' = lines + 1
  /\ nick' = IF NeedsLogin(l) THEN l.text ELSE nick
  /\ msg' = Packet(l)
  /\ Go("tx", "send")
  /\ UNCHANGED <<socket, peer, up, came, serving, receiving>>

EndOfInput ==
  /\ at["tx"] = "getline"
  /\ Go("tx", "stop")
  /\ UNCHANGED <<socket, peer, sending, serving, receiving>>

(* The bytes of msg sent by the earlier passes of sendBytesAll.            *)
Sent == IF up # <<>> /\ up[Len(up)].out < up[Len(up)].p.len THEN up[Len(up)].out ELSE 0

(* All bytes sent.                                                         *)
Total == IF up = <<>> THEN 0 ELSE up[Len(up)].from + up[Len(up)].out

(* What one send takes is taken for all.                                   *)
SendOnce(n) ==
  /\ at["tx"] = "send" /\ sock /\ open /\ peer # "dead"
  /\ n \in {HeaderSize, msg.len}
  /\ up' = Append(up, [p |-> msg, from |-> Total, out |-> n])
  /\ came' = IF peer = "up" THEN Total + n ELSE came
  /\ msg' = PKUserCountReq
  /\ Go("tx", IF msg.id = "Exit" THEN "stop" ELSE "loop")
  /\ UNCHANGED <<socket, peer, lines, nick, serving, receiving>>

(* A send takes the header or all that is left.                            *)
Send(n) ==
  /\ at["tx"] = "send" /\ sock /\ open /\ peer # "dead"
  /\ n \in {HeaderSize, msg.len} /\ n > Sent
  /\ up' = IF Sent = 0 THEN Append(up, [p |-> msg, from |-> Total, out |-> n])
           ELSE [up EXCEPT ![Len(up)].out = n]
  /\ came' = IF peer = "up" THEN Total + n - Sent ELSE came
  /\ msg' = IF n < msg.len THEN msg ELSE PKUserCountReq
  /\ Go("tx", IF n < msg.len THEN "send" ELSE IF msg.id = "Exit" THEN "stop" ELSE "loop")
  /\ UNCHANGED <<socket, peer, lines, nick, serving, receiving>>

(* Only a chat message and an exit end the loop when they cannot be sent.  *)
SendFails ==
  /\ at["tx"] = "send" /\ (~sock \/ ~open \/ peer # "up")
  /\ peer' = IF peer = "left" THEN "dead" ELSE peer
  /\ msg' = PKUserCountReq
  /\ Go("tx", IF msg.id = "Exit" \/ (msg.id = "ChatMessage" /\ msg # FakePacket)
              THEN "stop" ELSE "loop")
  /\ UNCHANGED <<socket, lines, nick, up, came, serving, receiving>>

User       == EndOfInput \/ \E l \in Line : TypeLine(l)
SendThread == SendLoop \/ (\E n \in 1 .. msg.len : Send(n)) \/ SendFails \/ StopStep("tx")

-----------------------------------------------------------------------------
(***************************************************************************)
(* The server, on any of its workers.  The session is in the table, and    *)
(* its first receive posted, before it is welcomed.  What the server does  *)
(* to a connection that the client has closed is left out.                 *)
(***************************************************************************)
(* EnqueueSend.                                                            *)
EnqueueSend(ps) == queue' = IF peer = "up" THEN queue \o ps ELSE queue

(* As many bytes as its header declares are handed over as a packet.       *)
Popped(p) == [p EXCEPT !.len = p.size]

(* The bytes from the next packet on that have arrived at the server.      *)
Arrived == came - up[handled + 1].from

(* Behind the faulty packet the framer stands in the middle of another,    *)
(* whose bytes are taken not to look like a packet of a client.            *)
Shifted == \E i \in 1 .. handled : up[i].p = FakePacket

(* What has arrived when the session is closed may be handled still.       *)
OnPacket ==
  LET p == Popped(up[handled + 1].p) IN
  /\ handled < Len(up) /\ ~Shifted /\ Arrived >= p.size
  /\ handled' = handled + 1
  /\ EnqueueSend(Answer(p))
  /\ heard' = heard \o News(p)
  /\ accepted' = IF Answer(p) = <<PKLoginAck(TRUE)>> THEN p.name ELSE accepted
  /\ peer' = IF Handler(p) = "Exit" /\ peer = "up" THEN "left" ELSE peer
  /\ UNCHANGED <<socket, at, sending, greeted, talk, old, down, receiving>>

OnClientConnected ==
  /\ peer = "up" /\ open /\ at["main"] \notin StartAt /\ ~greeted
  /\ greeted' = TRUE
  /\ EnqueueSend(<<Greeting>>)
  /\ UNCHANGED <<socket, at, peer, sending, handled, accepted, heard, talk, old, down, receiving>>

OtherTalks ==
  /\ peer = "up" /\ open /\ at["main"] \notin StartAt /\ lines + talk + old < MaxPackets
  /\ talk' = talk + 1
  /\ EnqueueSend(<<PKChatBroadcast(5, 5)>>)
  /\ UNCHANGED <<socket, at, peer, sending, handled, accepted, heard, greeted, old, down, receiving>>

(* PostSend and WSASend.  It is called for what this session is sent; what *)
(* it began with goes first.  Nothing makes it happen: the worker that has *)
(* the right to send may have found the queue empty before the packet      *)
(* came, or the right was lost before the session had its port (SendPath). *)
MaxBatch == 16

PostSend ==
  LET n == IF Len(queue) > MaxBatch THEN MaxBatch ELSE Len(queue) IN
  /\ peer = "up" /\ open /\ queue # <<>> /\ Len(down) + Len(queue) > old
  /\ down' = down \o SubSeq(queue, 1, n)
  /\ queue' = SubSeq(queue, n + 1, Len(queue))
  /\ UNCHANGED <<socket, at, peer, sending, handled, accepted, heard, greeted, talk, old,
                 receiving>>

ServerLeaves ==
  /\ peer = "up" /\ open /\ at["main"] \notin StartAt
  /\ peer' = "left"
  /\ UNCHANGED <<socket, at, sending, serving, receiving>>

Next ==
  \/ MainThread \/ ReceiveThread \/ SendThread \/ User
  \/ OnPacket \/ OnClientConnected \/ OtherTalks \/ PostSend \/ ServerLeaves

Spec == Init /\ [][Next]_vars

(* The threads run on, and a server that is up handles what has arrived;   *)
(* neither the user nor the server owes more.                              *)
FairSpec ==
  /\ Spec /\ WF_vars(MainThread) /\ WF_vars(ReceiveThread) /\ WF_vars(SendThread)
  /\ WF_vars(OnPacket /\ peer = "up")

-----------------------------------------------------------------------------
(* The socket is closed and Winsock cleaned up once, wherever the start    *)
(* fails and however the calls of stop() overlap, and when main returns it *)
(* has been done.  Once running_ is cleared the socket is closed or about  *)
(* to be, so that no thread stays in recv.                                 *)
ClosedOnce ==
  /\ cleaned <= started
  /\ at["rx"] # "idle" /\ ~running => ~open \/ \E t \in Threads : at[t] = "close"
  /\ at["main"] = "done" => cleaned = started /\ ~open

(* The others know this client by the one name it has logged in with: no   *)
(* message of it is passed on before, or under another name, and the       *)
(* notice of its exit is about that name.                                  *)
SameName ==
  \A i \in 1 .. Len(heard) :
    \/ heard[i].name = accepted /\ accepted # 0
    \/ heard[i] = HandleExit(PKExit(accepted))

(* What sendBytesAll leaves unsent is followed by nothing: a packet cut    *)
(* short by a failing send never shifts the server's framing.              *)
WholePackets == \A i \in 1 .. Len(up) - 1 : up[i].out = up[i].p.len

(* The server refuses nothing this client sends but the faulty packet of   *)
(* the command for it, when others have completed that: the two sides      *)
(* agree on id and size of every packet.                                   *)
NothingRefused ==
  \A i \in 1 .. handled : Handler(Popped(up[i].p)) = "error" => up[i].p = FakePacket

(* What is shown as a packet was sent to this client, came whole in one    *)
(* recv, and is shown once and in order.                                   *)
ShownInOrder ==
  /\ \A i \in 1 .. Len(shown) : shown[i] <= taken
  /\ \A i, j \in 1 .. Len(shown) : i < j => shown[i] < shown[j]

Asked ==
  Cardinality({i \in 1 .. Len(up) : up[i].p = PKUserCountReq /\ up[i].out = up[i].p.len})
Told == Cardinality({i \in 1 .. Len(shown) : down[shown[i]] = PKUserCountAck})

AllShown ==
  neat => \A i \in 1 .. taken :
            down[i] = Greeting \/ \E j \in 1 .. Len(shown) : shown[j] = i

AllTold ==
  neat /\ peer = "up" /\ queue = <<>> /\ taken = Len(down) /\ handled = Len(up)
    => Told = Asked + old

(* As long as each recv takes exactly one packet, nothing is missed: all   *)
(* but the welcome is shown as a packet, and when everything sent by       *)
(* either side has arrived and the server, its session still open, has     *)
(* nothing queued, as many answers have been shown as questions for the    *)
(* number of users were sent, besides those to its session's former        *)
(* client.                                                                 *)
NothingMissed == AllShown /\ AllTold

(* Once stop() was called run() returns, although the receiving thread may *)
(* be in recv; all it may have to wait for is the user's next line.        *)
StopEnds ==
  (at["rx"] # "idle" /\ ~running) ~> (at["main"] = "done" \/ at["tx"] = "getline")

(* Every question for the number of users is answered and the answer       *)
(* shown, unless packets stay in the server's queue for ever, a recv       *)
(* merges or cuts packets, either side ends, or the client has sent its    *)
(* faulty packet.                                                          *)
CountIsTold ==
  []<>(queue = <<>>) =>
    (Asked > 0 ~>
       \/ Told = Asked + old \/ ~neat \/ ~running \/ peer # "up"
       \/ \E i \in 1 .. Len(up) : up[i].p = FakePacket)
=============================================================================
