# Verification of the IOCP chat server

TLA+ models of the chat server in `IOCP_Basic/`, of its client in `EchoClient/`
and of the code they share in `Common/`; TLC checks them on small instances and
TLAPS proves the main facts for every size. Line numbers refer to the sources.

## 1. Inventory

| part | state | operations | used by |
|---|---|---|---|
| worker threads (`IOCP_EchoServer::WorkerThread`) | call stack | take a completion, dispatch it | started by `Start`, joined by `Stop` |
| session life cycle (`AcceptCompletion`, `RecvCompletion`, `SendCompletion`, `CloseSession`) | `Session`: `sock`, `id`, `rxBuf`, `rx`, `sendQueue`, `sending`, `closing`, `ovRecv`, `ovSend`; `sessionTable_`, `statCurConn_` | accept, receive, close | workers |
| send path (`EnqueueSend`, `PostSend`, `SendCompletion`) | `sendQueue` (under `sessionMtx_`), `sending` | queue a packet, merge up to 16 into a WSASend | handlers, for any session, on any worker |
| `SessionPool` | stack of free objects | `Acquire`, `Release` | accept, close |
| `BufferPool` | free buffers | `Allocate`, `Release` | accept, close |
| `RingBuffer` | vector, `head_`, `tail_`, `size_` | `append`, `read`, `peek`, `discard`, `clear` | receive path, framer |
| `PacketFramer` | none | `Pop` | `RecvCompletion` |
| `PacketHandler` | none | welcome, login, chat, user count, exit | `RecvCompletion`; calls `EnqueueSend`, `Broadcast`, `CloseSession` |
| `Start`, `Stop`, statistics thread | `running_`, the threads, the listen socket, the port | start, stop | `main` |
| `LoadExtensionFunctions` | two function pointers | look them up | `Start` |
| `Logger` | two streams, a mutex | `Init`, `Shutdown`, write a line | `Start`, `Stop`, every handler |
| `EchoClient` | `sock_`, `running_`, `nickname_` | `initWinsock`, `createSocket`, `connectToServer`, `run`, `stop`, `receiveLoop`, `sendLoop` | client `main` |
| packet classes | fixed-size packed structs | construct, `Serialize`, `IsValid`, `Deserialize` | `PacketHandler`, `EchoClient` |

What is hard here: all workers serve all sessions, so the handlers of one
session run against broadcasts from others and against a close decided
elsewhere; a `Session` object is reused by the next client as soon as
`CloseSession` has released it, and nothing counts the pointers that
completions, broadcast snapshots and running frames still hold; completions are
consumed in any order; clients leave at any moment; TCP cuts the byte stream
anywhere; `Stop` runs against all of it. `PROJECT.json` lists these as hazards,
each at its line.

What makes each part correct: one receive, one send and one closer per session
at a time; every object released once and only after it left the table; no
AcceptEx lost; every dropped connection closed in the end; packets received and
sent whole, once and in order; the ring a FIFO; the two sides agreeing on every
packet, and a question answered as long as its answer does not stay in the
server's queue; a thread that is started running until `Stop`;
`Stop` and the client's `stop` ending every thread and cleaning up once.

## 2. Modules

| module | models | composed with |
|---|---|---|
| `IocpServer` | workers, the session life cycle, the pool, the send path, the handlers' effects | uses the ring as a sequence of packets; implements `ConnectionLife` |
| `ConnectionLife` | what a client is promised about its session: leased, known, closed, returned | |
| `IocpServerInv` | the inductive invariant `SessionInv` of its properties | extends `IocpServer` |
| `IocpServerProofs`, `IocpServerTokens`, `IocpServerLife` | theorems about it | each extends the one before it |
| `SendPath` | sending to one client, every load, block and call a step | implements `PacketFifo` (`INSTANCE PacketFifo WITH Packet <- 1 .. MaxPackets, pending <- InHand \o queue, delivered <- wire`) |
| `PacketFifo` | what each direction of a session promises | |
| `SendPathProofs` | types, the right to send, the refinement | extends `SendPath` |
| `ReceivePath` | one connection's bytes from the client's `send` to `OnPacket` | uses the ring as a FIFO; implements `PacketFifo` (`INSTANCE PacketFifo WITH Packet <- Whole, pending <- Unheard, delivered <- Heard, broken <- (at \in {"done", "fault"})`) |
| `ReceivePathInv`, `ReceivePathProofs` | its inductive invariant `FlowInv`; theorems about it | extend `ReceivePath` |
| `RingBuffer` | the ring, one loop pass per step | implements `ByteFifo` (`INSTANCE ByteFifo WITH content <- Contents`) |
| `ByteFifo` | what a ring buffer promises | |
| `RingBufferProofs` | type safety and the refinement | extends `RingBuffer` |
| `Shutdown` | `Start` and `Stop` against workers, completions, clients and the log | keeps of `IocpServer` only the table |
| `ShutdownProofs` | threads, log and AcceptEx operations through start and stop | extends `Shutdown` |
| `Packets` | sizes, fields and checks of the packets | |
| `PacketHandler` | which packet is handled how, who gets what | extends `Packets` |
| `EchoClient` | the client from `main` on, its threads, its conversation with the server | extends `PacketHandler` |
| `EchoClientProofs` | one clean-up, whole packets, nothing refused, one name, what is shown | extends `EchoClient` |
| `MCIocpServer`, `MCReceivePath`, `MCRingBuffer` | instances for TLC | |

An operator just before a definition whose comment names a change ("The old
value is not looked at.") is that definition with a bug in it; each is paired
in `PROJECT.json` with the property that catches it.

### IocpServer

State. A worker's stack is at most three deep, so it is `hand[w]` (the
completion handler), `snd[w]` (an `EnqueueSend`/`PostSend`) and `cls[w]` (a
`CloseSession`); the innermost active frame runs. `conn`, `closing`, `sending`,
`rxBuf`, `rx`, `queue` are the fields of `Session`; `free`, `table`, `count` are
the pool's stack, `sessionTable_` and `statCurConn_`; `link`, `assoc`,
`accepts`, `recvs`, `sends` are what Windows keeps: the state of each
connection, the association with the port, and the operations outstanding.
A connection stands for its socket and its id, both of which are new for every
accept.

Steps. Every action is one access to shared state: an atomic, a block under a
mutex or a system call, in the order of the code; `PROJECT.json` maps each to
its lines. These are one step where the code has two:

* the test of `closing` at the start of `EnqueueSend`, `PostSend` and `PostRecv`
  with the block, WSASend or WSARecv that follows. If `closing` is set in
  between and stays set, nothing else in between reads what the block writes,
  so the block might as well have come first; if it was set and cleared by a
  reuse, the merged test passes as the separate one did;
* `closesocket` with the return of the receive buffer, between which only the
  closer touches either;
* `statCurConn_++` (165) with `CreateIoCompletionPort` (169), and `statCurConn_--`
  (332) with the object's return to the pool (333). The counter decides nothing: the
  statistics thread and `HandleUserCount` report it, as a number the model leaves
  out, and what is claimed of it (`NoLeak`) is claimed for moments in which no
  worker is between the two;
* `PostAccept`, which is taken to succeed while the server runs. That it cannot
  once the listen socket is closed is in `Shutdown`.

What a completion reports is chosen when it is taken: data while the
connection's `budget` lasts, or the end when the peer left or the socket was
closed here. An immediate failure of WSARecv or WSASend is possible when the
peer left or the socket is closed. A WSASend that completes before its socket
is associated with the port queues nothing (`SendUnnotified`).
`rxBuf = nullptr` under `append` ends the process (`RecvFault`).

`clean` is a history variable: it becomes FALSE when `Acquire` hands out an
object that a pending operation or a frame still refers to. The properties with
`clean =>` say what the code guarantees until then; that it can become FALSE is
a defect of the code, which `misdelivered` and `double_release` show.

`IsConnectionLife` says what all this amounts to for a client. `ConnectionLife`
knows connections and objects only: a connection arrives, is refused if no
object is free or leases one, enters the table, has its socket closed, leaves
the table, and gives its object back, in this order and whatever else goes on;
that two workers may be at it, that a broadcast may meet it half-way, that
three parties may want to close it, does not show. The mapping reads the lease
off `conn` (`AcceptSetup` has recorded it) or off the worker between `Acquire`
and that (`SetsUpFor`), and ends it with the object's return to the stack. `ok`
is `clean`: the promise is off from the moment an object is handed out while
referred to.

### SendPath

`IocpServer` has the send path of every session, with merged steps and small
queues, because a broadcast, a close and a reuse all meet there. `SendPath`
takes one client and lets any number of workers queue, send and close for it,
with nothing merged: the test of `closing`, the block of `EnqueueSend`, the
exchange of `sending`, the test of `closing` in `PostSend`, its block, and the
WSASend are six steps. A packet is its number, so one lost, repeated or overtaken
shows. It begins when the session enters the table, which is before the socket
is associated with the port (`Associate`): a broadcast may come first.

`IsFifo` says that under the mapping above every behaviour is one of
`PacketFifo`: what is taken from the queue in one batch is sent whole or lost
with the connection, and nothing is sent after a loss. `InHand` is the batch of
the worker between its block and its WSASend; that there is one such worker is
`OneSender`.

### ReceivePath

`sent[k]` is the client's k-th packet, the size it declares and the bytes it
has; a byte is `<<k, i>>`, so a byte lost, repeated or moved shows. The network
hands over any non-empty prefix of what has arrived, at most a buffer. A size
read in the middle of a packet can be any size. The loop of `RecvCompletion`
calls `Pop` until `NeedMore` or `Malformed`.

`CloseSession` has callers on two sides. The receiving worker calls it at the
end of the stream, for a wrong packet, for a WSARecv that failed, and within
`OnPacket` for an exit (`HandleExit`, 186), after which the loop goes on: what
stands in the ring behind the exit is handled on the closed session, and only
`PostRecv` finds `closing` set and posts nothing (184). Any other worker calls it
when its WSASend for this session fails (304), at any moment; its steps are
`SendFails`: `closing`, the socket, `rxBuf`. Then `append` may meet a nullptr
(`RecvFault`) or WSARecv a closed socket (`WSARecv`). `ended` records the first
reason. The worker is followed until it posts no receive any more (`at` is
`"done"` or `"fault"`).

`Right` is the number of packets before the first whose header does not tell
its length; beyond it nothing can be promised, since the server finds packet
borders by headers alone. `IsFifo` says that these packets pass through
`PacketFifo`, the specification that `SendPath` implements for the other
direction: the client's `send` is a `Put`, an `OnPacket` a `Send(1)`, the end of
the receiving a `Lose`, after which `OnPacket` is not called; receive, append,
the close of the session, and whatever `Pop` makes of the bytes after a wrong
header do not show.

### RingBuffer

One pass of the `while` loops of `append` and `read` is a step, with the index
arithmetic of the code. `Contents` reads the bytes stored, oldest first;
`IsFifo` says that under this mapping every behaviour is one of `ByteFifo`.

### Shutdown

The main thread's steps through `Start` (`StartFails` stands for each of its
early returns, 24-39), through `Logger::Init`, which may fail to open a file
(Logger.cpp:22) while `Start` goes on all the same (59), and through `Stop`, in the
order of the code. A worker's `running_` test, wait and second test and the handlers' parts
that `Stop` depends on (table, mutex, AcceptEx, a line to the log). The port is a
queue. `lost` counts the lines that met a closed stream; a line against `Init`,
which opens the streams without the mutex of the writers, is written or lost, as
is one after an `Init` that failed, which may have opened its file or not.
`StopClose` leads to `relock`, where the thread waits for a mutex it holds; what
that does is undefined for `std::mutex` (it blocks, or throws out of `main`), in
no case does `Stop` go on. `overflow` is `PostAccept` calling itself on the
closed listen socket; the other threads may go on while the stack fills, so the
model lets them.

### Packets and PacketHandler

A packet is the id and size of its header, the number of bytes it has, and the
lengths of its name and its text; `Cut` is what `strncpy` into a field of fixed
size keeps. `PacketHandler` is functional: `Handler` is the decision of
`ProcessOnePacket`, `Answer` what the sender is sent, `News` what is broadcast.
`OnBytes` is an older entry that nothing calls.

### EchoClient

The start of the main thread, step by step with its failures, then main,
receiving and sending thread; `stop()` is entered by each (`Stop`, `StopClose`,
`StopForget`, `StopCleanup`). `recv` blocks until data, the end of the connection
or the closing of the socket. `up` is what was sent, packet by packet with the
bytes of it that `send` took; `down` is what the server sent back. A `recv` takes
any number of whole packets of `down` and a part of the next, cut before or
after its header; as in the code only the first header is looked at, so the rest
of what was taken is not shown as packets.

The server handles the packets of `up` in order, through the operators of
`PacketHandler`, as soon as the bytes that their headers declare have arrived
(`Arrived`). The faulty packet of the test command declares more than it has: it
is handed over when later packets complete it, is refused, and leaves the framer
in the middle of a packet (`Shifted`), from where on nothing is handled here.

An answer is not given in the step that handles the question. `EnqueueSend` puts
it into `queue`, or drops it when the session is closing (259); `PostSend` moves up
to 16 packets to `down`, in a step of its own that nothing forces: that packets can
stay in the queue for ever is what `stranded` and the third case of `RightKept`
say. `queue` begins with `old` answers to the object's former client, as
`misdelivered` shows that it can; these go out before the first packet of this
client, and not before something is queued for it.

## 3. Runs

| run | shows | bounds |
|---|---|---|
| `life_cycle` | type and reference safety; one receive, one send, one closer per session; an open connection is always watched; no leak at rest; only a failed WSASend closes a session under its WSARecv or its `RecvCompletion`; the inductive invariant | 2 workers, 2 objects, 2 clients, 2 AcceptEx, 1 receive with data per client completing any one packet, a partial one, or an exit with a packet behind it |
| `reuse` | no AcceptEx is lost, also when the pool is empty; the server implements `ConnectionLife`; a dropped connection is closed (liveness) | 2 workers, 1 object, 2 clients |
| `ring_buffer` | the ring is a FIFO | 3 cells, 2 byte values, appends and reads of up to 4 bytes |
| `framing` | packets whole, once, in order, as from a FIFO, also behind an exit; no overflow; nothing left waiting; the inductive invariant; delivery unless the connection is reset or closed for an exit or a failed call (liveness) | 3 packets of 2 to 4 bytes, exits, too small, too large or truncated ones; receives of up to 3 bytes; a WSASend or WSARecv that fails at any moment |
| `delivery` | one sender at a time; the right to send is not lost but in three cases; packets leave as from a FIFO; the queue drains (liveness) | 3 workers, 4 packets, batches of up to 2 |
| `shutdown` | threads serve until `Stop`; a log that opens loses lines during `Start` only; no worker sleeps on while `Stop` joins; `Stop` is alone when it tears down, and returns but for its two flaws (liveness) | 2 workers, 2 clients, 1 AcceptEx; `Start` from its first step |
| `client` | one clean-up, after which no thread stays in `recv`; whole packets that the server accepts, but for the faulty one; one name; answers shown in order, none missed and as many as questions while each `recv` takes one packet and the server keeps the session and has nothing queued; `stop()` ends `run()`, and a question is answered while the server's queue keeps running empty (liveness) | 2 packets (`MaxPackets`): lines typed, messages of others and answers left in the queue by the client before, together; texts of 0 and 40 characters; `FakeSize = 43` |
| `stranded`, `misdelivered`, `double_release`, `fake_packet`, `stop` | each a statement of the sources that the code does not keep | as above or smaller |

Why these bounds are enough to be interesting: two workers are what it takes for
a handler to race with another, and every race found needs only two; one object
for two clients forces the refusal and the reuse; two objects let a broadcast
reach another session. The sizes of `ReceivePath` are the smallest in which a
header can be cut, a packet needs two receives and a receive completes several;
`Capacity = MaxPacket + BufferSize - 1` is the tightest ring its assumption
allows (the code's 65536 is roomier: 32768 + 4096), so `NeverOverflows` is
checked at the edge. Three cells and pieces up to four wrap the ring at every
index. In `delivery` a batch of two is smaller than the queue can be, so a batch
leaves packets behind, and the third worker queues while one sends and one
closes. A text of 40 characters is longer than a name's field and shorter than a
message's, an empty one is a nickname the server refuses; two lines are a login
and a message, a message of a nameless user, or any command after either. The
faulty packet declares 43 bytes in the run, 9999 in the code: 43 is what its own
8 and part of a following login make, so one more line completes it, which in the
code takes 34 chat messages; like 9999 it is no multiple of four, as the sizes of
all other packets are, and so ends inside a packet. With
`AcceptCount = 1` in `shutdown` the aborted AcceptEx operations cannot wake all
workers, so the dummy completions matter.

Deadlock is checked in `ring_buffer`. Elsewhere the system may really stop:
clients stop sending, the budgets are used up, the server or the client ends.

Fairness. The operating system schedules every thread (weak fairness of each
worker, of `Stop`'s steps once begun, of the statistics thread, of the client's
threads; of `Associate` in `SendPath`, a worker's next line), and the network
hands over bytes that have arrived; in `EchoClient` a server that is up handles
what has arrived (`OnPacket`), as its own workers do in `ReceivePath`. There is no
fairness on its `PostSend`, since the code may leave packets in the queue
(285-287, 163-169); `CountIsTold` has the premise `[]<>(queue = <<>>)` instead,
that no packet stays there for ever. A session
whose completions are reported is served however the other workers behave, so
weak fairness is enough everywhere. Clients, the user and whoever stops the
server owe nothing.

### What the code does not keep

* `stranded`: `PostSend` sees an empty queue, another worker enqueues and finds
  `sending` still set, `PostSend` clears it (285-287). The packet stays until
  another packet is queued for that session.
* `misdelivered`: `sendQueue` survives `CloseSession` and reuse (153-158).
* `double_release`: a `CloseSession` left over from an earlier client closes the
  next one, and the object is put on the stack twice.
* `fake_packet`: the client's own test packet (declares 9999, sends 8 bytes) is
  not `Malformed` for the framer; it waits and swallows what follows. When that
  completes it, it is refused, and the framer goes on in the middle of a packet
  (`Shifted` in `EchoClient`).
* `stop`: with a client connected, `Stop` locks `sessionMtx_` twice (82, 328).

Also visible in the models, without a run of its own:

* a broadcast between 164 and 169 of `AcceptCompletion` sends on a socket not
  yet associated with the port. Its completion is reported to nobody, `sending`
  stays set, and that client is never sent anything (the third case of
  `RightKept`);
* after a WSASend that failed, `CloseSession` returns `rxBuf` to its pool while a
  WSARecv into it is outstanding or another worker is about to append from it,
  through a nullptr then (`RecvFault`; the case `BufferHeldAtClose` leaves out), and
  after a reuse two sends can be outstanding on one `ovSend`;
* the bytes of `toSend` are freed when `PostSend` returns, although the comment
  at 306 has them live until the completion;
* a `Start` that fails after the listen socket exists leaves it, the port and
  Winsock behind, and the `Stop` of the destructor returns at once because
  `running_` was never set (`main` ends the process then);
* the workers run before `Logger::Init`: their lines until then are lost; and
  `Start` does not look whether it succeeded: when a file cannot be opened the
  server serves without that log (`log = "failed"`);
* `HandleExit` closes the session and the framer loop goes on: packets behind an
  exit are handled on a session that is closed, and may be another client's;
* the client prints a correct packet that TCP has cut as a wrong one, and drops
  what comes behind the first packet of a `recv` (`neat` in `NothingMissed` and
  `CountIsTold`); the server's welcome is sent after the first receive is
  posted and may come after answers and broadcasts;
* `PKUserCountReq::IsValid` looks for the id of `PKUserCount`; nothing on the
  server's path calls it, and a handler that did would answer no question
  (`AnswerIfValid`).

## 4. Proofs

| theorem | says |
|---|---|
| `IocpServerProofs.TypeCorrect` | `Spec => []TypeOK`: types, and every reference in use (frame, table entry, pending operation) is to an object that serves or served a connection |
| `IocpServerProofs.ObjectsOwned` | `Spec => [](clean => ObjectInv)`: who owns an object in each phase of its life |
| `IocpServerProofs.ReleasedOnceHolds` | `Spec => []ReleasedOnce` |
| `IocpServerTokens.RecvExclusiveHolds` | `Spec => []RecvExclusive` |
| `IocpServerTokens.SendExclusiveHolds` | `Spec => []SendExclusive` |
| `IocpServerTokens.SessionsHold` | `Spec => []SessionInv`: the above and whose bytes are in a ring |
| `IocpServerTokens.BufferIsHeld` | `Spec => BufferHeldAtClose` |
| `IocpServerTokens.AcceptsAreKept` | `Spec => []AcceptsKept` |
| `IocpServerTokens.NothingLeaks` | `Spec => []NoLeak` |
| `IocpServerLife.SessionsAreLeased` | `Spec => IsConnectionLife`: the server implements `ConnectionLife` |
| `IocpServerLife.OneLeaseForEach` | `Spec => []Life!Exclusive`: at every moment an object is free or serves one connection |
| `IocpServerLife.NobodyIsForgotten` | `Spec => []NobodyForgotten` |
| `SendPathProofs.SendTypes`, `OneSenderHolds`, `RightIsKept` | `Spec => []TypeOK`, `[]OneSender`, `[]RightKept` |
| `SendPathProofs.SendPathIsFifo` | `Spec => IsFifo` |
| `ReceivePathProofs.FramingIsRight` | `Spec => []Framed` |
| `ReceivePathProofs.ReceivePathIsFifo` | `Spec => IsFifo` |
| `ReceivePathProofs.WaitsForNothing` | `Spec => []NothingWaits` |
| `ReceivePathProofs.OverflowIsDead` | `Spec => []NeverOverflows` |
| `ReceivePathProofs.FlowHolds`, `ReceiveTypes` | `Spec => []FlowInv`, `Spec => []TypeOK` |
| `RingBufferProofs.RingSafe` | `Spec => [](TypeOK /\ IndicesAgree)` |
| `RingBufferProofs.RingIsFifo` | `Spec => IsFifo` |
| `ShutdownProofs.StartStopHolds` | `Spec => [](AllServe /\ NobodyLeft)` |
| `ShutdownProofs.LogIsKept` | `Spec => LogKept` |
| `ShutdownProofs.AllAreWoken` | `Spec => []EnoughWoken` |
| `ShutdownProofs.ShutdownTypes` | `Spec => []TypeOK`: among the types, never more AcceptEx operations than `Start` has posted |
| `EchoClientProofs.ClosedOnceHolds` | `Spec => []ClosedOnce` |
| `EchoClientProofs.PacketsAreWhole` | `Spec => []WholePackets` |
| `EchoClientProofs.NothingIsRefused` | `Spec => []NothingRefused` |
| `EchoClientProofs.ShownIsInOrder`, `NothingIsMissed` | `Spec => []ShownInOrder`, `[]NothingMissed` |
| `EchoClientProofs.SameNameHolds` | `Spec => []SameName` |
| `EchoClientProofs.ClientTypes` | `Spec => []TypeOK` |

They hold for all numbers of workers, objects, clients, cells, packets and lines,
all sizes and all data, under the named assumptions on the constants only. Those of
`IocpServer` whose property begins with `clean =>` (`ReleasedOnce`, the two tokens,
`SessionInv`, `BufferHeldAtClose`, `NoLeak`, `NobodyForgotten`, `IsConnectionLife` and
`Life!Exclusive` through `ok`) hold until an object is handed out while something
still refers to it.

`TypeOK` of `IocpServer` is inductive because it contains `FramesOK`: without it
a frame could act on `conn[s] = None`. `ReleasedOnce` is not inductive: that an
object is pushed once needs that its closer is unique, which needs that an
object with a closer has `closing` set, that `Acquire` (which clears it) only
takes objects no closer refers to, and hence where every free, fresh, registered
and closing object can be referred to from. `ObjectInv` says this in four parts:
`FreshInv` (an object being set up is known to its worker only), `TableInv` (a
table entry is under its session's id), `PoolInv` (a free object is unregistered
and whatever still refers to it finds `closing` set) and `CloserInv` (one
closer, `closing` set, not free). It is inductive under `clean`, which is exactly
the condition that `Acquire` meets nobody. The proof goes action by action, one
lemma per part.

Who may receive and who may send is a token of the session. A step of a worker
leaves the receive token where it is, takes it with a completion, gives it to a
WSARecv, or acquires a new object with it; from these four moves alone
`RecvExclusive` is inductive (`RecvToken`). The send token is guarded by
`sending`, which `AcceptSetup` clears, so `SendExclusive` also needs `FreshInv`:
nobody sends on an object that is being set up. That a ring holds bytes of the
client it serves only (`OriginInv`) needs that an append is made by the holder of
the receive token, and that the ring is cleared with `conn`. `BufferHeldAtClose`
follows from `RecvToken` and a look at who calls `CloseSession`: whoever holds the
token, for which nobody else can be using the buffer, or has just given up a
failed WSASend. `AcceptsKept` is inductive by itself: a worker owes an AcceptEx from the completion it has
taken to `PostAccept`, and a sum over the workers changes with one of them.

`NoLeak` counts objects and connections, so its proof turns on sets that change
by one element. A connection has no session until `AcceptSetup` and never a
second one (`ConnInv`), hence a table entry is neither overwritten nor removed
by the session of another connection. Every object is free, registered, or in
the hands of the one worker that sets it up or closes it, and one that is being
closed and has not left the table yet is registered (`PlaceInv`). `count` plus
the workers about to increase it equals the registered sessions plus the workers
about to decrease it (`CountInv`). With all workers idle the exceptions are
empty, and the bijection between registered objects and table entries gives the
two equations.

`NobodyForgotten` is the safety half of `DroppedIsClosed`: an open connection has
somebody who will notice that its peer has left, and so liveness is left with
the progress of that one party. By itself it is not inductive, because a worker
may give a receive up when it finds `closing` set, and a second `CloseSession`
returns at once. `MarkedInv` adds that a session whose `closing` is set has its
socket closed or a worker about to close it, and `GoneInv` that an object
beyond its `closesocket` (released, free or being set up) served a connection
whose socket is closed, so that `AcceptSetup` overwrites no `conn` that matters.

For `SessionsAreLeased` each action of the code is followed through the mapping:
one that moves a connection or an object is the step of `ConnectionLife` its
name suggests (`AcceptRefuse` is a `Refuse`, `CloseUnregister` a `Leave`), any
other a stutter, one lemma for each. `AcceptSetup` is a stutter because the
lease only moves from the worker to `conn`; that needs `FreshInv`, since another
worker on the same object would be a second lease. The guards of the abstract
steps are what the proof has to supply: `Enter` needs the socket open (`OpenInv`:
nobody closes it before the session is in the table), `Return` needs it closed
(`GoneInv`) and the table entry gone (`CloserInv`, `ConnInv`). `OneLeaseForEach` is
then an invariant of the abstract specification, proved from its steps and
carried over by the refinement; `NoLeak` says it with numbers, for the moments in
which nobody is at work.

In `SendPath`, `OneSender` is inductive as it stands. Its clause about failures
is what makes the refinement true: a batch given up after a failed WSASend is
followed by nothing, since the right to send is not given back. With one batch
in hand, `Take` maps to a stutter, `Give` to a `Send`, `GiveFails` and
`CloseSocket` to a `Lose`.

`NobodyLeft` and `AllServe` are read off `Phase`, which says for every place of
the main thread where the others can be: unborn before their spawn, past no
`running_` test before `running_` is set, and out after their join. `LogKept` is
an action property over the same invariant: the log is open, or failed to open,
from the end of `Start` until nobody is left to write; a log that opened loses no
line in between. The bound on `accepts` in `TypeOK` needs the operations that are not outstanding any more: each is a completion still
queued or in the hands of a worker before its `PostAccept` (`AcceptInv`).
`EnoughWoken`, the safety half of `StopEnds`, holds because a waiting worker and
a completion disappear together and nobody begins to wait once `running_` is
cleared, which is before the completions are posted; it would fail if `Stop` had
posted them first.

`ClosedOnce` needs that `running_` hands the clean-up to one thread: `Closer`
says that at most one thread is between the test of `running_` and its
`WSACleanup`, that `cleaned` counts it when it is through, and that the main
thread's last `stop()` finds it done. `WholePackets` and `NothingRefused` need what
is on its way: the packet being sent is the last of `up`, and each of `up` is one
that the client makes (`UpInv`), so that its id and size are the ones the server
expects, or the faulty one. For any other packet the framer hands over the bytes
the client put into it, because it stands where a packet begins until the faulty
one is completed; of that one it hands over as many bytes as it declares, and it
is refused (`Refused`). How many lines are typed does not matter. `SameName` needs
the order in which they were sent: the nickname is set once, together with the login, which is the first packet that
bears it; every later packet bears the same one, what the server accepts is its
cut to the field, and an exit notice is the last that is heard (`NameInv`,
`HeardInv`). For `ShownInOrder` and `NothingMissed`, all the server sends down is
the welcome or a whole packet of one of three classes, and a part of a packet is
shorter than the packet declares, so a cut packet is never shown (`ShowInv`).

Two of these are the safety halves of the client's liveness properties. For
`StopEnds` it matters that the thread in `recv` is woken: once `running_` is cleared
the socket is closed or a thread is about to close it (`ClosedOnce`). For
`CountIsTold` it matters that the answers match the questions: while the server
keeps the session, `old` and one count for each question it has handled are in
`queue` or in `down` (`CountInv`), an induction over what the server does that needs
`UpInv` to know that each question is well formed; a batch moves counts from one to
the other and makes none. Once all has arrived, with nothing queued, `ShowInv` is a
bijection between the counts sent and the counts shown, and so `AllTold`, the second
half of `NothingMissed`, holds. A session that is closing drops answers (259), hence
`peer = "up"`; a stranded one is in `queue`, hence `queue = <<>>`.

The refinement proof of the ring shows that each step maps to a `ByteFifo` step
or a stutter; its heart is that `(head + i) % Capacity` addresses distinct
cells for the `size` bytes stored and that a chunk ends where the vector ends.

`Framed` speaks of what was delivered and says nothing of the bytes under way.
`FlowInv` adds them: the *flow*, ring, receive buffer and stream one after the
other, consists of bytes of packets sent (`KnownInv`), a packet's bytes together
(`RunsInv`) and the packets in order (`CrossInv`); it starts with the packet
after the last one delivered while the headers were right (`FrontInv`), ends
with the last byte sent until a reset (`EndInv`), and holds less than one packet
when a receive is posted (`RoomInv`, `ParkedInv`). A receive and `append` leave
the flow as it is, `Pop` cuts a prefix off, `send` extends it, a reset cuts its
end off; one lemma says so for each, and one how the parts survive it. `RoomInv`
with `MaxPacket + BufferSize <= Capacity + 1` is why the ring cannot overflow;
the code's sizes meet it. `ReceivePathIsFifo` adds `RightInv`, that the packets before
the first wrong header can be counted; together with `Framed` it makes `PopPacket`
a `Send` of the packet that is pending first, or a stutter, and with `CountInv` a
packet sent is a `Put` behind all those delivered. Where the session is closed, by
whom, and that the loop goes on behind an exit, is nothing to these invariants:
`OnPacket` is called by one worker with what the flow begins with. The `Lose` is
each step after which that worker posts no receive.

Every safety property of the passing runs is proved. Only model-checked, and out
of the prover's reach, are the liveness properties (`DroppedIsClosed`,
`AllDelivered`, `QueueDrains`, `StopEnds`, `CountIsTold`), which rest on fairness;
the safety they rest on is proved: `NobodyForgotten` for the first, `NothingWaits`
for the second, `RightKept` for the third, `EnoughWoken` for the `StopEnds` of the
server and `ClosedOnce` for that of the client, `NothingMissed` for the last.

## 5. Not modelled

* the text of log lines and of the consoles, session ids, counts and times in
  packets;
* which buffer `BufferPool` returns, and the contents of buffers: two leases of
  one buffer and bytes freed under a pending WSASend (306) are not represented;
* that a closed `SOCKET` value may be given to another socket;
* torn reads in what are data races in the code: a ring used by two workers
  after a reuse, `sock_` in the client;
* bytes from the middle of a packet that look like a header, to the client, and in
  `EchoClient` to the server behind a completed faulty packet (in `ReceivePath` they
  can declare any size and be an exit or not);
* that the object of a closed session may be another client's while `ReceivePath`'s
  worker is not through with it (that is in `IocpServer`);
* in `EchoClient`, a send that fails on a connection which later ones could use:
  `sendBytesAll` gives up on any error (230), and after a login, a count or the faulty
  packet `sendLoop` goes on. Here a send fails only when the server has left or the
  socket is closed, and then every later one does, which `WholePackets` needs;
* in `EchoClient`, sends of the server that fail or are not reported: a packet in
  `queue` stays or arrives. `SendPath` and `IocpServer` have them;
* a `CreateIoCompletionPort` that fails (40, 169), whose result the code does not
  look at, and a `create_directories` that throws in `Logger::Init`;
* `PacketHandler::OnBytes`, which is not called, the function pointers that
  `LoadExtensionFunctions` stores, and
  `Utility.h`, which holds includes and constants (port, buffer size, 16 AcceptEx
  operations, the word that quits).

## 6. Plan

In order of importance; done are 1 to 9.

1. `IocpServer` with its runs, `TypeCorrect`, `ReleasedOnceHolds`.
2. `RingBuffer` against `ByteFifo`, checked and proved.
3. `ReceivePath`, checked and proved.
4. `Shutdown`, from `Start` on, checked and proved.
5. `EchoClient`, checked and proved.
6. `SendPath` against `PacketFifo`, checked and proved; the conversation of client
   and server, with the packet classes and `PacketHandler`.
7. The rest of `SessionInv`, `AcceptsKept`, `BufferHeldAtClose` and `NoLeak`, proved.
8. `TypeOK` of every module with state, proved.
9. The safety halves of the liveness properties, and `IocpServer` against
   `ConnectionLife`, checked and proved.
10. `BufferPool` with buffers that have identities, so that a buffer used by two
   sessions can be told.
11. A proof that `IocpServer`, seen from one session between its accept and its
    close, takes the steps of `SendPath`.
