-------------------------- MODULE IocpServerProofs --------------------------
(***************************************************************************)
(* Type correctness of IocpServer, and who owns a session object.          *)
(*                                                                         *)
(* Types: the lemmas before TypeAccept say what the helpers that update a  *)
(* worker's frames do; then one lemma for each group of actions.           *)
(*                                                                         *)
(* Owners: a step of worker u can only come to refer to an object that u   *)
(* reaches, that the table holds or that it takes from the pool            *)
(* (StepRefs); from this ObjectInv, the part of SessionInv about the       *)
(* table, the pool and the closing worker, is inductive as long as no      *)
(* object is reused while something still points at it.                    *)
(***************************************************************************)
EXTENDS IocpServerInv, TLAPS, FiniteSetTheorems, SequenceTheorems

(* The frame of worker w is now f', the other workers' are what they were. *)
OthersKeep(f, g, w) == \A v \in Workers : v # w => g[v] = f[v]

(* The places a frame can be at, one by one.                               *)
LEMMA Labels ==
  /\ \A l \in {"off", "acquire", "setup", "register", "associate", "firstRecv", "reaccept",
               "welcome", "append", "pop", "chat", "exit", "nextRecv", "fault"} : l \in HandlerAt
  /\ \A l \in {"off", "push", "exchange", "pop", "clear", "wsaSend"} : l \in SendAt
  /\ \A l \in {"off", "mark", "socket", "unregister", "release"} : l \in CloseAt
BY DEF HandlerAt, SendAt, CloseAt

(* An inactive frame is a frame.                                           *)
LEMMA NoFrames == NoHandler \in Handler /\ NoSend \in SendCall /\ NoClose \in CloseCall
BY DEF NoHandler, NoSend, NoClose, Handler, SendCall, CloseCall, HandlerAt, SendAt, CloseAt

(* Replacing one worker's handler frame.                                   *)
LEMMA HandSet ==
  ASSUME TypeOK, NEW w \in Workers, NEW r \in Handler, hand' = [hand EXCEPT ![w] = r]
  PROVE  hand' \in [Workers -> Handler] /\ hand'[w] = r /\ OthersKeep(hand, hand', w)
BY DEF TypeOK, OthersKeep

(* Replacing one worker's send frame.                                      *)
LEMMA SndSet ==
  ASSUME TypeOK, NEW w \in Workers, NEW r \in SendCall, snd' = [snd EXCEPT ![w] = r]
  PROVE  snd' \in [Workers -> SendCall] /\ snd'[w] = r /\ OthersKeep(snd, snd', w)
BY DEF TypeOK, OthersKeep

(* Replacing one worker's close frame.                                     *)
LEMMA ClsSet ==
  ASSUME TypeOK, NEW w \in Workers, NEW r \in CloseCall, cls' = [cls EXCEPT ![w] = r]
  PROVE  cls' \in [Workers -> CloseCall] /\ cls'[w] = r /\ OthersKeep(cls, cls', w)
BY DEF TypeOK, OthersKeep

(* What GotoHandler does.                                                  *)
Went(w, l) ==
  /\ hand' \in [Workers -> Handler]
  /\ OthersKeep(hand, hand', w)
  /\ hand'[w].at = l /\ hand'[w].s = hand[w].s /\ hand'[w].c = hand[w].c
  /\ hand'[w].data = hand[w].data /\ hand'[w].targets = hand[w].targets

(* GotoHandler moves one handler and keeps its data.                       *)
LEMMA GotoFacts ==
  ASSUME TypeOK, NEW w \in Workers, NEW l \in HandlerAt, GotoHandler(w, l)
  PROVE  Went(w, l)
<1> DEFINE r == [hand[w] EXCEPT !.at = l]
<1>1. hand[w] \in Handler
  BY DEF TypeOK
<1>2. /\ r \in Handler /\ r.at = l /\ r.s = hand[w].s /\ r.c = hand[w].c
      /\ r.data = hand[w].data /\ r.targets = hand[w].targets
  BY <1>1 DEF Handler
<1>3. hand' = [hand EXCEPT ![w] = r]
  BY DEF GotoHandler
<1> HIDE DEF r
<1> QED
  BY <1>2, <1>3, HandSet DEF Went

(* What ReturnHandler does.                                                *)
LEMMA ReturnFacts ==
  ASSUME TypeOK, NEW w \in Workers, ReturnHandler(w)
  PROVE  /\ hand' \in [Workers -> Handler] /\ OthersKeep(hand, hand', w)
         /\ hand'[w] = NoHandler
         /\ hand'[w].at = "off" /\ hand'[w].s = None /\ hand'[w].targets = {}
<1>1. NoHandler.at = "off" /\ NoHandler.s = None /\ NoHandler.targets = {}
  BY DEF NoHandler
<1> QED
  BY <1>1, HandSet, NoFrames DEF ReturnHandler

(* CallSend starts EnqueueSend with one packet.                            *)
LEMMA CallSendFacts ==
  ASSUME TypeOK, NEW w \in Workers, NEW s \in Sessions, NEW m \in Conns, CallSend(w, s, m)
  PROVE  /\ snd' \in [Workers -> SendCall] /\ OthersKeep(snd, snd', w)
         /\ snd'[w].at = "push" /\ snd'[w].s = s /\ snd'[w].msgs = <<m>>
<1>1. [at |-> "push", s |-> s, msgs |-> <<m>>] \in SendCall
  BY Labels DEF SendCall
<1> QED
  BY <1>1, SndSet DEF CallSend

(* ReturnSend ends the send frame.                                         *)
LEMMA ReturnSendFacts ==
  ASSUME TypeOK, NEW w \in Workers, ReturnSend(w)
  PROVE  snd' \in [Workers -> SendCall] /\ snd'[w] = NoSend /\ OthersKeep(snd, snd', w)
BY SndSet, NoFrames DEF ReturnSend

(* CallClose starts CloseSession.                                          *)
LEMMA CallCloseFacts ==
  ASSUME TypeOK, NEW w \in Workers, NEW s \in Sessions, CallClose(w, s)
  PROVE  /\ cls' \in [Workers -> CloseCall] /\ OthersKeep(cls, cls', w)
         /\ cls'[w].at = "mark" /\ cls'[w].s = s
<1>1. [at |-> "mark", s |-> s] \in CloseCall
  BY Labels DEF CloseCall
<1> QED
  BY <1>1, ClsSet DEF CallClose

(* What PostRecv does: one more receive on the session's socket, or a      *)
(* CloseSession call, or nothing.                                          *)
LEMMA PostRecvFacts ==
  ASSUME TypeOK, NEW w \in Workers, NEW s \in Attached, PostRecv(w, s)
  PROVE  /\ recvs' \in [Sessions -> [Conns -> Nat]]
         /\ \A q \in Sessions, c \in Conns :
              recvs'[q][c] = recvs[q][c] \/ (q = s /\ c = conn[s] /\ recvs'[q][c] = recvs[q][c] + 1)
         /\ cls' \in [Workers -> CloseCall] /\ OthersKeep(cls, cls', w)
         /\ cls'[w] = cls[w] \/ (cls'[w].at = "mark" /\ cls'[w].s = s)
<1>0. s \in Sessions /\ conn[s] \in Conns /\ recvs \in [Sessions -> [Conns -> Nat]]
  BY DEF Attached, TypeOK
<1>1. cls \in [Workers -> CloseCall]
  BY DEF TypeOK
<1>2. CASE UNCHANGED <<recvs, cls>>
  BY <1>0, <1>1, <1>2 DEF OthersKeep
<1>3. CASE recvs' = [recvs EXCEPT ![s][conn[s]] = @ + 1] /\ UNCHANGED cls
  BY <1>0, <1>1, <1>3 DEF OthersKeep
<1>4. CASE CallClose(w, s) /\ UNCHANGED recvs
  BY <1>0, <1>4, CallCloseFacts
<1> QED
  BY <1>2, <1>3, <1>4 DEF PostRecv

(* What PostRecv makes pending, and whom it makes close a session.         *)
LEMMA PostRecvPending ==
  ASSUME TypeOK, NEW w \in Workers, NEW s \in Attached, PostRecv(w, s), UNCHANGED sends
  PROVE  /\ recvs' \in [Sessions -> [Conns -> Nat]] /\ cls' \in [Workers -> CloseCall]
         /\ \A q \in Sessions : Pending(q)' => Pending(q) \/ q = s
         /\ \A v \in Workers : cls'[v].at # "off" => cls'[v].s = s \/ cls'[v] = cls[v]
BY PostRecvFacts DEF Pending, OthersKeep

(* AcceptCompletion keeps the types.                                       *)
LEMMA TypeAccept ==
  ASSUME TypeOK, NEW w \in Workers, AcceptStep(w)
  PROVE  TypeOK'
<1> USE DEF OthersKeep
<1>0. FramesOK
  BY DEF TypeOK
<1>1. CASE AcceptRefuse(w)
  <2>1. /\ InHandler(w, "acquire") /\ ReturnHandler(w)
        /\ UNCHANGED <<assoc, recvs, sends, budget, conn, closing, sending, rxBuf, rx, queue,
                       free, table, count, snd, cls, clean>>
        /\ link' = [link EXCEPT ![hand[w].c] = "closed"] /\ accepts' = accepts + 1
    BY <1>1 DEF AcceptRefuse, session, shared
  <2>2. /\ hand' \in [Workers -> Handler] /\ OthersKeep(hand, hand', w)
        /\ hand'[w].at = "off" /\ hand'[w].targets = {}
    BY <2>1, ReturnFacts
  <2>3. FramesOK'
    BY <1>0, <2>1, <2>2 DEF FramesOK, Attached, Pending
  <2>4. hand[w].c \in Conns
    BY <1>0, <2>1 DEF FramesOK, InHandler
  <2> QED
    BY <2>1, <2>2, <2>3, <2>4 DEF TypeOK
<1>2. CASE AcceptAcquire(w)
  <2> DEFINE s == Head(free)
             r == [hand[w] EXCEPT !.at = "setup", !.s = s]
  <2>1. /\ InHandler(w, "acquire") /\ free # <<>> /\ free' = Tail(free)
        /\ rx' = [rx EXCEPT ![s] = <<>>] /\ closing' = [closing EXCEPT ![s] = FALSE]
        /\ hand' = [hand EXCEPT ![w] = r] /\ clean' = (clean /\ ~Referenced(s))
        /\ UNCHANGED <<link, assoc, accepts, recvs, sends, budget, conn, sending, rxBuf, queue,
                       table, count, snd, cls>>
    BY <1>2 DEF AcceptAcquire, kernel
  <2>2. s \in Sessions /\ free' \in Seq(Sessions)
    BY <2>1 DEF TypeOK
  <2>3. /\ r \in Handler /\ r.at = "setup" /\ r.s = s /\ r.c = hand[w].c
        /\ r.targets = hand[w].targets
    <3>1. hand[w] \in Handler
      BY DEF TypeOK
    <3> QED
      BY <3>1, <2>2, Labels DEF Handler
  <2> HIDE DEF s, r
  <2>4. hand' \in [Workers -> Handler] /\ hand'[w] = r /\ OthersKeep(hand, hand', w)
    BY <2>1, <2>3, HandSet
  <2>5. FramesOK'
    BY <1>0, <2>1, <2>2, <2>3, <2>4 DEF FramesOK, Attached, Pending, InHandler
  <2> QED
    BY <2>1, <2>2, <2>4, <2>5 DEF TypeOK
<1>3. CASE AcceptSetup(w)
  <2> DEFINE s == hand[w].s
  <2>1. /\ InHandler(w, "setup") /\ GotoHandler(w, "register")
        /\ conn' = [conn EXCEPT ![s] = hand[w].c]
        /\ sending' = [sending EXCEPT ![s] = FALSE] /\ closing' = [closing EXCEPT ![s] = FALSE]
        /\ rx' = [rx EXCEPT ![s] = <<>>] /\ rxBuf' = [rxBuf EXCEPT ![s] = TRUE]
        /\ UNCHANGED <<link, assoc, accepts, recvs, sends, budget, queue, free, table, count,
                       snd, cls, clean>>
    BY <1>3 DEF AcceptSetup, kernel, shared
  <2>2. s \in Sessions /\ hand[w].c \in Conns
    BY <1>0, <2>1 DEF FramesOK, InHandler
  <2>3. Went(w, "register")
    BY <2>1, Labels, GotoFacts
  <2>4. /\ conn' \in [Sessions -> Conns \cup {None}]
        /\ s \in Attached' /\ \A q \in Attached : q \in Attached'
    BY <2>1, <2>2 DEF TypeOK, Attached
  <2>5. FramesOK'
    BY <1>0, <2>1, <2>2, <2>3, <2>4 DEF FramesOK, Pending, Went
  <2> QED
    BY <2>1, <2>2, <2>3, <2>4, <2>5 DEF TypeOK, Went
<1>4. CASE AcceptRegister(w)
  <2> DEFINE s == hand[w].s
  <2>1. /\ InHandler(w, "register") /\ GotoHandler(w, "associate")
        /\ table' = [table EXCEPT ![conn[s]] = s]
        /\ UNCHANGED <<link, assoc, accepts, recvs, sends, budget, conn, closing, sending, rxBuf,
                       rx, queue, free, count, snd, cls, clean>>
    BY <1>4 DEF AcceptRegister, kernel, session
  <2>2. s \in Sessions /\ s \in Attached /\ conn[s] \in Conns
    BY <1>0, <2>1 DEF FramesOK, InHandler, Attached
  <2>3. Went(w, "associate")
    BY <2>1, Labels, GotoFacts
  <2>4. table' \in [Conns -> Sessions \cup {None}]
    BY <2>1, <2>2 DEF TypeOK
  <2>5. \A c \in Conns : table'[c] \in {s, table[c]}
    BY <2>1, <2>2 DEF TypeOK
  <2>6. FramesOK'
    BY <1>0, <2>1, <2>2, <2>3, <2>5 DEF FramesOK, Pending, Attached, Went, InHandler
  <2> QED
    BY <2>1, <2>3, <2>4, <2>6 DEF TypeOK, Went
<1>5. CASE AcceptAssociate(w)
  <2>1. /\ InHandler(w, "associate") /\ GotoHandler(w, "firstRecv")
        /\ count' = count + 1 /\ assoc' = assoc \cup {conn[hand[w].s]}
        /\ UNCHANGED <<link, accepts, recvs, sends, budget, conn, closing, sending, rxBuf,
                       rx, queue, free, table, snd, cls, clean>>
    BY <1>5 DEF AcceptAssociate, session
  <2>2. conn[hand[w].s] \in Conns
    BY <1>0, <2>1 DEF FramesOK, InHandler, Attached
  <2>3. Went(w, "firstRecv")
    BY <2>1, Labels, GotoFacts
  <2>4. FramesOK'
    BY <1>0, <2>1, <2>3 DEF FramesOK, Pending, Attached, Went, InHandler
  <2> QED
    BY <2>1, <2>2, <2>3, <2>4 DEF TypeOK, Went
<1>6. CASE AcceptPostRecv(w)
  <2>1. /\ InHandler(w, "firstRecv") /\ GotoHandler(w, "reaccept") /\ PostRecv(w, hand[w].s)
        /\ UNCHANGED <<link, assoc, accepts, sends, budget, conn, closing, sending, rxBuf,
                       rx, queue, free, table, count, snd, clean>>
    BY <1>6 DEF AcceptPostRecv, session, shared
  <2>2. hand[w].s \in Attached
    BY <1>0, <2>1 DEF FramesOK, InHandler
  <2>3. Went(w, "reaccept")
    BY <2>1, Labels, GotoFacts
  <2>4. /\ recvs' \in [Sessions -> [Conns -> Nat]] /\ cls' \in [Workers -> CloseCall]
        /\ \A q \in Sessions : Pending(q)' => Pending(q) \/ q = hand[w].s
        /\ \A v \in Workers : cls'[v].at # "off" => cls'[v].s = hand[w].s \/ cls'[v] = cls[v]
    BY <2>1, <2>2, PostRecvPending
  <2>5. FramesOK'
    BY <1>0, <2>1, <2>2, <2>3, <2>4 DEF FramesOK, Attached, Went, InHandler
  <2> QED
    BY <2>1, <2>3, <2>4, <2>5 DEF TypeOK, Went
<1>7. CASE AcceptPostAccept(w)
  <2>1. /\ InHandler(w, "reaccept") /\ GotoHandler(w, "welcome") /\ accepts' = accepts + 1
        /\ UNCHANGED <<link, assoc, recvs, sends, budget, conn, closing, sending, rxBuf,
                       rx, queue, free, table, count, snd, cls, clean>>
    BY <1>7 DEF AcceptPostAccept, session, shared
  <2>2. Went(w, "welcome")
    BY <2>1, Labels, GotoFacts
  <2>3. FramesOK'
    BY <1>0, <2>1, <2>2 DEF FramesOK, Attached, Pending, Went, InHandler
  <2> QED
    BY <2>1, <2>2, <2>3 DEF TypeOK, Went
<1>8. CASE AcceptWelcome(w)
  <2>1. /\ InHandler(w, "welcome") /\ ReturnHandler(w) /\ CallSend(w, hand[w].s, hand[w].c)
        /\ UNCHANGED <<link, assoc, accepts, recvs, sends, budget, conn, closing, sending, rxBuf,
                       rx, queue, free, table, count, cls, clean>>
    BY <1>8 DEF AcceptWelcome, kernel, session, shared
  <2>2. hand[w].s \in Attached /\ hand[w].s \in Sessions /\ hand[w].c \in Conns
    BY <1>0, <2>1 DEF FramesOK, InHandler, Attached
  <2>3. /\ hand' \in [Workers -> Handler] /\ OthersKeep(hand, hand', w)
        /\ hand'[w].at = "off" /\ hand'[w].targets = {}
    BY <2>1, ReturnFacts
  <2>4. /\ snd' \in [Workers -> SendCall] /\ OthersKeep(snd, snd', w) /\ snd'[w].s = hand[w].s
    BY <2>1, <2>2, CallSendFacts
  <2>5. FramesOK'
    BY <1>0, <2>1, <2>2, <2>3, <2>4, SMTT(30) DEF FramesOK, Attached, Pending
  <2> QED
    BY <2>1, <2>3, <2>4, <2>5 DEF TypeOK
<1> QED
  BY <1>1, <1>2, <1>3, <1>4, <1>5, <1>6, <1>7, <1>8 DEF AcceptStep

(* RecvCompletion keeps the types.                                         *)
LEMMA TypeRecv ==
  ASSUME TypeOK, NEW w \in Workers, RecvStep(w)
  PROVE  TypeOK'
<1> USE DEF OthersKeep
<1> DEFINE s == hand[w].s
<1>0. FramesOK
  BY DEF TypeOK
<1>1. CASE RecvFault(w)
  <2>1. /\ InHandler(w, "append") /\ GotoHandler(w, "fault")
        /\ UNCHANGED <<link, assoc, accepts, recvs, sends, budget, conn, closing, sending, rxBuf,
                       rx, queue, free, table, count, snd, cls, clean>>
    BY <1>1 DEF RecvFault, kernel, session, shared
  <2>2. Went(w, "fault")
    BY <2>1, Labels, GotoFacts
  <2>3. FramesOK'
    BY <1>0, <2>1, <2>2 DEF FramesOK, Attached, Pending, Went, InHandler
  <2> QED
    BY <2>1, <2>2, <2>3 DEF TypeOK, Went
<1>2. CASE RecvAppend(w)
  <2> DEFINE d == hand[w].data
             p == [i \in 1 .. Len(d) |-> [kind |-> d[i], from |-> hand[w].c]]
             r == [hand[w] EXCEPT !.at = "pop", !.data = <<>>]
  <2>1. /\ InHandler(w, "append") /\ hand' = [hand EXCEPT ![w] = r]
        /\ rx' = [rx EXCEPT ![s] = @ \o p]
        /\ UNCHANGED <<link, assoc, accepts, recvs, sends, budget, conn, closing, sending, rxBuf,
                       queue, free, table, count, snd, cls, clean>>
    BY <1>2 DEF RecvAppend, kernel, shared
  <2>2. s \in Sessions /\ hand[w].c \in Conns /\ hand[w] \in Handler
    BY <1>0, <2>1 DEF FramesOK, InHandler, Attached, TypeOK
  <2>3. p \in Seq(Packet)
    BY <2>2 DEF Handler, Packet
  <2>4. /\ r \in Handler /\ r.at = "pop" /\ r.s = s /\ r.c = hand[w].c
        /\ r.targets = hand[w].targets
    <3>1. "pop" \in HandlerAt /\ <<>> \in Seq(Kinds)
      BY Labels
    <3> QED
      BY <2>2, <3>1 DEF Handler
  <2> HIDE DEF p, r
  <2>5. hand' \in [Workers -> Handler] /\ hand'[w] = r /\ OthersKeep(hand, hand', w)
    BY <2>1, <2>4, HandSet
  <2>6. rx' \in [Sessions -> Seq(Packet)]
    BY <2>1, <2>2, <2>3 DEF TypeOK
  <2>7. FramesOK'
    BY <1>0, <2>1, <2>4, <2>5 DEF FramesOK, Attached, Pending, InHandler
  <2> QED
    BY <2>1, <2>5, <2>6, <2>7 DEF TypeOK
<1>3. CASE RecvNeedMore(w)
  <2>1. /\ InHandler(w, "pop") /\ GotoHandler(w, "nextRecv")
        /\ UNCHANGED <<link, assoc, accepts, recvs, sends, budget, conn, closing, sending, rxBuf,
                       rx, queue, free, table, count, snd, cls, clean>>
    BY <1>3 DEF RecvNeedMore, kernel, session, shared
  <2>2. Went(w, "nextRecv")
    BY <2>1, Labels, GotoFacts
  <2>3. FramesOK'
    BY <1>0, <2>1, <2>2 DEF FramesOK, Attached, Pending, Went, InHandler
  <2> QED
    BY <2>1, <2>2, <2>3 DEF TypeOK, Went
<1>4. CASE RecvMalformed(w)
  <2>1. /\ InHandler(w, "pop") /\ ReturnHandler(w) /\ CallClose(w, s)
        /\ UNCHANGED <<link, assoc, accepts, recvs, sends, budget, conn, closing, sending, rxBuf,
                       rx, queue, free, table, count, snd, clean>>
    BY <1>4 DEF RecvMalformed, kernel, session, shared
  <2>2. s \in Attached /\ s \in Sessions
    BY <1>0, <2>1 DEF FramesOK, InHandler, Attached
  <2>3. /\ hand' \in [Workers -> Handler] /\ OthersKeep(hand, hand', w)
        /\ hand'[w].at = "off" /\ hand'[w].targets = {}
    BY <2>1, ReturnFacts
  <2>4. cls' \in [Workers -> CloseCall] /\ OthersKeep(cls, cls', w) /\ cls'[w].s = s
    BY <2>1, <2>2, CallCloseFacts
  <2>5. FramesOK'
    BY <1>0, <2>1, <2>2, <2>3, <2>4, SMTT(30) DEF FramesOK, Attached, Pending
  <2> QED
    BY <2>1, <2>3, <2>4, <2>5 DEF TypeOK
<1>5. CASE RecvPacket(w)
  <2> DEFINE p == Head(rx[s])
  <2>1. /\ InHandler(w, "pop") /\ rx[s] # <<>> /\ rx' = [rx EXCEPT ![s] = Tail(@)]
        /\ UNCHANGED <<link, assoc, accepts, recvs, sends, budget, conn, closing, sending, rxBuf,
                       queue, free, table, count, cls, clean>>
    BY <1>5 DEF RecvPacket, kernel, shared
  <2>2. s \in Attached /\ s \in Sessions /\ hand[w] \in Handler
    BY <1>0, <2>1 DEF FramesOK, InHandler, Attached, TypeOK
  <2>3. rx[s] \in Seq(Packet)
    BY <2>2 DEF TypeOK
  <2>4. p \in Packet /\ rx' \in [Sessions -> Seq(Packet)]
    BY <2>1, <2>2, <2>3 DEF TypeOK
  <2>5. CASE p.kind \in {"chat", "exit"} /\ UNCHANGED snd
                /\ hand' = [hand EXCEPT ![w].at = p.kind, ![w].targets = Snapshot(s)]
    <3> DEFINE r == [hand[w] EXCEPT !.at = p.kind, !.targets = Snapshot(s)]
    <3>1. \A t \in Snapshot(s) : t \in Conns \X Sessions /\ t[2] \in Attached
      BY <1>0 DEF Snapshot, FramesOK, Attached
    <3>2. p.kind \in HandlerAt /\ p.kind \notin {"acquire", "setup", "register", "associate",
                          "firstRecv", "reaccept", "welcome", "append"}
      BY <2>5, Labels
    <3> HIDE DEF p
    <3>3. r \in Handler /\ r.at = p.kind /\ r.s = s /\ r.targets = Snapshot(s)
      BY <2>2, <3>1, <3>2 DEF Handler
    <3>4. hand' = [hand EXCEPT ![w] = r]
      BY <2>5
    <3> HIDE DEF r
    <3>5. hand' \in [Workers -> Handler] /\ hand'[w] = r /\ OthersKeep(hand, hand', w)
      BY <3>3, <3>4, HandSet
    <3>6. FramesOK'
      BY <1>0, <2>1, <2>2, <2>5, <3>1, <3>2, <3>3, <3>5, SMTT(30) DEF FramesOK, Attached, Pending
    <3> QED
      BY <2>1, <2>4, <2>5, <3>5, <3>6 DEF TypeOK
  <2>6. CASE CallSend(w, s, p.from) /\ UNCHANGED hand
    <3>1. p.from \in Conns
      BY <2>4 DEF Packet
    <3> HIDE DEF p
    <3>2. snd' \in [Workers -> SendCall] /\ OthersKeep(snd, snd', w) /\ snd'[w].s = s
      BY <2>2, <2>6, <3>1, CallSendFacts
    <3>3. FramesOK'
      BY <1>0, <2>1, <2>2, <2>6, <3>2, SMTT(30) DEF FramesOK, Attached, Pending
    <3> QED
      BY <2>1, <2>4, <2>6, <3>2, <3>3 DEF TypeOK
  <2>7. CASE UNCHANGED <<hand, snd>>
    <3>1. FramesOK'
      BY <1>0, <2>1, <2>7 DEF FramesOK, Attached, Pending
    <3> QED
      BY <2>1, <2>4, <2>7, <3>1 DEF TypeOK
  <2> QED
    BY <1>5, <2>5, <2>6, <2>7 DEF RecvPacket
<1>6. CASE Broadcast(w)
  <2>1. /\ InHandler(w, "chat") \/ InHandler(w, "exit")
        /\ UNCHANGED <<link, assoc, accepts, recvs, sends, budget, conn, closing, sending, rxBuf,
                       rx, queue, free, table, count, cls, clean>>
    BY <1>6 DEF Broadcast, kernel, session, shared
  <2>2. PICK t \in hand[w].targets :
           hand' = [hand EXCEPT ![w].targets = @ \ {t}] /\ CallSend(w, t[2], t[1])
    BY <1>6 DEF Broadcast
  <2>3. hand[w] \in Handler /\ s \in Attached
    BY <1>0, <2>1 DEF TypeOK, FramesOK, InHandler
  <2>4. t[2] \in Sessions /\ t[2] \in Attached /\ t[1] \in Conns
    BY <1>0, <2>2, <2>3 DEF Handler, FramesOK, Attached
  <2> DEFINE r == [hand[w] EXCEPT !.targets = @ \ {t}]
  <2>5. r \in Handler /\ r.at = hand[w].at /\ r.s = s /\ r.targets = hand[w].targets \ {t}
    BY <2>3 DEF Handler
  <2>6. hand' = [hand EXCEPT ![w] = r]
    BY <2>2
  <2> HIDE DEF r
  <2>7. hand' \in [Workers -> Handler] /\ hand'[w] = r /\ OthersKeep(hand, hand', w)
    BY <2>5, <2>6, HandSet
  <2>8. snd' \in [Workers -> SendCall] /\ OthersKeep(snd, snd', w) /\ snd'[w].s = t[2]
    BY <2>2, <2>4, CallSendFacts
  <2>9. FramesOK'
    BY <1>0, <2>1, <2>3, <2>4, <2>5, <2>7, <2>8, SMTT(30)
    DEF FramesOK, Attached, Pending, InHandler
  <2> QED
    BY <2>1, <2>7, <2>8, <2>9 DEF TypeOK
<1>7. CASE BroadcastDone(w)
  <2>1. /\ InHandler(w, "chat") \/ InHandler(w, "exit")
        /\ GotoHandler(w, "pop") /\ (CallClose(w, s) \/ UNCHANGED cls)
        /\ UNCHANGED <<link, assoc, accepts, recvs, sends, budget, conn, closing, sending, rxBuf,
                       rx, queue, free, table, count, snd, clean>>
    BY <1>7 DEF BroadcastDone, kernel, session, shared
  <2>2. s \in Attached /\ s \in Sessions
    BY <1>0, <2>1 DEF FramesOK, InHandler, Attached
  <2>3. Went(w, "pop")
    BY <2>1, Labels, GotoFacts
  <2>4. /\ cls' \in [Workers -> CloseCall]
        /\ \A v \in Workers : cls'[v].s = s \/ cls'[v] = cls[v]
    BY <2>1, <2>2, CallCloseFacts DEF TypeOK
  <2>5. FramesOK'
    BY <1>0, <2>1, <2>2, <2>3, <2>4, SMTT(30) DEF FramesOK, Attached, Pending, Went, InHandler
  <2> QED
    BY <2>1, <2>3, <2>4, <2>5 DEF TypeOK, Went
<1>8. CASE RecvPostRecv(w)
  <2>1. /\ InHandler(w, "nextRecv") /\ ReturnHandler(w) /\ PostRecv(w, s)
        /\ UNCHANGED <<link, assoc, accepts, sends, budget, conn, closing, sending, rxBuf,
                       rx, queue, free, table, count, snd, clean>>
    BY <1>8 DEF RecvPostRecv, session, shared
  <2>2. s \in Attached
    BY <1>0, <2>1 DEF FramesOK, InHandler
  <2>3. /\ hand' \in [Workers -> Handler] /\ OthersKeep(hand, hand', w)
        /\ hand'[w].at = "off" /\ hand'[w].targets = {}
    BY <2>1, ReturnFacts
  <2>4. /\ recvs' \in [Sessions -> [Conns -> Nat]] /\ cls' \in [Workers -> CloseCall]
        /\ \A q \in Sessions : Pending(q)' => Pending(q) \/ q = s
        /\ \A v \in Workers : cls'[v].at # "off" => cls'[v].s = s \/ cls'[v] = cls[v]
    BY <2>1, <2>2, PostRecvPending
  <2>5. FramesOK'
    BY <1>0, <2>1, <2>2, <2>3, <2>4, SMTT(30) DEF FramesOK, Attached
  <2> QED
    BY <2>1, <2>3, <2>4, <2>5 DEF TypeOK
<1> QED
  BY <1>1, <1>2, <1>3, <1>4, <1>5, <1>6, <1>7, <1>8 DEF RecvStep

(* EnqueueSend and PostSend keep the types.                                *)
LEMMA TypeSend ==
  ASSUME TypeOK, NEW w \in Workers, SendStep(w)
  PROVE  TypeOK'
<1> USE DEF OthersKeep
<1> DEFINE s == snd[w].s
<1>0. FramesOK /\ snd[w] \in SendCall
  BY DEF TypeOK
<1>1. CASE EnqueuePush(w)
  <2> DEFINE r == [snd[w] EXCEPT !.at = "exchange", !.msgs = <<>>]
  <2>1. /\ InSend(w, "push")
        /\ UNCHANGED <<link, assoc, accepts, recvs, sends, budget, conn, closing, sending, rxBuf,
                       rx, free, table, count, hand, cls, clean>>
        /\ \/ ReturnSend(w) /\ UNCHANGED queue
           \/ /\ queue' = [queue EXCEPT ![s] = @ \o snd[w].msgs]
              /\ snd' = [snd EXCEPT ![w] = r]
    BY <1>1 DEF EnqueuePush, kernel, shared
  <2>2. s \in Attached /\ s \in Sessions
    BY <1>0, <2>1 DEF FramesOK, InSend, Attached
  <2>3. r \in SendCall /\ r.s = s
    <3>1. "exchange" \in SendAt /\ <<>> \in Seq(Conns)
      BY Labels
    <3> QED
      BY <1>0, <3>1 DEF SendCall
  <2>4. snd[w].msgs \in Seq(Conns)
    BY <1>0 DEF SendCall
  <2> HIDE DEF r
  <2>5. queue' \in [Sessions -> Seq(Conns)]
    <3>1. queue \in [Sessions -> Seq(Conns)]
      BY DEF TypeOK
    <3>2. queue[s] \o snd[w].msgs \in Seq(Conns)
      BY <2>2, <2>4, <3>1
    <3> QED
      BY <2>1, <2>2, <3>1, <3>2
  <2>6. /\ snd' \in [Workers -> SendCall]
        /\ \A v \in Workers : snd'[v].at # "off" => snd'[v].s = s \/ snd'[v] = snd[v]
    <3>1. CASE ReturnSend(w)
      BY <3>1, ReturnSendFacts DEF NoSend
    <3>2. CASE snd' = [snd EXCEPT ![w] = r]
      BY <2>3, <3>2, SndSet
    <3> QED
      BY <2>1, <3>1, <3>2
  <2>7. FramesOK'
    BY <1>0, <2>1, <2>2, <2>6 DEF FramesOK, Attached, Pending
  <2> QED
    BY <2>1, <2>5, <2>6, <2>7 DEF TypeOK
<1>2. CASE EnqueueExchange(w)
  <2> DEFINE r == [snd[w] EXCEPT !.at = "pop"]
  <2>1. /\ InSend(w, "exchange") /\ sending' = [sending EXCEPT ![s] = TRUE]
        /\ UNCHANGED <<link, assoc, accepts, recvs, sends, budget, conn, closing, rxBuf,
                       rx, queue, free, table, count, hand, cls, clean>>
        /\ ReturnSend(w) \/ snd' = [snd EXCEPT ![w] = r]
    BY <1>2 DEF EnqueueExchange, kernel, shared
  <2>2. s \in Attached /\ s \in Sessions
    BY <1>0, <2>1 DEF FramesOK, InSend, Attached
  <2>3. r \in SendCall /\ r.s = s
    BY <1>0, Labels DEF SendCall
  <2> HIDE DEF r
  <2>4. /\ snd' \in [Workers -> SendCall]
        /\ \A v \in Workers : snd'[v].at # "off" => snd'[v].s = s \/ snd'[v] = snd[v]
    <3>1. CASE ReturnSend(w)
      BY <3>1, ReturnSendFacts DEF NoSend
    <3>2. CASE snd' = [snd EXCEPT ![w] = r]
      BY <2>3, <3>2, SndSet
    <3> QED
      BY <2>1, <3>1, <3>2
  <2>5. FramesOK'
    BY <1>0, <2>1, <2>2, <2>4 DEF FramesOK, Attached, Pending
  <2> QED
    BY <2>1, <2>2, <2>4, <2>5 DEF TypeOK
<1>3. CASE PostSendPop(w)
  <2> DEFINE n  == Batch(queue[s])
             r1 == [snd[w] EXCEPT !.at = "clear"]
             r2 == [snd[w] EXCEPT !.at = "wsaSend", !.msgs = SubSeq(queue[s], 1, n)]
  <2>1. /\ InSend(w, "pop")
        /\ UNCHANGED <<link, assoc, accepts, recvs, sends, budget, conn, closing, sending, rxBuf,
                       rx, free, table, count, hand, cls, clean>>
        /\ \/ ReturnSend(w) /\ UNCHANGED queue
           \/ snd' = [snd EXCEPT ![w] = r1] /\ UNCHANGED queue
           \/ /\ queue' = [queue EXCEPT ![s] = SubSeq(@, n + 1, Len(@))]
              /\ snd' = [snd EXCEPT ![w] = r2]
    BY <1>3 DEF PostSendPop, kernel, shared
  <2>2. s \in Attached /\ s \in Sessions
    BY <1>0, <2>1 DEF FramesOK, InSend, Attached
  <2>3. queue[s] \in Seq(Conns) /\ queue \in [Sessions -> Seq(Conns)]
    BY <2>2 DEF TypeOK
  <2>4. n \in Nat /\ n <= Len(queue[s])
    BY <2>3, ServerAssumption DEF Batch
  <2>5. SubSeq(queue[s], 1, n) \in Seq(Conns) /\ SubSeq(queue[s], n + 1, Len(queue[s])) \in Seq(Conns)
    BY <2>3, <2>4
  <2>6. r1 \in SendCall /\ r1.s = s
    BY <1>0, Labels DEF SendCall
  <2>7. r2 \in SendCall /\ r2.s = s
    BY <1>0, <2>5, Labels DEF SendCall
  <2> HIDE DEF r1, r2, n
  <2>8. queue' \in [Sessions -> Seq(Conns)]
    BY <2>1, <2>2, <2>3, <2>5
  <2>9. /\ snd' \in [Workers -> SendCall]
        /\ \A v \in Workers : snd'[v].at # "off" => snd'[v].s = s \/ snd'[v] = snd[v]
    <3>1. CASE ReturnSend(w)
      BY <3>1, ReturnSendFacts DEF NoSend
    <3>2. CASE snd' = [snd EXCEPT ![w] = r1]
      BY <2>6, <3>2, SndSet
    <3>3. CASE snd' = [snd EXCEPT ![w] = r2]
      BY <2>7, <3>3, SndSet
    <3> QED
      BY <2>1, <3>1, <3>2, <3>3
  <2>10. FramesOK'
    BY <1>0, <2>1, <2>2, <2>9 DEF FramesOK, Attached, Pending
  <2> QED
    BY <2>1, <2>8, <2>9, <2>10 DEF TypeOK
<1>4. CASE PostSendClear(w)
  <2>1. /\ InSend(w, "clear") /\ sending' = [sending EXCEPT ![s] = FALSE] /\ ReturnSend(w)
        /\ UNCHANGED <<link, assoc, accepts, recvs, sends, budget, conn, closing, rxBuf,
                       rx, queue, free, table, count, hand, cls, clean>>
    BY <1>4 DEF PostSendClear, kernel, shared
  <2>2. s \in Sessions
    BY <1>0, <2>1 DEF FramesOK, InSend, Attached
  <2>3. snd' \in [Workers -> SendCall] /\ OthersKeep(snd, snd', w) /\ snd'[w].at = "off"
    BY <2>1, ReturnSendFacts DEF NoSend
  <2>4. FramesOK'
    BY <1>0, <2>1, <2>3 DEF FramesOK, Attached, Pending
  <2> QED
    BY <2>1, <2>2, <2>3, <2>4 DEF TypeOK
<1>5. CASE PostSendWSASend(w)
  <2>1. /\ InSend(w, "wsaSend") /\ ReturnSend(w)
        /\ UNCHANGED <<link, assoc, accepts, recvs, budget, conn, closing, sending, rxBuf,
                       rx, queue, free, table, count, hand, clean>>
        /\ \/ sends' = [sends EXCEPT ![s][conn[s]] = @ + 1] /\ UNCHANGED cls
           \/ CallClose(w, s) /\ UNCHANGED sends
    BY <1>5 DEF PostSendWSASend, session, shared
  <2>2. s \in Attached /\ s \in Sessions /\ conn[s] \in Conns
    BY <1>0, <2>1 DEF FramesOK, InSend, Attached
  <2>3. snd' \in [Workers -> SendCall] /\ OthersKeep(snd, snd', w) /\ snd'[w].at = "off"
    BY <2>1, ReturnSendFacts DEF NoSend
  <2>4. /\ sends' \in [Sessions -> [Conns -> Nat]]
        /\ \A q \in Sessions : Pending(q)' => Pending(q) \/ q = s
    <3>1. sends \in [Sessions -> [Conns -> Nat]]
      BY DEF TypeOK
    <3>2. CASE sends' = [sends EXCEPT ![s][conn[s]] = @ + 1]
      BY <2>1, <2>2, <3>1, <3>2 DEF Pending
    <3>3. CASE UNCHANGED sends
      BY <2>1, <3>1, <3>3 DEF Pending
    <3> QED
      BY <2>1, <3>2, <3>3
  <2>5. /\ cls' \in [Workers -> CloseCall]
        /\ \A v \in Workers : cls'[v].s = s \/ cls'[v] = cls[v]
    BY <2>1, <2>2, CallCloseFacts DEF TypeOK
  <2>6. FramesOK'
    BY <1>0, <2>1, <2>2, <2>3, <2>4, <2>5, SMTT(30) DEF FramesOK, Attached
  <2> QED
    BY <2>1, <2>3, <2>4, <2>5, <2>6 DEF TypeOK
<1> QED
  BY <1>1, <1>2, <1>3, <1>4, <1>5 DEF SendStep

(* CloseSession keeps the types.                                           *)
LEMMA TypeClose ==
  ASSUME TypeOK, NEW w \in Workers, CloseStep(w)
  PROVE  TypeOK'
<1> USE DEF OthersKeep
<1> DEFINE s == cls[w].s
<1>0. FramesOK /\ cls[w] \in CloseCall
  BY DEF TypeOK
<1>1. cls[w].at # "off" => s \in Attached /\ s \in Sessions /\ conn[s] \in Conns
  BY <1>0 DEF FramesOK, Attached
<1>2. CASE CloseMark(w)
  <2>1. /\ InClose(w, "mark") /\ closing' = [closing EXCEPT ![s] = TRUE]
        /\ cls' = [cls EXCEPT ![w] = IF closing[s] THEN NoClose ELSE [at |-> "socket", s |-> s]]
        /\ UNCHANGED <<link, assoc, accepts, recvs, sends, budget, conn, sending, rxBuf, rx, queue,
                       free, table, count, hand, snd, clean>>
    BY <1>2 DEF CloseMark, kernel, shared
  <2>2. s \in Attached /\ s \in Sessions
    BY <1>1, <2>1 DEF InClose
  <2> DEFINE r == IF closing[s] THEN NoClose ELSE [at |-> "socket", s |-> s]
  <2>3. r \in CloseCall /\ (r.at # "off" => r.s = s)
    BY <2>2, NoFrames, Labels DEF CloseCall, NoClose
  <2>4. cls' \in [Workers -> CloseCall] /\ OthersKeep(cls, cls', w) /\ cls'[w] = r
    BY <2>1, <2>3, ClsSet
  <2>5. FramesOK'
    BY <1>0, <2>1, <2>2, <2>3, <2>4 DEF FramesOK, Attached, Pending
  <2> QED
    BY <2>1, <2>2, <2>4, <2>5 DEF TypeOK
<1>3. CASE CloseSocket(w)
  <2> DEFINE r == [cls[w] EXCEPT !.at = "unregister"]
  <2>1. /\ InClose(w, "socket") /\ link' = [link EXCEPT ![conn[s]] = "closed"]
        /\ rxBuf' = [rxBuf EXCEPT ![s] = FALSE] /\ cls' = [cls EXCEPT ![w] = r]
        /\ UNCHANGED <<assoc, accepts, recvs, sends, budget, conn, closing, sending, rx, queue,
                       free, table, count, hand, snd, clean>>
    BY <1>3 DEF CloseSocket, shared
  <2>2. s \in Attached /\ s \in Sessions /\ conn[s] \in Conns
    BY <1>1, <2>1 DEF InClose
  <2>3. r \in CloseCall /\ r.s = s
    BY <1>0, Labels DEF CloseCall
  <2> HIDE DEF r
  <2>4. cls' \in [Workers -> CloseCall] /\ OthersKeep(cls, cls', w) /\ cls'[w] = r
    BY <2>1, <2>3, ClsSet
  <2>5. FramesOK'
    BY <1>0, <2>1, <2>2, <2>3, <2>4 DEF FramesOK, Attached, Pending
  <2> QED
    BY <2>1, <2>2, <2>4, <2>5 DEF TypeOK
<1>4. CASE CloseUnregister(w)
  <2> DEFINE r == [cls[w] EXCEPT !.at = "release"]
  <2>1. /\ InClose(w, "unregister") /\ table' = [table EXCEPT ![conn[s]] = None]
        /\ cls' = [cls EXCEPT ![w] = r]
        /\ UNCHANGED <<link, assoc, accepts, recvs, sends, budget, conn, closing, sending, rxBuf,
                       rx, queue, free, count, hand, snd, clean>>
    BY <1>4 DEF CloseUnregister, kernel, session
  <2>2. s \in Attached /\ s \in Sessions /\ conn[s] \in Conns
    BY <1>1, <2>1 DEF InClose
  <2>3. r \in CloseCall /\ r.s = s
    BY <1>0, Labels DEF CloseCall
  <2> HIDE DEF r
  <2>4. cls' \in [Workers -> CloseCall] /\ OthersKeep(cls, cls', w) /\ cls'[w] = r
    BY <2>1, <2>3, ClsSet
  <2>5. table' \in [Conns -> Sessions \cup {None}] /\ \A c \in Conns : table'[c] \in {None, table[c]}
    BY <2>1, <2>2 DEF TypeOK
  <2>6. FramesOK'
    BY <1>0, <2>1, <2>2, <2>3, <2>4, <2>5 DEF FramesOK, Attached, Pending
  <2> QED
    BY <2>1, <2>4, <2>5, <2>6 DEF TypeOK
<1>5. CASE CloseRelease(w)
  <2>1. /\ InClose(w, "release") /\ count' = count - 1 /\ free' = <<s>> \o free
        /\ cls' = [cls EXCEPT ![w] = NoClose]
        /\ UNCHANGED <<link, assoc, accepts, recvs, sends, budget, conn, closing, sending, rxBuf,
                       rx, queue, table, hand, snd, clean>>
    BY <1>5 DEF CloseRelease, kernel, session
  <2>2. s \in Sessions
    BY <1>1, <2>1 DEF InClose
  <2>3. cls' \in [Workers -> CloseCall] /\ OthersKeep(cls, cls', w) /\ cls'[w].at = "off"
    BY <2>1, NoFrames, ClsSet DEF NoClose
  <2>4. FramesOK'
    BY <1>0, <2>1, <2>3 DEF FramesOK, Attached, Pending
  <2> QED
    BY <2>1, <2>2, <2>3, <2>4 DEF TypeOK
<1> QED
  BY <1>2, <1>3, <1>4, <1>5 DEF CloseStep

(* Taking a completion keeps the types.                                    *)
LEMMA TypeTake ==
  ASSUME TypeOK, NEW w \in Workers, TakeStep(w)
  PROVE  TypeOK'
<1> USE DEF OthersKeep
<1>0. FramesOK
  BY DEF TypeOK
<1>1. ASSUME NEW c \in Conns, TakeAccept(w, c) PROVE TypeOK'
  <2> DEFINE r == [at |-> "acquire", s |-> None, c |-> c, data |-> <<>>, targets |-> {}]
  <2>1. /\ accepts > 0 /\ accepts' = accepts - 1 /\ link' = [link EXCEPT ![c] = "up"]
        /\ hand' = [hand EXCEPT ![w] = r]
        /\ UNCHANGED <<assoc, recvs, sends, budget, conn, closing, sending, rxBuf, rx, queue,
                       free, table, count, snd, cls, clean>>
    BY <1>1 DEF TakeAccept, session, shared
  <2>2. "acquire" \in HandlerAt /\ <<>> \in Seq(Kinds)
    BY Labels
  <2>3. r \in Handler /\ r.at = "acquire" /\ r.c = c /\ r.targets = {}
    BY <2>2 DEF Handler
  <2> HIDE DEF r
  <2>4. hand' \in [Workers -> Handler] /\ hand'[w] = r /\ OthersKeep(hand, hand', w)
    BY <2>1, <2>3, HandSet
  <2>5. FramesOK'
    BY <1>0, <2>1, <2>3, <2>4 DEF FramesOK, Attached, Pending
  <2> QED
    BY <2>1, <2>4, <2>5 DEF TypeOK
<1>2. ASSUME NEW s \in Sessions, NEW c \in Conns, TakeRecvData(w, s, c) PROVE TypeOK'
  <2>1. /\ recvs[s][c] > 0 /\ budget[c] > 0
        /\ recvs' = [recvs EXCEPT ![s][c] = @ - 1] /\ budget' = [budget EXCEPT ![c] = @ - 1]
        /\ UNCHANGED <<link, assoc, accepts, sends, conn, closing, sending, rxBuf, rx, queue,
                       free, table, count, snd, cls, clean>>
    BY <1>2 DEF TakeRecvData, session, shared
  <2>2. PICK b \in Bursts :
          hand' = [hand EXCEPT ![w] = [at |-> "append", s |-> s, c |-> c, data |-> b, targets |-> {}]]
    BY <1>2 DEF TakeRecvData
  <2>3. s \in Attached
    BY <1>0, <2>1 DEF FramesOK, Pending
  <2> DEFINE r == [at |-> "append", s |-> s, c |-> c, data |-> b, targets |-> {}]
  <2>4. r \in Handler /\ r.at = "append" /\ r.s = s /\ r.c = c /\ r.targets = {}
    BY Labels, ServerAssumption DEF Handler
  <2>5. hand' = [hand EXCEPT ![w] = r]
    BY <2>2
  <2> HIDE DEF r
  <2>6. hand' \in [Workers -> Handler] /\ hand'[w] = r /\ OthersKeep(hand, hand', w)
    BY <2>4, <2>5, HandSet
  <2>7. recvs' \in [Sessions -> [Conns -> Nat]] /\ \A q \in Sessions : Pending(q)' => Pending(q)
    <3>1. recvs \in [Sessions -> [Conns -> Nat]]
      BY DEF TypeOK
    <3> QED
      BY <2>1, <3>1 DEF Pending
  <2>8. FramesOK'
    BY <1>0, <2>1, <2>3, <2>4, <2>6, <2>7 DEF FramesOK, Attached
  <2>9. budget' \in [Conns -> Nat]
    BY <2>1 DEF TypeOK
  <2> QED
    BY <2>1, <2>6, <2>7, <2>8, <2>9 DEF TypeOK
<1>3. ASSUME NEW s \in Sessions, NEW c \in Conns, TakeRecvEnd(w, s, c) PROVE TypeOK'
  <2>1. /\ recvs[s][c] > 0 /\ recvs' = [recvs EXCEPT ![s][c] = @ - 1] /\ CallClose(w, s)
        /\ UNCHANGED <<link, assoc, accepts, sends, budget, conn, closing, sending, rxBuf, rx,
                       queue, free, table, count, hand, snd, clean>>
    BY <1>3 DEF TakeRecvEnd, session, shared
  <2>2. s \in Attached
    BY <1>0, <2>1 DEF FramesOK, Pending
  <2>3. cls' \in [Workers -> CloseCall] /\ OthersKeep(cls, cls', w) /\ cls'[w].s = s
    BY <2>1, CallCloseFacts
  <2>4. recvs' \in [Sessions -> [Conns -> Nat]] /\ \A q \in Sessions : Pending(q)' => Pending(q)
    <3>1. recvs \in [Sessions -> [Conns -> Nat]]
      BY DEF TypeOK
    <3> QED
      BY <2>1, <3>1 DEF Pending
  <2>5. FramesOK'
    BY <1>0, <2>1, <2>2, <2>3, <2>4 DEF FramesOK, Attached
  <2> QED
    BY <2>1, <2>3, <2>4, <2>5 DEF TypeOK
<1>4. ASSUME NEW s \in Sessions, NEW c \in Conns, TakeSend(w, s, c) PROVE TypeOK'
  <2> DEFINE r == [at |-> "pop", s |-> s, msgs |-> <<>>]
  <2>1. /\ sends[s][c] > 0 /\ sends' = [sends EXCEPT ![s][c] = @ - 1]
        /\ snd' = [snd EXCEPT ![w] = r]
        /\ UNCHANGED <<link, assoc, accepts, recvs, budget, conn, closing, sending, rxBuf, rx,
                       queue, free, table, count, hand, cls, clean>>
    BY <1>4 DEF TakeSend, session, shared
  <2>2. s \in Attached
    BY <1>0, <2>1 DEF FramesOK, Pending
  <2>3. r \in SendCall /\ r.s = s
    BY Labels DEF SendCall
  <2> HIDE DEF r
  <2>4. snd' \in [Workers -> SendCall] /\ OthersKeep(snd, snd', w) /\ snd'[w] = r
    BY <2>1, <2>3, SndSet
  <2>5. sends' \in [Sessions -> [Conns -> Nat]] /\ \A q \in Sessions : Pending(q)' => Pending(q)
    <3>1. sends \in [Sessions -> [Conns -> Nat]]
      BY DEF TypeOK
    <3> QED
      BY <2>1, <3>1 DEF Pending
  <2>6. FramesOK'
    BY <1>0, <2>1, <2>2, <2>3, <2>4, <2>5 DEF FramesOK, Attached
  <2> QED
    BY <2>1, <2>4, <2>5, <2>6 DEF TypeOK
<1> QED
  BY <1>1, <1>2, <1>3, <1>4 DEF TakeStep

(* The clients and the network keep the types.                             *)
LEMMA TypeNetwork ==
  ASSUME TypeOK, Network
  PROVE  TypeOK'
<1>0. FramesOK
  BY DEF TypeOK
<1>1. ASSUME NEW c \in Conns, PeerLeaves(c) PROVE TypeOK'
  <2>1. /\ link' = [link EXCEPT ![c] = "down"]
        /\ UNCHANGED <<assoc, accepts, recvs, sends, budget, conn, closing, sending, rxBuf, rx,
                       queue, free, table, count, hand, snd, cls, clean>>
    BY <1>1 DEF PeerLeaves, session, shared
  <2>2. FramesOK'
    BY <1>0, <2>1 DEF FramesOK, Attached, Pending
  <2> QED
    BY <2>1, <2>2 DEF TypeOK
<1>2. ASSUME NEW s \in Sessions, NEW c \in Conns, SendUnnotified(s, c) PROVE TypeOK'
  <2>1. /\ sends[s][c] > 0 /\ sends' = [sends EXCEPT ![s][c] = @ - 1]
        /\ UNCHANGED <<link, assoc, accepts, recvs, budget, conn, closing, sending, rxBuf, rx,
                       queue, free, table, count, hand, snd, cls, clean>>
    BY <1>2 DEF SendUnnotified, session, shared
  <2>2. sends' \in [Sessions -> [Conns -> Nat]] /\ \A q \in Sessions : Pending(q)' => Pending(q)
    <3>1. sends \in [Sessions -> [Conns -> Nat]]
      BY DEF TypeOK
    <3> QED
      BY <2>1, <3>1 DEF Pending
  <2>3. FramesOK'
    BY <1>0, <2>1, <2>2 DEF FramesOK, Attached
  <2> QED
    BY <2>1, <2>2, <2>3 DEF TypeOK
<1> QED
  BY <1>1, <1>2 DEF Network

(* The state after Start() is well typed.                                  *)
LEMMA TypeInit == Init => TypeOK
<1> SUFFICES ASSUME Init PROVE TypeOK
  OBVIOUS
<1>1. free \in Seq(Sessions)
  <2>1. Cardinality(Sessions) \in Nat
    BY ServerAssumption, FS_CardinalityType
  <2>2. free \in [1 .. Cardinality(Sessions) -> Sessions]
    BY DEF Init
  <2> QED
    BY <2>1, <2>2, SeqDef
<1>2. /\ hand \in [Workers -> Handler] /\ snd \in [Workers -> SendCall]
      /\ cls \in [Workers -> CloseCall]
  BY NoFrames DEF Init
<1>3. FramesOK
  <2>1. /\ \A w \in Workers : hand[w] = NoHandler /\ snd[w] = NoSend /\ cls[w] = NoClose
        /\ \A c \in Conns : table[c] = None
        /\ \A s \in Sessions, c \in Conns : recvs[s][c] = 0 /\ sends[s][c] = 0
    BY DEF Init
  <2> QED
    BY <2>1 DEF FramesOK, Pending, NoHandler, NoSend, NoClose
<1> QED
  BY <1>1, <1>2, <1>3, ServerAssumption DEF Init, TypeOK

(* A step that changes nothing keeps the types.                            *)
LEMMA TypeStutter ==
  ASSUME TypeOK, UNCHANGED vars
  PROVE  TypeOK'
<1>1. UNCHANGED <<link, assoc, accepts, recvs, sends, budget, conn, closing, sending, rxBuf, rx,
                  queue, free, table, count, hand, snd, cls, clean>>
  BY DEF vars, kernel, session, shared
<1>2. FramesOK'
  BY <1>1 DEF TypeOK, FramesOK, Attached, Pending
<1> QED
  BY <1>1, <1>2 DEF TypeOK

(* Every step keeps the types.                                             *)
LEMMA TypeNext == TypeOK /\ [Next]_vars => TypeOK'
BY TypeAccept, TypeRecv, TypeSend, TypeClose, TypeTake, TypeNetwork, TypeStutter
DEF Next, WorkerThread

(* Every reachable state of the server has well-typed variables, and every *)
(* running frame, table entry and pending operation refers to a session    *)
(* object that has served a connection (IOCP_EchoServer.cpp never works on *)
(* a Session it did not set up).                                           *)
THEOREM TypeCorrect == Spec => []TypeOK
BY TypeInit, TypeNext, PTL DEF Spec

-----------------------------------------------------------------------------
Acquires(u, s) == AcceptAcquire(u) /\ s = Head(free)

(* What worker u can get at: what it already refers to, or an operation    *)
(* that has completed.                                                     *)
Reaches(u, s) ==
  \/ Pending(s)
  \/ snd[u].s = s
  \/ cls[u].s = s
  \/ \E c \in Conns : <<c, s>> \in hand[u].targets
  \/ hand[u].s = s /\ hand[u].at \notin {"setup", "register"}

StepRefs(u) ==
  \A s \in Sessions :
    /\ Pending(s)' \/ snd'[u].s = s \/ cls'[u].s = s => Reaches(u, s)
    /\ (\E c \in Conns : <<c, s>> \in hand'[u].targets) => Reaches(u, s) \/ Registered(s)
    /\ hand'[u].s = s => hand[u].s = s \/ Reaches(u, s) \/ Acquires(u, s)

Others(u) == OthersKeep(hand, hand', u) /\ OthersKeep(snd, snd', u) /\ OthersKeep(cls, cls', u)

(* AcceptCompletion comes to refer to nothing but what StepRefs allows.    *)
LEMMA RefsAccept ==
  ASSUME TypeOK, NEW u \in Workers, AcceptStep(u)
  PROVE  StepRefs(u) /\ Others(u)
<1> USE DEF StepRefs, Others, OthersKeep, Reaches
<1>0. /\ hand \in [Workers -> Handler] /\ snd \in [Workers -> SendCall] /\ cls \in [Workers -> CloseCall]
      /\ FramesOK
  BY DEF TypeOK
<1>n. None \notin Sessions
  BY ServerAssumption
<1>1. CASE AcceptRefuse(u)
  <2>1. ReturnHandler(u) /\ UNCHANGED <<recvs, sends, snd, cls>>
    BY <1>1 DEF AcceptRefuse
  <2>2. OthersKeep(hand, hand', u) /\ hand'[u].s = None /\ hand'[u].targets = {}
    BY <2>1, ReturnFacts
  <2> QED
    BY <2>1, <2>2, <1>n DEF Pending
<1>2. CASE AcceptAcquire(u)
  <2>1. /\ hand' = [hand EXCEPT ![u].at = "setup", ![u].s = Head(free)]
        /\ UNCHANGED <<recvs, sends, snd, cls>>
    BY <1>2 DEF AcceptAcquire, kernel
  <2>2. hand[u] \in Handler
    BY <1>0
  <2>3. OthersKeep(hand, hand', u) /\ hand'[u].s = Head(free) /\ hand'[u].targets = hand[u].targets
    BY <1>0, <2>1, <2>2 DEF Handler
  <2> QED
    BY <1>2, <2>1, <2>3 DEF Pending, Acquires
<1>3. CASE AcceptSetup(u) \/ AcceptRegister(u) \/ AcceptAssociate(u) \/ AcceptPostAccept(u)
  <2>1. /\ GotoHandler(u, "register") \/ GotoHandler(u, "associate") \/ GotoHandler(u, "firstRecv")
             \/ GotoHandler(u, "welcome")
        /\ UNCHANGED <<recvs, sends, snd, cls>>
    BY <1>3 DEF AcceptSetup, AcceptRegister, AcceptAssociate, AcceptPostAccept, kernel
  <2>2. OthersKeep(hand, hand', u) /\ hand'[u].s = hand[u].s /\ hand'[u].targets = hand[u].targets
    BY <2>1, Labels, GotoFacts DEF Went
  <2> QED
    BY <2>1, <2>2 DEF Pending
<1>4. CASE AcceptPostRecv(u)
  <2>1. /\ InHandler(u, "firstRecv") /\ GotoHandler(u, "reaccept") /\ PostRecv(u, hand[u].s)
        /\ UNCHANGED <<sends, snd>>
    BY <1>4 DEF AcceptPostRecv
  <2>2. OthersKeep(hand, hand', u) /\ hand'[u].s = hand[u].s /\ hand'[u].targets = hand[u].targets
    BY <2>1, Labels, GotoFacts DEF Went
  <2>3. /\ \A s \in Sessions : Pending(s)' => Pending(s) \/ s = hand[u].s
        /\ OthersKeep(cls, cls', u) /\ (cls'[u].s = hand[u].s \/ cls'[u] = cls[u])
    <3>1. hand[u].s \in Attached
      BY <1>0, <2>1 DEF FramesOK, InHandler
    <3> QED
      BY <2>1, <3>1, PostRecvPending, PostRecvFacts
  <2> QED
    BY <2>1, <2>2, <2>3 DEF InHandler
<1>5. CASE AcceptWelcome(u)
  <2>1. /\ InHandler(u, "welcome") /\ ReturnHandler(u) /\ CallSend(u, hand[u].s, hand[u].c)
        /\ UNCHANGED <<recvs, sends, cls>>
    BY <1>5 DEF AcceptWelcome, kernel
  <2>2. OthersKeep(hand, hand', u) /\ hand'[u].s = None /\ hand'[u].targets = {}
    BY <2>1, ReturnFacts
  <2>3. OthersKeep(snd, snd', u) /\ snd'[u].s = hand[u].s
    <3>1. hand[u].s \in Sessions /\ hand[u].c \in Conns
      BY <1>0, <2>1 DEF FramesOK, InHandler, Attached
    <3> QED
      BY <2>1, <3>1, CallSendFacts
  <2> QED
    BY <2>1, <2>2, <2>3, <1>n DEF Pending, InHandler
<1> QED
  BY <1>1, <1>2, <1>3, <1>4, <1>5 DEF AcceptStep

(* RecvCompletion comes to refer to nothing but what StepRefs allows.      *)
LEMMA RefsRecv ==
  ASSUME TypeOK, NEW u \in Workers, RecvStep(u)
  PROVE  StepRefs(u) /\ Others(u)
<1> USE DEF StepRefs, Others, OthersKeep, Reaches
<1>0. /\ hand \in [Workers -> Handler] /\ snd \in [Workers -> SendCall] /\ cls \in [Workers -> CloseCall]
      /\ FramesOK /\ hand[u] \in Handler /\ None \notin Sessions
  BY ServerAssumption DEF TypeOK
<1>s. hand[u].at \notin {"off", "acquire", "setup"} => hand[u].s \in Attached /\ hand[u].s \in Sessions
  BY <1>0 DEF FramesOK, Attached
<1>1. CASE RecvFault(u) \/ RecvNeedMore(u)
  <2>1. /\ GotoHandler(u, "fault") \/ GotoHandler(u, "nextRecv")
        /\ UNCHANGED <<recvs, sends, snd, cls>>
    BY <1>1 DEF RecvFault, RecvNeedMore, kernel
  <2>2. OthersKeep(hand, hand', u) /\ hand'[u].s = hand[u].s /\ hand'[u].targets = hand[u].targets
    BY <2>1, Labels, GotoFacts DEF Went
  <2> QED
    BY <2>1, <2>2 DEF Pending
<1>2. CASE RecvAppend(u)
  <2>1. /\ hand' = [hand EXCEPT ![u].at = "pop", ![u].data = <<>>]
        /\ UNCHANGED <<recvs, sends, snd, cls>>
    BY <1>2 DEF RecvAppend, kernel
  <2>2. OthersKeep(hand, hand', u) /\ hand'[u].s = hand[u].s /\ hand'[u].targets = hand[u].targets
    BY <1>0, <2>1 DEF Handler
  <2> QED
    BY <2>1, <2>2 DEF Pending
<1>3. CASE RecvMalformed(u)
  <2>1. /\ InHandler(u, "pop") /\ ReturnHandler(u) /\ CallClose(u, hand[u].s)
        /\ UNCHANGED <<recvs, sends, snd>>
    BY <1>3 DEF RecvMalformed, kernel
  <2>2. OthersKeep(hand, hand', u) /\ hand'[u].s = None /\ hand'[u].targets = {}
    BY <2>1, ReturnFacts
  <2>3. OthersKeep(cls, cls', u) /\ cls'[u].s = hand[u].s
    BY <1>s, <2>1, CallCloseFacts DEF InHandler
  <2> QED
    BY <1>0, <2>1, <2>2, <2>3 DEF Pending, InHandler
<1>4. CASE RecvPacket(u)
  <2> DEFINE s == hand[u].s
             p == Head(rx[s])
  <2>1. InHandler(u, "pop") /\ rx[s] # <<>> /\ UNCHANGED <<recvs, sends, cls>>
    BY <1>4 DEF RecvPacket, kernel
  <2>2. s \in Sessions /\ p.from \in Conns
    <3>1. s \in Sessions
      BY <1>s, <2>1 DEF InHandler
    <3>2. rx[s] \in Seq(Packet)
      BY <3>1 DEF TypeOK
    <3>3. p \in Packet
      BY <2>1, <3>2
    <3> QED
      BY <3>1, <3>3 DEF Packet
  <2>3. CASE hand' = [hand EXCEPT ![u].at = p.kind, ![u].targets = Snapshot(s)] /\ UNCHANGED snd
    <3>1. OthersKeep(hand, hand', u) /\ hand'[u].s = s /\ hand'[u].targets = Snapshot(s)
      BY <1>0, <2>3 DEF Handler
    <3>2. \A q \in Sessions, c \in Conns : <<c, q>> \in Snapshot(s) => table[c] = q
      BY DEF Snapshot
    <3> QED
      BY <2>1, <2>3, <3>1, <3>2 DEF Pending, Registered
  <2>4. CASE CallSend(u, s, p.from) /\ UNCHANGED hand
    <3> HIDE DEF p
    <3>1. OthersKeep(snd, snd', u) /\ snd'[u].s = s
      BY <2>2, <2>4, CallSendFacts
    <3> QED
      BY <2>1, <2>4, <3>1 DEF Pending, InHandler
  <2>5. CASE UNCHANGED <<hand, snd>>
    BY <2>1, <2>5 DEF Pending
  <2> QED
    BY <1>4, <2>3, <2>4, <2>5 DEF RecvPacket
<1>5. CASE Broadcast(u)
  <2>1. PICK t \in hand[u].targets :
          /\ hand' = [hand EXCEPT ![u].targets = @ \ {t}] /\ CallSend(u, t[2], t[1])
          /\ UNCHANGED <<recvs, sends, cls>>
    BY <1>5 DEF Broadcast, kernel
  <2>2. /\ OthersKeep(hand, hand', u) /\ hand'[u].s = hand[u].s
        /\ hand'[u].targets = hand[u].targets \ {t}
    BY <1>0, <2>1 DEF Handler
  <2>3. t[1] \in Conns /\ t[2] \in Sessions /\ <<t[1], t[2]>> \in hand[u].targets
    <3>1. t \in Conns \X Sessions
      BY <1>0, <2>1 DEF Handler
    <3> QED
      BY <2>1, <3>1
  <2>4. OthersKeep(snd, snd', u) /\ snd'[u].s = t[2]
    BY <2>1, <2>3, CallSendFacts
  <2> QED
    BY <2>1, <2>2, <2>3, <2>4 DEF Pending
<1>6. CASE BroadcastDone(u)
  <2>1. /\ InHandler(u, "chat") \/ InHandler(u, "exit")
        /\ GotoHandler(u, "pop") /\ (CallClose(u, hand[u].s) \/ UNCHANGED cls)
        /\ UNCHANGED <<recvs, sends, snd>>
    BY <1>6 DEF BroadcastDone, kernel
  <2>2. OthersKeep(hand, hand', u) /\ hand'[u].s = hand[u].s /\ hand'[u].targets = hand[u].targets
    BY <2>1, Labels, GotoFacts DEF Went
  <2>3. OthersKeep(cls, cls', u) /\ (cls'[u].s = hand[u].s \/ cls'[u] = cls[u])
    BY <1>s, <2>1, CallCloseFacts DEF InHandler
  <2> QED
    BY <2>1, <2>2, <2>3 DEF Pending, InHandler
<1>7. CASE RecvPostRecv(u)
  <2>1. /\ InHandler(u, "nextRecv") /\ ReturnHandler(u) /\ PostRecv(u, hand[u].s)
        /\ UNCHANGED <<sends, snd>>
    BY <1>7 DEF RecvPostRecv
  <2>2. OthersKeep(hand, hand', u) /\ hand'[u].s = None /\ hand'[u].targets = {}
    BY <2>1, ReturnFacts
  <2>3. /\ \A s \in Sessions : Pending(s)' => Pending(s) \/ s = hand[u].s
        /\ OthersKeep(cls, cls', u) /\ (cls'[u].s = hand[u].s \/ cls'[u] = cls[u])
    <3>1. hand[u].s \in Attached
      BY <1>s, <2>1 DEF InHandler
    <3> QED
      BY <2>1, <3>1, PostRecvPending, PostRecvFacts
  <2> QED
    BY <1>0, <2>1, <2>2, <2>3 DEF InHandler
<1> QED
  BY <1>1, <1>2, <1>3, <1>4, <1>5, <1>6, <1>7 DEF RecvStep

(* Sending comes to refer to nothing but what StepRefs allows.             *)
LEMMA RefsSend ==
  ASSUME TypeOK, NEW u \in Workers, SendStep(u)
  PROVE  StepRefs(u) /\ Others(u)
<1> USE DEF StepRefs, Others, OthersKeep, Reaches
<1>0. /\ snd \in [Workers -> SendCall] /\ FramesOK /\ snd[u] \in SendCall /\ None \notin Sessions
  BY ServerAssumption DEF TypeOK
<1>1. ASSUME ReturnSend(u) PROVE OthersKeep(snd, snd', u) /\ snd'[u].s = None
  BY <1>1, ReturnSendFacts DEF NoSend
<1>2. CASE EnqueuePush(u) \/ EnqueueExchange(u) \/ PostSendPop(u) \/ PostSendClear(u)
  <2>1. UNCHANGED <<recvs, sends, hand, cls>>
    BY <1>2 DEF EnqueuePush, EnqueueExchange, PostSendPop, PostSendClear, kernel
  <2>2. OthersKeep(snd, snd', u) /\ snd'[u].s \in {None, snd[u].s}
    <3>1. CASE EnqueuePush(u)
      BY <1>0, <1>1, <3>1 DEF EnqueuePush, SendCall
    <3>2. CASE EnqueueExchange(u)
      BY <1>0, <1>1, <3>2 DEF EnqueueExchange, SendCall
    <3>3. CASE PostSendPop(u)
      BY <1>0, <1>1, <3>3 DEF PostSendPop, SendCall
    <3>4. CASE PostSendClear(u)
      BY <1>1, <3>4 DEF PostSendClear
    <3> QED
      BY <1>2, <3>1, <3>2, <3>3, <3>4
  <2> QED
    BY <1>0, <2>1, <2>2 DEF Pending
<1>3. CASE PostSendWSASend(u)
  <2> DEFINE s == snd[u].s
  <2>1. /\ InSend(u, "wsaSend") /\ ReturnSend(u) /\ UNCHANGED <<recvs, hand>>
        /\ \/ sends' = [sends EXCEPT ![s][conn[s]] = @ + 1] /\ UNCHANGED cls
           \/ CallClose(u, s) /\ UNCHANGED sends
    BY <1>3 DEF PostSendWSASend
  <2>2. s \in Sessions /\ conn[s] \in Conns
    BY <1>0, <2>1 DEF FramesOK, InSend, Attached
  <2>3. \A q \in Sessions : Pending(q)' => Pending(q) \/ q = s
    <3>1. sends \in [Sessions -> [Conns -> Nat]]
      BY DEF TypeOK
    <3>2. CASE sends' = [sends EXCEPT ![s][conn[s]] = @ + 1]
      BY <2>1, <2>2, <3>1, <3>2 DEF Pending
    <3>3. CASE UNCHANGED sends
      BY <2>1, <3>3 DEF Pending
    <3> QED
      BY <2>1, <3>2, <3>3
  <2>4. OthersKeep(cls, cls', u) /\ (cls'[u].s = s \/ cls'[u] = cls[u])
    BY <2>1, <2>2, CallCloseFacts
  <2>5. OthersKeep(snd, snd', u) /\ snd'[u].s = None
    BY <1>1, <2>1
  <2> QED
    BY <1>0, <2>1, <2>3, <2>4, <2>5
<1> QED
  BY <1>2, <1>3 DEF SendStep

(* CloseSession comes to refer to nothing new.                             *)
LEMMA RefsClose ==
  ASSUME TypeOK, NEW u \in Workers, CloseStep(u)
  PROVE  StepRefs(u) /\ Others(u)
<1> USE DEF StepRefs, Others, OthersKeep, Reaches
<1>0. cls \in [Workers -> CloseCall] /\ cls[u] \in CloseCall /\ None \notin Sessions
  BY ServerAssumption DEF TypeOK
<1>1. UNCHANGED <<recvs, sends, hand, snd>>
  BY DEF CloseStep, CloseMark, CloseSocket, CloseUnregister, CloseRelease, kernel
<1>2. OthersKeep(cls, cls', u) /\ cls'[u].s \in {None, cls[u].s}
  <2>1. CASE CloseMark(u)
    BY <1>0, <2>1 DEF CloseMark, NoClose
  <2>2. CASE CloseSocket(u)
    BY <1>0, <2>2 DEF CloseSocket, CloseCall
  <2>3. CASE CloseUnregister(u)
    BY <1>0, <2>3 DEF CloseUnregister, CloseCall
  <2>4. CASE CloseRelease(u)
    BY <1>0, <2>4 DEF CloseRelease, NoClose
  <2> QED
    BY <2>1, <2>2, <2>3, <2>4 DEF CloseStep
<1> QED
  BY <1>0, <1>1, <1>2 DEF Pending

(* A completion taken refers to the object of its operation.               *)
LEMMA RefsTake ==
  ASSUME TypeOK, NEW u \in Workers, TakeStep(u)
  PROVE  StepRefs(u) /\ Others(u)
<1> USE DEF StepRefs, Others, OthersKeep, Reaches
<1>0. /\ hand \in [Workers -> Handler] /\ snd \in [Workers -> SendCall]
      /\ recvs \in [Sessions -> [Conns -> Nat]] /\ sends \in [Sessions -> [Conns -> Nat]]
      /\ None \notin Sessions
  BY ServerAssumption DEF TypeOK
<1>1. ASSUME NEW c \in Conns, TakeAccept(u, c) PROVE StepRefs(u) /\ Others(u)
  <2>1. /\ hand' = [hand EXCEPT ![u] = [at |-> "acquire", s |-> None, c |-> c, data |-> <<>>, targets |-> {}]]
        /\ UNCHANGED <<recvs, sends, snd, cls>>
    BY <1>1 DEF TakeAccept
  <2>2. OthersKeep(hand, hand', u) /\ hand'[u].s = None /\ hand'[u].targets = {}
    BY <1>0, <2>1
  <2> QED
    BY <1>0, <2>1, <2>2 DEF Pending
<1>2. ASSUME NEW s \in Sessions, NEW c \in Conns, TakeRecvData(u, s, c) PROVE StepRefs(u) /\ Others(u)
  <2>1. PICK b \in Bursts :
          /\ recvs[s][c] > 0 /\ recvs' = [recvs EXCEPT ![s][c] = @ - 1]
          /\ hand' = [hand EXCEPT ![u] = [at |-> "append", s |-> s, c |-> c, data |-> b, targets |-> {}]]
          /\ UNCHANGED <<sends, snd, cls>>
    BY <1>2 DEF TakeRecvData
  <2>2. OthersKeep(hand, hand', u) /\ hand'[u].s = s /\ hand'[u].targets = {}
    BY <1>0, <2>1
  <2>3. Pending(s) /\ \A q \in Sessions : Pending(q)' => Pending(q)
    BY <1>0, <2>1 DEF Pending
  <2> QED
    BY <2>1, <2>2, <2>3
<1>3. ASSUME NEW s \in Sessions, NEW c \in Conns, TakeRecvEnd(u, s, c) PROVE StepRefs(u) /\ Others(u)
  <2>1. /\ recvs[s][c] > 0 /\ recvs' = [recvs EXCEPT ![s][c] = @ - 1] /\ CallClose(u, s)
        /\ UNCHANGED <<sends, hand, snd>>
    BY <1>3 DEF TakeRecvEnd
  <2>2. OthersKeep(cls, cls', u) /\ cls'[u].s = s
    BY <2>1, CallCloseFacts
  <2>3. Pending(s) /\ \A q \in Sessions : Pending(q)' => Pending(q)
    BY <1>0, <2>1 DEF Pending
  <2> QED
    BY <2>1, <2>2, <2>3
<1>4. ASSUME NEW s \in Sessions, NEW c \in Conns, TakeSend(u, s, c) PROVE StepRefs(u) /\ Others(u)
  <2>1. /\ sends[s][c] > 0 /\ sends' = [sends EXCEPT ![s][c] = @ - 1]
        /\ snd' = [snd EXCEPT ![u] = [at |-> "pop", s |-> s, msgs |-> <<>>]]
        /\ UNCHANGED <<recvs, hand, cls>>
    BY <1>4 DEF TakeSend
  <2>2. OthersKeep(snd, snd', u) /\ snd'[u].s = s
    BY <1>0, <2>1
  <2>3. Pending(s) /\ \A q \in Sessions : Pending(q)' => Pending(q)
    BY <1>0, <2>1 DEF Pending
  <2> QED
    BY <2>1, <2>2, <2>3
<1> QED
  BY <1>1, <1>2, <1>3, <1>4 DEF TakeStep

(* Every step of a worker satisfies StepRefs.                              *)
LEMMA RefsWorker ==
  ASSUME TypeOK, NEW u \in Workers, WorkerThread(u)
  PROVE  StepRefs(u) /\ Others(u)
BY RefsAccept, RefsRecv, RefsSend, RefsClose, RefsTake DEF WorkerThread

(***************************************************************************)
(* What a step does to the objects' places: the table, the pool, conn and  *)
(* closing.  Six actions touch them; the others keep them, and bring no    *)
(* worker to a place where it owns an object.                              *)
(***************************************************************************)
KeepsObjects(u) ==
  /\ UNCHANGED <<table, free, conn, closing>>
  /\ hand'[u] = hand[u] \/ hand'[u].at \notin {"setup", "register"}
  /\ \/ cls'[u] = cls[u]
     \/ cls'[u].at \in {"off", "mark"}
     \/ cls[u].at = "socket" /\ cls'[u].at = "unregister" /\ cls'[u].s = cls[u].s

ObjectStep(u) ==
  \/ AcceptAcquire(u) \/ AcceptSetup(u) \/ AcceptRegister(u)
  \/ CloseMark(u) \/ CloseUnregister(u) \/ CloseRelease(u)

(* A step of a worker keeps the objects or is one of six.                  *)
LEMMA Keeps ==
  ASSUME TypeOK, NEW u \in Workers, WorkerThread(u)
  PROVE  KeepsObjects(u) \/ ObjectStep(u)
<1>0. /\ hand \in [Workers -> Handler] /\ hand[u] \in Handler
      /\ cls \in [Workers -> CloseCall] /\ cls[u] \in CloseCall /\ FramesOK
  BY DEF TypeOK
<1>h. ASSUME ReturnHandler(u) PROVE hand'[u].at \notin {"setup", "register"}
  BY <1>h, ReturnFacts
<1>c. ASSUME NEW s \in Sessions, CallClose(u, s) PROVE cls'[u].at = "mark"
  BY <1>c, CallCloseFacts
<1>p. ASSUME NEW s \in Attached, PostRecv(u, s) PROVE cls'[u] = cls[u] \/ cls'[u].at = "mark"
  BY <1>p, PostRecvFacts
<1>s. hand[u].at \notin {"off", "acquire", "setup"} => hand[u].s \in Attached /\ hand[u].s \in Sessions
  BY <1>0 DEF FramesOK, Attached
<1>1. CASE AcceptStep(u)
  <2>1. CASE AcceptRefuse(u)
    BY <2>1, <1>h DEF AcceptRefuse, KeepsObjects, session, shared
  <2>2. CASE AcceptAssociate(u) \/ AcceptPostAccept(u)
    <3>1. hand'[u].at \in {"firstRecv", "welcome"}
      BY <2>2, Labels, GotoFacts DEF AcceptAssociate, AcceptPostAccept, Went
    <3> QED
      BY <2>2, <3>1 DEF AcceptAssociate, AcceptPostAccept, KeepsObjects, session, shared
  <2>3. CASE AcceptPostRecv(u)
    <3>1. /\ InHandler(u, "firstRecv") /\ GotoHandler(u, "reaccept") /\ PostRecv(u, hand[u].s)
          /\ UNCHANGED <<table, free, conn, closing>>
      BY <2>3 DEF AcceptPostRecv, session, shared
    <3>2. hand'[u].at = "reaccept"
      BY <3>1, Labels, GotoFacts DEF Went
    <3>3. cls'[u] = cls[u] \/ cls'[u].at = "mark"
      BY <3>1, <1>s, <1>p DEF InHandler
    <3> QED
      BY <3>1, <3>2, <3>3 DEF KeepsObjects
  <2>4. CASE AcceptWelcome(u)
    BY <2>4, <1>h DEF AcceptWelcome, KeepsObjects, session, shared
  <2> QED
    BY <1>1, <2>1, <2>2, <2>3, <2>4 DEF AcceptStep, ObjectStep
<1>2. CASE RecvStep(u)
  <2>1. CASE RecvFault(u) \/ RecvNeedMore(u)
    <3>1. hand'[u].at \in {"fault", "nextRecv"}
      BY <2>1, Labels, GotoFacts DEF RecvFault, RecvNeedMore, Went
    <3> QED
      BY <2>1, <3>1 DEF RecvFault, RecvNeedMore, KeepsObjects, session, shared
  <2>2. CASE RecvAppend(u)
    <3>1. hand'[u].at = "pop"
      BY <2>2, <1>0 DEF RecvAppend, Handler
    <3> QED
      BY <2>2, <3>1 DEF RecvAppend, KeepsObjects, shared
  <2>3. CASE RecvMalformed(u)
    <3>1. /\ InHandler(u, "pop") /\ ReturnHandler(u) /\ CallClose(u, hand[u].s)
          /\ UNCHANGED <<table, free, conn, closing>>
      BY <2>3 DEF RecvMalformed, session, shared
    <3> QED
      BY <3>1, <1>s, <1>h, <1>c DEF KeepsObjects, InHandler
  <2>4. CASE RecvPacket(u)
    <3> DEFINE p == Head(rx[hand[u].s])
    <3>1. /\ UNCHANGED <<table, free, conn, closing, cls>>
          /\ \/ /\ p.kind \in {"chat", "exit"}
                /\ hand' = [hand EXCEPT ![u].at = p.kind, ![u].targets = Snapshot(hand[u].s)]
             \/ UNCHANGED hand
      BY <2>4 DEF RecvPacket, shared
    <3>2. hand'[u] = hand[u] \/ hand'[u].at \in {"chat", "exit"}
      BY <1>0, <3>1 DEF Handler
    <3> QED
      BY <3>1, <3>2 DEF KeepsObjects
  <2>5. CASE Broadcast(u)
    <3>1. /\ UNCHANGED <<table, free, conn, closing, cls>>
          /\ hand[u].at \in {"chat", "exit"}
          /\ \E t \in hand[u].targets : hand' = [hand EXCEPT ![u].targets = @ \ {t}]
      BY <2>5 DEF Broadcast, session, shared, InHandler
    <3>2. hand'[u].at = hand[u].at
      BY <1>0, <3>1 DEF Handler
    <3> QED
      BY <3>1, <3>2 DEF KeepsObjects
  <2>6. CASE BroadcastDone(u)
    <3>1. /\ UNCHANGED <<table, free, conn, closing>> /\ GotoHandler(u, "pop")
          /\ hand[u].at \in {"chat", "exit"} /\ (CallClose(u, hand[u].s) \/ UNCHANGED cls)
      BY <2>6 DEF BroadcastDone, session, shared, InHandler
    <3>2. hand'[u].at = "pop"
      BY <3>1, Labels, GotoFacts DEF Went
    <3> QED
      BY <3>1, <3>2, <1>s, <1>c DEF KeepsObjects
  <2>7. CASE RecvPostRecv(u)
    <3>1. /\ InHandler(u, "nextRecv") /\ ReturnHandler(u) /\ PostRecv(u, hand[u].s)
          /\ UNCHANGED <<table, free, conn, closing>>
      BY <2>7 DEF RecvPostRecv, session, shared
    <3> QED
      BY <3>1, <1>s, <1>p, <1>h DEF KeepsObjects, InHandler
  <2> QED
    BY <1>2, <2>1, <2>2, <2>3, <2>4, <2>5, <2>6, <2>7 DEF RecvStep
<1>3. CASE SendStep(u)
  <2>1. CASE PostSendWSASend(u)
    <3>1. /\ UNCHANGED <<table, free, conn, closing, hand>> /\ snd[u].at = "wsaSend"
          /\ CallClose(u, snd[u].s) \/ UNCHANGED cls
      BY <2>1 DEF PostSendWSASend, session, shared, InSend
    <3>2. snd[u].s \in Sessions
      BY <1>0, <3>1 DEF FramesOK, Attached
    <3> QED
      BY <3>1, <3>2, <1>c DEF KeepsObjects
  <2>2. CASE EnqueuePush(u) \/ EnqueueExchange(u) \/ PostSendPop(u) \/ PostSendClear(u)
    BY <2>2 DEF EnqueuePush, EnqueueExchange, PostSendPop, PostSendClear, KeepsObjects, shared
  <2> QED
    BY <1>3, <2>1, <2>2 DEF SendStep
<1>4. CASE CloseStep(u)
  <2>1. CASE CloseSocket(u)
    <3>1. /\ UNCHANGED <<table, free, conn, closing, hand>>
          /\ cls[u].at = "socket" /\ cls' = [cls EXCEPT ![u].at = "unregister"]
      BY <2>1 DEF CloseSocket, shared, InClose
    <3>2. cls'[u].at = "unregister" /\ cls'[u].s = cls[u].s
      BY <1>0, <3>1 DEF CloseCall
    <3> QED
      BY <3>1, <3>2 DEF KeepsObjects
  <2> QED
    BY <1>4, <2>1 DEF CloseStep, ObjectStep
<1>5. CASE TakeStep(u)
  <2>1. ASSUME NEW c \in Conns, TakeAccept(u, c) PROVE KeepsObjects(u)
    <3>1. hand'[u].at = "acquire"
      BY <1>0, <2>1 DEF TakeAccept
    <3> QED
      BY <2>1, <3>1 DEF TakeAccept, KeepsObjects, session, shared
  <2>2. ASSUME NEW s \in Sessions, NEW c \in Conns, TakeRecvData(u, s, c) PROVE KeepsObjects(u)
    <3>1. hand'[u].at = "append"
      BY <1>0, <2>2 DEF TakeRecvData
    <3> QED
      BY <2>2, <3>1 DEF TakeRecvData, KeepsObjects, session, shared
  <2>3. ASSUME NEW s \in Sessions, NEW c \in Conns, TakeRecvEnd(u, s, c) PROVE KeepsObjects(u)
    BY <2>3, <1>c DEF TakeRecvEnd, KeepsObjects, session, shared
  <2>4. ASSUME NEW s \in Sessions, NEW c \in Conns, TakeSend(u, s, c) PROVE KeepsObjects(u)
    BY <2>4 DEF TakeSend, KeepsObjects, session, shared
  <2> QED
    BY <1>5, <2>1, <2>2, <2>3, <2>4 DEF TakeStep
<1> QED
  BY <1>1, <1>2, <1>3, <1>4, <1>5 DEF WorkerThread

(***************************************************************************)
(* ObjectInv, whose four parts need each other.                            *)
(***************************************************************************)
(* The history variable never becomes TRUE again.                          *)
LEMMA CleanKept ==
  ASSUME TypeOK, [Next]_vars, clean'
  PROVE  clean
<1>1. CASE UNCHANGED vars
  BY <1>1 DEF vars
<1>2. CASE Network
  BY <1>2 DEF Network, PeerLeaves, SendUnnotified
<1>3. ASSUME NEW w \in Workers, AcceptStep(w) PROVE clean
  BY <1>3 DEF AcceptStep, AcceptRefuse, AcceptAcquire, AcceptSetup, AcceptRegister,
              AcceptAssociate, AcceptPostRecv, AcceptPostAccept, AcceptWelcome
<1>4. ASSUME NEW w \in Workers, RecvStep(w) PROVE clean
  BY <1>4 DEF RecvStep, RecvFault, RecvAppend, RecvNeedMore, RecvMalformed, RecvPacket, Broadcast,
              BroadcastDone, RecvPostRecv
<1>5. ASSUME NEW w \in Workers, SendStep(w) PROVE clean
  BY <1>5 DEF SendStep, EnqueuePush, EnqueueExchange, PostSendPop, PostSendClear, PostSendWSASend
<1>6. ASSUME NEW w \in Workers, CloseStep(w) PROVE clean
  BY <1>6 DEF CloseStep, CloseMark, CloseSocket, CloseUnregister, CloseRelease
<1>7. ASSUME NEW w \in Workers, TakeStep(w) PROVE clean
  BY <1>7 DEF TakeStep, TakeAccept, TakeRecvData, TakeRecvEnd, TakeSend
<1> QED
  BY <1>1, <1>2, <1>3, <1>4, <1>5, <1>6, <1>7 DEF Next, WorkerThread

(* Nobody else comes to refer to an object that is still being set up.     *)
LEMMA FreshRefs ==
  ASSUME TypeOK, ObjectInv, NEW u \in Workers, StepRefs(u), Others(u),
         NEW w \in Workers, NEW s \in Sessions,
         hand[w].at \in {"setup", "register"}, hand[w].s = s
  PROVE  OnlyHandlerOf(w, s)'
<1>1. OnlyHandlerOf(w, s) /\ ~Registered(s) /\ ~InPool(s)
  BY DEF ObjectInv, FreshInv
<1>2. ~Reaches(u, s)
  BY <1>1 DEF Reaches, OnlyHandlerOf
<1>3. ~Acquires(u, s)
  <2>1. free \in Seq(Sessions)
    BY DEF TypeOK
  <2>2. free # <<>> => InPool(Head(free))
    BY <2>1 DEF InPool
  <2> QED
    BY <1>1, <2>2 DEF Acquires, AcceptAcquire
<1>4. /\ ~Pending(s)' /\ snd'[u].s # s /\ cls'[u].s # s
      /\ \A c \in Conns : <<c, s>> \notin hand'[u].targets
      /\ hand'[u].s = s => hand[u].s = s
  BY <1>1, <1>2, <1>3 DEF StepRefs
<1> QED
  BY <1>1, <1>4 DEF OnlyHandlerOf, Others, OthersKeep

(* Nothing comes to refer to an object in the pool that did not before.    *)
LEMMA PoolRefs ==
  ASSUME TypeOK, ObjectInv, NEW u \in Workers, StepRefs(u), Others(u),
         NEW s \in Sessions, InPool(s), ~Acquires(u, s), Referenced(s)'
  PROVE  Referenced(s)
<1>1. ~Registered(s)
  BY DEF ObjectInv, PoolInv
<1>2. Reaches(u, s) => Referenced(s)
  BY DEF Reaches, Referenced, Holds
<1>3. CASE Pending(s)'
  BY <1>2, <1>3 DEF StepRefs
<1>4. ASSUME NEW v \in Workers, Holds(v, s)' PROVE Referenced(s)
  <2>1. CASE v # u
    BY <1>4, <2>1 DEF Others, OthersKeep, Referenced, Holds
  <2>2. CASE v = u
    BY <1>1, <1>2, <1>4, <2>2 DEF StepRefs, Referenced, Holds
  <2> QED
    BY <2>1, <2>2
<1> QED
  BY <1>3, <1>4 DEF Referenced

(* The steps that keep the objects keep ObjectInv.                         *)
LEMMA ObjectsKept ==
  ASSUME TypeOK, ObjectInv, NEW u \in Workers, StepRefs(u), Others(u), KeepsObjects(u), ~AcceptAcquire(u)
  PROVE  ObjectInv'
<1>1. \A s \in Sessions : ~Acquires(u, s)
  BY DEF Acquires
<1>2. FreshInv'
  <2> SUFFICES ASSUME NEW w \in Workers, hand'[w].at \in {"setup", "register"}
               PROVE  /\ OnlyHandlerOf(w, hand[w].s)' /\ ~Registered(hand[w].s)'
                      /\ ~InPool(hand[w].s)'
    BY DEF FreshInv
  <2>1. hand'[w] = hand[w]
    BY DEF KeepsObjects, Others, OthersKeep
  <2>2. hand[w].s \in Sessions
    BY <2>1 DEF TypeOK, FramesOK, Attached
  <2>3. ~Registered(hand[w].s) /\ ~InPool(hand[w].s)
    BY <2>1 DEF ObjectInv, FreshInv
  <2>4. PICK s \in Sessions : s = hand[w].s
    BY <2>2
  <2>5. OnlyHandlerOf(w, s)'
    BY <2>1, <2>4, FreshRefs
  <2> QED
    BY <2>1, <2>3, <2>4, <2>5 DEF KeepsObjects, Registered, InPool, OnlyHandlerOf
<1>3. TableInv'
  BY DEF ObjectInv, TableInv, KeepsObjects
<1>4. PoolInv'
  <2>1. \A s \in Sessions : InPool(s)' = InPool(s) /\ Registered(s)' = Registered(s)
    BY DEF KeepsObjects, InPool, Registered
  <2>2. \A s \in Sessions : InPool(s) /\ Referenced(s)' => closing'[s]
    BY <1>1, PoolRefs DEF ObjectInv, PoolInv, KeepsObjects
  <2> QED
    BY <2>1, <2>2 DEF ObjectInv, PoolInv, KeepsObjects
<1>5. CloserInv'
  <2>1. \A w \in Workers, s \in Sessions : Closer(w, s)' => Closer(w, s)
    BY DEF KeepsObjects, Others, OthersKeep, Closer
  <2>2. \A w \in Workers : cls'[w].at = "release" => cls'[w] = cls[w]
    BY DEF KeepsObjects, Others, OthersKeep
  <2> QED
    BY <2>1, <2>2 DEF ObjectInv, CloserInv, KeepsObjects, InPool, Registered
<1> QED
  BY <1>2, <1>3, <1>4, <1>5 DEF ObjectInv

(* SessionPool::Acquire keeps ObjectInv, unless it reuses too early.       *)
LEMMA ObjectsAcquire ==
  ASSUME TypeOK, ObjectInv, NEW u \in Workers, StepRefs(u), Others(u), AcceptAcquire(u), clean'
  PROVE  ObjectInv'
<1> DEFINE h == Head(free)
<1>1. /\ free # <<>> /\ free' = Tail(free) /\ closing' = [closing EXCEPT ![h] = FALSE]
      /\ hand' = [hand EXCEPT ![u].at = "setup", ![u].s = h] /\ ~Referenced(h)
      /\ UNCHANGED <<recvs, sends, conn, table, snd, cls>>
  BY DEF AcceptAcquire, kernel
<1>2. /\ free \in Seq(Sessions) /\ hand \in [Workers -> Handler] /\ hand[u] \in Handler
      /\ closing \in [Sessions -> BOOLEAN]
  BY DEF TypeOK
<1>3. /\ h \in Sessions /\ InPool(h) /\ free' \in Seq(Sessions) /\ Len(free') = Len(free) - 1
      /\ \A i \in 1 .. Len(free') : free'[i] = free[i + 1]
  BY <1>1, <1>2 DEF InPool
<1>4. hand'[u].s = h /\ hand'[u].targets = hand[u].targets /\ OthersKeep(hand, hand', u)
  BY <1>1, <1>2 DEF Handler, OthersKeep
<1> HIDE DEF h
<1>5. \A s \in Sessions : InPool(s)' => InPool(s) /\ s # h
  <2> SUFFICES ASSUME NEW s \in Sessions, NEW i \in 1 .. Len(free'), free'[i] = s
               PROVE  InPool(s) /\ s # h
    BY DEF InPool
  <2>1. free[i + 1] = s /\ i + 1 \in 1 .. Len(free) /\ i + 1 # 1 /\ 1 \in 1 .. Len(free)
    BY <1>2, <1>3
  <2>2. h = free[1]
    BY <1>1, <1>2 DEF h
  <2>3. \A j, k \in 1 .. Len(free) : free[j] = free[k] => j = k
    BY DEF ObjectInv, PoolInv
  <2> QED
    BY <2>1, <2>2, <2>3 DEF InPool
<1>6. \A s \in Sessions : Registered(s)' = Registered(s)
  BY <1>1 DEF Registered
<1>7. FreshInv'
  <2> SUFFICES ASSUME NEW w \in Workers, hand'[w].at \in {"setup", "register"}
               PROVE  /\ OnlyHandlerOf(w, hand[w].s)' /\ ~Registered(hand[w].s)'
                      /\ ~InPool(hand[w].s)'
    BY DEF FreshInv
  <2>1. CASE w = u
    <3>1. PICK s \in Sessions : s = h
      BY <1>3
    <3>2. OnlyHandlerOf(u, s)'
      BY <1>1, <1>4, <3>1 DEF OnlyHandlerOf, OthersKeep, Referenced, Holds, Pending
    <3>3. ~Registered(s)' /\ ~InPool(s)'
      BY <1>3, <1>5, <1>6, <3>1 DEF ObjectInv, PoolInv
    <3> QED
      BY <1>4, <2>1, <3>1, <3>2, <3>3 DEF OnlyHandlerOf, Registered, InPool
  <2>2. CASE w # u
    <3>1. hand'[w] = hand[w]
      BY <1>4, <2>2 DEF OthersKeep
    <3>2. hand[w].s \in Sessions
      BY <3>1 DEF TypeOK, FramesOK, Attached
    <3>3. PICK s \in Sessions : s = hand[w].s
      BY <3>2
    <3>4. OnlyHandlerOf(w, s)'
      BY <3>1, <3>3, FreshRefs
    <3>5. ~Registered(s)' /\ ~InPool(s)'
      BY <1>5, <1>6, <3>1, <3>3 DEF ObjectInv, FreshInv
    <3> QED
      BY <3>1, <3>3, <3>4, <3>5 DEF OnlyHandlerOf, Registered, InPool
  <2> QED
    BY <2>1, <2>2
<1>8. TableInv'
  BY <1>1 DEF ObjectInv, TableInv
<1>9. PoolInv'
  <2>1. \A i, j \in 1 .. Len(free') : free'[i] = free'[j] => i = j
    BY <1>2, <1>3 DEF ObjectInv, PoolInv
  <2>2. \A s \in Sessions : InPool(s)' => ~Registered(s)'
    BY <1>5, <1>6 DEF ObjectInv, PoolInv
  <2>3. \A s \in Sessions : InPool(s)' /\ Referenced(s)' => closing'[s]
    <3> SUFFICES ASSUME NEW s \in Sessions, InPool(s)', Referenced(s)' PROVE closing'[s]
      OBVIOUS
    <3>1. InPool(s) /\ s # h
      BY <1>5
    <3>2. Referenced(s)
      BY <3>1, PoolRefs DEF Acquires, h
    <3>3. closing[s]
      BY <3>1, <3>2 DEF ObjectInv, PoolInv
    <3> QED
      BY <1>1, <1>2, <1>3, <3>1, <3>3
  <2> QED
    BY <2>1, <2>2, <2>3 DEF PoolInv
<1>10. CloserInv'
  <2>1. \A w \in Workers, s \in Sessions : Closer(w, s)' = Closer(w, s)
    BY <1>1 DEF Closer
  <2>2. \A w \in Workers, s \in Sessions : Closer(w, s) => s # h
    BY <1>1 DEF Closer, Referenced, Holds
  <2>3. \A s \in Sessions : s # h => closing'[s] = closing[s]
    BY <1>1, <1>2, <1>3
  <2> QED
    BY <1>1, <1>5, <1>6, <2>1, <2>2, <2>3 DEF ObjectInv, CloserInv
<1> QED
  BY <1>7, <1>8, <1>9, <1>10 DEF ObjectInv

(* The field assignments keep ObjectInv.                                   *)
LEMMA ObjectsSetup ==
  ASSUME TypeOK, ObjectInv, NEW u \in Workers, StepRefs(u), Others(u), AcceptSetup(u)
  PROVE  ObjectInv'
<1> DEFINE h == hand[u].s
<1>1. /\ hand[u].at = "setup" /\ GotoHandler(u, "register")
      /\ conn' = [conn EXCEPT ![h] = hand[u].c] /\ closing' = [closing EXCEPT ![h] = FALSE]
      /\ UNCHANGED <<recvs, sends, free, table, snd, cls>>
  BY DEF AcceptSetup, InHandler, kernel, shared
<1>2. /\ h \in Sessions /\ conn \in [Sessions -> Conns \cup {None}]
      /\ closing \in [Sessions -> BOOLEAN]
  BY <1>1 DEF TypeOK, FramesOK
<1>3. Went(u, "register")
  BY <1>1, Labels, GotoFacts
<1>4. OnlyHandlerOf(u, h) /\ ~Registered(h) /\ ~InPool(h)
  BY <1>1 DEF ObjectInv, FreshInv
<1>5. \A w \in Workers : hand'[w].s = hand[w].s
  BY <1>3 DEF Went, OthersKeep
<1> HIDE DEF h
<1>6. \A s \in Sessions : s # h => conn'[s] = conn[s] /\ closing'[s] = closing[s]
  BY <1>1, <1>2
<1>7. \A s \in Sessions : InPool(s)' = InPool(s) /\ Registered(s)' = Registered(s)
  BY <1>1 DEF InPool, Registered
<1>8. FreshInv'
  <2> SUFFICES ASSUME NEW w \in Workers, hand'[w].at \in {"setup", "register"}
               PROVE  /\ OnlyHandlerOf(w, hand[w].s)' /\ ~Registered(hand[w].s)'
                      /\ ~InPool(hand[w].s)'
    BY DEF FreshInv
  <2>1. hand[w].at \in {"setup", "register"}
    BY <1>1, <1>3 DEF Went, OthersKeep
  <2>2. hand[w].s \in Sessions
    BY <2>1 DEF TypeOK, FramesOK, Attached
  <2>3. PICK s \in Sessions : s = hand[w].s
    BY <2>2
  <2>4. OnlyHandlerOf(w, s)'
    BY <2>1, <2>3, FreshRefs
  <2>5. ~Registered(s)' /\ ~InPool(s)'
    BY <1>7, <2>1, <2>3 DEF ObjectInv, FreshInv
  <2> QED
    BY <1>5, <2>3, <2>4, <2>5 DEF OnlyHandlerOf, Registered, InPool
<1>9. TableInv'
  BY <1>1, <1>4, <1>6 DEF ObjectInv, TableInv, Registered
<1>10. PoolInv'
  <2>1. \A s \in Sessions : InPool(s)' /\ Referenced(s)' => closing'[s]
    <3> SUFFICES ASSUME NEW s \in Sessions, InPool(s)', Referenced(s)' PROVE closing'[s]
      OBVIOUS
    <3>1. InPool(s) /\ s # h
      BY <1>4, <1>7
    <3>2. ~Acquires(u, s)
      BY <1>1 DEF Acquires, AcceptAcquire, InHandler
    <3>3. Referenced(s)
      BY <3>1, <3>2, PoolRefs
    <3> QED
      BY <1>6, <3>1, <3>3 DEF ObjectInv, PoolInv
  <2> QED
    BY <1>1, <1>7, <2>1 DEF ObjectInv, PoolInv
<1>11. CloserInv'
  <2>1. \A w \in Workers, s \in Sessions : Closer(w, s)' = Closer(w, s)
    BY <1>1 DEF Closer
  <2>2. \A w \in Workers : ~Closer(w, h)
    BY <1>4 DEF Closer, OnlyHandlerOf
  <2> QED
    BY <1>1, <1>6, <1>7, <2>1, <2>2 DEF ObjectInv, CloserInv
<1> QED
  BY <1>8, <1>9, <1>10, <1>11 DEF ObjectInv

(* Entering the table keeps ObjectInv.                                     *)
LEMMA ObjectsRegister ==
  ASSUME TypeOK, ObjectInv, NEW u \in Workers, StepRefs(u), Others(u), AcceptRegister(u)
  PROVE  ObjectInv'
<1> DEFINE h == hand[u].s
<1>1. /\ hand[u].at = "register" /\ GotoHandler(u, "associate")
      /\ table' = [table EXCEPT ![conn[h]] = h]
      /\ UNCHANGED <<recvs, sends, conn, closing, free, snd, cls>>
  BY DEF AcceptRegister, InHandler, kernel, session
<1>2. h \in Sessions /\ conn[h] \in Conns /\ table \in [Conns -> Sessions \cup {None}]
  BY <1>1 DEF TypeOK, FramesOK, Attached
<1>3. Went(u, "associate")
  BY <1>1, Labels, GotoFacts
<1>4. OnlyHandlerOf(u, h) /\ ~Registered(h) /\ ~InPool(h)
  BY <1>1 DEF ObjectInv, FreshInv
<1>5. \A w \in Workers : hand'[w].s = hand[w].s
  BY <1>3 DEF Went, OthersKeep
<1>d. h = hand[u].s
  OBVIOUS
<1> HIDE DEF h
<1>6. \A c \in Conns : table'[c] = table[c] \/ (c = conn[h] /\ table'[c] = h)
  BY <1>1, <1>2
<1>7. \A s \in Sessions : InPool(s)' = InPool(s) /\ (s # h /\ Registered(s)' => Registered(s))
  BY <1>1, <1>6 DEF InPool, Registered
<1>8. FreshInv'
  <2> SUFFICES ASSUME NEW w \in Workers, hand'[w].at \in {"setup", "register"}
               PROVE  /\ OnlyHandlerOf(w, hand[w].s)' /\ ~Registered(hand[w].s)'
                      /\ ~InPool(hand[w].s)'
    BY DEF FreshInv
  <2>1. w # u /\ hand[w].at \in {"setup", "register"}
    BY <1>3 DEF Went, OthersKeep
  <2>2. hand[w].s \in Sessions
    BY <2>1 DEF TypeOK, FramesOK, Attached
  <2>3. PICK s \in Sessions : s = hand[w].s
    BY <2>2
  <2>4. OnlyHandlerOf(w, s)'
    BY <2>1, <2>3, FreshRefs
  <2>5. s # h
    BY <1>4, <1>d, <2>1, <2>3 DEF OnlyHandlerOf
  <2>6. ~Registered(s)' /\ ~InPool(s)'
    BY <1>7, <2>1, <2>3, <2>5 DEF ObjectInv, FreshInv
  <2> QED
    BY <1>5, <2>3, <2>4, <2>6 DEF OnlyHandlerOf, Registered, InPool
<1>9. TableInv'
  BY <1>1, <1>6 DEF ObjectInv, TableInv
<1>10. PoolInv'
  <2>1. \A s \in Sessions : InPool(s)' /\ Referenced(s)' => closing'[s]
    <3> SUFFICES ASSUME NEW s \in Sessions, InPool(s)', Referenced(s)' PROVE closing'[s]
      OBVIOUS
    <3>1. InPool(s)
      BY <1>7
    <3>2. ~Acquires(u, s)
      BY <1>1 DEF Acquires, AcceptAcquire, InHandler
    <3>3. Referenced(s)
      BY <3>1, <3>2, PoolRefs
    <3> QED
      BY <1>1, <3>1, <3>3 DEF ObjectInv, PoolInv
  <2>2. \A s \in Sessions : InPool(s)' => ~Registered(s)'
    BY <1>4, <1>7 DEF ObjectInv, PoolInv
  <2> QED
    BY <1>1, <2>1, <2>2 DEF ObjectInv, PoolInv
<1>11. CloserInv'
  <2>1. \A w \in Workers, s \in Sessions : Closer(w, s)' = Closer(w, s)
    BY <1>1 DEF Closer
  <2>2. \A w \in Workers : cls[w].s # h
    BY <1>4 DEF OnlyHandlerOf
  <2> QED
    BY <1>1, <1>7, <2>1, <2>2 DEF ObjectInv, CloserInv
<1> QED
  BY <1>8, <1>9, <1>10, <1>11 DEF ObjectInv

(* The frames in AcceptSetup or AcceptRegister survive a step of           *)
(* CloseSession.                                                           *)
LEMMA FreshClose ==
  ASSUME TypeOK, ObjectInv, NEW u \in Workers, StepRefs(u), Others(u), UNCHANGED hand,
         \A s \in Sessions : Registered(s)' => Registered(s),
         \A s \in Sessions : InPool(s)' => InPool(s) \/ s = cls[u].s
  PROVE  FreshInv'
<1> SUFFICES ASSUME NEW w \in Workers, hand[w].at \in {"setup", "register"}
             PROVE  /\ OnlyHandlerOf(w, hand[w].s)' /\ ~Registered(hand[w].s)'
                    /\ ~InPool(hand[w].s)'
  BY DEF FreshInv
<1>1. hand[w].s \in Sessions
  BY DEF TypeOK, FramesOK, Attached
<1>2. PICK s \in Sessions : s = hand[w].s
  BY <1>1
<1>3. OnlyHandlerOf(w, s)'
  BY <1>2, FreshRefs
<1>4. OnlyHandlerOf(w, s) /\ ~Registered(s) /\ ~InPool(s)
  BY <1>2 DEF ObjectInv, FreshInv
<1>5. ~Registered(s)' /\ ~InPool(s)'
  BY <1>4 DEF OnlyHandlerOf
<1> QED
  BY <1>2, <1>3, <1>5 DEF OnlyHandlerOf, Registered, InPool

(* What refers to a free object after a step that acquires none did so     *)
(* before it.                                                              *)
LEMMA PoolClose ==
  ASSUME TypeOK, ObjectInv, NEW u \in Workers, StepRefs(u), Others(u), ~AcceptAcquire(u),
         NEW s \in Sessions, InPool(s), Referenced(s)'
  PROVE  closing[s]
<1>1. Referenced(s)
  BY PoolRefs DEF Acquires
<1> QED
  BY <1>1 DEF ObjectInv, PoolInv

(* The exchange on "closing" keeps ObjectInv.                              *)
LEMMA ObjectsMark ==
  ASSUME TypeOK, ObjectInv, NEW u \in Workers, StepRefs(u), Others(u), CloseMark(u)
  PROVE  ObjectInv'
<1> DEFINE h == cls[u].s
<1>1. /\ cls[u].at = "mark" /\ closing' = [closing EXCEPT ![h] = TRUE]
      /\ cls' = [cls EXCEPT ![u] = IF closing[h] THEN NoClose ELSE [at |-> "socket", s |-> h]]
      /\ UNCHANGED <<conn, free, table, hand>>
  BY DEF CloseMark, InClose, shared
<1>2. h \in Sessions /\ closing \in [Sessions -> BOOLEAN] /\ cls \in [Workers -> CloseCall]
  BY <1>1 DEF TypeOK, FramesOK, Attached
<1>3. ~AcceptAcquire(u)
  BY <1>1 DEF AcceptAcquire, InHandler
<1>4. \A s \in Sessions : (closing[s] => closing'[s]) /\ closing'[h]
  BY <1>1, <1>2
<1>5. \A s \in Sessions : InPool(s)' = InPool(s) /\ Registered(s)' = Registered(s)
  BY <1>1 DEF InPool, Registered
<1>6. ~closing[h] => ~InPool(h)
  BY <1>2 DEF ObjectInv, PoolInv, Referenced, Holds
<1>7. /\ cls'[u].at # "release"
      /\ \A s \in Sessions : Closer(u, s)' => ~closing[h] /\ s = h
  BY <1>1, <1>2 DEF Closer, NoClose
<1>8. OthersKeep(cls, cls', u)
  BY DEF Others
<1> HIDE DEF h
<1>9. FreshInv'
  BY <1>1, <1>5, FreshClose
<1>10. PoolInv'
  BY <1>1, <1>3, <1>4, <1>5, PoolClose DEF ObjectInv, PoolInv
<1>11. CloserInv'
  <2>1. \A w \in Workers, s \in Sessions : w # u => Closer(w, s)' = Closer(w, s)
    BY <1>8 DEF Closer, OthersKeep
  <2>2. ~closing[h] => \A w \in Workers : ~Closer(w, h)
    BY <1>2 DEF ObjectInv, CloserInv
  <2>3. \A w \in Workers, s \in Sessions : Closer(w, s)' => closing'[s] /\ ~InPool(s)'
    BY <1>4, <1>5, <1>6, <1>7, <2>1 DEF ObjectInv, CloserInv
  <2>4. \A v, w \in Workers, s \in Sessions : Closer(v, s)' /\ Closer(w, s)' => v = w
    BY <1>7, <2>1, <2>2 DEF ObjectInv, CloserInv
  <2>5. \A w \in Workers, s \in Sessions : cls'[w].s = s /\ cls'[w].at = "release" => ~Registered(s)'
    BY <1>5, <1>7, <1>8 DEF ObjectInv, CloserInv, OthersKeep
  <2> QED
    BY <2>3, <2>4, <2>5 DEF CloserInv
<1> QED
  BY <1>1, <1>9, <1>10, <1>11 DEF ObjectInv, TableInv

(* Leaving the table keeps ObjectInv.                                      *)
LEMMA ObjectsUnregister ==
  ASSUME TypeOK, ObjectInv, NEW u \in Workers, StepRefs(u), Others(u), CloseUnregister(u)
  PROVE  ObjectInv'
<1> DEFINE h == cls[u].s
<1>1. /\ cls[u].at = "unregister" /\ cls' = [cls EXCEPT ![u].at = "release"]
      /\ table' = [table EXCEPT ![conn[h]] = None]
      /\ UNCHANGED <<conn, closing, free, hand>>
  BY DEF CloseUnregister, InClose, session
<1>2. /\ h \in Sessions /\ conn[h] \in Conns /\ cls \in [Workers -> CloseCall] /\ cls[u] \in CloseCall
      /\ table \in [Conns -> Sessions \cup {None}] /\ None \notin Sessions
  BY <1>1, ServerAssumption DEF TypeOK, FramesOK, Attached
<1>3. ~AcceptAcquire(u)
  BY <1>1 DEF AcceptAcquire, InHandler
<1>4. \A c \in Conns : table'[c] = IF c = conn[h] THEN None ELSE table[c]
  BY <1>1, <1>2
<1>5. OthersKeep(cls, cls', u) /\ cls'[u].s = h /\ cls'[u].at = "release"
  BY <1>1, <1>2 DEF CloseCall, OthersKeep
<1>6. \A w \in Workers, s \in Sessions : Closer(w, s)' = Closer(w, s)
  BY <1>1, <1>5 DEF Closer, OthersKeep
<1> HIDE DEF h
<1>7. \A s \in Sessions : InPool(s)' = InPool(s) /\ (Registered(s)' => Registered(s))
  BY <1>1, <1>2, <1>4 DEF InPool, Registered
<1>8. \A s \in Sessions : s = h => ~Registered(s)'
  <2> SUFFICES ASSUME NEW s \in Sessions, s = h, NEW c \in Conns, table'[c] = s PROVE FALSE
    BY DEF Registered
  <2>1. c # conn[s] /\ table[c] = s
    BY <1>2, <1>4
  <2> QED
    BY <2>1 DEF ObjectInv, TableInv
<1>9. FreshInv'
  BY <1>1, <1>7, FreshClose
<1>10. TableInv'
  BY <1>1, <1>2, <1>4 DEF ObjectInv, TableInv
<1>11. PoolInv'
  BY <1>1, <1>3, <1>7, PoolClose DEF ObjectInv, PoolInv
<1>12. CloserInv'
  <2>1. \A w \in Workers, s \in Sessions : cls'[w].s = s /\ cls'[w].at = "release" => ~Registered(s)'
    BY <1>5, <1>7, <1>8 DEF ObjectInv, CloserInv, OthersKeep
  <2> QED
    BY <1>1, <1>6, <1>7, <2>1 DEF ObjectInv, CloserInv
<1> QED
  BY <1>9, <1>10, <1>11, <1>12 DEF ObjectInv

(* SessionPool::Release keeps ObjectInv.                                   *)
LEMMA ObjectsRelease ==
  ASSUME TypeOK, ObjectInv, NEW u \in Workers, StepRefs(u), Others(u), CloseRelease(u)
  PROVE  ObjectInv'
<1> DEFINE h == cls[u].s
<1>1. /\ cls[u].at = "release" /\ cls' = [cls EXCEPT ![u] = NoClose] /\ free' = <<h>> \o free
      /\ UNCHANGED <<conn, closing, table, hand>>
  BY DEF CloseRelease, InClose, session
<1>2. h \in Sessions /\ cls \in [Workers -> CloseCall] /\ free \in Seq(Sessions)
  BY <1>1 DEF TypeOK, FramesOK, Attached
<1>3. ~AcceptAcquire(u)
  BY <1>1 DEF AcceptAcquire, InHandler
<1>4. Closer(u, h)
  BY <1>1 DEF Closer
<1>5. closing[h] /\ ~InPool(h) /\ ~Registered(h) /\ \A w \in Workers : Closer(w, h) => w = u
  BY <1>1, <1>2, <1>4 DEF ObjectInv, CloserInv
<1>6. OthersKeep(cls, cls', u) /\ cls'[u].at = "off"
  BY <1>1, <1>2 DEF NoClose, OthersKeep
<1> HIDE DEF h
<1>7. /\ Len(free') = Len(free) + 1 /\ free'[1] = h
      /\ \A i \in 1 .. Len(free) : free'[i + 1] = free[i]
      /\ \A i \in 1 .. Len(free') : i # 1 => i - 1 \in 1 .. Len(free) /\ free'[i] = free[i - 1]
  BY <1>1, <1>2
<1>8. \A s \in Sessions : InPool(s)' => InPool(s) \/ s = h
  BY <1>7 DEF InPool
<1>9. \A s \in Sessions : Registered(s)' = Registered(s)
  BY <1>1 DEF Registered
<1>10. FreshInv'
  BY <1>1, <1>8, <1>9, FreshClose DEF h
<1>11. PoolInv'
  <2>1. \A i, j \in 1 .. Len(free') : free'[i] = free'[j] => i = j
    <3> SUFFICES ASSUME NEW i \in 1 .. Len(free'), NEW j \in 1 .. Len(free'), free'[i] = free'[j]
                 PROVE  i = j
      OBVIOUS
    <3>1. CASE i # 1 /\ j # 1
      <4>1. free[i - 1] = free[j - 1] /\ i - 1 \in 1 .. Len(free) /\ j - 1 \in 1 .. Len(free)
        BY <1>7, <3>1
      <4>2. i - 1 = j - 1
        BY <4>1 DEF ObjectInv, PoolInv
      <4> QED
        BY <4>2
    <3>2. CASE i = 1 /\ j # 1
      BY <1>5, <1>7, <3>2 DEF InPool
    <3>3. CASE i # 1 /\ j = 1
      BY <1>5, <1>7, <3>3 DEF InPool
    <3> QED
      BY <3>1, <3>2, <3>3
  <2>2. \A s \in Sessions : InPool(s)' => ~Registered(s)'
    BY <1>5, <1>8, <1>9 DEF ObjectInv, PoolInv
  <2>3. \A s \in Sessions : InPool(s)' /\ Referenced(s)' => closing'[s]
    BY <1>1, <1>3, <1>5, <1>8, PoolClose
  <2> QED
    BY <2>1, <2>2, <2>3 DEF PoolInv
<1>12. CloserInv'
  <2>1. \A w \in Workers, s \in Sessions : Closer(w, s)' => Closer(w, s) /\ s # h
    BY <1>5, <1>6 DEF Closer, OthersKeep
  <2>2. \A w \in Workers, s \in Sessions : cls'[w].s = s /\ cls'[w].at = "release" => ~Registered(s)'
    BY <1>6, <1>9 DEF ObjectInv, CloserInv, OthersKeep
  <2> QED
    BY <1>1, <1>8, <2>1, <2>2 DEF ObjectInv, CloserInv
<1> QED
  BY <1>1, <1>10, <1>11, <1>12 DEF ObjectInv, TableInv

(* Every step of a worker keeps ObjectInv while clean.                     *)
LEMMA ObjectsWorker ==
  ASSUME TypeOK, ObjectInv, NEW u \in Workers, WorkerThread(u), clean'
  PROVE  ObjectInv'
<1>1. StepRefs(u) /\ Others(u)
  BY RefsWorker
<1>2. CASE AcceptAcquire(u)
  BY <1>1, <1>2, ObjectsAcquire
<1>3. CASE KeepsObjects(u) /\ ~AcceptAcquire(u)
  BY <1>1, <1>3, ObjectsKept
<1>4. CASE AcceptSetup(u) \/ AcceptRegister(u)
  BY <1>1, <1>4, ObjectsSetup, ObjectsRegister
<1>5. CASE CloseMark(u) \/ CloseUnregister(u) \/ CloseRelease(u)
  BY <1>1, <1>5, ObjectsMark, ObjectsUnregister, ObjectsRelease
<1> QED
  BY <1>2, <1>3, <1>4, <1>5, Keeps DEF ObjectStep

(* The network completes operations and starts none.                       *)
LEMMA ObjectsNetwork ==
  ASSUME TypeOK, ObjectInv, Network
  PROVE  ObjectInv'
<1>1. /\ UNCHANGED <<conn, closing, free, table, hand, snd, cls>>
      /\ \A s \in Sessions : Pending(s)' => Pending(s)
  <2>1. ASSUME NEW c \in Conns, PeerLeaves(c) PROVE <1>1!1 /\ <1>1!2
    BY <2>1 DEF PeerLeaves, Pending, session, shared
  <2>2. ASSUME NEW s \in Sessions, NEW c \in Conns, SendUnnotified(s, c) PROVE <1>1!1 /\ <1>1!2
    <3>1. /\ UNCHANGED <<recvs, conn, closing, free, table, hand, snd, cls>>
          /\ sends[s][c] > 0 /\ sends' = [sends EXCEPT ![s][c] = @ - 1]
          /\ sends \in [Sessions -> [Conns -> Nat]]
      BY <2>2 DEF SendUnnotified, TypeOK, session, shared
    <3>2. \A q \in Sessions, d \in Conns : sends'[q][d] > 0 => sends[q][d] > 0
      BY <3>1
    <3> QED
      BY <3>1, <3>2 DEF Pending
  <2> QED
    BY <2>1, <2>2 DEF Network
<1>2. \A s \in Sessions : Referenced(s)' => Referenced(s)
  BY <1>1 DEF Referenced, Holds
<1>3. FreshInv'
  <2> SUFFICES ASSUME NEW w \in Workers, hand[w].at \in {"setup", "register"}
               PROVE  /\ OnlyHandlerOf(w, hand[w].s)' /\ ~Registered(hand[w].s)'
                      /\ ~InPool(hand[w].s)'
    BY <1>1 DEF FreshInv
  <2>1. hand[w].s \in Sessions
    BY DEF TypeOK, FramesOK, Attached
  <2>2. PICK s \in Sessions : s = hand[w].s
    BY <2>1
  <2>3. OnlyHandlerOf(w, s) /\ ~Registered(s) /\ ~InPool(s) /\ ~Pending(s)'
    BY <1>1, <2>2 DEF ObjectInv, FreshInv, OnlyHandlerOf
  <2> QED
    BY <1>1, <2>2, <2>3 DEF OnlyHandlerOf, Registered, InPool, Pending
<1>4. PoolInv'
  BY <1>1, <1>2 DEF ObjectInv, PoolInv, InPool, Registered
<1>5. TableInv' /\ CloserInv'
  BY <1>1 DEF ObjectInv, TableInv, CloserInv, Closer, InPool, Registered
<1> QED
  BY <1>3, <1>4, <1>5 DEF ObjectInv

(* Stuttering keeps ObjectInv.                                             *)
LEMMA ObjectsStutter ==
  ASSUME ObjectInv, UNCHANGED vars
  PROVE  ObjectInv'
<1>1. UNCHANGED <<recvs, sends, conn, closing, free, table, hand, snd, cls>>
  BY DEF vars, kernel, session, shared
<1>2. FreshInv'
  BY <1>1 DEF ObjectInv, FreshInv, OnlyHandlerOf, Pending, Registered, InPool
<1>3. PoolInv' /\ TableInv' /\ CloserInv'
  BY <1>1 DEF ObjectInv, PoolInv, TableInv, CloserInv, Closer, Registered, InPool, Referenced, Holds,
              Pending
<1> QED
  BY <1>2, <1>3 DEF ObjectInv

(* Every step keeps ObjectInv while clean.                                 *)
LEMMA ObjectsNext == TypeOK /\ (clean => ObjectInv) /\ [Next]_vars => (clean => ObjectInv)'
BY CleanKept, ObjectsWorker, ObjectsNetwork, ObjectsStutter DEF Next

(* ObjectInv holds after Start().                                          *)
LEMMA ObjectsInit == Init => ObjectInv
<1> SUFFICES ASSUME Init PROVE ObjectInv
  OBVIOUS
<1>1. /\ \A w \in Workers : hand[w].at = "off" /\ cls[w].at = "off" /\ cls[w].s = None
      /\ \A w \in Workers : hand[w].s = None /\ snd[w].s = None /\ hand[w].targets = {}
      /\ \A c \in Conns : table[c] = None
      /\ \A s \in Sessions, c \in Conns : recvs[s][c] = 0 /\ sends[s][c] = 0
  BY DEF Init, NoHandler, NoSend, NoClose
<1>2. None \notin Sessions
  BY ServerAssumption
<1>3. \A i, j \in 1 .. Len(free) : free[i] = free[j] => i = j
  <2>1. Cardinality(Sessions) \in Nat
    BY ServerAssumption, FS_CardinalityType
  <2>2. free \in [1 .. Cardinality(Sessions) -> Sessions]
        /\ \A i, j \in DOMAIN free : free[i] = free[j] => i = j
    BY DEF Init
  <2> QED
    BY <2>1, <2>2
<1>4. \A s \in Sessions : ~Registered(s)
  BY <1>1, <1>2 DEF Registered
<1>5. \A s \in Sessions : ~Pending(s)
  BY <1>1 DEF Pending
<1>6. \A w \in Workers, s \in Sessions : ~Holds(w, s)
  <2>1. \A w \in Workers : cls[w].s = None
    BY <1>1
  <2> QED
    BY <1>1, <1>2, <2>1 DEF Holds
<1>7. \A s \in Sessions : ~Referenced(s)
  BY <1>5, <1>6 DEF Referenced
<1>8. FreshInv /\ PoolInv
  BY <1>1, <1>3, <1>4, <1>7 DEF FreshInv, PoolInv
<1>9. TableInv /\ CloserInv
  BY <1>1, <1>2, <1>4 DEF TableInv, CloserInv, Closer
<1> QED
  BY <1>8, <1>9 DEF ObjectInv

(* Until an object is reused while something still points at it: a fresh   *)
(* object is private, a table entry is under its session's id, a free      *)
(* object is unregistered, on the stack once and marked closing for those  *)
(* who still refer to it, and one worker closes an object (the pool of     *)
(* SessionPool.h, sessionTable_ and CloseSession together).                *)
THEOREM ObjectsOwned == Spec => [](clean => ObjectInv)
<1>1. Init => TypeOK /\ (clean => ObjectInv)
  BY TypeInit, ObjectsInit
<1>2. TypeOK /\ (clean => ObjectInv) /\ [Next]_vars => (TypeOK /\ (clean => ObjectInv))'
  BY TypeNext, ObjectsNext
<1> QED
  BY <1>1, <1>2, PTL DEF Spec

(* CloseSession puts an object back on the pool's stack once, by the one   *)
(* worker whose exchange on "closing" came first, and only when the table  *)
(* no longer holds it (IOCP_EchoServer.cpp, SessionPool.h).                *)
THEOREM ReleasedOnceHolds == Spec => []ReleasedOnce
<1>1. TypeOK /\ (clean => ObjectInv) => ReleasedOnce
  <2> SUFFICES ASSUME TypeOK, ObjectInv PROVE ReleasedOnce
    BY DEF ReleasedOnce
  <2>1. \A i \in 1 .. Len(free) : free[i] \in Sessions /\ InPool(free[i])
    BY DEF TypeOK, InPool
  <2> QED
    BY <2>1 DEF ObjectInv, PoolInv, CloserInv, ReleasedOnce, Registered
<1> QED
  BY <1>1, TypeCorrect, ObjectsOwned, PTL
=============================================================================
