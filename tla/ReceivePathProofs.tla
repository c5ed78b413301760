------------------------- MODULE ReceivePathProofs -------------------------
(***************************************************************************)
(* Theorems about ReceivePath, for every size of header, packet, receive   *)
(* buffer and ring that its assumption allows and for any packets sent.    *)
(***************************************************************************)
EXTENDS ReceivePathInv, SequenceTheorems, TLAPS

(* A size Pop reads is a natural number.                                   *)
LEMMA SizesAreNat == ASSUME TypeOK PROVE DeclaredSizes \subseteq Nat
<1>1. ASSUME NEW k \in 1 .. Len(sent) PROVE sent[k].size \in Nat
  <2>1. sent[k] \in Packets  BY DEF TypeOK
  <2> QED  BY <2>1, ReceiveAssumption
<1> QED  BY <1>1, ReceiveAssumption DEF DeclaredSizes, HeaderKnown

(***************************************************************************)
(* Types.  The parts of TypeOK are independent of each other.              *)
(***************************************************************************)
LEMMA TypeInit == Init => TypeOK
BY ReceiveAssumption DEF Init, TypeOK, Octet

(* Closing keeps the types of the session's variables.                     *)
SessionTyped ==
  ended \in {"no", "left", "wrong", "exit", "failed"} /\ sock \in BOOLEAN /\ rxBuf \in BOOLEAN

LEMMA CloseTypes ==
  ASSUME SessionTyped, NEW why \in {"left", "wrong", "exit", "failed"},
         CloseSession(why) \/ UNCHANGED session
  PROVE  SessionTyped'
BY DEF SessionTyped, CloseSession, session

LEMMA PacketTypes ==
  ASSUME SessionTyped, NEW exit, OnPacket(exit) PROVE SessionTyped'
BY CloseTypes DEF OnPacket

LEMMA TypeSends == TypeOK /\ ClientSends => TypeOK'
<1> SUFFICES ASSUME TypeOK, ClientSends PROVE TypeOK'
  OBVIOUS
<1>1. PICK p \in Packets :
        /\ sent' = Append(sent, p)
        /\ stream' = stream \o [i \in 1 .. p.len |-> <<Len(sent) + 1, i>>]
  BY DEF ClientSends
<1>2. p.len \in Nat
  BY ReceiveAssumption
<1>3. Len(sent) + 1 \in Nat \ {0}
  BY DEF TypeOK
<1>4. [i \in 1 .. p.len |-> <<Len(sent) + 1, i>>] \in Seq(Octet)
  BY <1>2, <1>3 DEF Octet
<1>5. stream' \in Seq(Octet)
  BY <1>1, <1>4 DEF TypeOK
<1>6. sent' \in Seq(Packets)
  BY <1>1 DEF TypeOK
<1> QED  BY <1>5, <1>6 DEF TypeOK, ClientSends, session

LEMMA TypeRecvData == TypeOK /\ RecvData => TypeOK'
<1> SUFFICES ASSUME TypeOK, RecvData PROVE TypeOK'
  OBVIOUS
<1>1. PICK n \in 1 .. Len(stream) :
        /\ n <= BufferSize
        /\ chunk' = SubSeq(stream, 1, n)
        /\ stream' = SubSeq(stream, n + 1, Len(stream))
  BY DEF RecvData
<1>2. stream \in Seq(Octet)
  BY DEF TypeOK
<1>3. chunk' \in Seq(Octet) /\ Len(chunk') <= BufferSize /\ stream' \in Seq(Octet)
  BY <1>1, <1>2
<1> QED  BY <1>3 DEF TypeOK, RecvData, session

LEMMA TypeAppend == TypeOK /\ RecvAppend => TypeOK'
<1> SUFFICES ASSUME TypeOK, RecvAppend PROVE TypeOK'
  OBVIOUS
<1> DEFINE room == Capacity - Len(rx)
           n    == IF Len(chunk) <= room THEN Len(chunk) ELSE room
<1>1. rx \in Seq(Octet) /\ chunk \in Seq(Octet) /\ Len(rx) <= Capacity /\ Capacity \in Nat
  BY ReceiveAssumption DEF TypeOK
<1>2. n \in 0 .. Len(chunk) /\ n <= room
  BY <1>1
<1>3. rx' = rx \o SubSeq(chunk, 1, n)
  BY DEF RecvAppend
<1>4. SubSeq(chunk, 1, n) \in Seq(Octet) /\ Len(SubSeq(chunk, 1, n)) = n
  BY <1>1, <1>2
<1>5. rx' \in Seq(Octet) /\ Len(rx') <= Capacity
  BY <1>1, <1>2, <1>3, <1>4
<1>6. chunk' \in Seq(Octet) /\ Len(chunk') <= BufferSize
  BY ReceiveAssumption DEF RecvAppend
<1>7. at' \in {"done", "pop"}
  BY DEF RecvAppend
<1>8. SessionTyped'
  <2>1. CloseSession("wrong") \/ UNCHANGED session
    BY DEF RecvAppend
  <2>2. SessionTyped
    BY DEF TypeOK, SessionTyped
  <2> QED  BY <2>1, <2>2, CloseTypes
<1>9. UNCHANGED <<client, delivered>>
  BY DEF RecvAppend
<1> QED  BY <1>5, <1>6, <1>7, <1>8, <1>9 DEF TypeOK, SessionTyped, client

LEMMA TypePop == TypeOK /\ PopPacket => TypeOK'
<1> SUFFICES ASSUME TypeOK, PopPacket PROVE TypeOK'
  OBVIOUS
<1>1. PICK n \in DeclaredSizes :
        /\ ValidSize(n) /\ n <= Len(rx)
        /\ delivered' = Append(delivered, SubSeq(rx, 1, n))
        /\ rx' = SubSeq(rx, n + 1, Len(rx))
  BY DEF PopPacket
<1>2. n \in Nat
  BY SizesAreNat
<1>3. rx \in Seq(Octet) /\ Len(rx) <= Capacity /\ Capacity \in Nat
  BY ReceiveAssumption DEF TypeOK
<1>4. rx' \in Seq(Octet) /\ Len(rx') <= Capacity
  BY <1>1, <1>2, <1>3
<1>5. SubSeq(rx, 1, n) \in Seq(Octet)
  BY <1>1, <1>2, <1>3
<1>6. delivered' \in Seq(Seq(Octet))
  BY <1>1, <1>5 DEF TypeOK
<1>7. SessionTyped'
  <2>1. PICK exit \in Exits : OnPacket(exit)
    BY DEF PopPacket
  <2>2. SessionTyped
    BY DEF TypeOK, SessionTyped
  <2> QED  BY <2>1, <2>2, PacketTypes
<1>8. UNCHANGED <<client, at, chunk>>
  BY DEF PopPacket
<1> QED  BY <1>4, <1>6, <1>7, <1>8 DEF TypeOK, SessionTyped, client

(* The other steps: they move no byte.                                     *)
Quiet ==
  SendFails \/ RecvEnd \/ RecvFault \/ PopNeedMore \/ PopMalformed \/ PostRecv \/ WSARecv

LEMMA QuietSteps ==
  ASSUME Quiet
  PROVE  /\ UNCHANGED <<client, chunk, rx, delivered>>
         /\ \/ at' = at
            \/ at' = "done" /\ at \in {"recv", "pop", "post", "wsarecv"}
            \/ at' = "fault" /\ at = "append"
            \/ PopNeedMore
            \/ at = "post" /\ at' = "wsarecv"
            \/ at = "wsarecv" /\ at' = "recv"
<1>1. CASE SendFails  BY <1>1 DEF SendFails
<1>2. CASE RecvEnd  BY <1>2 DEF RecvEnd
<1>3. CASE RecvFault  BY <1>3 DEF RecvFault
<1>4. CASE PopNeedMore  BY <1>4 DEF PopNeedMore
<1>5. CASE PopMalformed  BY <1>5 DEF PopMalformed
<1>6. CASE PostRecv  BY <1>6 DEF PostRecv
<1>7. CASE WSARecv  BY <1>7 DEF WSARecv
<1> QED  BY <1>1, <1>2, <1>3, <1>4, <1>5, <1>6, <1>7 DEF Quiet

LEMMA TypeQuiet == TypeOK /\ Quiet => TypeOK'
<1> SUFFICES ASSUME TypeOK, Quiet PROVE TypeOK'
  OBVIOUS
<1>1. UNCHANGED <<client, chunk, rx, delivered>>
  BY QuietSteps
<1>2. at' \in {"recv", "append", "pop", "post", "wsarecv", "done", "fault"}
  <2>1. PopNeedMore => at' = "post"
    BY DEF PopNeedMore
  <2>2. at \in {"recv", "append", "pop", "post", "wsarecv", "done", "fault"}
    BY DEF TypeOK
  <2> QED  BY <2>1, <2>2, QuietSteps
<1>3. SessionTyped'
  <2>1. SessionTyped
    BY DEF TypeOK, SessionTyped
  <2>2. CASE SendFails
    BY <2>1, <2>2 DEF SendFails, SessionTyped
  <2>3. CASE RecvEnd
    BY <2>1, <2>3, CloseTypes DEF RecvEnd
  <2>4. CASE PopMalformed
    BY <2>1, <2>4, CloseTypes DEF PopMalformed
  <2>5. CASE WSARecv
    BY <2>1, <2>5, CloseTypes DEF WSARecv
  <2>6. CASE RecvFault \/ PopNeedMore \/ PostRecv
    <3>1. UNCHANGED session
      BY <2>6 DEF RecvFault, PopNeedMore, PostRecv
    <3> QED  BY <2>1, <3>1, CloseTypes
  <2> QED  BY <2>2, <2>3, <2>4, <2>5, <2>6 DEF Quiet
<1> QED  BY <1>1, <1>2, <1>3 DEF TypeOK, SessionTyped, client

LEMMA NextIs ==
  Next => ClientSends \/ ClientLeaves \/ RecvData \/ RecvAppend \/ PopPacket \/ Quiet
BY DEF Next, Worker, Quiet

LEMMA TypeNext == TypeOK /\ [Next]_vars => TypeOK'
<1> SUFFICES ASSUME TypeOK, [Next]_vars PROVE TypeOK'
  OBVIOUS
<1>1. CASE ClientSends  BY <1>1, TypeSends
<1>2. CASE ClientLeaves
  <2>a. <<>> \in Seq(Octet)
    OBVIOUS
  <2>b. stream \in Seq(Octet)
    BY DEF TypeOK
  <2>c. (stream' = stream \/ stream' = <<>>) /\ peer' \in {"left", "reset"}
    BY <1>2 DEF ClientLeaves
  <2>1. stream' \in Seq(Octet) /\ peer' \in {"left", "reset"}
    BY <2>a, <2>b, <2>c
  <2>2. UNCHANGED <<sent, at, chunk, rx, delivered, session>>
    BY <1>2 DEF ClientLeaves
  <2> QED  BY <2>1, <2>2 DEF TypeOK, session
<1>3. CASE RecvData  BY <1>3, TypeRecvData
<1>4. CASE RecvAppend  BY <1>4, TypeAppend
<1>5. CASE PopPacket  BY <1>5, TypePop
<1>6. CASE Quiet  BY <1>6, TypeQuiet
<1>7. CASE UNCHANGED vars  BY <1>7 DEF TypeOK, vars, client, session
<1> QED  BY <1>1, <1>2, <1>3, <1>4, <1>5, <1>6, <1>7, NextIs

(* Every variable keeps its type; the ring never holds more than it can.   *)
THEOREM ReceiveTypes == Spec => []TypeOK
<1>1. Init => TypeOK  BY TypeInit
<1>2. TypeOK /\ [Next]_vars => TypeOK'  BY TypeNext
<1> QED  BY <1>1, <1>2, PTL DEF Spec

(***************************************************************************)
(* What each action does to the flow.                                      *)
(***************************************************************************)
(* The bytes of one sequence after another.                                *)
LEMMA Cat ==
  ASSUME NEW S, NEW s \in Seq(S), NEW t \in Seq(S), NEW u, u = s \o t
  PROVE  /\ u \in Seq(S) /\ Len(u) = Len(s) + Len(t)
         /\ \A i \in 1 .. Len(s) : u[i] = s[i]
         /\ \A i \in 1 .. Len(t) : u[Len(s) + i] = t[i]
OBVIOUS

LEMMA Assoc ==
  \A s, t, u \in Seq(Octet) : (s \o t) \o u = s \o (t \o u)
BY ConcatAssociative

(* The flow's bytes: three sequences one after the other.                  *)
LEMMA FlowIs ==
  ASSUME TypeOK
  PROVE /\ flow \in Seq(Octet)
        /\ Len(flow) = Len(rx) + Len(chunk) + Len(stream)
        /\ \A i \in 1 .. Len(rx) : flow[i] = rx[i]
        /\ \A i \in 1 .. Len(chunk) : flow[Len(rx) + i] = chunk[i]
        /\ \A i \in 1 .. Len(stream) : flow[Len(rx) + Len(chunk) + i] = stream[i]
<1> DEFINE both == rx \o chunk
<1>1. rx \in Seq(Octet) /\ chunk \in Seq(Octet) /\ stream \in Seq(Octet)
  BY DEF TypeOK
<1>2. /\ both \in Seq(Octet) /\ Len(both) = Len(rx) + Len(chunk)
      /\ \A i \in 1 .. Len(rx) : both[i] = rx[i]
      /\ \A i \in 1 .. Len(chunk) : both[Len(rx) + i] = chunk[i]
  BY <1>1
<1>3. flow = both \o stream
  BY DEF flow
<1> HIDE DEF both
<1>4. /\ flow \in Seq(Octet) /\ Len(flow) = Len(both) + Len(stream)
      /\ \A i \in 1 .. Len(both) : flow[i] = both[i]
      /\ \A i \in 1 .. Len(stream) : flow[Len(both) + i] = stream[i]
  <2>1. both \in Seq(Octet) /\ stream \in Seq(Octet)
    BY <1>1, <1>2
  <2> QED  BY <2>1, <1>3, Cat
<1>5. Len(rx) \in Nat /\ Len(chunk) \in Nat /\ Len(stream) \in Nat
  BY <1>1
<1>6. \A i \in 1 .. Len(rx) : flow[i] = rx[i]
  BY <1>2, <1>4, <1>5
<1>7. \A i \in 1 .. Len(chunk) : flow[Len(rx) + i] = chunk[i]
  BY <1>2, <1>4, <1>5
<1> QED  BY <1>2, <1>4, <1>6, <1>7

(* What is known of the flow's bytes, of the packets and of the counts.    *)
LEMMA Typed ==
  ASSUME TypeOK
  PROVE /\ flow \in Seq(Octet) /\ Len(flow) \in Nat
        /\ Len(sent) \in Nat /\ Len(delivered) \in Nat
        /\ Len(rx) \in Nat /\ Len(chunk) \in Nat /\ Len(stream) \in Nat
        /\ \A k \in 1 .. Len(sent) : sent[k].len \in Nat \ {0} /\ sent[k].size \in Nat
        /\ \A i \in 1 .. Len(flow) :
             flow[i] = <<flow[i][1], flow[i][2]>> /\ flow[i][1] \in Nat /\ flow[i][2] \in Nat
<1>1. /\ Len(sent) \in Nat /\ Len(delivered) \in Nat
      /\ Len(rx) \in Nat /\ Len(chunk) \in Nat /\ Len(stream) \in Nat
  BY DEF TypeOK
<1>2. flow \in Seq(Octet) /\ Len(flow) \in Nat
  BY FlowIs
<1>3. ASSUME NEW k \in 1 .. Len(sent)
      PROVE  sent[k].len \in Nat \ {0} /\ sent[k].size \in Nat
  <2>1. sent[k] \in Packets  BY DEF TypeOK
  <2> QED  BY <2>1, ReceiveAssumption
<1>4. ASSUME NEW i \in 1 .. Len(flow)
      PROVE  flow[i] = <<flow[i][1], flow[i][2]>> /\ flow[i][1] \in Nat /\ flow[i][2] \in Nat
  <2>1. flow[i] \in Octet  BY <1>2
  <2> QED  BY <2>1 DEF Octet
<1> QED  BY <1>1, <1>2, <1>3, <1>4

(* A packet sent is put at the end.                                        *)
LEMMA SendsFlow ==
  ASSUME TypeOK, ClientSends
  PROVE \E p \in Packets :
          /\ sent' = Append(sent, p) /\ p.len \in Nat \ {0}
          /\ Len(flow') = Len(flow) + p.len
          /\ \A i \in 1 .. Len(flow) : flow'[i] = flow[i]
          /\ \A i \in 1 .. p.len : flow'[Len(flow) + i] = <<Len(sent) + 1, i>>
<1>1. PICK p \in Packets :
        /\ sent' = Append(sent, p)
        /\ stream' = stream \o [i \in 1 .. p.len |-> <<Len(sent) + 1, i>>]
  BY DEF ClientSends
<1>2. p.len \in Nat \ {0}
  BY ReceiveAssumption
<1> DEFINE new == [i \in 1 .. p.len |-> <<Len(sent) + 1, i>>]
<1>3. Len(sent) + 1 \in Nat \ {0}
  BY DEF TypeOK
<1>4. new \in Seq(Octet) /\ Len(new) = p.len /\ \A i \in 1 .. p.len : new[i] = <<Len(sent) + 1, i>>
  BY <1>2, <1>3 DEF Octet
<1>5. rx' = rx /\ chunk' = chunk /\ stream' = stream \o new
  BY <1>1 DEF ClientSends
<1> HIDE DEF new
<1>6. rx \in Seq(Octet) /\ chunk \in Seq(Octet) /\ stream \in Seq(Octet)
  BY DEF TypeOK
<1>7. flow' = flow \o new
  <2> DEFINE both == rx \o chunk
  <2>1. flow' = both \o (stream \o new) /\ flow = both \o stream
    BY <1>5 DEF flow
  <2>a. both \in Seq(Octet)
    BY <1>6
  <2> HIDE DEF both
  <2>2. both \in Seq(Octet) /\ stream \in Seq(Octet) /\ new \in Seq(Octet)
    BY <2>a, <1>4, <1>6
  <2>3. (both \o stream) \o new = both \o (stream \o new)
    BY <2>2, Assoc
  <2> QED  BY <2>1, <2>3
<1>8. flow \in Seq(Octet)
  BY FlowIs
<1>9. /\ Len(flow') = Len(flow) + p.len
      /\ \A i \in 1 .. Len(flow) : flow'[i] = flow[i]
      /\ \A i \in 1 .. p.len : flow'[Len(flow) + i] = new[i]
  BY <1>4, <1>7, <1>8, Cat
<1> QED  BY <1>1, <1>2, <1>4, <1>9

(* A receive moves bytes within the flow.                                  *)
LEMMA RecvDataFlow == ASSUME TypeOK, ChunkInv, RecvData PROVE flow' = flow
<1>1. PICK n \in 1 .. Len(stream) :
        /\ chunk' = SubSeq(stream, 1, n)
        /\ stream' = SubSeq(stream, n + 1, Len(stream))
  BY DEF RecvData
<1>2. rx' = rx /\ chunk = <<>>
  BY DEF RecvData, ChunkInv
<1>3. stream \in Seq(Octet) /\ rx \in Seq(Octet)
  BY DEF TypeOK
<1>4. chunk' \in Seq(Octet) /\ stream' \in Seq(Octet)
  BY <1>1, <1>3
<1>5. chunk' \o stream' = stream
  <2> DEFINE s == chunk' \o stream'
  <2>1. Len(chunk') = n /\ \A i \in 1 .. n : chunk'[i] = stream[i]
    BY <1>1, <1>3
  <2>2. /\ Len(stream') = Len(stream) - n
        /\ \A i \in 1 .. Len(stream) - n : stream'[i] = stream[n + i]
    BY <1>1, <1>3
  <2>3. /\ s \in Seq(Octet) /\ Len(s) = Len(chunk') + Len(stream')
        /\ \A i \in 1 .. Len(chunk') : s[i] = chunk'[i]
        /\ \A i \in 1 .. Len(stream') : s[Len(chunk') + i] = stream'[i]
    BY <1>4, Cat
  <2> HIDE DEF s
  <2>4. Len(s) = Len(stream) /\ Len(stream) \in Nat
    BY <1>3, <2>1, <2>2, <2>3
  <2>5. ASSUME NEW i \in 1 .. Len(stream) PROVE s[i] = stream[i]
    <3>1. CASE i <= n  BY <3>1, <2>1, <2>3
    <3>2. CASE i > n
      <4>1. i - n \in 1 .. Len(stream) - n  BY <3>2, <2>4
      <4>2. s[n + (i - n)] = stream[n + (i - n)]  BY <4>1, <2>1, <2>2, <2>3
      <4> QED  BY <4>2, <2>4
    <3> QED  BY <3>1, <3>2, <2>4
  <2>6. s = stream
    BY <1>3, <2>3, <2>4, <2>5, SeqEqual
  <2> QED  BY <2>6 DEF s
<1>6. (rx \o chunk') \o stream' = rx \o (chunk' \o stream')
  BY <1>3, <1>4, Assoc
<1>7. flow' = (rx \o chunk') \o stream'
  BY <1>2 DEF flow
<1>8. rx \o chunk = rx
  BY <1>2, <1>3, ConcatEmptySeq
<1> QED  BY <1>5, <1>6, <1>7, <1>8 DEF flow

LEMMA AppendFlow ==
  ASSUME TypeOK, RecvAppend, Len(rx) + Len(chunk) <= Capacity
  PROVE flow' = flow /\ at' = "pop" /\ chunk' = <<>>
<1>1. rx \in Seq(Octet) /\ chunk \in Seq(Octet) /\ stream' = stream /\ Capacity \in Nat
  BY ReceiveAssumption DEF TypeOK, RecvAppend, client
<1>2. rx' = rx \o SubSeq(chunk, 1, Len(chunk)) /\ at' = "pop" /\ chunk' = <<>>
  BY <1>1 DEF RecvAppend
<1>3. SubSeq(chunk, 1, Len(chunk)) = chunk
  BY <1>1
<1>4. rx' = rx \o chunk
  BY <1>2, <1>3
<1>5. rx \o chunk \in Seq(Octet)
  BY <1>1
<1>6. rx' \o chunk' = rx \o chunk
  BY <1>2, <1>4, <1>5, ConcatEmptySeq
<1> QED  BY <1>1, <1>2, <1>6 DEF flow

(* A packet popped is cut off the front.                                   *)
LEMMA PopFlow ==
  ASSUME TypeOK, ChunkInv, PopPacket
  PROVE \E n \in DeclaredSizes :
          /\ n \in Nat /\ ValidSize(n) /\ n <= Len(rx)
          /\ delivered' = Append(delivered, SubSeq(rx, 1, n))
          /\ Len(flow') = Len(flow) - n
          /\ \A i \in 1 .. Len(flow) - n : flow'[i] = flow[i + n]
<1>1. PICK n \in DeclaredSizes :
        /\ ValidSize(n) /\ n <= Len(rx)
        /\ delivered' = Append(delivered, SubSeq(rx, 1, n))
        /\ rx' = SubSeq(rx, n + 1, Len(rx))
  BY DEF PopPacket
<1>2. n \in Nat
  BY SizesAreNat
<1>3. chunk' = chunk /\ stream' = stream /\ chunk = <<>>
  BY DEF PopPacket, ChunkInv, client
<1>4. rx \in Seq(Octet) /\ stream \in Seq(Octet)
  BY DEF TypeOK
<1>5. /\ rx' \in Seq(Octet) /\ Len(rx') = Len(rx) - n
      /\ \A i \in 1 .. Len(rx) - n : rx'[i] = rx[i + n]
  BY <1>1, <1>2, <1>4
<1>6. flow = rx \o stream /\ flow' = rx' \o stream
  BY <1>3, <1>4, <1>5, ConcatEmptySeq DEF flow
<1>7. /\ Len(flow) = Len(rx) + Len(stream)
      /\ \A i \in 1 .. Len(rx) : flow[i] = rx[i]
      /\ \A i \in 1 .. Len(stream) : flow[Len(rx) + i] = stream[i]
  BY <1>4, <1>6, Cat
<1>8. /\ Len(flow') = Len(rx') + Len(stream)
      /\ \A i \in 1 .. Len(rx') : flow'[i] = rx'[i]
      /\ \A i \in 1 .. Len(stream) : flow'[Len(rx') + i] = stream[i]
  <2>1. rx' \in Seq(Octet) /\ stream \in Seq(Octet)
    BY <1>4, <1>5
  <2>2. flow' = rx' \o stream
    BY <1>6
  <2> QED  BY <2>1, <2>2, Cat
<1>9. /\ Len(rx) \in Nat /\ Len(stream) \in Nat
      /\ Len(rx') = Len(rx) - n /\ Len(flow) = Len(rx) + Len(stream) /\ n <= Len(rx)
  BY <1>1, <1>4, <1>5, <1>7
<1>10. ASSUME NEW i \in 1 .. Len(flow) - n PROVE flow'[i] = flow[i + n]
  <2>1. CASE i <= Len(rx) - n
    <3>1. i \in 1 .. Len(rx') /\ i + n \in 1 .. Len(rx)
      BY <2>1, <1>1, <1>2, <1>5, <1>9
    <3> QED  BY <3>1, <1>5, <1>7, <1>8
  <2>2. CASE i > Len(rx) - n
    <3> DEFINE j == i - (Len(rx) - n)
    <3>1. j \in 1 .. Len(stream) /\ i = Len(rx') + j /\ i + n = Len(rx) + j
      BY <2>2, <1>2, <1>9
    <3> HIDE DEF j
    <3> QED  BY <3>1, <1>7, <1>8
  <2> QED  BY <2>1, <2>2, <1>2, <1>9
<1>11. Len(flow') = Len(flow) - n
  BY <1>2, <1>5, <1>7, <1>8, <1>9
<1> QED  BY <1>1, <1>2, <1>10, <1>11

(***************************************************************************)
(* The invariant's parts about the flow's bytes, action by action.         *)
(***************************************************************************)
BytesInv == KnownInv /\ RunsInv /\ CrossInv /\ FrontInv /\ CountInv

(* They hold of every prefix of the flow.                                  *)
LEMMA PrefixKeeps ==
  ASSUME TypeOK, BytesInv, sent' = sent, delivered' = delivered,
         Len(flow') \in 0 .. Len(flow), \A i \in 1 .. Len(flow') : flow'[i] = flow[i]
  PROVE  BytesInv'
<1>1. Len(flow) \in Nat
  BY Typed
<1>2. KnownInv'
  BY <1>1 DEF BytesInv, KnownInv
<1>3. RunsInv'
  <2> SUFFICES ASSUME NEW i \in 1 .. Len(flow'), NEW m \in 0 .. Len(flow'),
                      i + m <= Len(flow'), flow'[i][2] + m <= sent'[flow'[i][1]].len
               PROVE  flow'[i + m] = <<flow'[i][1], flow'[i][2] + m>>
    BY DEF RunsInv
  <2>1. i \in 1 .. Len(flow) /\ m \in 0 .. Len(flow) /\ i + m <= Len(flow) /\ i + m \in 1 .. Len(flow')
    BY <1>1
  <2>2. flow[i + m] = <<flow[i][1], flow[i][2] + m>>
    BY <2>1 DEF BytesInv, RunsInv
  <2> QED  BY <2>1, <2>2
<1>4. CrossInv'
  <2> SUFFICES ASSUME NEW i \in 1 .. Len(flow'), i + 1 <= Len(flow'),
                      flow'[i][2] = sent'[flow'[i][1]].len
               PROVE  flow'[i + 1] = <<flow'[i][1] + 1, 1>>
    BY DEF CrossInv
  <2>1. i \in 1 .. Len(flow) /\ i + 1 <= Len(flow) /\ i + 1 \in 1 .. Len(flow')
    BY <1>1
  <2>2. flow[i + 1] = <<flow[i][1] + 1, 1>>
    BY <2>1 DEF BytesInv, CrossInv
  <2> QED  BY <2>1, <2>2
<1>5. FrontInv'
  BY <1>1 DEF BytesInv, FrontInv, Aligned, WellFormed
<1>6. CountInv'
  BY DEF BytesInv, CountInv, WellFormed
<1> QED  BY <1>2, <1>3, <1>4, <1>5, <1>6 DEF BytesInv

(* Headers sent do not change.                                             *)
LEMMA AppendSent ==
  ASSUME TypeOK, NEW p \in Packets, sent' = Append(sent, p)
  PROVE  /\ Len(sent') = Len(sent) + 1 /\ Len(sent) \in Nat
         /\ \A k \in 1 .. Len(sent) : sent'[k] = sent[k]
         /\ sent'[Len(sent) + 1] = p
BY DEF TypeOK

(* A packet sent continues the flow where it ends.                         *)
LEMMA SendsKeeps ==
  ASSUME TypeOK, BytesInv, EndInv, ClientSends
  PROVE  BytesInv' /\ EndInv'
<1> DEFINE N == Len(flow)
           S == Len(sent)
           D == Len(delivered)
<1>1. PICK p \in Packets :
        /\ sent' = Append(sent, p) /\ p.len \in Nat \ {0}
        /\ Len(flow') = N + p.len
        /\ \A i \in 1 .. N : flow'[i] = flow[i]
        /\ \A i \in 1 .. p.len : flow'[N + i] = <<S + 1, i>>
  BY SendsFlow
<1>2. /\ N \in Nat /\ S \in Nat /\ D \in Nat /\ p.len \in Nat \ {0}
      /\ \A k \in 1 .. S : sent[k].len \in Nat
      /\ \A i \in 1 .. N : flow[i] = <<flow[i][1], flow[i][2]>> /\ flow[i][1] \in Nat /\ flow[i][2] \in Nat
  BY Typed, <1>1
<1>3. Len(sent') = S + 1 /\ sent'[S + 1] = p /\ \A k \in 1 .. S : sent'[k] = sent[k]
  BY <1>1, AppendSent
<1>4. delivered' = delivered /\ peer' = peer /\ peer # "reset"
  BY DEF ClientSends
<1>5. \A i \in 1 .. N : flow[i][1] \in 1 .. S /\ flow[i][2] \in 1 .. sent[flow[i][1]].len
  BY DEF BytesInv, KnownInv
<1>6. \A i \in 1 .. N : sent'[flow[i][1]] = sent[flow[i][1]]
  BY <1>3, <1>5
<1>7. N > 0 => flow[N] = <<S, sent[S].len>>
  BY <1>4 DEF EndInv
<1>8. \A i \in N + 1 .. N + p.len : flow'[i] = <<S + 1, i - N>>
  <2> SUFFICES ASSUME NEW i \in N + 1 .. N + p.len PROVE flow'[i] = <<S + 1, i - N>>
    OBVIOUS
  <2>1. i - N \in 1 .. p.len /\ N + (i - N) = i
    BY <1>2
  <2> QED  BY <2>1, <1>1
<1> HIDE DEF N, S, D
<1>10. KnownInv'
  <2> SUFFICES ASSUME NEW i \in 1 .. N + p.len
               PROVE  flow'[i][1] \in 1 .. S + 1 /\ flow'[i][2] \in 1 .. sent'[flow'[i][1]].len
    BY <1>1, <1>3 DEF KnownInv
  <2>1. CASE i \in 1 .. N
    <3>1. flow'[i] = flow[i] /\ sent'[flow[i][1]] = sent[flow[i][1]]
      BY <2>1, <1>1, <1>6
    <3>2. flow[i][1] \in 1 .. S /\ flow[i][2] \in 1 .. sent[flow[i][1]].len
      BY <2>1, <1>5
    <3> QED  BY <3>1, <3>2, <1>2
  <2>2. CASE i \in N + 1 .. N + p.len
    BY <2>2, <1>2, <1>3, <1>8
  <2> QED  BY <2>1, <2>2, <1>2
<1>11. RunsInv'
  <2> SUFFICES ASSUME NEW i \in 1 .. N + p.len, NEW m \in 0 .. N + p.len,
                      i + m <= N + p.len, flow'[i][2] + m <= sent'[flow'[i][1]].len
               PROVE  flow'[i + m] = <<flow'[i][1], flow'[i][2] + m>>
    BY <1>1 DEF RunsInv
  <2>1. CASE i + m <= N
    <3>1. i \in 1 .. N /\ m \in 0 .. N /\ i + m \in 1 .. N
      BY <2>1, <1>2
    <3>2. flow[i][2] + m <= sent[flow[i][1]].len
      BY <3>1, <1>1, <1>6
    <3>3. flow[i + m] = <<flow[i][1], flow[i][2] + m>>
      BY <3>1, <3>2 DEF BytesInv, RunsInv, N
    <3> QED  BY <3>1, <3>3, <1>1
  <2>2. CASE i <= N /\ i + m > N
    <3> DEFINE r == N - i
    <3>1. i \in 1 .. N /\ r \in 0 .. N /\ i + r = N /\ r < m /\ N > 0
      BY <2>2, <1>2
    <3> HIDE DEF r
    <3>2. /\ flow[i][2] + m <= sent[flow[i][1]].len
          /\ flow[i][2] \in Nat /\ sent[flow[i][1]].len \in Nat
      BY <3>1, <1>1, <1>2, <1>5, <1>6
    <3>3. flow[i][2] + r <= sent[flow[i][1]].len
      BY <3>1, <3>2
    <3>4. flow[i + r] = <<flow[i][1], flow[i][2] + r>>
      BY <3>1, <3>3, <1>2 DEF BytesInv, RunsInv, N
    <3>5. flow[i][1] = S /\ flow[i][2] + r = sent[S].len
      BY <3>1, <3>4, <1>7
    <3> QED  BY <3>1, <3>2, <3>5
  <2>3. CASE i > N
    <3>1. i \in N + 1 .. N + p.len /\ i + m \in N + 1 .. N + p.len
      BY <2>3, <1>2
    <3>2. flow'[i] = <<S + 1, i - N>> /\ flow'[i + m] = <<S + 1, (i + m) - N>>
      BY <3>1, <1>8
    <3> QED  BY <3>2, <1>2
  <2> QED  BY <2>1, <2>2, <2>3, <1>2
<1>12. CrossInv'
  <2> SUFFICES ASSUME NEW i \in 1 .. N + p.len, i + 1 <= N + p.len,
                      flow'[i][2] = sent'[flow'[i][1]].len
               PROVE  flow'[i + 1] = <<flow'[i][1] + 1, 1>>
    BY <1>1 DEF CrossInv
  <2>1. CASE i + 1 <= N
    <3>1. i \in 1 .. N /\ i + 1 \in 1 .. N
      BY <2>1, <1>2
    <3>2. flow[i][2] = sent[flow[i][1]].len
      BY <3>1, <1>1, <1>6
    <3>3. flow[i + 1] = <<flow[i][1] + 1, 1>>
      BY <3>1, <3>2 DEF BytesInv, CrossInv, N
    <3> QED  BY <3>1, <3>3, <1>1
  <2>2. CASE i = N
    <3>a. N \in 1 .. N /\ N > 0
      BY <2>2, <1>2
    <3>1. flow'[i] = flow[N] /\ flow[N] = <<S, sent[S].len>>
      BY <2>2, <3>a, <1>1, <1>7
    <3>2. flow'[N + 1] = <<S + 1, 1>>
      BY <1>1, <1>2
    <3> QED  BY <2>2, <3>1, <3>2
  <2>3. CASE i > N
    <3>1. flow'[i] = <<S + 1, i - N>>
      BY <2>3, <1>2, <1>8
    <3>2. i - N = p.len
      BY <3>1, <1>3
    <3> QED  BY <3>2, <1>2
  <2> QED  BY <2>1, <2>2, <2>3, <1>2
<1>13. FrontInv'
  <2> SUFFICES ASSUME Aligned(D)' PROVE flow'[1] = <<D + 1, 1>>
    BY <1>4 DEF FrontInv, D
  <2>1. D <= S + 1 /\ \A j \in 1 .. D : WellFormed(j)'
    BY <1>3, <1>4 DEF Aligned, D
  <2>2. \A j \in 1 .. S : j <= D => WellFormed(j)
    BY <2>1, <1>2, <1>3 DEF WellFormed
  <2>3. D <= S
    <3>1. D > S => \E j \in 1 .. S : ~WellFormed(j)
      BY DEF BytesInv, CountInv, D, S
    <3> QED  BY <3>1, <2>2, <1>2
  <2>4. Aligned(D)
    BY <2>2, <2>3, <1>2 DEF Aligned, S
  <2>5. CASE N > 0
    <3>1. flow[1] = <<D + 1, 1>>
      BY <2>4, <2>5 DEF BytesInv, FrontInv, N, D
    <3> QED  BY <3>1, <2>5, <1>1, <1>2
  <2>6. CASE N = 0
    <3>1. D = S
      BY <2>4, <2>6, <1>4 DEF EndInv, N, D, S
    <3>2. flow'[N + 1] = <<S + 1, 1>>
      BY <1>1, <1>2
    <3> QED  BY <3>1, <3>2, <2>6
  <2> QED  BY <2>5, <2>6, <1>2
<1>14. CountInv'
  <2> SUFFICES ASSUME D > S + 1 PROVE \E j \in 1 .. S + 1 : ~WellFormed(j)'
    BY <1>3, <1>4 DEF CountInv, D
  <2>1. PICK j \in 1 .. S : ~WellFormed(j)
    BY <1>2 DEF BytesInv, CountInv, D, S
  <2>2. ~WellFormed(j)'
    BY <2>1, <1>3 DEF WellFormed
  <2>3. j \in 1 .. S + 1
    BY <1>2
  <2> QED  BY <2>2, <2>3
<1>15. EndInv'
  <2>1. flow'[N + p.len] = <<S + 1, p.len>>
    BY <1>1, <1>2
  <2>2. Len(flow') = N + p.len /\ Len(flow') # 0
    BY <1>1, <1>2
  <2> QED  BY <2>1, <2>2, <1>3 DEF EndInv
<1> QED  BY <1>10, <1>11, <1>12, <1>13, <1>14, <1>15 DEF BytesInv

(* Where the headers were right so far, the packet at the front is the     *)
(* next one, and Pop reads its size, unless less than a header is there.   *)
LEMMA Front ==
  ASSUME TypeOK, BytesInv, ChunkInv, at = "pop", Aligned(Len(delivered)),
         HeaderSize <= Len(rx)
  PROVE  LET k == Len(delivered) + 1 IN
         /\ k \in 1 .. Len(sent)
         /\ rx[1] = <<k, 1>> /\ flow[1] = <<k, 1>>
         /\ WellFormed(k) => DeclaredSizes = {sent[k].len}
<1> DEFINE k == Len(delivered) + 1
<1>1. /\ Len(rx) \in Nat /\ Len(rx) > 0 /\ HeaderSize \in Nat
      /\ Len(delivered) \in Nat
  BY Typed, ReceiveAssumption
<1>2. Len(flow) \in Nat /\ Len(flow) >= Len(rx) /\ flow[1] = rx[1]
  BY <1>1, FlowIs, Typed
<1>3. flow[1] = <<k, 1>>
  BY <1>1, <1>2 DEF BytesInv, FrontInv
<1>4. k \in 1 .. Len(sent)
  <2>1. 1 \in 1 .. Len(flow)
    BY <1>1, <1>2
  <2>2. flow[1][1] \in 1 .. Len(sent)
    BY <2>1 DEF BytesInv, KnownInv
  <2> QED  BY <2>2, <1>3
<1>5. rx[1][1] = k /\ rx[1][2] = 1
  BY <1>2, <1>3
<1>6. WellFormed(k) => DeclaredSizes = {sent[k].len}
  BY <1>4, <1>5 DEF DeclaredSizes, HeaderKnown, WellFormed, ValidSize
<1> QED  BY <1>2, <1>3, <1>4, <1>6

(* Pop takes off the front what is there once the headers are right: the   *)
(* next packet.                                                            *)
LEMMA PopIsNext ==
  ASSUME TypeOK, BytesInv, ChunkInv, PopPacket, Aligned(Len(delivered) + 1),
         NEW n \in DeclaredSizes, n \in Nat, ValidSize(n), n <= Len(rx)
  PROVE  LET k == Len(delivered) + 1 IN
         /\ k \in 1 .. Len(sent) /\ n = sent[k].len /\ n \in 1 .. Len(flow)
         /\ \A i \in 1 .. n : rx[i] = <<k, i>> /\ flow[i] = <<k, i>>
<1> DEFINE k == Len(delivered) + 1
<1>1. /\ Len(rx) \in Nat /\ HeaderSize \in Nat \ {0} /\ HeaderSize <= n
      /\ Len(delivered) \in Nat /\ Len(sent) \in Nat
      /\ Len(flow) \in Nat /\ Len(flow) >= Len(rx)
  BY Typed, FlowIs, ReceiveAssumption DEF ValidSize
<1>2. Aligned(Len(delivered)) /\ WellFormed(k)
  BY <1>1 DEF Aligned
<1>3. HeaderSize <= Len(rx) /\ n \in 1 .. Len(flow) /\ at = "pop"
  BY <1>1 DEF PopPacket
<1>4. k \in 1 .. Len(sent) /\ flow[1] = <<k, 1>> /\ DeclaredSizes = {sent[k].len}
  BY <1>2, <1>3, Front
<1>5. n = sent[k].len
  BY <1>4
<1> HIDE DEF k
<1>6. ASSUME NEW i \in 1 .. n PROVE rx[i] = <<k, i>> /\ flow[i] = <<k, i>>
  <2>1. /\ 1 \in 1 .. Len(flow) /\ i - 1 \in 0 .. Len(flow) /\ 1 + (i - 1) <= Len(flow)
        /\ 1 + (i - 1) = i /\ 1 + (i - 1) <= n
    BY <1>1, <1>3
  <2>2. flow[1][1] = k /\ flow[1][2] = 1
    BY <1>4
  <2>3. flow[1][2] + (i - 1) <= sent[flow[1][1]].len
    BY <1>5, <2>1, <2>2
  <2>4. flow[1 + (i - 1)] = <<flow[1][1], flow[1][2] + (i - 1)>>
    BY <2>1, <2>3 DEF BytesInv, RunsInv
  <2>5. flow[i] = <<k, i>>
    BY <2>1, <2>2, <2>4
  <2>6. i \in 1 .. Len(rx)
    BY <1>1
  <2>7. rx[i] = flow[i]
    BY <2>6, FlowIs
  <2> QED  BY <2>5, <2>7
<1> QED  BY <1>3, <1>4, <1>5, <1>6 DEF k

(* A packet popped leaves the flow's suffix after it.                      *)
LEMMA PopKeeps ==
  ASSUME TypeOK, BytesInv, ChunkInv, EndInv, PopPacket
  PROVE  BytesInv' /\ EndInv'
<1> DEFINE N == Len(flow)
           S == Len(sent)
           D == Len(delivered)
<1>1. PICK n \in DeclaredSizes :
        /\ n \in Nat /\ ValidSize(n) /\ n <= Len(rx)
        /\ delivered' = Append(delivered, SubSeq(rx, 1, n))
        /\ Len(flow') = N - n
        /\ \A i \in 1 .. N - n : flow'[i] = flow[i + n]
  BY PopFlow
<1>2. /\ N \in Nat /\ S \in Nat /\ D \in Nat /\ n \in Nat \ {0} /\ n <= N /\ HeaderSize <= Len(rx)
      /\ \A i \in 1 .. N : flow[i] = <<flow[i][1], flow[i][2]>>
  BY Typed, FlowIs, <1>1, ReceiveAssumption DEF ValidSize
<1>3. sent' = sent /\ peer' = peer /\ at = "pop"
  BY DEF PopPacket, client
<1>4. Len(delivered') = D + 1
  BY <1>1 DEF TypeOK
<1>5. Aligned(D + 1) => S >= D + 1 /\ n = sent[D + 1].len /\ flow[n] = <<D + 1, n>>
  <2> SUFFICES ASSUME Aligned(D + 1)
               PROVE  S >= D + 1 /\ n = sent[D + 1].len /\ flow[n] = <<D + 1, n>>
    OBVIOUS
  <2>1. /\ D + 1 \in 1 .. S /\ n = sent[D + 1].len
        /\ \A i \in 1 .. n : flow[i] = <<D + 1, i>>
    BY <1>1, PopIsNext
  <2> QED  BY <2>1, <1>2
<1> HIDE DEF N, S, D
<1>10. KnownInv'
  <2> SUFFICES ASSUME NEW i \in 1 .. N - n
               PROVE  flow'[i][1] \in 1 .. S /\ flow'[i][2] \in 1 .. sent[flow'[i][1]].len
    BY <1>1, <1>3 DEF KnownInv, S
  <2>1. i + n \in 1 .. N /\ flow'[i] = flow[i + n]
    BY <1>1, <1>2
  <2> QED  BY <2>1 DEF BytesInv, KnownInv, N, S
<1>11. RunsInv'
  <2> SUFFICES ASSUME NEW i \in 1 .. N - n, NEW m \in 0 .. N - n, i + m <= N - n,
                      flow'[i][2] + m <= sent[flow'[i][1]].len
               PROVE  flow'[i + m] = <<flow'[i][1], flow'[i][2] + m>>
    BY <1>1, <1>3 DEF RunsInv
  <2>1. /\ i + n \in 1 .. N /\ m \in 0 .. N /\ (i + n) + m <= N /\ i + m \in 1 .. N - n
        /\ (i + m) + n = (i + n) + m
    BY <1>2
  <2>2. flow'[i] = flow[i + n] /\ flow'[i + m] = flow[(i + m) + n]
    BY <2>1, <1>1
  <2>3. flow[(i + n) + m] = <<flow[i + n][1], flow[i + n][2] + m>>
    BY <2>1, <2>2 DEF BytesInv, RunsInv, N
  <2> QED  BY <2>1, <2>2, <2>3
<1>12. CrossInv'
  <2> SUFFICES ASSUME NEW i \in 1 .. N - n, i + 1 <= N - n,
                      flow'[i][2] = sent[flow'[i][1]].len
               PROVE  flow'[i + 1] = <<flow'[i][1] + 1, 1>>
    BY <1>1, <1>3 DEF CrossInv
  <2>1. /\ i + n \in 1 .. N /\ (i + n) + 1 <= N /\ i + 1 \in 1 .. N - n
        /\ (i + 1) + n = (i + n) + 1
    BY <1>2
  <2>2. flow'[i] = flow[i + n] /\ flow'[i + 1] = flow[(i + 1) + n]
    BY <2>1, <1>1
  <2>3. flow[(i + n) + 1] = <<flow[i + n][1] + 1, 1>>
    BY <2>1, <2>2 DEF BytesInv, CrossInv, N
  <2> QED  BY <2>1, <2>2, <2>3
<1>13. FrontInv'
  <2> SUFFICES ASSUME Aligned(D + 1), N - n > 0 PROVE flow'[1] = <<D + 2, 1>>
    BY <1>1, <1>2, <1>3, <1>4 DEF FrontInv, Aligned, WellFormed
  <2>1. n = sent[D + 1].len /\ flow[n] = <<D + 1, n>>
    BY <1>5
  <2>2. n \in 1 .. N /\ n + 1 <= N
    BY <1>2
  <2>3. flow[n][2] = sent[flow[n][1]].len
    BY <2>1
  <2>4. flow[n + 1] = <<flow[n][1] + 1, 1>>
    BY <2>2, <2>3 DEF BytesInv, CrossInv, N
  <2>5. flow[n][1] + 1 = D + 2 /\ 1 + n = n + 1
    BY <2>1, <1>2
  <2>6. flow'[1] = flow[1 + n]
    BY <1>1, <1>2
  <2> QED  BY <2>4, <2>5, <2>6
<1>14. CountInv'
  <2> SUFFICES ASSUME D + 1 > S, \A j \in 1 .. S : WellFormed(j) PROVE FALSE
    BY <1>3, <1>4 DEF CountInv, WellFormed, S
  <2>1. D = S
    BY <1>2 DEF BytesInv, CountInv, D, S
  <2>2. Aligned(D)
    BY <2>1, <1>2 DEF Aligned, S
  <2>3. D + 1 \in 1 .. S
    BY <2>2, <1>2, <1>3, Front DEF D, S
  <2> QED  BY <2>1, <2>3, <1>2
<1>15. EndInv'
  <2> SUFFICES ASSUME peer # "reset"
               PROVE  /\ N - n > 0 => flow'[N - n] = <<S, sent[S].len>>
                      /\ N - n = 0 /\ Aligned(D + 1) => D + 1 = S
    BY <1>1, <1>3, <1>4 DEF EndInv, S, Aligned, WellFormed
  <2>1. N > 0 => flow[N] = <<S, sent[S].len>>
    BY DEF EndInv, N, S
  <2>2. ASSUME N - n > 0 PROVE flow'[N - n] = <<S, sent[S].len>>
    <3>1. N - n \in 1 .. N - n /\ (N - n) + n = N /\ N > 0
      BY <2>2, <1>2
    <3> QED  BY <3>1, <2>1, <1>1
  <2>3. ASSUME N - n = 0, Aligned(D + 1) PROVE D + 1 = S
    <3>1. n = N /\ N > 0
      BY <2>3, <1>2
    <3> QED  BY <3>1, <2>1, <2>3, <1>5
  <2> QED  BY <2>2, <2>3
<1> QED  BY <1>10, <1>11, <1>12, <1>13, <1>14, <1>15 DEF BytesInv

(***************************************************************************)
(* The other parts: where the worker is, and how much is in the ring.      *)
(***************************************************************************)
(* A completed receive fits.                                               *)
LEMMA Fits == TypeOK /\ RoomInv => NeverOverflows
<1> SUFFICES ASSUME TypeOK, RoomInv, at = "append" PROVE Len(rx) + Len(chunk) <= Capacity
  BY DEF NeverOverflows
<1>1. Len(rx) \in Nat /\ Len(chunk) \in Nat /\ Len(chunk) <= BufferSize
  BY DEF TypeOK
<1>2. Len(rx) < MaxPacket
  BY DEF RoomInv
<1>3. /\ MaxPacket \in Nat /\ BufferSize \in Nat /\ Capacity \in Nat
      /\ MaxPacket + BufferSize <= Capacity + 1
  BY ReceiveAssumption
<1> QED  BY <1>1, <1>2, <1>3

(* No complete packet is left when Pop asks for more bytes.                *)
LEMMA Incomplete ==
  ASSUME TypeOK, BytesInv, ChunkInv, PopNeedMore
  PROVE  /\ Len(rx) < MaxPacket
         /\ Aligned(Len(delivered) + 1) => Len(rx) < sent[Len(delivered) + 1].len
<1> DEFINE k == Len(delivered) + 1
<1>1. /\ Len(rx) \in Nat /\ Len(delivered) \in Nat /\ Len(sent) \in Nat
      /\ HeaderSize \in Nat /\ MaxPacket \in Nat /\ HeaderSize <= MaxPacket
  BY Typed, ReceiveAssumption
<1>2. at = "pop"
  BY DEF PopNeedMore
<1>3. CASE Len(rx) < HeaderSize
  <2>1. Aligned(k) => WellFormed(k)
    BY <1>1 DEF Aligned
  <2>2. Aligned(k) => sent[k].len \in Nat /\ HeaderSize <= sent[k].len
    <3>1. Aligned(k) => k \in 1 .. Len(sent)
      BY <1>1 DEF Aligned
    <3>2. Aligned(k) => sent[k].len \in Nat
      BY <3>1, Typed
    <3> QED  BY <2>1, <3>2 DEF WellFormed, ValidSize
  <2> QED  BY <1>1, <1>3, <2>2
<1>4. CASE Len(rx) >= HeaderSize
  <2>1. PICK n \in DeclaredSizes : ValidSize(n) /\ Len(rx) < n
    BY <1>1, <1>4 DEF PopNeedMore, NeedMore
  <2>2. n \in Nat
    BY SizesAreNat
  <2>3. Len(rx) < MaxPacket
    BY <2>1, <2>2, <1>1 DEF ValidSize
  <2>4. Aligned(k) => Aligned(Len(delivered)) /\ WellFormed(k)
    BY <1>1 DEF Aligned
  <2>5. Aligned(k) => n = sent[k].len
    BY <2>4, <1>2, <1>4, Front
  <2> QED  BY <2>1, <2>3, <2>5
<1> QED  BY <1>1, <1>3, <1>4

(* What the client sends does not complete the packet at the front.        *)
LEMMA ParkedSends ==
  ASSUME TypeOK, BytesInv, ParkedInv, EndInv, ClientSends
  PROVE  ParkedInv'
<1> DEFINE S == Len(sent)
           D == Len(delivered)
<1>1. PICK p \in Packets : sent' = Append(sent, p) /\ p.len \in Nat \ {0}
  BY SendsFlow
<1>2. /\ Len(sent') = S + 1 /\ sent'[S + 1] = p /\ \A k \in 1 .. S : sent'[k] = sent[k]
      /\ S \in Nat /\ D \in Nat /\ Len(rx) \in Nat
  BY <1>1, AppendSent, Typed
<1>3. delivered' = delivered /\ rx' = rx /\ at' = at
  BY DEF ClientSends
<1> HIDE DEF S, D
<1>4. SUFFICES ASSUME at \in {"post", "wsarecv", "recv"}, D + 1 <= S + 1, \A j \in 1 .. D + 1 : WellFormed(j)'
               PROVE  Len(rx) < sent'[D + 1].len
  BY <1>2, <1>3 DEF ParkedInv, Aligned, D
<1>5. \A j \in 1 .. S : j <= D + 1 => WellFormed(j)
  BY <1>2, <1>4 DEF WellFormed
<1>6. CASE D + 1 <= S
  <2>1. Aligned(D + 1)
    BY <1>2, <1>5, <1>6 DEF Aligned, S
  <2>2. Len(rx) < sent[D + 1].len
    BY <1>4, <2>1 DEF ParkedInv, D
  <2> QED  BY <2>2, <1>2, <1>6
<1>7. CASE D = S
  <2>1. Aligned(D)
    BY <1>2, <1>5, <1>7 DEF Aligned, S
  <2>2. ASSUME Len(rx) > 0 PROVE FALSE
    <3>1. Len(flow) > 0 /\ 1 \in 1 .. Len(flow)
      BY <2>2, <1>2, FlowIs, Typed
    <3>2. flow[1] = <<D + 1, 1>>
      BY <2>1, <3>1 DEF BytesInv, FrontInv, D
    <3>3. flow[1][1] \in 1 .. S
      BY <3>1 DEF BytesInv, KnownInv, S
    <3> QED  BY <3>2, <3>3, <1>2, <1>7
  <2>3. Len(rx) = 0
    BY <2>2, <1>2
  <2> QED  BY <2>3, <1>1, <1>2, <1>7
<1> QED  BY <1>2, <1>4, <1>6, <1>7

LEMMA FlowInit == Init => FlowInv
<1> SUFFICES ASSUME Init PROVE FlowInv
  OBVIOUS
<1>1. TypeOK
  BY TypeInit
<1>2. Len(rx) = 0 /\ Len(chunk) = 0 /\ Len(stream) = 0 /\ Len(sent) = 0 /\ Len(delivered) = 0
  BY DEF Init
<1>3. Len(flow) = 0
  BY <1>1, <1>2, FlowIs
<1>4. ChunkInv /\ at = "recv"
  BY DEF Init, ChunkInv
<1>5. RoomInv
  BY <1>2, ReceiveAssumption DEF RoomInv
<1>6. KnownInv /\ RunsInv /\ CrossInv /\ FrontInv
  BY <1>3 DEF KnownInv, RunsInv, CrossInv, FrontInv
<1>7. EndInv /\ CountInv /\ ParkedInv
  BY <1>2, <1>3 DEF EndInv, CountInv, ParkedInv, Aligned
<1> QED  BY <1>4, <1>5, <1>6, <1>7 DEF FlowInv

(* A step that leaves the flow, the packets and the end alone.             *)
LEMMA SameKeeps ==
  ASSUME TypeOK, BytesInv, EndInv, UNCHANGED <<flow, sent, delivered>>,
         peer' # "reset" => peer # "reset"
  PROVE  BytesInv' /\ EndInv'
<1>1. Len(flow) \in Nat /\ flow' = flow /\ sent' = sent /\ delivered' = delivered
  BY Typed
<1>2. BytesInv'
  BY <1>1, PrefixKeeps
<1>3. EndInv'
  BY <1>1 DEF EndInv, Aligned, WellFormed
<1> QED  BY <1>2, <1>3

LEMMA FlowNext == TypeOK /\ FlowInv /\ [Next]_vars => FlowInv'
<1> SUFFICES ASSUME TypeOK, FlowInv, [Next]_vars PROVE FlowInv'
  OBVIOUS
<1> USE DEF FlowInv
<1>a. BytesInv /\ EndInv /\ ChunkInv /\ RoomInv /\ ParkedInv
  BY DEF BytesInv
<1>b. BytesInv' /\ EndInv' /\ ChunkInv' /\ RoomInv' /\ ParkedInv' => FlowInv'
  BY DEF BytesInv
<1>1. CASE ClientSends
  <2>1. BytesInv' /\ EndInv' /\ ParkedInv'
    BY <1>1, <1>a, SendsKeeps, ParkedSends
  <2>2. ChunkInv' /\ RoomInv'
    BY <1>1, <1>a DEF ClientSends, ChunkInv, RoomInv
  <2> QED  BY <2>1, <2>2, <1>b
<1>2. CASE ClientLeaves
  <2>1. /\ sent' = sent /\ delivered' = delivered /\ at' = at /\ chunk' = chunk /\ rx' = rx
        /\ peer # "reset"
    BY <1>2 DEF ClientLeaves
  <2>2. ASSUME stream' = stream PROVE BytesInv' /\ EndInv'
    <3>1. flow' = flow
      BY <2>1, <2>2 DEF flow
    <3> QED  BY <2>1, <3>1, <1>a, SameKeeps
  <2>3. ASSUME stream' = <<>>, peer' = "reset" PROVE BytesInv' /\ EndInv'
    <3>1. flow' = rx \o chunk \o <<>>
      BY <2>1, <2>3 DEF flow
    <3>2. rx \in Seq(Octet) /\ chunk \in Seq(Octet) /\ rx \o chunk \in Seq(Octet)
      BY DEF TypeOK
    <3>3. flow' = rx \o chunk
      BY <3>1, <3>2, ConcatEmptySeq
    <3>4. flow = (rx \o chunk) \o stream /\ stream \in Seq(Octet)
      BY DEF flow, TypeOK
    <3>5. /\ Len(flow) = Len(flow') + Len(stream)
          /\ \A i \in 1 .. Len(flow') : flow[i] = flow'[i]
      BY <3>2, <3>3, <3>4, Cat
    <3>6. Len(flow') \in Nat /\ Len(stream) \in Nat
      BY <3>2, <3>3, <3>4
    <3>7. BytesInv'
      BY <2>1, <3>5, <3>6, <1>a, PrefixKeeps
    <3>8. peer' = "reset"
      BY <2>3
    <3>9. EndInv'
      BY <3>8 DEF EndInv
    <3> QED  BY <3>7, <3>9
  <2>4. BytesInv' /\ EndInv'
    BY <1>2, <2>2, <2>3 DEF ClientLeaves
  <2>5. ChunkInv' /\ RoomInv' /\ ParkedInv'
    BY <2>1, <1>a DEF ChunkInv, RoomInv, ParkedInv, Aligned, WellFormed
  <2> QED  BY <2>4, <2>5, <1>b
<1>3. CASE RecvData
  <2>1. flow' = flow
    BY <1>3, <1>a, RecvDataFlow
  <2>2. /\ sent' = sent /\ delivered' = delivered /\ peer' = peer /\ rx' = rx
        /\ at = "recv" /\ at' = "append"
    BY <1>3 DEF RecvData
  <2>3. BytesInv' /\ EndInv'
    BY <2>1, <2>2, <1>a, SameKeeps
  <2>4. ChunkInv' /\ RoomInv' /\ ParkedInv'
    BY <2>2, <1>a DEF ChunkInv, RoomInv, ParkedInv
  <2> QED  BY <2>3, <2>4, <1>b
<1>4. CASE RecvAppend
  <2>1. at = "append" /\ sent' = sent /\ delivered' = delivered /\ peer' = peer
    BY <1>4 DEF RecvAppend, client
  <2>2. flow' = flow /\ at' = "pop" /\ chunk' = <<>>
    BY <1>4, <2>1, <1>a, Fits, AppendFlow DEF NeverOverflows
  <2>3. BytesInv' /\ EndInv'
    BY <2>1, <2>2, <1>a, SameKeeps
  <2>4. ChunkInv' /\ RoomInv' /\ ParkedInv'
    BY <2>2 DEF ChunkInv, RoomInv, ParkedInv
  <2> QED  BY <2>3, <2>4, <1>b
<1>5. CASE Quiet
  <2>1. /\ sent' = sent /\ delivered' = delivered /\ peer' = peer /\ rx' = rx
        /\ chunk' = chunk /\ stream' = stream
    BY <1>5, QuietSteps DEF client
  <2>2. BytesInv' /\ EndInv'
    BY <2>1, <1>a, SameKeeps DEF flow
  <2>3. ASSUME PopNeedMore PROVE ChunkInv' /\ RoomInv' /\ ParkedInv'
    <3>1. at = "pop" /\ at' = "post"
      BY <2>3 DEF PopNeedMore
    <3>2. /\ Len(rx) < MaxPacket
          /\ Aligned(Len(delivered) + 1) => Len(rx) < sent[Len(delivered) + 1].len
      BY <2>3, <1>a, Incomplete
    <3>3. ChunkInv'
      BY <2>1, <3>1, <1>a DEF ChunkInv
    <3>4. RoomInv'
      BY <2>1, <3>1, <3>2 DEF RoomInv
    <3>5. Aligned(Len(delivered) + 1)' <=> Aligned(Len(delivered) + 1)
      BY <2>1 DEF Aligned, WellFormed
    <3>6. ParkedInv'
      <4>1. Aligned(Len(delivered) + 1)' => Len(rx') < sent'[Len(delivered') + 1].len
        BY <2>1, <3>2, <3>5
      <4> QED  BY <4>1 DEF ParkedInv
    <3> QED  BY <3>3, <3>4, <3>6
  <2>4. ASSUME ~PopNeedMore PROVE ChunkInv' /\ RoomInv' /\ ParkedInv'
    <3>1. at \in {"append", "fault"} => at' \in {"append", "fault"}
      BY <1>5, <2>4, QuietSteps
    <3>2. at' \in {"post", "wsarecv", "recv"} => at \in {"post", "wsarecv", "recv"}
      BY <1>5, <2>4, QuietSteps
    <3>3. at' = "append" => at = "append"
      BY <1>5, <2>4, QuietSteps
    <3>4. ChunkInv'
      BY <2>1, <3>1, <1>a DEF ChunkInv
    <3>5. RoomInv'
      BY <2>1, <3>2, <3>3, <1>a DEF RoomInv
    <3>6. Aligned(Len(delivered) + 1)' <=> Aligned(Len(delivered) + 1)
      BY <2>1 DEF Aligned, WellFormed
    <3>7. ParkedInv'
      <4>1. SUFFICES ASSUME at' \in {"post", "wsarecv", "recv"}, Aligned(Len(delivered) + 1)'
                     PROVE  Len(rx') < sent'[Len(delivered') + 1].len
        BY DEF ParkedInv
      <4>2. Len(rx) < sent[Len(delivered) + 1].len
        BY <3>2, <3>6, <4>1, <1>a DEF ParkedInv
      <4> QED  BY <2>1, <4>2
    <3> QED  BY <3>4, <3>5, <3>7
  <2>5. ChunkInv' /\ RoomInv' /\ ParkedInv'
    BY <2>3, <2>4
  <2> QED  BY <2>2, <2>5, <1>b
<1>6. CASE PopPacket
  <2>1. BytesInv' /\ EndInv'
    BY <1>6, <1>a, PopKeeps
  <2>2. chunk' = chunk /\ at = "pop" /\ at' = "pop"
    BY <1>6 DEF PopPacket
  <2>3. ChunkInv' /\ RoomInv' /\ ParkedInv'
    BY <2>2, <1>a DEF ChunkInv, RoomInv, ParkedInv
  <2> QED  BY <2>1, <2>3, <1>b
<1>7. CASE UNCHANGED vars
  <2>1. /\ sent' = sent /\ delivered' = delivered /\ peer' = peer /\ rx' = rx
        /\ chunk' = chunk /\ stream' = stream /\ at' = at
    BY <1>7 DEF vars, client
  <2>2. BytesInv' /\ EndInv'
    BY <2>1, <1>a, SameKeeps DEF flow
  <2>3. ChunkInv' /\ RoomInv' /\ ParkedInv'
    BY <2>1, <1>a DEF ChunkInv, RoomInv, ParkedInv, Aligned, WellFormed
  <2> QED  BY <2>2, <2>3, <1>b
<1> QED  BY <1>1, <1>2, <1>3, <1>4, <1>5, <1>6, <1>7, NextIs

(* The bytes between the client and OnPacket are those sent and not yet    *)
(* delivered, in order, and less than one packet of them waits.            *)
THEOREM FlowHolds == Spec => []FlowInv
<1>1. Init => FlowInv  BY FlowInit
<1>2. TypeOK /\ FlowInv /\ [Next]_vars => FlowInv'  BY FlowNext
<1> QED  BY <1>1, <1>2, ReceiveTypes, PTL DEF Spec

(* RecvCompletion's overflow branch is never taken, whatever the client    *)
(* sends: a ring of kMaxPacket + BUFFER_SIZE - 1 bytes is enough.          *)
THEOREM OverflowIsDead == Spec => []NeverOverflows
<1>1. TypeOK /\ FlowInv => NeverOverflows  BY Fits DEF FlowInv
<1> QED  BY <1>1, FlowHolds, ReceiveTypes, PTL

(***************************************************************************)
(* Framing.                                                                *)
(***************************************************************************)
(* The client's next packet does not change those it has sent.             *)
LEMMA FramedSends ==
  ASSUME TypeOK, FlowInv, Framed, ClientSends PROVE Framed'
<1> DEFINE S == Len(sent)
           D == Len(delivered)
<1>1. PICK p \in Packets : sent' = Append(sent, p)
  BY SendsFlow
<1>2. /\ Len(sent') = S + 1 /\ \A k \in 1 .. S : sent'[k] = sent[k]
      /\ S \in Nat /\ D \in Nat
  BY <1>1, AppendSent, Typed
<1>3. delivered' = delivered
  BY DEF ClientSends
<1>4. SUFFICES ASSUME NEW k \in 1 .. D, k <= S + 1, \A j \in 1 .. k : WellFormed(j)'
               PROVE  delivered[k] = Bytes(k)'
  BY <1>2, <1>3 DEF Framed, Aligned
<1>5. k \in 1 .. S
  <2>1. \A j \in 1 .. S : j <= k => WellFormed(j)
    BY <1>2, <1>4 DEF WellFormed
  <2>2. D > S => \E j \in 1 .. S : ~WellFormed(j)
    BY DEF FlowInv, CountInv
  <2> QED  BY <2>1, <2>2, <1>2, <1>4
<1>6. \A j \in 1 .. k : WellFormed(j)
  BY <1>2, <1>4, <1>5 DEF WellFormed
<1>7. delivered[k] = Bytes(k)
  BY <1>2, <1>5, <1>6 DEF Framed, Aligned
<1>8. Bytes(k)' = Bytes(k)
  BY <1>2, <1>5 DEF Bytes
<1> QED  BY <1>7, <1>8

(* What Pop takes is the client's next packet.                             *)
LEMMA FramedPop ==
  ASSUME TypeOK, FlowInv, Framed, PopPacket PROVE Framed'
<1> DEFINE D == Len(delivered)
<1>1. BytesInv /\ ChunkInv
  BY DEF FlowInv, BytesInv
<1>2. PICK n \in DeclaredSizes :
        /\ n \in Nat /\ ValidSize(n) /\ n <= Len(rx)
        /\ delivered' = Append(delivered, SubSeq(rx, 1, n))
  BY <1>1, PopFlow
<1>3. /\ Len(delivered') = D + 1 /\ delivered'[D + 1] = SubSeq(rx, 1, n)
      /\ \A k \in 1 .. D : delivered'[k] = delivered[k]
      /\ D \in Nat /\ rx \in Seq(Octet)
  BY <1>2 DEF TypeOK
<1>4. sent' = sent
  BY DEF PopPacket, client
<1>5. SUFFICES ASSUME NEW k \in 1 .. D + 1, Aligned(k) PROVE delivered'[k] = Bytes(k)
  BY <1>3, <1>4 DEF Framed, Aligned, WellFormed, Bytes
<1>6. CASE k \in 1 .. D
  BY <1>3, <1>5, <1>6 DEF Framed
<1>7. CASE k = D + 1
  <2>1. /\ n = sent[k].len /\ \A i \in 1 .. n : rx[i] = <<k, i>>
    BY <1>1, <1>2, <1>5, <1>7, PopIsNext
  <2>2. SubSeq(rx, 1, n) = [i \in 1 .. n |-> rx[i]]
    BY <1>2, <1>3
  <2>3. SubSeq(rx, 1, n) = [i \in 1 .. n |-> <<k, i>>]
    BY <2>1, <2>2
  <2> QED  BY <2>1, <2>3, <1>3, <1>7 DEF Bytes
<1> QED  BY <1>3, <1>6, <1>7

LEMMA FramedNext == TypeOK /\ FlowInv /\ Framed /\ [Next]_vars => Framed'
<1> SUFFICES ASSUME TypeOK, FlowInv, Framed, [Next]_vars PROVE Framed'
  OBVIOUS
<1>1. ASSUME sent' = sent, delivered' = delivered PROVE Framed'
  BY <1>1 DEF Framed, Aligned, WellFormed, Bytes
<1>2. CASE ClientSends  BY <1>2, FramedSends
<1>3. CASE ClientLeaves  BY <1>1, <1>3 DEF ClientLeaves
<1>4. CASE RecvData  BY <1>1, <1>4 DEF RecvData
<1>5. CASE RecvAppend  BY <1>1, <1>5 DEF RecvAppend, client
<1>6. CASE Quiet  BY <1>1, <1>6, QuietSteps DEF client
<1>7. CASE PopPacket  BY <1>7, FramedPop
<1>8. CASE UNCHANGED vars  BY <1>1, <1>8 DEF vars, client
<1> QED
  BY <1>2, <1>3, <1>4, <1>5, <1>6, <1>7, <1>8, NextIs

(* OnPacket gets the client's packets, each whole, in order and once,      *)
(* however WSARecv cuts the stream, as far as their headers are right.     *)
THEOREM FramingIsRight == Spec => []Framed
<1>1. Init => Framed
  BY DEF Init, Framed
<1> QED  BY <1>1, FramedNext, FlowHolds, ReceiveTypes, PTL DEF Spec

(* The server waits for bytes only when it has handled every packet that   *)
(* has arrived.                                                            *)
THEOREM WaitsForNothing == Spec => []NothingWaits
<1>1. TypeOK /\ FlowInv => NothingWaits
  <2> SUFFICES ASSUME TypeOK, FlowInv,
                      at = "recv", Aligned(Len(sent)), stream = <<>>, peer # "reset",
                      Len(delivered) # Len(sent)
               PROVE  FALSE
    BY DEF NothingWaits
  <2> DEFINE k == Len(delivered) + 1
  <2>1. /\ Len(rx) \in Nat /\ Len(sent) \in Nat /\ Len(delivered) \in Nat
        /\ Len(chunk) = 0 /\ Len(stream) = 0
    BY Typed DEF FlowInv, ChunkInv
  <2>2. Len(flow) = Len(rx) /\ Len(flow) \in Nat
    BY <2>1, FlowIs
  <2>3. k <= Len(sent)
    BY <2>1 DEF FlowInv, CountInv, Aligned
  <2>4. Aligned(Len(delivered)) /\ Aligned(k)
    BY <2>1, <2>3 DEF Aligned
  <2>5. Len(rx) < sent[k].len /\ sent[k].len \in Nat
    BY <2>1, <2>3, <2>4, Typed DEF FlowInv, ParkedInv
  <2>6. Len(flow) > 0 /\ flow[Len(flow)] = <<Len(sent), sent[Len(sent)].len>>
    BY <2>1, <2>2, <2>4 DEF FlowInv, EndInv
  <2>7. flow[1] = <<k, 1>> /\ flow[1][1] = k /\ flow[1][2] = 1
    BY <2>4, <2>6 DEF FlowInv, FrontInv
  <2> DEFINE m == Len(flow) - 1
  <2>8. /\ 1 \in 1 .. Len(flow) /\ m \in 0 .. Len(flow) /\ 1 + m <= Len(flow)
        /\ 1 + m = Len(flow) /\ 1 + m <= sent[k].len
    BY <2>2, <2>5, <2>6
  <2> HIDE DEF k, m
  <2>9. flow[1 + m] = <<k, 1 + m>>
    BY <2>7, <2>8 DEF FlowInv, RunsInv
  <2>10. k = Len(sent) /\ Len(flow) = sent[k].len
    BY <2>6, <2>8, <2>9
  <2> QED  BY <2>2, <2>5, <2>10
<1> QED  BY <1>1, FlowHolds, ReceiveTypes, PTL

(***************************************************************************)
(* ReceivePath implements PacketFifo.  How many packets come before the    *)
(* first wrong one is a CHOOSE, whose value is there (RightInv, by         *)
(* induction on the steps) and unique.                                     *)
(***************************************************************************)
IsRight(n) == n \in 0 .. Len(sent) /\ Aligned(n) /\ ~Aligned(n + 1)

RightInv == \E n \in 0 .. Len(sent) : IsRight(n)

LEMMA RightIs == Len(sent) \in Nat => \A n : IsRight(n) => Right = n
<1> SUFFICES ASSUME Len(sent) \in Nat, NEW n, IsRight(n) PROVE Right = n
  OBVIOUS
<1>1. ASSUME NEW m \in 0 .. Len(sent), Aligned(m), ~Aligned(m + 1) PROVE m = n
  <2>1. ASSUME NEW a \in 0 .. Len(sent), NEW b \in 0 .. Len(sent), a < b, Aligned(b) PROVE Aligned(a + 1)
    BY <2>1 DEF Aligned
  <2> QED
    BY <1>1, <2>1 DEF IsRight
<1> QED
  BY <1>1 DEF Right, IsRight

LEMMA RightIsNext == (Len(sent) \in Nat => \A n : IsRight(n) => Right = n)'
BY RightIs, PTL

LEMMA RightFacts ==
  ASSUME Len(sent) \in Nat, RightInv
  PROVE  IsRight(Right) /\ Right \in 0 .. Len(sent)
BY RightIs DEF RightInv, IsRight

(* A packet sent is one more of them, if it is right and all before it are. *)
LEMMA SendsRight ==
  ASSUME TypeOK, RightInv, NEW p \in Packets, sent' = Append(sent, p)
  PROVE  /\ RightInv'
         /\ \/ Right' = Right
            \/ /\ Right = Len(sent) /\ Right' = Len(sent) + 1
               /\ Aligned(Len(sent))
               /\ p.len = p.size /\ ValidSize(p.size)
<1>0. PICK S \in Nat : S = Len(sent)
  BY AppendSent
<1>1. /\ Len(sent') = S + 1 /\ S \in Nat
      /\ \A k \in 1 .. S : sent'[k] = sent[k]
      /\ sent'[S + 1] = p
  BY <1>0, AppendSent
<1>2. PICK r \in 0 .. S : r = Right /\ IsRight(r)
  BY <1>0, RightFacts
<1>3. \A k \in 1 .. S : WellFormed(k)' <=> WellFormed(k)
  BY <1>1 DEF WellFormed
<1>4. \A k \in 0 .. S : Aligned(k)' <=> Aligned(k)
  BY <1>0, <1>1, <1>3 DEF Aligned
<1>5. WellFormed(S + 1)' <=> (p.size = p.len /\ ValidSize(p.size))
  BY <1>1 DEF WellFormed
<1>6. Aligned(S + 1)' <=> (Aligned(S) /\ WellFormed(S + 1)')
  BY <1>0, <1>1, <1>3 DEF Aligned
<1>7. ~Aligned(S + 2)'
  BY <1>1 DEF Aligned
<1>8. ASSUME NEW n \in 0 .. S + 1, Aligned(n)', ~Aligned(n + 1)' PROVE RightInv' /\ Right' = n
  <2>1. IsRight(n)'
    BY <1>1, <1>8 DEF IsRight
  <2> QED
    BY <1>1, <2>1, RightIsNext DEF RightInv
<1>9. CASE r = S /\ WellFormed(S + 1)'
  <2>1. Aligned(S)
    BY <1>2, <1>9 DEF IsRight
  <2>2. RightInv' /\ Right' = S + 1
    BY <1>1, <1>6, <1>7, <1>8, <1>9, <2>1
  <2> QED
    BY <1>0, <1>2, <1>5, <1>9, <2>1, <2>2
<1>10. CASE ~(r = S /\ WellFormed(S + 1)')
  <2>1. Aligned(r)' /\ ~Aligned(r + 1)'
    <3>1. Aligned(r) /\ ~Aligned(r + 1)
      BY <1>2 DEF IsRight
    <3>2. CASE r = S
      BY <1>4, <1>6, <1>10, <3>1, <3>2
    <3>3. CASE r # S
      <4>1. r + 1 \in 0 .. S
        BY <3>3
      <4> QED
        BY <1>4, <3>1, <4>1
    <3> QED
      BY <3>2, <3>3
  <2> QED
    BY <1>2, <1>8, <2>1
<1> QED
  BY <1>9, <1>10

(* What is left to deliver.                                                *)
LEMMA UnheardIs ==
  ASSUME TypeOK, RightInv
  PROVE  /\ Unheard \in Seq({Bytes(k) : k \in 1 .. Len(sent)})
         /\ Len(Unheard) = IF Right <= Len(delivered) THEN 0 ELSE Right - Len(delivered)
         /\ \A i \in 1 .. Right - Len(delivered) : Unheard[i] = Bytes(Len(delivered) + i)
<1>1. Len(sent) \in Nat /\ Len(delivered) \in Nat /\ Right \in 0 .. Len(sent)
  BY Typed, RightFacts
<1> DEFINE n == IF Right <= Len(delivered) THEN 0 ELSE Right - Len(delivered)
<1>2. n \in Nat /\ 1 .. Right - Len(delivered) = 1 .. n
  BY <1>1
<1>3. \A i \in 1 .. n : Len(delivered) + i \in 1 .. Len(sent)
  BY <1>1
<1>4. Unheard = [i \in 1 .. n |-> Bytes(Len(delivered) + i)]
  BY <1>2 DEF Unheard
<1>5. \A i \in 1 .. n : Bytes(Len(delivered) + i) \in {Bytes(k) : k \in 1 .. Len(sent)}
  BY <1>3
<1>6. n = IF Right <= Len(delivered) THEN 0 ELSE Right - Len(delivered)
  OBVIOUS
<1> HIDE DEF n
<1>7. Len(Unheard) = n /\ Unheard \in Seq({Bytes(k) : k \in 1 .. Len(sent)})
  BY <1>2, <1>4, <1>5
<1>8. \A i \in 1 .. n : Unheard[i] = Bytes(Len(delivered) + i)
  BY <1>4
<1> QED
  BY <1>2, <1>6, <1>7, <1>8

LEMMA FifoSends ==
  ASSUME TypeOK, FlowInv, RightInv, ClientSends
  PROVE  RightInv' /\ [Fifo!Next]_(Fifo!vars)
<1>0. PICK S \in Nat, D \in Nat : S = Len(sent) /\ D = Len(delivered)
  BY Typed
<1>1. PICK p \in Packets : sent' = Append(sent, p) /\ p.len \in Nat \ {0}
  BY SendsFlow
<1>2. /\ Len(sent') = S + 1 /\ S \in Nat /\ D \in Nat
      /\ \A k \in 1 .. S : sent'[k] = sent[k]
      /\ sent'[S + 1] = p
  BY <1>0, <1>1, AppendSent
<1>3. delivered' = delivered /\ at' = at /\ S < MaxSent
  BY <1>0 DEF ClientSends
<1>4. \A k \in 1 .. S : Bytes(k)' = Bytes(k)
  BY <1>2 DEF Bytes
<1>5. RightInv' /\ \/ Right' = Right
                   \/ /\ Right = S /\ Right' = S + 1 /\ Aligned(S)
                      /\ p.len = p.size /\ ValidSize(p.size)
  BY <1>0, <1>1, SendsRight
<1>6. Right \in 0 .. S
  BY <1>0, RightFacts
<1>7. CASE Right' = Right
  <2>1. Heard' = Heard
    BY <1>3, <1>7 DEF Heard
  <2>2. \A i \in 1 .. Right - D : Bytes(D + i)' = Bytes(D + i)
    BY <1>2, <1>4, <1>6
  <2>3. Unheard' = [i \in 1 .. Right - D |-> Bytes(D + i)']
    BY <1>0, <1>3, <1>7 DEF Unheard
  <2>4. Unheard' = Unheard
    BY <1>0, <2>2, <2>3 DEF Unheard
  <2> QED
    BY <1>3, <1>5, <2>1, <2>4 DEF Fifo!vars
<1>8. CASE Right = S /\ Right' = S + 1 /\ Aligned(S) /\ p.len = p.size /\ ValidSize(p.size)
  <2>1. D <= S
    BY <1>0, <1>8 DEF FlowInv, CountInv, Aligned
  <2>2. Heard' = Heard
    BY <1>0, <1>3, <1>8, <2>1 DEF Heard
  <2> DEFINE b == [i \in 1 .. p.len |-> <<S + 1, i>>]
  <2>3. Bytes(S + 1)' = b
    BY <1>2 DEF Bytes
  <2>4. b \in Whole
    <3>1. p.len \in HeaderSize .. MaxPacket
      BY <1>1, <1>8, ReceiveAssumption DEF ValidSize
    <3>2. S + 1 \in 1 .. MaxSent
      BY <1>2, <1>3, ReceiveAssumption
    <3> QED
      BY <3>1, <3>2 DEF Whole
  <2> HIDE DEF b
  <2>5. Unheard' = [i \in 1 .. S + 1 - D |-> Bytes(D + i)']
    BY <1>0, <1>3, <1>8 DEF Unheard
  <2>6. Unheard = [i \in 1 .. S - D |-> Bytes(D + i)]
    BY <1>0, <1>8 DEF Unheard
  <2>7. \A i \in 1 .. S + 1 - D : Bytes(D + i)' = IF i = S + 1 - D THEN b ELSE Bytes(D + i)
    <3>1. \A i \in 1 .. S + 1 - D : i # S + 1 - D => D + i \in 1 .. S
      BY <1>2, <2>1
    <3>2. \A i \in 1 .. S + 1 - D : i = S + 1 - D => D + i = S + 1
      BY <1>2, <2>1
    <3> QED
      BY <1>4, <2>3, <3>1, <3>2
  <2>8. Unheard' = [i \in 1 .. S + 1 - D |-> IF i = S + 1 - D THEN b ELSE Bytes(D + i)]
    BY <2>5, <2>7
  <2>9. S - D \in Nat
    BY <1>2, <2>1
  <2>10. Unheard' = Append(Unheard, b)
    BY <2>6, <2>8, <2>9
  <2>11. Fifo!Put(b)
    BY <1>3, <2>2, <2>10 DEF Fifo!Put
  <2> QED
    BY <1>5, <2>4, <2>11 DEF Fifo!Next
<1> QED
  BY <1>5, <1>7, <1>8

(* Pop hands the next packet over; after a wrong header what it takes does *)
(* not count.                                                              *)
LEMMA FifoPop ==
  ASSUME TypeOK, FlowInv, Framed, RightInv, PopPacket
  PROVE  [Fifo!Next]_(Fifo!vars)
<1> DEFINE D == Len(delivered)
<1>1. Framed'
  BY FramedPop
<1>2. PICK x : delivered' = Append(delivered, x)
  BY DEF PopPacket
<1>3. /\ Len(delivered') = D + 1 /\ delivered'[D + 1] = x
      /\ \A k \in 1 .. D : delivered'[k] = delivered[k]
      /\ D \in Nat
  BY <1>2 DEF TypeOK
<1>4. sent' = sent /\ at = "pop" /\ at' = "pop"
  BY DEF PopPacket, client
<1>5. Right' = Right /\ Right \in 0 .. Len(sent) /\ IsRight(Right) /\ Len(sent) \in Nat
  <2>1. Right' = Right
    BY <1>4 DEF Right, Aligned, WellFormed
  <2>2. Len(sent) \in Nat
    BY Typed
  <2> QED
    BY <2>1, <2>2, RightFacts
<1>6. Unheard' = [i \in 1 .. Right - (D + 1) |-> Bytes(D + 1 + i)]
  BY <1>3, <1>4, <1>5 DEF Unheard, Bytes
<1>7. CASE Right <= D
  <2>1. Heard = [i \in 1 .. Right |-> delivered[i]]
    BY <1>3, <1>5, <1>7 DEF Heard
  <2>2. Heard' = [i \in 1 .. Right |-> delivered'[i]]
    BY <1>3, <1>5, <1>7 DEF Heard
  <2>3. Heard' = Heard
    BY <1>3, <1>5, <1>7, <2>1, <2>2
  <2>4. 1 .. Right - D = {} /\ 1 .. Right - (D + 1) = {}
    BY <1>3, <1>5, <1>7
  <2>5. Unheard' = Unheard
    BY <1>6, <2>4 DEF Unheard
  <2> QED
    BY <1>4, <2>3, <2>5 DEF Fifo!vars
<1>8. CASE Right > D
  <2>1. Aligned(D + 1)
    BY <1>3, <1>5, <1>8 DEF IsRight, Aligned
  <2>2. x = Bytes(D + 1)
    BY <1>1, <1>3, <1>4, <2>1 DEF Framed, Aligned, WellFormed, Bytes
  <2>3. Unheard = [i \in 1 .. Right - D |-> Bytes(D + i)] /\ Right - D \in Nat \ {0}
    BY <1>3, <1>5, <1>8 DEF Unheard
  <2>4. /\ Unheard \in Seq({Bytes(k) : k \in 1 .. Len(sent)}) /\ Len(Unheard) = Right - D
        /\ Unheard[1] = x
    <3>1. Unheard[1] = Bytes(D + 1)
      BY <2>3
    <3> QED
      BY <1>3, <1>5, <1>8, <2>2, <3>1, UnheardIs
  <2>5. Heard = delivered /\ Heard' = delivered'
    <3>1. delivered \in Seq(Seq(Octet)) /\ delivered' \in Seq(Seq(Octet))
      BY TypePop DEF TypeOK
    <3>2. Heard = SubSeq(delivered, 1, D) /\ Heard' = SubSeq(delivered', 1, D + 1)
      BY <1>3, <1>5, <1>8 DEF Heard
    <3> QED
      BY <1>3, <3>1, <3>2
  <2>6. SubSeq(Unheard, 1, 1) = <<x>>
    <3> DEFINE f == SubSeq(Unheard, 1, 1)
    <3>1. Len(Unheard) \in Nat /\ 1 <= Len(Unheard)
      BY <2>3, <2>4
    <3>2. Len(f) = 1 /\ f \in Seq({Bytes(k) : k \in 1 .. Len(sent)}) /\ f[1] = Unheard[1]
      BY <2>4, <3>1
    <3> HIDE DEF f
    <3>3. f = <<f[1]>>
      BY <3>2
    <3> QED
      BY <2>4, <3>2, <3>3 DEF f
  <2>7. Heard' = Heard \o SubSeq(Unheard, 1, 1)
    <3>1. Append(delivered, x) = delivered \o <<x>>
      <4>1. /\ delivered \in Seq(Seq(Octet) \cup {x})
        BY DEF TypeOK
      <4> QED
        BY <4>1, AppendIsConcat
    <3> QED
      BY <1>2, <2>5, <2>6, <3>1
  <2>8. Unheard' = SubSeq(Unheard, 2, Len(Unheard))
    <3>1. SubSeq(Unheard, 2, Len(Unheard)) = [i \in 1 .. Right - D - 1 |-> Unheard[i + 1]]
      BY <2>3, <2>4
    <3>2. \A i \in 1 .. Right - D - 1 : Unheard[i + 1] = Bytes(D + 1 + i)
      BY <1>3, <1>5, <2>3
    <3>3. Right - D - 1 = Right - (D + 1)
      BY <1>3, <1>5
    <3> QED
      BY <1>6, <3>1, <3>2, <3>3
  <2>9. Fifo!Send(1)
    BY <1>4, <2>7, <2>8 DEF Fifo!Send, Fifo!Rest
  <2>10. 1 \in 1 .. Len(Unheard)
    BY <2>3, <2>4
  <2> QED
    BY <2>9, <2>10 DEF Fifo!Next
<1> QED
  BY <1>3, <1>5, <1>7, <1>8

(* Every other step leaves the packets alone; it may end the receiving.    *)
Over == at \in {"done", "fault"}

LEMMA FifoOthers ==
  ASSUME TypeOK, RightInv, sent' = sent, delivered' = delivered, Over' \/ (~Over /\ ~Over')
  PROVE  RightInv' /\ [Fifo!Next]_(Fifo!vars)
<1>1. RightInv'
  BY DEF RightInv, IsRight, Aligned, WellFormed
<1>2. Heard' = Heard /\ Unheard' = Unheard
  BY DEF Heard, Unheard, Right, Aligned, WellFormed, Bytes
<1>3. CASE Over'
  <2>1. SubSeq(Unheard, 0 + 1, Len(Unheard)) = Unheard /\ Len(Unheard) \in Nat
    BY UnheardIs
  <2>2. Fifo!Lose(0)
    BY <1>2, <1>3, <2>1 DEF Fifo!Lose, Fifo!Rest, Over
  <2>3. 0 \in 0 .. Len(Unheard)
    BY <2>1
  <2> QED
    BY <1>1, <2>2, <2>3 DEF Fifo!Next
<1>4. CASE ~Over /\ ~Over'
  BY <1>1, <1>2, <1>4 DEF Fifo!vars, Over
<1> QED
  BY <1>3, <1>4

LEMMA FifoNext ==
  ASSUME TypeOK, FlowInv, Framed, RightInv, [Next]_vars
  PROVE  RightInv' /\ [Fifo!Next]_(Fifo!vars)
<1>1. CASE ClientSends
  BY <1>1, FifoSends
<1>2. CASE PopPacket
  <2>1. RightInv'
    BY <1>2 DEF PopPacket, RightInv, IsRight, Aligned, WellFormed, client
  <2> QED
    BY <1>2, <2>1, FifoPop
<1>3. ASSUME sent' = sent, delivered' = delivered, at' = at
      PROVE  RightInv' /\ [Fifo!Next]_(Fifo!vars)
  BY <1>3, FifoOthers DEF Over
<1>4. CASE ClientLeaves \/ UNCHANGED vars
  BY <1>3, <1>4 DEF ClientLeaves, vars, client
<1>5. CASE RecvData \/ RecvAppend
  <2>1. sent' = sent /\ delivered' = delivered /\ ~Over
    BY <1>5 DEF RecvData, RecvAppend, client, Over
  <2> QED
    BY <2>1, FifoOthers
<1>6. CASE Quiet
  <2>1. sent' = sent /\ delivered' = delivered
    BY <1>6, QuietSteps DEF client
  <2>2. at' = at \/ ~Over
    BY <1>6, QuietSteps DEF Over, PopNeedMore
  <2>3. CASE at' = at
    BY <1>3, <2>1, <2>3
  <2>4. CASE ~Over
    BY <2>1, <2>4, FifoOthers
  <2> QED
    BY <2>2, <2>3, <2>4
<1> QED
  BY <1>1, <1>2, <1>4, <1>5, <1>6, NextIs

LEMMA FifoInit == Init => RightInv /\ Fifo!Init
<1> SUFFICES ASSUME Init PROVE RightInv /\ Fifo!Init
  OBVIOUS
<1>1. Len(sent) = 0 /\ Len(delivered) = 0 /\ delivered = <<>> /\ at = "recv"
  BY DEF Init
<1>2. IsRight(0)
  BY <1>1 DEF IsRight, Aligned
<1>3. RightInv /\ Right = 0
  BY <1>1, <1>2, RightIs DEF RightInv
<1>4. Heard = <<>>
  BY <1>1, <1>3 DEF Heard
<1>5. Unheard = <<>>
  BY <1>1, <1>3 DEF Unheard
<1> QED
  BY <1>1, <1>3, <1>4, <1>5 DEF Fifo!Init

(* The packets with a right header reach OnPacket as through a FIFO of     *)
(* whole packets, for every way the network cuts and merges the stream,    *)
(* until the worker posts no receive any more; what is in the ring when    *)
(* the session is closed, by an exit packet or by another worker whose     *)
(* send failed, is handled still.                                          *)
THEOREM ReceivePathIsFifo == Spec => IsFifo
<1>1. Init => RightInv /\ Fifo!Init
  BY FifoInit
<1>2. TypeOK /\ FlowInv /\ Framed /\ RightInv /\ [Next]_vars => RightInv' /\ [Fifo!Next]_(Fifo!vars)
  BY FifoNext
<1> QED
  BY <1>1, <1>2, FramingIsRight, FlowHolds, ReceiveTypes, PTL DEF Spec, IsFifo, Fifo!Spec
=============================================================================
