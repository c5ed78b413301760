----------------------------- MODULE RingBuffer -----------------------------
(***************************************************************************)
(* RingBuffer (IOCP_Basic/RingBuffer.h): a vector of Capacity bytes with   *)
(* the index of the oldest byte, the index of the next free cell and the   *)
(* number of bytes stored.  One pass of the loops of append and read is    *)
(* one step, so what is copied before and after the end of the vector is   *)
(* kept apart.                                                             *)
(***************************************************************************)
EXTENDS Integers, Sequences

CONSTANTS
  Byte,      \* what a cell holds
  Capacity,  \* buf_.size()
  Data       \* what callers append

ASSUME RingAssumption ==
  /\ Capacity \in Nat \ {0}
  /\ 0 \in Byte
  /\ Data \subseteq Seq(Byte)

VARIABLES
  buf,    \* buf_
  head,   \* head_
  tail,   \* tail_
  size,   \* size_
  todo,   \* append: the rest of src
  want,   \* read: len - got
  got     \* read and peek: what is in dst

ring == <<buf, head, tail, size>>
vars == <<buf, head, tail, size, todo, want, got>>

Cells == 0 .. Capacity - 1

TypeOK ==
  /\ buf \in [Cells -> Byte]
  /\ head \in Cells /\ tail \in Cells /\ size \in 0 .. Capacity
  /\ todo \in Seq(Byte) /\ want \in Nat /\ got \in Seq(Byte)

Init ==
  /\ buf = [k \in Cells |-> 0]
  /\ head = 0 /\ tail = 0 /\ size = 0
  /\ todo = <<>> /\ want = 0 /\ got = <<>>

Smaller(a, b) == IF a < b THEN a ELSE b
NoCall == todo = <<>> /\ want = 0

-----------------------------------------------------------------------------
(* append returns at once when there is nothing to write or no room.       *)
CallAppend ==
  /\ NoCall /\ size < Capacity
  /\ \E d \in Data : d # <<>> /\ todo' = d
  /\ UNCHANGED <<ring, want, got>>

AppendChunk ==
  LET tillEnd == Capacity - tail
      span    == Smaller(tillEnd, Capacity - size)
      chunk   == Smaller(span, Len(todo))
  IN
  /\ todo # <<>> /\ size < Capacity
  /\ buf' = [k \in Cells |-> IF k \in tail .. tail + chunk - 1
                             THEN todo[k - tail + 1] ELSE buf[k]]
  /\ tail' = (tail + chunk) % Capacity
  /\ size' = size + chunk
  /\ todo' = SubSeq(todo, chunk + 1, Len(todo))
  /\ UNCHANGED <<head, want, got>>

AppendFull ==
  /\ todo # <<>> /\ size = Capacity
  /\ todo' = <<>>
  /\ UNCHANGED <<ring, want, got>>

CallRead(len) ==
  /\ NoCall /\ size > 0
  /\ want' = len /\ got' = <<>>
  /\ UNCHANGED <<ring, todo>>

ReadChunk ==
  LET tillEnd == Capacity - head
      chunk   == Smaller(Smaller(tillEnd, size), want)
  IN
  /\ want > 0 /\ size > 0
  /\ got' = got \o [i \in 1 .. chunk |-> buf[head + i - 1]]
  /\ head' = (head + chunk) % Capacity
  /\ size' = size - chunk
  /\ want' = want - chunk
  /\ UNCHANGED <<buf, tail, todo>>

ReadEmpty ==
  /\ want > 0 /\ size = 0
  /\ want' = 0
  /\ UNCHANGED <<ring, todo, got>>

(* The second copy starts where the first did.                             *)
PeekAgain(len) ==
  LET first == Smaller(Smaller(Capacity - head, size), len) IN
  /\ NoCall /\ len <= size
  /\ got' = [i \in 1 .. len |-> IF i <= first THEN buf[head + i - 1]
                                             ELSE buf[head + i - first - 1]]
  /\ UNCHANGED <<ring, todo, want>>

(* Two copies at most: up to the end of the vector and from its start.     *)
Peek(len) ==
  LET first == Smaller(Smaller(Capacity - head, size), len)
      h     == (head + first) % Capacity
  IN
  /\ NoCall /\ len <= size
  /\ got' = [i \in 1 .. len |-> IF i <= first THEN buf[head + i - 1]
                                             ELSE buf[h + i - first - 1]]
  /\ UNCHANGED <<ring, todo, want>>

(* The index is not wrapped.                                               *)
DiscardStraight(len) ==
  /\ NoCall /\ len <= size
  /\ head' = head + len
  /\ size' = size - len
  /\ UNCHANGED <<buf, tail, todo, want, got>>

Discard(len) ==
  /\ NoCall /\ len <= size
  /\ head' = (head + len) % Capacity
  /\ size' = size - len
  /\ UNCHANGED <<buf, tail, todo, want, got>>

(* tail_ is forgotten.                                                     *)
ClearHead ==
  /\ NoCall
  /\ head' = 0 /\ size' = 0
  /\ UNCHANGED <<buf, tail, todo, want, got>>

Clear ==
  /\ NoCall
  /\ head' = 0 /\ tail' = 0 /\ size' = 0
  /\ UNCHANGED <<buf, todo, want, got>>

Lengths == 1 .. Capacity + 1

Next ==
  \/ CallAppend \/ AppendChunk \/ AppendFull
  \/ ReadChunk \/ ReadEmpty \/ Clear
  \/ \E len \in Lengths : CallRead(len) \/ Peek(len) \/ Discard(len)

Spec == Init /\ [][Next]_vars

-----------------------------------------------------------------------------
(* The bytes stored, oldest first.                                         *)
Contents == [i \in 1 .. size |-> buf[(head + i - 1) % Capacity]]

Fifo == INSTANCE ByteFifo WITH content <- Contents

(* The ring buffer is a first-in first-out buffer, wherever head and tail  *)
(* are: bytes that wrap round the end of the vector come back in order,    *)
(* none is lost, repeated or overwritten before it is read.                *)
IsFifo == Fifo!FifoSpec
=============================================================================
