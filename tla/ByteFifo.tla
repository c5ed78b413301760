------------------------------ MODULE ByteFifo ------------------------------
(***************************************************************************)
(* What RingBuffer (IOCP_Basic/RingBuffer.h) promises: a first-in          *)
(* first-out buffer of at most Capacity bytes.  An append takes bytes of   *)
(* the caller's data in order until all are taken or the buffer is full; a *)
(* read hands over the oldest bytes in order until the caller has enough   *)
(* or the buffer is empty; a peek copies without consuming; a discard      *)
(* consumes without copying.                                               *)
(***************************************************************************)
EXTENDS Integers, Sequences

CONSTANTS
  Byte,      \* what a cell holds
  Capacity,  \* capacity()
  Data       \* what callers append

VARIABLES
  content,  \* the bytes stored, oldest first
  todo,     \* the bytes a running append has still to store
  want,     \* how many bytes a running read has still to hand over
  got       \* what the last read or peek has handed over so far

fifoVars == <<content, todo, want, got>>

Quiescent == todo = <<>> /\ want = 0

FifoInit == content = <<>> /\ todo = <<>> /\ want = 0 /\ got = <<>>

Offer ==
  /\ Quiescent /\ Len(content) < Capacity
  /\ todo' \in Data /\ todo' # <<>>
  /\ UNCHANGED <<content, want, got>>

Store ==
  \E n \in 1 .. Len(todo) :
    /\ Len(content) + n <= Capacity
    /\ content' = content \o SubSeq(todo, 1, n)
    /\ todo' = SubSeq(todo, n + 1, Len(todo))
    /\ UNCHANGED <<want, got>>

Full ==
  /\ Len(content) = Capacity
  /\ todo' = <<>>
  /\ UNCHANGED <<content, want, got>>

Ask ==
  /\ Quiescent /\ content # <<>>
  /\ want' \in Nat /\ got' = <<>>
  /\ UNCHANGED <<content, todo>>

HandOver ==
  \E n \in 1 .. Len(content) :
    /\ n <= want
    /\ got' = got \o SubSeq(content, 1, n)
    /\ content' = SubSeq(content, n + 1, Len(content))
    /\ want' = want - n
    /\ UNCHANGED todo

Empty ==
  /\ content = <<>>
  /\ want' = 0
  /\ UNCHANGED <<content, todo, got>>

Look ==
  /\ Quiescent
  /\ \E n \in 1 .. Len(content) : got' = SubSeq(content, 1, n)
  /\ UNCHANGED <<content, todo, want>>

Drop ==
  /\ Quiescent
  /\ \E n \in 1 .. Len(content) : content' = SubSeq(content, n + 1, Len(content))
  /\ UNCHANGED <<todo, want, got>>

Wipe ==
  /\ Quiescent
  /\ content' = <<>>
  /\ UNCHANGED <<todo, want, got>>

FifoNext ==
  Offer \/ Store \/ Full \/ Ask \/ HandOver \/ Empty \/ Look \/ Drop \/ Wipe

FifoSpec == FifoInit /\ [][FifoNext]_fifoVars
=============================================================================
