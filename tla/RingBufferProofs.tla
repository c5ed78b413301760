-------------------------- MODULE RingBufferProofs --------------------------
(***************************************************************************)
(* RingBuffer implements ByteFifo for every capacity.  The inductive       *)
(* invariant is TypeOK with IndicesAgree; every index is below twice the   *)
(* capacity, so one subtraction computes each remainder (Wrap), and what   *)
(* is left is linear arithmetic on head, tail and size.                    *)
(***************************************************************************)
EXTENDS RingBuffer, TLAPS, SequenceTheorems

(* The two indices agree with the count, so full and empty are told apart. *)
IndicesAgree == tail = (head + size) % Capacity

(* The remainder of an index less than one turn past the end.              *)
LEMMA Wrap ==
  ASSUME NEW a \in Nat, a < 2 * Capacity
  PROVE  a % Capacity = IF a < Capacity THEN a ELSE a - Capacity
<1>0. Capacity \in Nat /\ Capacity > 0
  BY RingAssumption
<1>1. CASE a < Capacity
  BY <1>0, <1>1
<1>2. CASE a >= Capacity
  <2>1. a - Capacity \in Nat /\ a - Capacity < Capacity
    BY <1>0, <1>2
  <2>2. (a - Capacity) % Capacity = a - Capacity
    BY <1>0, <2>1
  <2>3. a % Capacity = (a - Capacity) % Capacity
    BY <1>0, <1>2
  <2> QED
    BY <1>0, <1>2, <2>2, <2>3
<1> QED
  BY <1>0, <1>1, <1>2

(* Where the i-th oldest byte is, and where the next one goes.             *)
LEMMA Slots ==
  ASSUME TypeOK, IndicesAgree
  PROVE  /\ \A i \in 1 .. Capacity :
              /\ (head + i - 1) % Capacity \in Cells
              /\ (head + i - 1) % Capacity =
                   IF head + i - 1 < Capacity THEN head + i - 1 ELSE head + i - 1 - Capacity
         /\ tail = IF head + size < Capacity THEN head + size ELSE head + size - Capacity
<1>1. Capacity \in Nat /\ Capacity > 0 /\ head \in 0 .. Capacity - 1 /\ size \in 0 .. Capacity
  BY RingAssumption DEF TypeOK, Cells
<1>2. \A i \in 1 .. Capacity : head + i - 1 \in Nat /\ head + i - 1 < 2 * Capacity
  BY <1>1
<1>3. head + size \in Nat /\ head + size < 2 * Capacity
  BY <1>1
<1> QED
  BY <1>1, <1>2, <1>3, Wrap DEF Cells, IndicesAgree

(* Contents is a sequence of size bytes.                                   *)
LEMMA ContentsType ==
  ASSUME TypeOK, IndicesAgree
  PROVE  Contents \in Seq(Byte) /\ Len(Contents) = size
<1>1. size \in Nat /\ Capacity \in Nat /\ size <= Capacity /\ buf \in [Cells -> Byte]
  BY RingAssumption DEF TypeOK
<1>2. \A i \in 1 .. size : buf[(head + i - 1) % Capacity] \in Byte
  BY <1>1, Slots
<1> QED
  BY <1>1, <1>2 DEF Contents

(* One pass of append stores the next bytes behind those already there.    *)
LEMMA StoreChunk ==
  ASSUME TypeOK, IndicesAgree, AppendChunk
  PROVE  TypeOK' /\ IndicesAgree' /\ Fifo!Store
<1> DEFINE n == Smaller(Smaller(Capacity - tail, Capacity - size), Len(todo))
<1>0. /\ Capacity \in Nat \ {0} /\ head \in 0 .. Capacity - 1 /\ tail \in 0 .. Capacity - 1
      /\ size \in 0 .. Capacity /\ todo \in Seq(Byte) /\ buf \in [Cells -> Byte]
  BY RingAssumption DEF TypeOK, Cells
<1>1. /\ todo # <<>> /\ size < Capacity
      /\ buf' = [k \in Cells |-> IF k \in tail .. tail + n - 1 THEN todo[k - tail + 1] ELSE buf[k]]
      /\ tail' = (tail + n) % Capacity /\ size' = size + n
      /\ todo' = SubSeq(todo, n + 1, Len(todo))
      /\ UNCHANGED <<head, want, got>>
  BY DEF AppendChunk
<1>2. /\ n \in Nat /\ n >= 1 /\ n <= Len(todo) /\ n <= Capacity - tail /\ n <= Capacity - size
      /\ Len(todo) \in Nat
  BY <1>0, <1>1 DEF Smaller
<1> HIDE DEF n
<1>n. Capacity \in Nat /\ Capacity > 0 /\ head \in Nat /\ tail \in Nat /\ n \in Nat
  BY <1>0, <1>2
<1>3. tail = IF head + size < Capacity THEN head + size ELSE head + size - Capacity
  BY Slots
<1>4. tail' = IF tail + n < Capacity THEN tail + n ELSE tail + n - Capacity
  <2>1. tail + n \in Nat /\ tail + n < 2 * Capacity
    BY <1>0, <1>2
  <2>2. (tail + n) % Capacity = IF tail + n < Capacity THEN tail + n ELSE tail + n - Capacity
    BY <1>n, <2>1, Wrap
  <2> QED
    BY <1>1, <2>2
<1>5. IndicesAgree'
  <2>1. size \in Nat /\ size + n \in Nat /\ head + (size + n) \in Nat /\ head + (size + n) < 2 * Capacity
    BY <1>0, <1>2
  <2>2. (head + (size + n)) % Capacity =
          IF head + (size + n) < Capacity THEN head + (size + n) ELSE head + (size + n) - Capacity
    BY <1>n, <2>1, Wrap
  <2>3. tail' = IF head + (size + n) < Capacity THEN head + (size + n)
                                                ELSE head + (size + n) - Capacity
    BY <1>0, <1>2, <1>3, <1>4
  <2> QED
    BY <1>1, <2>2, <2>3 DEF IndicesAgree
<1>6. TypeOK'
  <2>1. buf' \in [Cells -> Byte]
    BY <1>0, <1>1, <1>2 DEF Cells
  <2>2. tail' \in Cells /\ size' \in 0 .. Capacity
    BY <1>0, <1>1, <1>2, <1>4 DEF Cells
  <2>3. todo' \in Seq(Byte)
    BY <1>0, <1>1, <1>2
  <2> QED
    BY <1>1, <2>1, <2>2, <2>3 DEF TypeOK
<1>7. Contents' = Contents \o SubSeq(todo, 1, n)
  <2> DEFINE s == SubSeq(todo, 1, n)
  <2>1. s \in Seq(Byte) /\ Len(s) = n /\ \A i \in 1 .. n : s[i] = todo[i]
    BY <1>0, <1>2
  <2>2. Contents \in Seq(Byte) /\ Len(Contents) = size
    BY ContentsType
  <2>3. Contents' \in Seq(Byte) /\ Len(Contents') = size + n
    <3>1. (Contents \in Seq(Byte) /\ Len(Contents) = size)'
      BY <1>5, <1>6, ContentsType, PTL
    <3> QED
      BY <1>1, <3>1
  <2>4. \A i \in 1 .. size : Contents'[i] = Contents[i]
    <3> SUFFICES ASSUME NEW i \in 1 .. size PROVE Contents'[i] = Contents[i]
      OBVIOUS
    <3> DEFINE p == (head + i - 1) % Capacity
    <3>1. Contents[i] = buf[p] /\ Contents'[i] = buf'[p]
      BY <1>0, <1>1, <1>2 DEF Contents
    <3>2. p \in Cells /\ p = IF head + i - 1 < Capacity THEN head + i - 1 ELSE head + i - 1 - Capacity
      <4>1. i \in 1 .. Capacity
        BY <1>0
      <4> QED
        BY <4>1, Slots
    <3> HIDE DEF p
    <3>3. p \notin tail .. tail + n - 1
      BY <1>0, <1>2, <1>3, <3>2
    <3> QED
      BY <1>1, <3>1, <3>2, <3>3
  <2>5. \A i \in 1 .. n : Contents'[size + i] = todo[i]
    <3> SUFFICES ASSUME NEW i \in 1 .. n PROVE Contents'[size + i] = todo[i]
      OBVIOUS
    <3> DEFINE p == (head + (size + i) - 1) % Capacity
    <3>1. Contents'[size + i] = buf'[p]
      BY <1>0, <1>1, <1>2 DEF Contents
    <3>2. p \in Cells /\ p = IF head + (size + i) - 1 < Capacity THEN head + (size + i) - 1
                                                   ELSE head + (size + i) - 1 - Capacity
      <4>1. size + i \in 1 .. Capacity
        BY <1>0, <1>2
      <4> QED
        BY <4>1, Slots
    <3> HIDE DEF p
    <3>3. p = tail + i - 1
      BY <1>0, <1>2, <1>3, <3>2
    <3>4. p \in tail .. tail + n - 1 /\ p - tail + 1 = i
      BY <1>0, <1>2, <3>3
    <3> QED
      BY <1>1, <3>1, <3>2, <3>4
  <2> HIDE DEF s
  <2>6. Contents \o s \in Seq(Byte) /\ Len(Contents \o s) = size + n
    BY <2>1, <2>2
  <2>7. \A i \in 1 .. size + n : Contents'[i] = (Contents \o s)[i]
    <3> SUFFICES ASSUME NEW i \in 1 .. size + n PROVE Contents'[i] = (Contents \o s)[i]
      OBVIOUS
    <3>1. (Contents \o s)[i] = IF i <= size THEN Contents[i] ELSE s[i - size]
      BY <2>1, <2>2, ConcatProperties
    <3>2. CASE i <= size
      <4>1. i \in 1 .. size
        BY <3>2
      <4> QED
        BY <2>4, <3>1, <3>2, <4>1
    <3>3. CASE ~(i <= size)
      <4>1. i - size \in 1 .. n /\ i = size + (i - size)
        BY <1>0, <1>2, <3>3
      <4> QED
        BY <2>1, <2>5, <3>1, <3>3, <4>1
    <3> QED
      BY <3>2, <3>3
  <2>8. Contents' = Contents \o s
    BY <2>3, <2>6, <2>7, SeqEqual
  <2> QED
    BY <2>8 DEF s
<1>8. Len(Contents) = size
  BY ContentsType
<1>9. n \in 1 .. Len(todo) /\ Len(Contents) + n <= Capacity
  BY <1>0, <1>2, <1>8
<1>10. Fifo!Store
  BY <1>1, <1>7, <1>9 DEF Fifo!Store
<1> QED
  BY <1>5, <1>6, <1>10

(* Consuming n bytes, with a copy (read) or without (discard).             *)
LEMMA Consume ==
  ASSUME TypeOK, IndicesAgree, NEW n \in 1 .. size,
         head' = (head + n) % Capacity, size' = size - n, UNCHANGED <<buf, tail>>
  PROVE  /\ head' \in Cells /\ size' \in 0 .. Capacity
         /\ IndicesAgree'
         /\ Contents' = SubSeq(Contents, n + 1, Len(Contents))
<1>0. /\ Capacity \in Nat /\ Capacity > 0 /\ head \in Nat /\ head < Capacity /\ size \in Nat
      /\ size <= Capacity /\ n \in Nat /\ n >= 1 /\ n <= size
  BY RingAssumption DEF TypeOK, Cells
<1>1. head' = IF head + n < Capacity THEN head + n ELSE head + n - Capacity
  <2>1. head + n \in Nat /\ head + n < 2 * Capacity
    BY <1>0
  <2> QED
    BY <1>0, <2>1, Wrap
<1>2. head' \in Nat /\ head' < Capacity /\ head' \in Cells /\ size' \in 0 .. Capacity
  BY <1>0, <1>1 DEF Cells
<1>3. tail = IF head + size < Capacity THEN head + size ELSE head + size - Capacity
  BY Slots
<1>4. IndicesAgree'
  <2> DEFINE g == IF head + n < Capacity THEN head + n ELSE head + n - Capacity
  <2>1. g \in Nat /\ size - n \in Nat /\ g + (size - n) \in Nat /\ g + (size - n) < 2 * Capacity
    BY <1>0
  <2>2. tail = IF g + (size - n) < Capacity THEN g + (size - n) ELSE g + (size - n) - Capacity
    BY <1>0, <1>3
  <2>3. head' = g
    BY <1>1
  <2> HIDE DEF g
  <2>4. (g + (size - n)) % Capacity =
          IF g + (size - n) < Capacity THEN g + (size - n) ELSE g + (size - n) - Capacity
    BY <1>0, <2>1, Wrap
  <2> QED
    BY <2>2, <2>3, <2>4 DEF IndicesAgree
<1>5. Contents \in Seq(Byte) /\ Len(Contents) = size
  BY ContentsType
<1>6. TypeOK' => Contents' \in Seq(Byte)
  <2>1. (TypeOK /\ IndicesAgree => Contents \in Seq(Byte))'
    BY ContentsType, PTL
  <2> QED
    BY <1>4, <2>1
<1>7. Contents' = SubSeq(Contents, n + 1, Len(Contents))
  <2>1. /\ SubSeq(Contents, n + 1, size) = [i \in 1 .. size - n |-> Contents[i + n]]
    BY <1>0, <1>5
  <2>2. Contents' = [i \in 1 .. size - n |-> buf[(head' + i - 1) % Capacity]]
    BY DEF Contents
  <2>3. \A i \in 1 .. size - n : Contents[i + n] = buf[(head' + i - 1) % Capacity]
    <3> SUFFICES ASSUME NEW i \in 1 .. size - n
                 PROVE  Contents[i + n] = buf[(head' + i - 1) % Capacity]
      OBVIOUS
    <3>1. i + n \in 1 .. size /\ i + n \in 1 .. Capacity
      BY <1>0
    <3>2. Contents[i + n] = buf[(head + (i + n) - 1) % Capacity]
      BY <3>1 DEF Contents
    <3>3. (head + (i + n) - 1) % Capacity =
            IF head + (i + n) - 1 < Capacity THEN head + (i + n) - 1 ELSE head + (i + n) - 1 - Capacity
      BY <3>1, Slots
    <3> DEFINE g == IF head + n < Capacity THEN head + n ELSE head + n - Capacity
    <3>4. head' = g
      BY <1>1
    <3>5. g + i - 1 \in Nat /\ g + i - 1 < 2 * Capacity /\ g \in Nat
      BY <1>0
    <3>6. (IF g + i - 1 < Capacity THEN g + i - 1 ELSE g + i - 1 - Capacity) =
            IF head + (i + n) - 1 < Capacity THEN head + (i + n) - 1 ELSE head + (i + n) - 1 - Capacity
      BY <1>0
    <3> HIDE DEF g
    <3>7. (g + i - 1) % Capacity = IF g + i - 1 < Capacity THEN g + i - 1 ELSE g + i - 1 - Capacity
      BY <1>0, <3>5, Wrap
    <3> QED
      BY <3>2, <3>3, <3>4, <3>6, <3>7
  <2> QED
    BY <1>5, <2>1, <2>2, <2>3
<1> QED
  BY <1>2, <1>4, <1>7

(* The oldest n bytes, in one piece or two.                                *)
LEMMA Oldest ==
  ASSUME TypeOK, IndicesAgree, NEW n \in 1 .. size
  PROVE  /\ SubSeq(Contents, 1, n) = [i \in 1 .. n |-> buf[(head + i - 1) % Capacity]]
         /\ SubSeq(Contents, 1, n) \in Seq(Byte)
<1>1. Contents \in Seq(Byte) /\ Len(Contents) = size /\ size \in Nat
  BY ContentsType DEF TypeOK
<1>2. SubSeq(Contents, 1, n) = [i \in 1 .. n |-> Contents[i]] /\ SubSeq(Contents, 1, n) \in Seq(Byte)
  BY <1>1
<1>3. \A i \in 1 .. n : Contents[i] = buf[(head + i - 1) % Capacity]
  BY <1>1 DEF Contents
<1> QED
  BY <1>2, <1>3

(* One pass of read hands over the oldest bytes.                           *)
LEMMA HandOverChunk ==
  ASSUME TypeOK, IndicesAgree, ReadChunk
  PROVE  TypeOK' /\ IndicesAgree' /\ Fifo!HandOver
<1> DEFINE n == Smaller(Smaller(Capacity - head, size), want)
<1>0. /\ Capacity \in Nat /\ head \in Nat /\ head < Capacity /\ size \in Nat /\ want \in Nat
      /\ got \in Seq(Byte) /\ size <= Capacity
  BY RingAssumption DEF TypeOK, Cells
<1>1. /\ want > 0 /\ size > 0
      /\ got' = got \o [i \in 1 .. n |-> buf[head + i - 1]]
      /\ head' = (head + n) % Capacity /\ size' = size - n /\ want' = want - n
      /\ UNCHANGED <<buf, tail, todo>>
  BY DEF ReadChunk
<1>2. n \in 1 .. size /\ n <= want /\ head + n <= Capacity /\ n \in Nat
  BY <1>0, <1>1 DEF Smaller
<1> HIDE DEF n
<1>3. /\ head' \in Cells /\ size' \in 0 .. Capacity /\ IndicesAgree'
      /\ Contents' = SubSeq(Contents, n + 1, Len(Contents))
  BY <1>1, <1>2, Consume
<1>4. [i \in 1 .. n |-> buf[head + i - 1]] = SubSeq(Contents, 1, n)
  <2>1. \A i \in 1 .. n : i \in 1 .. Capacity /\ head + i - 1 < Capacity
    BY <1>0, <1>2
  <2>2. \A i \in 1 .. n : (head + i - 1) % Capacity = head + i - 1
    BY <2>1, Slots
  <2> QED
    BY <1>2, <2>2, Oldest
<1>5. TypeOK'
  <2>1. got' \in Seq(Byte)
    BY <1>0, <1>1, <1>2, <1>4, Oldest, ConcatProperties
  <2>2. want' \in Nat
    BY <1>0, <1>1, <1>2
  <2> QED
    BY <1>1, <1>3, <2>1, <2>2 DEF TypeOK
<1>6. n \in 1 .. Len(Contents)
  BY <1>2, ContentsType
<1>7. Fifo!HandOver
  BY <1>1, <1>2, <1>3, <1>4, <1>6 DEF Fifo!HandOver
<1> QED
  BY <1>3, <1>5, <1>7

(* peek copies the oldest bytes, in one piece or two.                      *)
LEMMA LookAhead ==
  ASSUME TypeOK, IndicesAgree, NEW len \in Lengths, Peek(len)
  PROVE  TypeOK' /\ IndicesAgree' /\ Fifo!Look
<1> DEFINE f == Smaller(Smaller(Capacity - head, size), len)
           h == (head + f) % Capacity
<1>0. /\ Capacity \in Nat /\ Capacity > 0 /\ head \in Nat /\ head < Capacity /\ size \in Nat
      /\ size <= Capacity /\ len \in Nat /\ len >= 1
  BY RingAssumption DEF TypeOK, Cells, Lengths
<1>1. /\ NoCall /\ len <= size
      /\ got' = [i \in 1 .. len |-> IF i <= f THEN buf[head + i - 1] ELSE buf[h + i - f - 1]]
      /\ UNCHANGED <<buf, head, tail, size, todo, want>>
  BY DEF Peek, ring
<1>2. /\ f \in Nat /\ f >= 1 /\ head + f <= Capacity /\ (f = len \/ head + f = Capacity \/ f = size)
      /\ f <= len
  BY <1>0, <1>1 DEF Smaller
<1>3. h = IF head + f < Capacity THEN head + f ELSE head + f - Capacity
  <2> HIDE DEF f
  <2>1. head + f \in Nat /\ head + f < 2 * Capacity
    BY <1>0, <1>2
  <2> QED
    BY <1>0, <1>2, <2>1, Wrap
<1> HIDE DEF f, h
<1>4. len \in 1 .. size
  BY <1>0, <1>1
<1>5. \A i \in 1 .. len :
        (IF i <= f THEN buf[head + i - 1] ELSE buf[h + i - f - 1]) = buf[(head + i - 1) % Capacity]
  <2> SUFFICES ASSUME NEW i \in 1 .. len
               PROVE  (IF i <= f THEN head + i - 1 ELSE h + i - f - 1) = (head + i - 1) % Capacity
    OBVIOUS
  <2>1. i \in 1 .. Capacity
    BY <1>0, <1>1
  <2>2. (head + i - 1) % Capacity = IF head + i - 1 < Capacity THEN head + i - 1
                                                          ELSE head + i - 1 - Capacity
    BY <2>1, Slots
  <2> QED
    BY <1>0, <1>1, <1>2, <1>3, <2>2
<1>6. got' = SubSeq(Contents, 1, len) /\ got' \in Seq(Byte)
  BY <1>1, <1>4, <1>5, Oldest
<1>7. Contents' = Contents /\ Len(Contents) = size
  BY <1>1, ContentsType DEF Contents
<1>8. Fifo!Look
  BY <1>1, <1>4, <1>6, <1>7 DEF Fifo!Look, Fifo!Quiescent, NoCall
<1> QED
  BY <1>1, <1>6, <1>8 DEF TypeOK, IndicesAgree

(* Clear forgets the bytes and the place they were at.                     *)
LEMMA WipeOut ==
  ASSUME TypeOK, IndicesAgree, Clear
  PROVE  TypeOK' /\ IndicesAgree' /\ Fifo!Wipe
<1>0. Capacity \in Nat /\ Capacity > 0
  BY RingAssumption
<1>1. head' = 0 /\ tail' = 0 /\ size' = 0 /\ NoCall /\ UNCHANGED <<buf, todo, want, got>>
  BY DEF Clear
<1>2. 0 % Capacity = 0
  <2>1. 0 < 2 * Capacity
    BY <1>0
  <2> QED
    BY <1>0, <2>1, Wrap
<1>3. IndicesAgree'
  BY <1>1, <1>2 DEF IndicesAgree
<1>4. TypeOK'
  BY <1>0, <1>1 DEF TypeOK, Cells
<1>5. Contents' = <<>>
  BY <1>1 DEF Contents
<1> QED
  BY <1>1, <1>3, <1>4, <1>5 DEF Fifo!Wipe, Fifo!Quiescent, NoCall

(* Every step keeps the indices in agreement and is a step of the FIFO.    *)
LEMMA StepIsFifo ==
  ASSUME TypeOK, IndicesAgree, [Next]_vars
  PROVE  TypeOK' /\ IndicesAgree' /\ [Fifo!FifoNext]_(Fifo!fifoVars)
<1> USE DEF Fifo!FifoNext
<1>0. Len(Contents) = size /\ Contents \in Seq(Byte) /\ size \in Nat /\ Data \subseteq Seq(Byte)
  BY ContentsType, RingAssumption DEF TypeOK
<1>1. ASSUME UNCHANGED ring PROVE Contents' = Contents /\ IndicesAgree'
  BY <1>1 DEF ring, Contents, IndicesAgree
<1>2. CASE CallAppend
  <2>1. NoCall /\ size < Capacity /\ todo' \in Data /\ todo' # <<>> /\ UNCHANGED <<ring, want, got>>
    BY <1>2 DEF CallAppend
  <2>2. TypeOK'
    BY <1>0, <2>1 DEF TypeOK, ring
  <2>3. Fifo!Offer
    BY <1>0, <1>1, <2>1 DEF Fifo!Offer, Fifo!Quiescent, NoCall
  <2> QED
    BY <1>1, <2>1, <2>2, <2>3
<1>3. CASE AppendFull
  <2>1. size = Capacity /\ todo' = <<>> /\ UNCHANGED <<ring, want, got>>
    BY <1>3 DEF AppendFull
  <2>2. TypeOK'
    BY <2>1 DEF TypeOK, ring
  <2> QED
    BY <1>0, <1>1, <2>1, <2>2 DEF Fifo!Full
<1>4. CASE ReadEmpty
  <2>1. size = 0 /\ want' = 0 /\ UNCHANGED <<ring, todo, got>>
    BY <1>4 DEF ReadEmpty
  <2>2. TypeOK'
    BY <2>1 DEF TypeOK, ring
  <2>3. Contents = <<>>
    BY <1>0, <2>1
  <2> QED
    BY <1>1, <2>1, <2>2, <2>3 DEF Fifo!Empty
<1>5. ASSUME NEW len \in Lengths, CallRead(len) PROVE TypeOK' /\ IndicesAgree' /\ Fifo!Ask
  <2>1. NoCall /\ size > 0 /\ want' = len /\ got' = <<>> /\ UNCHANGED <<ring, todo>> /\ len \in Nat
    BY <1>5, RingAssumption DEF CallRead, Lengths
  <2>2. TypeOK'
    BY <2>1 DEF TypeOK, ring
  <2>3. Contents # <<>>
    BY <1>0, <2>1
  <2> QED
    BY <1>1, <2>1, <2>2, <2>3 DEF Fifo!Ask, Fifo!Quiescent, NoCall
<1>6. ASSUME NEW len \in Lengths, Discard(len) PROVE TypeOK' /\ IndicesAgree' /\ Fifo!Drop
  <2>1. /\ NoCall /\ head' = (head + len) % Capacity /\ size' = size - len /\ len \in 1 .. size
        /\ UNCHANGED <<buf, tail, todo, want, got>>
    BY <1>0, <1>6, RingAssumption DEF Discard, Lengths
  <2>2. /\ head' \in Cells /\ size' \in 0 .. Capacity /\ IndicesAgree'
        /\ Contents' = SubSeq(Contents, len + 1, Len(Contents))
    BY <2>1, Consume
  <2> QED
    BY <1>0, <2>1, <2>2 DEF TypeOK, Fifo!Drop, Fifo!Quiescent, NoCall
<1>7. CASE UNCHANGED vars
  <2>1. UNCHANGED ring /\ UNCHANGED <<todo, want, got>>
    BY <1>7 DEF vars, ring
  <2> QED
    BY <1>1, <2>1 DEF TypeOK, ring, Fifo!fifoVars
<1>8. CASE AppendChunk \/ ReadChunk \/ Clear
  BY <1>8, StoreChunk, HandOverChunk, WipeOut
<1> QED
  BY <1>2, <1>3, <1>4, <1>5, <1>6, <1>7, <1>8, LookAhead DEF Next

(* A new ring is an empty buffer.                                          *)
LEMMA InitIsFifo == Init => TypeOK /\ IndicesAgree /\ Fifo!FifoInit
<1> SUFFICES ASSUME Init PROVE TypeOK /\ IndicesAgree /\ Fifo!FifoInit
  OBVIOUS
<1>0. Capacity \in Nat /\ Capacity > 0 /\ 0 \in Byte
  BY RingAssumption
<1>1. (0 + 0) % Capacity = 0
  <2>1. 0 < 2 * Capacity
    BY <1>0
  <2>2. 0 % Capacity = 0
    BY <1>0, <2>1, Wrap
  <2> QED
    BY <2>2
<1>2. TypeOK /\ IndicesAgree
  BY <1>0, <1>1 DEF Init, TypeOK, IndicesAgree, Cells
<1>3. Contents = <<>>
  BY DEF Init, Contents
<1> QED
  BY <1>2, <1>3 DEF Init, Fifo!FifoInit

(* The ring's indices stay inside the vector and agree with its count,     *)
(* for every capacity and every sequence of calls (RingBuffer.h).          *)
THEOREM RingSafe == Spec => [](TypeOK /\ IndicesAgree)
<1>1. TypeOK /\ IndicesAgree /\ [Next]_vars => (TypeOK /\ IndicesAgree)'
  BY StepIsFifo
<1> QED
  BY <1>1, InitIsFifo, PTL DEF Spec

(* RingBuffer implements a first-in first-out buffer of its capacity:      *)
(* append, read, peek and discard do to the stored bytes, in order, what   *)
(* their comments in RingBuffer.h say.                                     *)
THEOREM RingIsFifo == Spec => IsFifo
<1>1. TypeOK /\ IndicesAgree /\ [Next]_vars => [Fifo!FifoNext]_(Fifo!fifoVars)
  BY StepIsFifo
<1> QED
  BY <1>1, InitIsFifo, RingSafe, PTL DEF Spec, IsFifo, Fifo!FifoSpec
=============================================================================
