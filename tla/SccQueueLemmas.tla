---------------------------- MODULE SccQueueLemmas ----------------------------
(***************************************************************************)
(* What the functions of SccQueue.cpp do to a coherent queue, for every    *)
(* capacity and every set of bytes.                                        *)
(***************************************************************************)
EXTENDS SccQueue, SequenceTheorems, TLAPS

(* In a coherent queue the two tests of fullness and of emptiness agree.   *)
LEMMA StatusOfCoherent ==
  ASSUME NEW q \in CirQueue, Coherent(q)
  PROVE  /\ GetQueueStatus(q) = "queueFull" <=> FreeSpaceinQueue(q) = 0
         /\ GetQueueStatus(q) = "queueEmpty" <=> UsedSpaceinQueue(q) = 0
  BY QueueAssumption
     DEF CirQueue, Coherent, GetQueueStatus, FreeSpaceinQueue,
         UsedSpaceinQueue, Position, Minus32, UInt32, Offset

(* A position counted from LastChar is inside the buffer.                  *)
LEMMA PositionInBuffer ==
  ASSUME NEW q \in CirQueue, NEW i \in 0 .. q.Size - 1
  PROVE  Position(q, i) \in Offset
  BY QueueAssumption DEF CirQueue, Position, Offset

LEMMA InitIsCoherent == InitQueue \in CirQueue /\ Coherent(InitQueue)
  BY QueueAssumption
     DEF InitQueue, CirQueue, Coherent, Position, UInt32, Offset

LEMMA ResetIsCoherent ==
  ASSUME NEW q \in CirQueue
  PROVE  ResetQueue(q) \in CirQueue /\ Coherent(ResetQueue(q))
<1>1. 0 \in Offset /\ 0 \in UInt32
  BY QueueAssumption DEF Offset, UInt32
<1>2. ResetQueue(q) \in CirQueue
  BY <1>1 DEF ResetQueue, CirQueue
<1>3. Coherent(ResetQueue(q))
  BY QueueAssumption DEF ResetQueue, CirQueue, Coherent, Position
<1> QED
  BY <1>2, <1>3

(* AddBytetoQueue stores the byte behind the last one, unless the queue is *)
(* full.                                                                   *)
LEMMA AddByteStores ==
  ASSUME NEW q \in CirQueue, Coherent(q), NEW b \in Byte, q.InQueue < q.Size
  PROVE  LET r == AddBytetoQueue(q, b)
         IN  /\ r \in CirQueue
             /\ r.LastChar = q.LastChar
             /\ r.InQueue = q.InQueue + 1
             /\ r.NextChar = Position(q, q.InQueue + 1)
             /\ r.mem = [q.mem EXCEPT ![q.NextChar] = b]
<1> DEFINE next == Wrapped(q, q.NextChar + 1)
<1>0. q.mem \in [Offset -> Byte \cup {Garbage}]
  BY DEF CirQueue
<1>1. /\ q.NextChar \in Offset
      /\ q.LastChar \in Offset
      /\ q.Size = kMaxCirBufferSize
      /\ q.InQueue \in UInt32
      /\ q.NextChar = Position(q, q.InQueue)
  BY DEF CirQueue, Coherent
<1>2. GetQueueStatus(q) # "queueFull"
  BY StatusOfCoherent, <1>1, QueueAssumption
     DEF FreeSpaceinQueue, Minus32, UInt32
<1>3. Increment32(q.InQueue) = q.InQueue + 1 /\ q.InQueue + 1 \in UInt32
  BY <1>1, QueueAssumption DEF Increment32, UInt32
<1>4. next = Position(q, q.InQueue + 1) /\ next \in Offset
  BY <1>1, QueueAssumption DEF Wrapped, Position, UInt32, Offset
<1>5. AddBytetoQueue(q, b) =
        [q EXCEPT !.mem      = [q.mem EXCEPT ![q.NextChar] = b],
                  !.NextChar = next,
                  !.InQueue  = q.InQueue + 1]
  BY <1>2, <1>3 DEF AddBytetoQueue
<1>6. [q.mem EXCEPT ![q.NextChar] = b] \in [Offset -> Byte \cup {Garbage}]
  BY <1>0
<1> HIDE DEF next
<1>7. AddBytetoQueue(q, b) \in CirQueue
  BY <1>3, <1>4, <1>5, <1>6 DEF CirQueue
<1> QED
  BY <1>4, <1>5, <1>7 DEF CirQueue

LEMMA AddByteRefused ==
  ASSUME NEW q \in CirQueue, Coherent(q), NEW b \in Byte, ~(q.InQueue < q.Size)
  PROVE  AddBytetoQueue(q, b) = q
  BY QueueAssumption
     DEF AddBytetoQueue, GetQueueStatus, CirQueue, Coherent, Position,
         UInt32, Offset

(* The contents of a coherent queue are a sequence of InQueue bytes.       *)
LEMMA ContentsIsSeq ==
  ASSUME NEW q \in CirQueue, Coherent(q)
  PROVE  /\ Contents(q) \in Seq(Byte)
         /\ Len(Contents(q)) = q.InQueue
         /\ q.InQueue \in Nat
         /\ \A i \in 1 .. q.InQueue : Contents(q)[i] = q.mem[Position(q, i - 1)]
<1>1. q.InQueue \in Nat
  BY QueueAssumption DEF CirQueue, UInt32
<1>2. Contents(q) = [i \in 1 .. q.InQueue |-> q.mem[Position(q, i - 1)]]
  BY DEF Contents
<1>3. Contents(q) \in [1 .. q.InQueue -> Byte]
  BY <1>2 DEF Coherent
<1>4. Contents(q) \in Seq(Byte)
  BY <1>1, <1>3
<1>5. Len(Contents(q)) = q.InQueue
  BY <1>1, <1>3
<1> QED
  BY <1>1, <1>2, <1>4, <1>5

(* AddBytetoQueue keeps the queue coherent and appends to its contents.    *)
LEMMA AddByteAppends ==
  ASSUME NEW q \in CirQueue, Coherent(q), NEW b \in Byte, q.InQueue < q.Size
  PROVE  LET r == AddBytetoQueue(q, b)
         IN  /\ r \in CirQueue
             /\ Coherent(r)
             /\ Contents(r) = Append(Contents(q), b)
<1> DEFINE r == AddBytetoQueue(q, b)
           n == q.InQueue
<1>1. /\ r \in CirQueue
      /\ r.LastChar = q.LastChar
      /\ r.InQueue = n + 1
      /\ r.NextChar = Position(q, n + 1)
      /\ r.mem = [q.mem EXCEPT ![q.NextChar] = b]
  BY AddByteStores
<1>2. /\ q.NextChar = Position(q, n)
      /\ q.LastChar \in Offset
      /\ q.Size = kMaxCirBufferSize
      /\ r.Size = kMaxCirBufferSize
      /\ n \in Nat
  BY <1>1, ContentsIsSeq DEF CirQueue, Coherent
<1> HIDE DEF r
<1>3. \A i \in 0 .. n + 1 : Position(r, i) = Position(q, i)
  BY <1>1, <1>2 DEF Position
<1>4. \A i \in 1 .. n : Position(q, i - 1) # q.NextChar
  BY <1>2, QueueAssumption DEF Position, Offset
<1>5. ASSUME NEW i \in 0 .. n
      PROVE  Position(q, i) \in Offset
  <2>1. i \in 0 .. q.Size - 1
    BY <1>2, QueueAssumption
  <2> QED
    BY <2>1, PositionInBuffer
<1>6. \A i \in 1 .. n : r.mem[Position(r, i - 1)] = q.mem[Position(q, i - 1)]
  BY <1>1, <1>2, <1>3, <1>4, <1>5 DEF CirQueue
<1>7. r.mem[Position(r, n)] = b
  BY <1>1, <1>2, <1>3, <1>5 DEF CirQueue
<1>8. \A i \in 1 .. n + 1 : r.mem[Position(r, i - 1)] \in Byte
  <2> TAKE i \in 1 .. n + 1
  <2>1. CASE i = n + 1
    BY <2>1, <1>2, <1>7
  <2>2. CASE i # n + 1
    BY <2>2, <1>2, <1>6 DEF Coherent
  <2> QED
    BY <2>1, <2>2
<1>9. Coherent(r)
  <2>1. r.InQueue <= r.Size
    BY <1>1, <1>2, QueueAssumption
  <2>2. r.NextChar = Position(r, r.InQueue)
    BY <1>1, <1>2, <1>3
  <2> QED
    BY <1>1, <1>8, <2>1, <2>2 DEF Coherent
<1>10. Contents(r) = Append(Contents(q), b)
  <2>1. /\ Contents(r) \in Seq(Byte)
        /\ Len(Contents(r)) = n + 1
        /\ \A i \in 1 .. n + 1 : Contents(r)[i] = r.mem[Position(r, i - 1)]
    BY <1>1, <1>9, ContentsIsSeq
  <2>2. /\ Contents(q) \in Seq(Byte)
        /\ Len(Contents(q)) = n
        /\ \A i \in 1 .. n : Contents(q)[i] = q.mem[Position(q, i - 1)]
    BY ContentsIsSeq
  <2>3. /\ Append(Contents(q), b) \in Seq(Byte)
        /\ Len(Append(Contents(q), b)) = n + 1
        /\ \A i \in 1 .. n : Append(Contents(q), b)[i] = Contents(q)[i]
        /\ Append(Contents(q), b)[n + 1] = b
    BY <2>2, AppendProperties
  <2>4. ASSUME NEW i \in 1 .. n + 1
        PROVE  Contents(r)[i] = Append(Contents(q), b)[i]
    <3>1. CASE i = n + 1
      BY <3>1, <1>2, <1>7, <2>1, <2>3
    <3>2. CASE i # n + 1
      BY <3>2, <1>2, <1>6, <2>1, <2>2, <2>3
    <3> QED
      BY <3>1, <3>2
  <2> QED
    BY <2>1, <2>3, <2>4, SeqEqual
<1> QED
  BY <1>1, <1>9, <1>10 DEF r

(* Moving LastChar past the n oldest bytes and counting them off leaves a  *)
(* coherent queue with the other bytes.                                    *)
LEMMA DroppingTheOldest ==
  ASSUME NEW q \in CirQueue, Coherent(q), NEW n \in 0 .. q.InQueue,
         NEW r \in CirQueue,
         r.mem = q.mem, r.NextChar = q.NextChar,
         r.LastChar = Position(q, n), r.InQueue = q.InQueue - n
  PROVE  /\ Coherent(r)
         /\ Contents(r) = SubSeq(Contents(q), n + 1, Len(Contents(q)))
<1> DEFINE m == q.InQueue
<1>1. /\ q.NextChar = Position(q, m)
      /\ q.LastChar \in Offset
      /\ q.Size = kMaxCirBufferSize
      /\ r.Size = kMaxCirBufferSize
      /\ m \in Nat
      /\ m <= kMaxCirBufferSize
      /\ r.InQueue = m - n
  BY ContentsIsSeq DEF CirQueue, Coherent
<1> HIDE DEF m
<1>2. \A i \in 0 .. m - n : i < kMaxCirBufferSize => Position(r, i) = Position(q, n + i)
  BY <1>1, QueueAssumption DEF Position, Offset, m
<1>3. r.NextChar = Position(r, m - n)
  BY <1>1, QueueAssumption DEF Position, Offset, m
<1>4. \A i \in 1 .. m - n : r.mem[Position(r, i - 1)] = q.mem[Position(q, n + i - 1)]
  <2> TAKE i \in 1 .. m - n
  <2>1. n \in Nat /\ n <= m
    BY <1>1 DEF m
  <2>2. i - 1 \in 0 .. m - n /\ i - 1 < kMaxCirBufferSize /\ n + (i - 1) = n + i - 1
    BY <1>1, <2>1, QueueAssumption
  <2> QED
    BY <1>2, <2>2
<1>5. \A i \in 1 .. m - n : n + i \in 1 .. m /\ q.mem[Position(q, n + i - 1)] \in Byte
  BY <1>1 DEF Coherent, m
<1>6. Coherent(r)
  <2>1. n \in Nat /\ n <= m
    BY <1>1 DEF m
  <2>2. r.InQueue <= r.Size /\ r.NextChar = Position(r, r.InQueue)
    BY <1>1, <1>3, <2>1, QueueAssumption
  <2>3. \A i \in 1 .. r.InQueue : r.mem[Position(r, i - 1)] \in Byte
    BY <1>1, <1>4, <1>5
  <2> QED
    BY <2>2, <2>3 DEF Coherent
<1>7. /\ Contents(r) \in Seq(Byte)
      /\ Len(Contents(r)) = m - n
      /\ \A i \in 1 .. m - n : Contents(r)[i] = r.mem[Position(r, i - 1)]
  BY <1>1, <1>6, ContentsIsSeq
<1>8. /\ Contents(q) \in Seq(Byte)
      /\ Len(Contents(q)) = m
      /\ \A i \in 1 .. m : Contents(q)[i] = q.mem[Position(q, i - 1)]
  BY ContentsIsSeq DEF m
<1> DEFINE s == SubSeq(Contents(q), n + 1, m)
<1>9. /\ s \in Seq(Byte)
      /\ Len(s) = m - n
      /\ \A i \in 1 .. m - n : s[i] = Contents(q)[n + i]
  <2>1. \A i \in n + 1 .. m : Contents(q)[i] \in Byte
    BY <1>1, <1>8 DEF Coherent, m
  <2>2. /\ s \in Seq(Byte)
        /\ Len(s) = IF n + 1 <= m THEN m - (n + 1) + 1 ELSE 0
        /\ \A i \in 1 .. m - (n + 1) + 1 : s[i] = Contents(q)[n + 1 + i - 1]
    BY <1>1, <2>1, SubSeqProperties
  <2>3. n \in Nat /\ n <= m
    BY <1>1 DEF m
  <2> HIDE DEF s
  <2>4. Len(s) = m - n
    BY <1>1, <2>2, <2>3
  <2>5. ASSUME NEW i \in 1 .. m - n
        PROVE  s[i] = Contents(q)[n + i]
    BY <1>1, <2>2, <2>3
  <2> QED
    BY <2>2, <2>4, <2>5
<1> HIDE DEF s
<1>10. \A i \in 1 .. m - n : Contents(r)[i] = s[i]
  <2> TAKE i \in 1 .. m - n
  <2>1. Contents(r)[i] = q.mem[Position(q, n + i - 1)]
    BY <1>4, <1>7
  <2>2. Contents(q)[n + i] = q.mem[Position(q, n + i - 1)]
    BY <1>5, <1>8
  <2> QED
    BY <1>9, <2>1, <2>2
<1>11. Contents(r) = s
  BY <1>7, <1>9, <1>10, SeqEqual
<1> QED
  BY <1>6, <1>8, <1>11 DEF s

(* GetBytetoQueue takes the oldest byte of a queue that has one.           *)
LEMMA GetByteTakesOldest ==
  ASSUME NEW q \in CirQueue, Coherent(q), q.InQueue # 0
  PROVE  LET r == GetBytetoQueue(q)
         IN  /\ r \in CirQueue
             /\ Coherent(r)
             /\ r.InQueue = q.InQueue - 1
             /\ GotByte(q) \in Byte
             /\ GotByte(q) = Contents(q)[1]
             /\ Contents(r) = SubSeq(Contents(q), 2, Len(Contents(q)))
<1> DEFINE r == GetBytetoQueue(q)
<1>1. /\ q.LastChar \in Offset
      /\ q.Size = kMaxCirBufferSize
      /\ q.InQueue \in UInt32
      /\ q.InQueue \in 1 .. kMaxCirBufferSize
  BY QueueAssumption DEF CirQueue, Coherent, UInt32
<1>2. GetQueueStatus(q) # "queueEmpty"
  BY StatusOfCoherent DEF UsedSpaceinQueue
<1>3. Decrement32(q.InQueue) = q.InQueue - 1 /\ q.InQueue - 1 \in UInt32
  BY <1>1, QueueAssumption DEF Decrement32, UInt32
<1>4. /\ Wrapped(q, q.LastChar + 1) = Position(q, 1)
      /\ Position(q, 1) \in Offset
      /\ Position(q, 0) = q.LastChar
  BY <1>1, QueueAssumption DEF Wrapped, Position, Offset
<1>5. r = [q EXCEPT !.LastChar = Position(q, 1), !.InQueue = q.InQueue - 1]
  BY <1>2, <1>3, <1>4 DEF GetBytetoQueue
<1> HIDE DEF r
<1>6. r \in CirQueue
  BY <1>3, <1>4, <1>5 DEF CirQueue
<1>7. /\ r.mem = q.mem
      /\ r.NextChar = q.NextChar
      /\ r.LastChar = Position(q, 1)
      /\ r.InQueue = q.InQueue - 1
  BY <1>5 DEF CirQueue
<1>8. 1 \in 0 .. q.InQueue
  BY <1>1
<1>9. Coherent(r) /\ Contents(r) = SubSeq(Contents(q), 1 + 1, Len(Contents(q)))
  BY <1>6, <1>7, <1>8, DroppingTheOldest
<1>10. GotByte(q) \in Byte /\ GotByte(q) = Contents(q)[1]
  <2>1. 1 \in 1 .. q.InQueue /\ 1 - 1 = 0
    BY <1>1
  <2> QED
    BY <1>4, <2>1, ContentsIsSeq DEF GotByte, Coherent
<1> QED
  BY <1>6, <1>7, <1>9, <1>10 DEF r

(* EndDirectReadFromQueue drops the n bytes that were read in place.       *)
LEMMA EndDirectReadDrops ==
  ASSUME NEW q \in CirQueue, Coherent(q), NEW n \in 0 .. q.InQueue,
         q.LastChar + n <= q.Size
  PROVE  LET r == EndDirectReadFromQueue(q, n)
         IN  /\ r \in CirQueue
             /\ Coherent(r)
             /\ Contents(r) = SubSeq(Contents(q), n + 1, Len(Contents(q)))
<1> DEFINE r == EndDirectReadFromQueue(q, n)
<1>1. /\ q.LastChar \in Offset
      /\ q.Size = kMaxCirBufferSize
      /\ q.InQueue \in UInt32
      /\ q.InQueue \in 0 .. kMaxCirBufferSize
  BY QueueAssumption DEF CirQueue, Coherent, UInt32
<1>2. Minus32(q.InQueue, n) = q.InQueue - n /\ q.InQueue - n \in UInt32
  BY <1>1, QueueAssumption DEF Minus32, UInt32
<1>3. Wrapped(q, q.LastChar + n) = Position(q, n) /\ Position(q, n) \in Offset
  BY <1>1, QueueAssumption DEF Wrapped, Position, Offset
<1>4. r = [q EXCEPT !.LastChar = Position(q, n), !.InQueue = q.InQueue - n]
  BY <1>2, <1>3 DEF EndDirectReadFromQueue
<1> HIDE DEF r
<1>5. r \in CirQueue
  BY <1>2, <1>3, <1>4 DEF CirQueue
<1>6. /\ r.mem = q.mem
      /\ r.NextChar = q.NextChar
      /\ r.LastChar = Position(q, n)
      /\ r.InQueue = q.InQueue - n
  BY <1>4 DEF CirQueue
<1> QED
  BY <1>5, <1>6, DroppingTheOldest DEF r

(* What BeginDirectReadFromQueue offers is in the buffer and in the queue. *)
LEMMA DirectReadIsQueued ==
  ASSUME NEW q \in CirQueue, Coherent(q), NEW max \in Nat
  PROVE  /\ DirectReadSize(q, max) \in 0 .. q.InQueue
         /\ q.LastChar + DirectReadSize(q, max) <= q.Size
         /\ DirectReadWraps(q, max) <=>
               q.LastChar + DirectReadSize(q, max) = q.Size
         /\ DirectReadWraps(q, max) \in BOOLEAN
<1>1. /\ q.LastChar \in Offset
      /\ q.Size = kMaxCirBufferSize
      /\ q.InQueue \in 0 .. kMaxCirBufferSize
  BY QueueAssumption DEF CirQueue, Coherent, UInt32
<1> QED
  BY <1>1, QueueAssumption DEF DirectReadSize, DirectReadWraps, Offset

(* Reading n bytes in place from LastChar on yields the n oldest bytes, if *)
(* there are so many before End.                                           *)
LEMMA InPlaceIsPrefix ==
  ASSUME NEW q \in CirQueue, Coherent(q), NEW n \in 0 .. q.InQueue,
         q.LastChar + n <= q.Size
  PROVE  /\ [i \in 1 .. n |-> q.mem[q.LastChar + i - 1]] \in Seq(Byte)
         /\ [i \in 1 .. n |-> q.mem[q.LastChar + i - 1]]
              = SubSeq(Contents(q), 1, n)
<1> DEFINE s == [i \in 1 .. n |-> q.mem[q.LastChar + i - 1]]
           t == SubSeq(Contents(q), 1, n)
<1>1. /\ q.LastChar \in Offset
      /\ q.Size = kMaxCirBufferSize
      /\ q.InQueue \in Nat
      /\ n \in Nat
      /\ n <= q.InQueue
  BY QueueAssumption DEF CirQueue, UInt32
<1>2. ASSUME NEW i \in 1 .. n
      PROVE  /\ i \in 1 .. q.InQueue
             /\ Position(q, i - 1) = q.LastChar + i - 1
  BY <1>1, QueueAssumption DEF Position, Offset
<1>3. ASSUME NEW i \in 1 .. n
      PROVE  s[i] = Contents(q)[i] /\ s[i] \in Byte
  BY <1>2, ContentsIsSeq DEF Coherent
<1>4. s \in [1 .. n -> Byte]
  BY <1>3
<1>5. s \in Seq(Byte) /\ Len(s) = n
  BY <1>1, <1>4
<1>6. \A i \in 1 .. n : Contents(q)[i] \in Byte
  BY <1>3
<1>7. /\ t \in Seq(Byte)
      /\ Len(t) = IF 1 <= n THEN n - 1 + 1 ELSE 0
      /\ \A i \in 1 .. n - 1 + 1 : t[i] = Contents(q)[1 + i - 1]
  BY <1>1, <1>6, SubSeqProperties
<1> HIDE DEF s, t
<1>8. Len(t) = n
  BY <1>1, <1>7
<1>9. ASSUME NEW i \in 1 .. n
      PROVE  t[i] = Contents(q)[i]
  BY <1>1, <1>7
<1>10. s = t
  BY <1>3, <1>5, <1>7, <1>8, <1>9, SeqEqual
<1> QED
  BY <1>5, <1>10 DEF s, t

(* An empty queue has no contents.                                         *)
LEMMA EmptyContents ==
  ASSUME NEW q \in CirQueue, Coherent(q), q.InQueue = 0
  PROVE  Contents(q) = <<>>
  BY ContentsIsSeq

-------------------------------------------------------------------------------
(* Sequences of bytes.                                                     *)

LEMMA PrefixOfAppend ==
  ASSUME NEW S, NEW s \in Seq(S), NEW e \in S, NEW n \in 0 .. Len(s)
  PROVE  SubSeq(Append(s, e), 1, n) = SubSeq(s, 1, n)
<1>1. n \in Nat /\ n <= Len(s) /\ Len(s) \in Nat
  OBVIOUS
<1>2. \A i \in 1 .. n : Append(s, e)[i] = s[i] /\ s[i] \in S
  BY <1>1, AppendProperties, ElementOfSeq
<1> QED
  BY <1>1, <1>2

LEMMA PrefixOfOne ==
  ASSUME NEW S, NEW s \in Seq(S), Len(s) >= 1
  PROVE  SubSeq(s, 1, 1) = <<s[1]>>
<1>1. 1 \in 1 .. Len(s) /\ s[1] \in S
  BY ElementOfSeq
<1>2. SubSeq(s, 1, 1) = <<s[1]>> \o SubSeq(s, 1 + 1, 1)
  BY <1>1, SubSeqRecursiveFirst
<1>3. SubSeq(s, 1 + 1, 1) = <<>>
  BY SubSeqEmpty
<1>4. <<s[1]>> \in Seq(S)
  BY <1>1
<1>5. <<s[1]>> \o <<>> = <<s[1]>>
  BY <1>4, ConcatEmptySeq
<1> QED
  BY <1>2, <1>3, <1>5

LEMMA NextOfPrefix ==
  ASSUME NEW S, NEW s \in Seq(S), NEW d \in Seq(S), NEW k \in Nat, k < Len(d)
  PROVE  /\ d[k + 1] \in S
         /\ Append(s \o SubSeq(d, 1, k), d[k + 1]) = s \o SubSeq(d, 1, k + 1)
  OBVIOUS

LEMMA MoveOldest ==
  ASSUME NEW S, NEW d \in Seq(S), NEW s \in Seq(S), s # <<>>
  PROVE  Append(d, s[1]) \o SubSeq(s, 2, Len(s)) = d \o s
<1>1. Len(s) \in Nat /\ Len(s) >= 1 /\ 1 \in 1 .. Len(s) /\ Len(s) \in 1 .. Len(s)
  OBVIOUS
<1>2. s[1] \in S /\ <<s[1]>> \in Seq(S)
  BY <1>1, ElementOfSeq
<1>3. SubSeq(s, 2, Len(s)) \in Seq(S)
  <2>1. \A i \in 2 .. Len(s) : s[i] \in S
    BY <1>1, ElementOfSeq
  <2> QED
    BY <1>1, <2>1, SubSeqProperties
<1>4. s = <<s[1]>> \o SubSeq(s, 2, Len(s))
  <2>1. SubSeq(s, 1, Len(s)) = <<s[1]>> \o SubSeq(s, 1 + 1, Len(s))
    BY <1>1, SubSeqRecursiveFirst
  <2> QED
    BY <2>1, SubSeqFull
<1>5. Append(d, s[1]) = d \o <<s[1]>>
  BY <1>2, AppendIsConcat
<1>6. (d \o <<s[1]>>) \o SubSeq(s, 2, Len(s))
        = d \o (<<s[1]>> \o SubSeq(s, 2, Len(s)))
  <2> DEFINE h == <<s[1]>>
             t == SubSeq(s, 2, Len(s))
  <2>1. h \in Seq(S) /\ t \in Seq(S)
    BY <1>2, <1>3
  <2> HIDE DEF h, t
  <2>2. (d \o h) \o t = d \o (h \o t)
    BY <2>1, ConcatAssociative
  <2> QED
    BY <2>2 DEF h, t
<1> QED
  BY <1>4, <1>5, <1>6

===============================================================================
