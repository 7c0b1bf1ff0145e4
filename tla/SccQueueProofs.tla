---------------------------- MODULE SccQueueProofs ----------------------------
(***************************************************************************)
(* Proofs about SccQueue.cpp's queue, for every capacity and every set of  *)
(* bytes.  Coherent is the inductive invariant everything follows from: it *)
(* ties the write pointer to the count, which the functions of the queue   *)
(* update separately and test one without the other.                       *)
(***************************************************************************)
EXTENDS SccQueueSpec, SccQueueLemmas

-------------------------------------------------------------------------------
(* The inductive invariant.                                                *)

CallInv ==
  /\ op = "AddtoQueue" =>
       /\ InUse
       /\ size = Len(data)
       /\ done <= size
       /\ Contents(queue) = before \o SubSeq(data, 1, done)
  /\ op = "RemovefromQueue" =>
       /\ InUse
       /\ ~window.open
       /\ done = Len(data)
       /\ done <= size
       /\ before = data \o Contents(queue)

WindowInv ==
  window.open =>
    /\ InUse
    /\ window.size <= queue.InQueue
    /\ queue.LastChar + window.size <= queue.Size
    /\ window.bytes = InPlace(window.size)
    /\ window.wrapped <=> (queue.LastChar + window.size = queue.Size)

IInv ==
  /\ TypeOK
  /\ InUse => Coherent(queue)
  /\ CallInv
  /\ WindowInv

(* An open queue is a CirQueue, a closed one is not in use.                *)
LEMMA OpenIsCirQueue ==
  ASSUME TypeOK, InUse
  PROVE  queue \in CirQueue
  BY DEF TypeOK, InUse, ClosedQueue

(* Nothing is in progress in a queue that is not in use.                   *)
LEMMA ClosedIsIdle ==
  ASSUME IInv, ~InUse
  PROVE  op = "none" /\ ~window.open
  BY DEF IInv, TypeOK, CallInv, WindowInv

(* What a step that stores a byte leaves as it was: the window.            *)
LEMMA StoringKeepsWindow ==
  ASSUME IInv, InUse, queue.InQueue < queue.Size, NEW b \in Byte,
         queue' = AddBytetoQueue(queue, b), UNCHANGED window
  PROVE  /\ queue' \in CirQueue
         /\ Coherent(queue)'
         /\ Contents(queue)' = Append(Contents(queue), b)
         /\ InUse'
         /\ WindowInv'
<1>1. queue \in CirQueue /\ Coherent(queue)
  BY OpenIsCirQueue DEF IInv
<1>2. /\ queue' \in CirQueue
      /\ Coherent(queue')
      /\ Contents(queue') = Append(Contents(queue), b)
      /\ queue'.LastChar = queue.LastChar
      /\ queue'.InQueue = queue.InQueue + 1
  BY <1>1, AddByteAppends, AddByteStores
<1>3. queue'.Size = kMaxCirBufferSize /\ queue.Size = kMaxCirBufferSize /\ InUse'
  BY <1>1, <1>2, QueueAssumption DEF CirQueue, InUse
<1>4. ASSUME window.open
      PROVE  WindowInv'
  <2> DEFINE n == window.size
  <2>1. /\ n \in 0 .. queue.InQueue
        /\ queue.LastChar + n <= queue.Size
        /\ window.bytes = InPlace(n)
        /\ window.wrapped <=> (queue.LastChar + n = queue.Size)
    BY <1>4 DEF IInv, TypeOK, WindowInv
  <2>2. /\ queue.InQueue \in Nat
        /\ Contents(queue) \in Seq(Byte)
        /\ Len(Contents(queue)) = queue.InQueue
    BY <1>1, ContentsIsSeq
  <2> HIDE DEF n
  <2>3. /\ n \in 0 .. queue'.InQueue
        /\ n <= queue'.InQueue
        /\ queue'.LastChar + n <= queue'.Size
    BY <1>2, <1>3, <2>1, <2>2
  <2>4. [i \in 1 .. n |-> queue.mem[queue.LastChar + i - 1]]
          = SubSeq(Contents(queue), 1, n)
    BY <1>1, <2>1, InPlaceIsPrefix
  <2>5. [i \in 1 .. n |-> queue'.mem[queue'.LastChar + i - 1]]
          = SubSeq(Contents(queue'), 1, n)
    BY <1>2, <2>3, InPlaceIsPrefix
  <2>6. SubSeq(Contents(queue'), 1, n) = SubSeq(Contents(queue), 1, n)
    BY <1>2, <2>1, <2>2, PrefixOfAppend
  <2>7. window.bytes = [i \in 1 .. n |-> queue'.mem[queue'.LastChar + i - 1]]
    BY <2>1, <2>4, <2>5, <2>6 DEF InPlace
  <2> QED
    BY <1>2, <1>3, <2>1, <2>3, <2>7 DEF WindowInv, InPlace, n
<1>5. ASSUME ~window.open
      PROVE  WindowInv'
  BY <1>5 DEF WindowInv
<1> QED
  BY <1>2, <1>3, <1>4, <1>5

(* A step with no window open and none after it.                           *)
LEMMA NoWindowKept ==
  ASSUME ~window.open, UNCHANGED window
  PROVE  WindowInv'
  BY DEF WindowInv

-------------------------------------------------------------------------------
(* Init and every step establish the inductive invariant.                  *)

LEMMA InitIInv == Init => IInv
<1> SUFFICES ASSUME Init PROVE IInv
  OBVIOUS
<1>1. queue \in ClosedQueue /\ ~InUse
  BY QueueAssumption DEF Init, CloseQueue, InitQueue, ClosedQueue, InUse, UInt32
<1>2. NoWindow \in [open : BOOLEAN, size : 0 .. kMaxCirBufferSize,
                   wrapped : BOOLEAN, bytes : Seq(Byte)]
  BY QueueAssumption DEF NoWindow
<1>3. TypeOK
  BY <1>1, <1>2 DEF Init, TypeOK
<1> QED
  BY <1>1, <1>3 DEF Init, IInv, CallInv, WindowInv, NoWindow

LEMMA NextIInv == IInv /\ [Next]_vars => IInv'
<1> SUFFICES ASSUME IInv, [Next]_vars PROVE IInv'
  OBVIOUS
<1> USE DEF IInv
<1>1. CASE Open
  <2>1. op = "none" /\ ~window.open
    BY <1>1, ClosedIsIdle DEF Open
  <2>2. queue' \in CirQueue /\ Coherent(queue')
    BY <1>1, InitIsCoherent DEF Open
  <2>3. TypeOK'
    BY <1>1, <2>2 DEF Open, TypeOK, callVars
  <2> QED
    BY <1>1, <2>1, <2>2, <2>3, NoWindowKept DEF Open, CallInv, callVars
<1>2. CASE Close
  <2>1. queue \in CirQueue /\ op = "none" /\ ~window.open
    BY <1>2, OpenIsCirQueue DEF Close, CanRead, Idle
  <2>2. queue' \in ClosedQueue /\ ~InUse'
    BY <1>2, <2>1 DEF Close, CloseQueue, ClosedQueue, CirQueue, InUse
  <2>3. TypeOK'
    BY <1>2, <2>2 DEF Close, TypeOK, callVars
  <2> QED
    BY <1>2, <2>1, <2>2, <2>3, NoWindowKept DEF Close, CallInv, callVars
<1>3. CASE Reset
  <2>1. queue \in CirQueue /\ op = "none" /\ ~window.open
    BY <1>3, OpenIsCirQueue DEF Reset, CanRead, Idle
  <2>2. queue' \in CirQueue /\ Coherent(queue')
    BY <1>3, <2>1, ResetIsCoherent DEF Reset
  <2>3. TypeOK'
    BY <1>3, <2>2 DEF Reset, TypeOK, callVars
  <2> QED
    BY <1>3, <2>1, <2>2, <2>3, NoWindowKept DEF Reset, CallInv, callVars
<1>4. ASSUME NEW b \in Byte, AddByte(b)
      PROVE  IInv'
  <2>1. queue \in CirQueue /\ Coherent(queue) /\ InUse /\ op = "none"
    BY <1>4, OpenIsCirQueue DEF AddByte, Idle
  <2>2. CASE queue.InQueue < queue.Size
    <3>1. /\ queue' \in CirQueue
          /\ Coherent(queue')
          /\ WindowInv'
      BY <1>4, <2>1, <2>2, StoringKeepsWindow DEF AddByte
    <3>2. TypeOK'
      BY <1>4, <3>1 DEF AddByte, TypeOK, callVars
    <3> QED
      BY <1>4, <2>1, <3>1, <3>2 DEF AddByte, CallInv, callVars
  <2>3. CASE ~(queue.InQueue < queue.Size)
    <3>1. UNCHANGED vars
      BY <1>4, <2>1, <2>3, AddByteRefused DEF AddByte, vars, callVars
    <3> QED
      BY <3>1 DEF vars, callVars, TypeOK, CallInv, WindowInv, InUse, InPlace,
                  Contents, Coherent, Position
  <2> QED
    BY <2>2, <2>3
<1>5. CASE GetByte
  <2>1. /\ queue \in CirQueue /\ Coherent(queue)
        /\ op = "none" /\ ~window.open
    BY <1>5, OpenIsCirQueue DEF GetByte, CanRead, Idle
  <2>2. queue.InQueue # 0
    BY <1>5, <2>1, StatusOfCoherent DEF GetByte, UsedSpaceinQueue
  <2>3. /\ queue' \in CirQueue /\ Coherent(queue')
        /\ GotByte(queue) \in Byte
    BY <1>5, <2>1, <2>2, GetByteTakesOldest DEF GetByte
  <2>4. TypeOK'
    BY <1>5, <2>3 DEF GetByte, TypeOK, callVars
  <2> QED
    BY <1>5, <2>1, <2>3, <2>4, NoWindowKept DEF GetByte, CallInv, callVars
<1>6. ASSUME NEW n \in 0 .. MaxRequest, NEW bytes \in [1 .. n -> Byte],
             AddtoQueue(bytes)
      PROVE  IInv'
  <2>1. queue \in CirQueue /\ Coherent(queue) /\ InUse
    BY <1>6, OpenIsCirQueue DEF AddtoQueue, Idle
  <2>2. bytes \in Seq(Byte) /\ Len(bytes) \in Nat
    BY <1>6, RequestAssumption
  <2>3. Contents(queue) \in Seq(Byte)
    BY <2>1, ContentsIsSeq
  <2>4. TypeOK'
    BY <1>6, <2>2, <2>3 DEF AddtoQueue, TypeOK
  <2>5. SubSeq(bytes, 1, 0) = <<>>
    BY <2>2, SubSeqEmpty
  <2>6. Contents(queue) = Contents(queue) \o SubSeq(bytes, 1, 0)
    BY <2>3, <2>5, ConcatEmptySeq
  <2>7. CallInv'
    <3>1. /\ op' = "AddtoQueue"
          /\ data' = bytes /\ size' = Len(bytes) /\ done' = 0
          /\ before' = Contents(queue)
          /\ queue' = queue
      BY <1>6 DEF AddtoQueue
    <3>2. Contents(queue)' = before' \o SubSeq(data, 1, done)'
      BY <2>6, <3>1 DEF Contents, Position
    <3> QED
      BY <2>1, <2>2, <3>1, <3>2 DEF CallInv, InUse
  <2> QED
    BY <1>6, <2>1, <2>4, <2>7
       DEF AddtoQueue, WindowInv, InUse, InPlace, Coherent, Position
<1>7. CASE AddtoQueueStep
  <2>1. /\ queue \in CirQueue /\ Coherent(queue) /\ InUse
        /\ size = Len(data)
        /\ done < size
        /\ Contents(queue) = before \o SubSeq(data, 1, done)
    BY <1>7, OpenIsCirQueue DEF AddtoQueueStep, AddContinues, CallInv, TypeOK
  <2>2. done \in Nat /\ size \in Nat /\ data \in Seq(Byte) /\ before \in Seq(Byte)
    BY DEF TypeOK
  <2>3. queue.InQueue < queue.Size
    BY <1>7, <2>1, QueueAssumption
       DEF AddtoQueueStep, AddContinues, FreeSpaceinQueue, Minus32, CirQueue,
           Coherent, UInt32
  <2>4. /\ data[done + 1] \in Byte
        /\ Append(before \o SubSeq(data, 1, done), data[done + 1])
             = before \o SubSeq(data, 1, done + 1)
    BY <2>1, <2>2, NextOfPrefix
  <2>5. /\ queue' \in CirQueue
        /\ Coherent(queue')
        /\ Contents(queue') = Append(Contents(queue), data[done + 1])
        /\ InUse'
        /\ WindowInv'
    BY <1>7, <2>1, <2>3, <2>4, StoringKeepsWindow DEF AddtoQueueStep
  <2>6. TypeOK'
    BY <1>7, <2>2, <2>5 DEF AddtoQueueStep, TypeOK
  <2>7. CallInv'
    BY <1>7, <2>1, <2>2, <2>4, <2>5 DEF AddtoQueueStep, CallInv
  <2> QED
    BY <2>5, <2>6, <2>7
<1>8. CASE AddtoQueueReturn
  <2>1. TypeOK'
    BY <1>8 DEF AddtoQueueReturn, TypeOK
  <2>2. CallInv'
    BY <1>8 DEF AddtoQueueReturn, CallInv
  <2> QED
    BY <1>8, <2>1, <2>2
       DEF AddtoQueueReturn, WindowInv, InUse, InPlace, Coherent, Position
<1>9. ASSUME NEW max \in 0 .. MaxRequest, RemovefromQueue(max)
      PROVE  IInv'
  <2>1. queue \in CirQueue /\ Coherent(queue) /\ InUse /\ ~window.open
    BY <1>9, OpenIsCirQueue DEF RemovefromQueue, CanRead, Idle
  <2>2. Contents(queue) \in Seq(Byte) /\ max \in Nat
    BY <2>1, ContentsIsSeq, RequestAssumption
  <2>3. TypeOK'
    BY <1>9, <2>2 DEF RemovefromQueue, TypeOK
  <2>4. Contents(queue) = <<>> \o Contents(queue)
    BY <2>2, ConcatEmptySeq
  <2>5. CallInv'
    BY <1>9, <2>1, <2>2, <2>4
       DEF RemovefromQueue, CallInv, InUse, Contents, Position
  <2> QED
    BY <1>9, <2>1, <2>3, <2>5, NoWindowKept
       DEF RemovefromQueue, InUse, Coherent, Position
<1>10. CASE RemovefromQueueStep
  <2>1. /\ queue \in CirQueue /\ Coherent(queue) /\ InUse /\ ~window.open
        /\ done = Len(data)
        /\ done < size
        /\ before = data \o Contents(queue)
    BY <1>10, OpenIsCirQueue
       DEF RemovefromQueueStep, RemoveContinues, CallInv, TypeOK
  <2>2. done \in Nat /\ size \in Nat /\ data \in Seq(Byte) /\ before \in Seq(Byte)
    BY DEF TypeOK
  <2>3. queue.InQueue # 0
    BY <1>10, <2>1, StatusOfCoherent
       DEF RemovefromQueueStep, RemoveContinues, UsedSpaceinQueue
  <2>4. /\ queue' \in CirQueue
        /\ Coherent(queue')
        /\ GotByte(queue) \in Byte
        /\ GotByte(queue) = Contents(queue)[1]
        /\ Contents(queue') = SubSeq(Contents(queue), 2, Len(Contents(queue)))
    BY <1>10, <2>1, <2>3, GetByteTakesOldest DEF RemovefromQueueStep
  <2>5. Contents(queue) \in Seq(Byte) /\ Contents(queue) # <<>>
    BY <2>1, <2>3, ContentsIsSeq
  <2>6. before = Append(data, GotByte(queue)) \o Contents(queue')
    BY <2>1, <2>2, <2>4, <2>5, MoveOldest
  <2>7. /\ Append(data, GotByte(queue)) \in Seq(Byte)
        /\ Len(Append(data, GotByte(queue))) = done + 1
    BY <2>1, <2>2, <2>4, AppendProperties
  <2>8. TypeOK'
    BY <1>10, <2>2, <2>4, <2>7 DEF RemovefromQueueStep, TypeOK
  <2>9. InUse'
    BY <2>4, QueueAssumption DEF InUse, CirQueue
  <2>10. CallInv'
    BY <1>10, <2>1, <2>2, <2>6, <2>7, <2>9 DEF RemovefromQueueStep, CallInv
  <2> QED
    BY <1>10, <2>1, <2>4, <2>8, <2>10, NoWindowKept DEF RemovefromQueueStep
<1>11. CASE RemovefromQueueReturn
  <2>1. TypeOK'
    BY <1>11 DEF RemovefromQueueReturn, TypeOK
  <2>2. CallInv'
    BY <1>11 DEF RemovefromQueueReturn, CallInv
  <2> QED
    BY <1>11, <2>1, <2>2
       DEF RemovefromQueueReturn, WindowInv, InUse, InPlace, Coherent, Position
<1>12. ASSUME NEW max \in 1 .. MaxRequest, BeginDirectRead(max)
       PROVE  IInv'
  <2> DEFINE n == DirectReadSize(queue, max)
  <2>1. queue \in CirQueue /\ Coherent(queue) /\ InUse /\ op = "none"
    BY <1>12, OpenIsCirQueue DEF BeginDirectRead, CanRead, Idle
  <2>2. max \in Nat
    BY RequestAssumption
  <2>3. /\ n \in 0 .. queue.InQueue
        /\ queue.LastChar + n <= queue.Size
        /\ DirectReadWraps(queue, max) <=> queue.LastChar + n = queue.Size
        /\ DirectReadWraps(queue, max) \in BOOLEAN
    BY <2>1, <2>2, DirectReadIsQueued
  <2> HIDE DEF n
  <2>4. n \in 0 .. kMaxCirBufferSize /\ n <= queue.InQueue
    BY <2>1, <2>3, QueueAssumption DEF CirQueue, Coherent, UInt32
  <2>5. InPlace(n) \in Seq(Byte)
    BY <2>1, <2>3, InPlaceIsPrefix DEF InPlace
  <2>6. window' = [open |-> TRUE, size |-> n,
                   wrapped |-> DirectReadWraps(queue, max), bytes |-> InPlace(n)]
    BY <1>12 DEF BeginDirectRead, n
  <2>7. window' \in [open : BOOLEAN, size : 0 .. kMaxCirBufferSize,
                     wrapped : BOOLEAN, bytes : Seq(Byte)]
    BY <2>3, <2>4, <2>5, <2>6
  <2>8. TypeOK'
    BY <1>12, <2>7 DEF BeginDirectRead, TypeOK, callVars
  <2>9. WindowInv'
    BY <1>12, <2>1, <2>3, <2>4, <2>6
       DEF BeginDirectRead, WindowInv, InUse, InPlace
  <2> QED
    BY <1>12, <2>1, <2>8, <2>9
       DEF BeginDirectRead, CallInv, callVars, InUse, Coherent, Position
<1>13. ASSUME NEW n \in 0 .. kMaxCirBufferSize, EndDirectRead(n)
       PROVE  IInv'
  <2>1. /\ queue \in CirQueue /\ Coherent(queue) /\ InUse /\ op = "none"
        /\ window.open
    BY <1>13, OpenIsCirQueue DEF EndDirectRead, Idle
  <2>2. n \in 0 .. queue.InQueue /\ queue.LastChar + n <= queue.Size
    BY <1>13, <2>1, QueueAssumption
       DEF EndDirectRead, WindowInv, TypeOK, CirQueue, UInt32, Offset
  <2>3. queue' \in CirQueue /\ Coherent(queue')
    BY <1>13, <2>1, <2>2, EndDirectReadDrops DEF EndDirectRead
  <2>4. InPlace(n) \in Seq(Byte)
    BY <2>1, <2>2, InPlaceIsPrefix DEF InPlace
  <2>5. window' \in [open : BOOLEAN, size : 0 .. kMaxCirBufferSize,
                     wrapped : BOOLEAN, bytes : Seq(Byte)] /\ ~window'.open
    BY <1>13, QueueAssumption DEF EndDirectRead, NoWindow
  <2>6. TypeOK'
    BY <1>13, <2>3, <2>4, <2>5 DEF EndDirectRead, TypeOK, callVars
  <2> QED
    BY <1>13, <2>1, <2>3, <2>5, <2>6
       DEF EndDirectRead, CallInv, WindowInv, callVars
<1>14. CASE UNCHANGED vars
  BY <1>14 DEF vars, TypeOK, CallInv, WindowInv, InUse, InPlace, Contents,
               Coherent, Position
<1> QED
  BY <1>1, <1>2, <1>3, <1>4, <1>5, <1>6, <1>7, <1>8, <1>9, <1>10, <1>11,
     <1>12, <1>13, <1>14 DEF Next

-------------------------------------------------------------------------------
(* Theorems.                                                               *)

(* The inductive invariant holds always: types, pointers that agree with   *)
(* the count while the queue has a buffer, and what the call in progress   *)
(* and the open direct read have done so far.                              *)
THEOREM IInvAlways == Spec => []IInv
<1> QED
  BY InitIInv, NextIInv, PTL DEF Spec

(* Every variable keeps its type: every pointer stays inside the buffer,   *)
(* and every byte handed out is one that was stored, never Garbage.        *)
THEOREM TypeCorrect == Spec => []TypeOK
<1>1. IInv => TypeOK
  BY DEF IInv
<1> QED
  BY <1>1, IInvAlways, PTL

(* The queue's pointers and its counter never disagree on whether it is    *)
(* full or empty, for every capacity and length of use.                    *)
THEOREM StatusCorrect == Spec => []StatusAgreesWithSpace
<1>1. IInv => StatusAgreesWithSpace
  BY OpenIsCirQueue, StatusOfCoherent DEF IInv, StatusAgreesWithSpace
<1> QED
  BY <1>1, IInvAlways, PTL

(* AddtoQueue stores a prefix of its buffer, as long as there was room.    *)
THEOREM AddCorrect == Spec => []AddReportsWhatFitted
<1>1. ASSUME IInv, op = "AddtoQueue"
      PROVE  /\ Contents(queue) = before \o SubSeq(data, 1, done)
             /\ ~AddContinues => done = SmallerOf(size, queue.Size - Len(before))
  <2>1. /\ queue \in CirQueue /\ Coherent(queue)
        /\ size = Len(data) /\ done <= size /\ done \in Nat /\ size \in Nat
        /\ data \in Seq(Byte) /\ before \in Seq(Byte)
        /\ Contents(queue) = before \o SubSeq(data, 1, done)
    BY <1>1, OpenIsCirQueue DEF IInv, CallInv, TypeOK
  <2>2. SubSeq(data, 1, done) \in Seq(Byte) /\ Len(SubSeq(data, 1, done)) = done
    BY <2>1
  <2>3. Len(Contents(queue)) = Len(before) + done /\ Len(before) \in Nat
    BY <2>1, <2>2, ConcatProperties
  <2>4. queue.InQueue = Len(before) + done
    BY <2>1, <2>3, ContentsIsSeq
  <2>5. queue.InQueue <= queue.Size /\ queue.Size \in Nat
    BY <2>1, QueueAssumption DEF CirQueue, Coherent
  <2>6. FreeSpaceinQueue(queue) = queue.Size - queue.InQueue
    BY <2>5 DEF FreeSpaceinQueue, Minus32
  <2>7. CASE size > done
    <3>1. ~AddContinues => queue.Size - Len(before) = done
      <4>1. ~AddContinues => FreeSpaceinQueue(queue) = 0
        BY <2>7 DEF AddContinues
      <4>2. done \in Nat
        BY <2>1
      <4> QED
        BY <2>3, <2>4, <2>5, <2>6, <4>1, <4>2
    <3> QED
      BY <2>1, <2>7, <3>1 DEF SmallerOf
  <2>8. CASE ~(size > done)
    <3>1. size = done
      BY <2>1, <2>8
    <3>2. done <= queue.Size - Len(before)
      BY <2>1, <2>3, <2>4, <2>5
    <3>3. done = SmallerOf(size, queue.Size - Len(before))
      BY <2>1, <2>3, <2>5, <3>1, <3>2 DEF SmallerOf
    <3> QED
      BY <2>1, <3>3
  <2> QED
    BY <2>7, <2>8
<1>2. IInv => AddReportsWhatFitted
  BY <1>1 DEF AddReportsWhatFitted
<1> QED
  BY <1>2, IInvAlways, PTL

(* RemovefromQueue hands out the oldest bytes, as many as there were.      *)
THEOREM RemoveCorrect == Spec => []RemoveReportsWhatWasThere
<1>1. ASSUME IInv, op = "RemovefromQueue"
      PROVE  /\ before = data \o Contents(queue)
             /\ ~RemoveContinues => done = SmallerOf(size, Len(before))
  <2>1. /\ queue \in CirQueue /\ Coherent(queue)
        /\ done = Len(data) /\ done <= size /\ done \in Nat /\ size \in Nat
        /\ data \in Seq(Byte) /\ before \in Seq(Byte)
        /\ before = data \o Contents(queue)
    BY <1>1, OpenIsCirQueue DEF IInv, CallInv, TypeOK
  <2>2. /\ Contents(queue) \in Seq(Byte)
        /\ Len(Contents(queue)) = queue.InQueue
        /\ queue.InQueue \in Nat
    BY <2>1, ContentsIsSeq
  <2>3. Len(before) = done + queue.InQueue
    BY <2>1, <2>2, ConcatProperties
  <2>4. GetQueueStatus(queue) = "queueEmpty" <=> queue.InQueue = 0
    BY <2>1, StatusOfCoherent DEF UsedSpaceinQueue
  <2> QED
    BY <2>1, <2>2, <2>3, <2>4 DEF RemoveContinues, SmallerOf
<1>2. IInv => RemoveReportsWhatWasThere
  BY <1>1 DEF RemoveReportsWhatWasThere
<1> QED
  BY <1>2, IInvAlways, PTL

(* A direct read sees bytes of the buffer that stay queued and unchanged.  *)
THEOREM DirectReadCorrect == Spec => []DirectReadStable
<1>1. IInv => DirectReadStable
  BY DEF IInv, WindowInv, DirectReadStable
<1> QED
  BY <1>1, IInvAlways, PTL

-------------------------------------------------------------------------------
(* The queue implements the bounded FIFO of ByteFifo.                      *)

(* Storing a byte in a queue that has room is the FIFO's Put.              *)
LEMMA StoringIsPut ==
  ASSUME IInv, InUse, queue.InQueue < queue.Size, NEW b \in Byte,
         queue' = AddBytetoQueue(queue, b), UNCHANGED <<window, taken>>
  PROVE  Fifo!Put(b)
<1>1. queue \in CirQueue /\ Coherent(queue)
  BY OpenIsCirQueue DEF IInv
<1>2. InUse' /\ Contents(queue)' = Append(Contents(queue), b)
  BY StoringKeepsWindow
<1>3. Len(Contents(queue)) < kMaxCirBufferSize
  BY <1>1, ContentsIsSeq DEF CirQueue
<1> QED
  BY <1>2, <1>3 DEF Fifo!Put

(* Taking the n oldest bytes is the FIFO's Take.                           *)
LEMMA TakingIsTake ==
  ASSUME IInv, InUse, NEW n \in 0 .. queue.InQueue,
         queue' \in CirQueue,
         Contents(queue') = SubSeq(Contents(queue), n + 1, Len(Contents(queue))),
         taken' = SubSeq(Contents(queue), 1, n)
  PROVE  Fifo!Next
<1>1. queue \in CirQueue /\ Coherent(queue)
  BY OpenIsCirQueue DEF IInv
<1>2. Len(Contents(queue)) = queue.InQueue /\ queue.InQueue \in Nat
  BY <1>1, ContentsIsSeq
<1>3. queue.InQueue <= kMaxCirBufferSize
  BY <1>1 DEF CirQueue, Coherent
<1>4. n \in 0 .. kMaxCirBufferSize /\ n <= Len(Contents(queue))
  BY <1>2, <1>3, QueueAssumption
<1>5. InUse'
  BY QueueAssumption DEF InUse, CirQueue
<1>6. Fifo!Take(n)
  BY <1>4, <1>5 DEF Fifo!Take
<1> QED
  BY <1>4, <1>6 DEF Fifo!Next

(* A byte fetched by GetBytetoQueue is the FIFO's Take of one byte.        *)
LEMMA FetchingIsTake ==
  ASSUME IInv, InUse, queue.InQueue # 0,
         queue' = GetBytetoQueue(queue), taken' = <<GotByte(queue)>>
  PROVE  Fifo!Next
<1>1. queue \in CirQueue /\ Coherent(queue)
  BY OpenIsCirQueue DEF IInv
<1>2. /\ queue' \in CirQueue
      /\ GotByte(queue) = Contents(queue)[1]
      /\ Contents(queue') = SubSeq(Contents(queue), 2, Len(Contents(queue)))
  BY <1>1, GetByteTakesOldest
<1>3. /\ 1 \in 0 .. queue.InQueue
      /\ Contents(queue) \in Seq(Byte)
      /\ Len(Contents(queue)) \in Nat
      /\ Len(Contents(queue)) >= 1
  BY <1>1, ContentsIsSeq
<1>4. SubSeq(Contents(queue), 1, 1) = <<Contents(queue)[1]>>
  BY <1>3, PrefixOfOne
<1>5. /\ taken' = SubSeq(Contents(queue), 1, 1)
      /\ Contents(queue') = SubSeq(Contents(queue), 1 + 1, Len(Contents(queue)))
  BY <1>2, <1>4
<1> QED
  BY <1>2, <1>3, <1>5, TakingIsTake

(* A step that leaves the queue and taken alone is a stutter.              *)
LEMMA StutterStep ==
  ASSUME UNCHANGED <<queue, taken>>
  PROVE  UNCHANGED Fifo!vars
  BY DEF Fifo!vars, InUse, Contents, Position

LEMMA FifoStep == IInv /\ [Next]_vars => [Fifo!Next]_(Fifo!vars)
<1> SUFFICES ASSUME IInv, [Next]_vars PROVE [Fifo!Next]_(Fifo!vars)
  OBVIOUS
<1>1. CASE Open
  <2>1. ~InUse /\ InUse' /\ queue' = InitQueue /\ taken' = taken
    BY <1>1, QueueAssumption DEF Open, InUse, InitQueue
  <2>2. Contents(queue') = <<>>
    BY <2>1, InitIsCoherent, EmptyContents DEF InitQueue
  <2> QED
    BY <2>1, <2>2 DEF Fifo!vars
<1>2. CASE Close
  <2>1. ~InUse' /\ taken' = taken
    BY <1>2 DEF Close, CloseQueue, InUse
  <2> QED
    BY <2>1 DEF Fifo!Next, Fifo!Flush
<1>3. CASE Reset
  <2>1. queue \in CirQueue /\ InUse /\ taken' = taken
    BY <1>3, OpenIsCirQueue DEF IInv, Reset, CanRead, Idle
  <2>2. queue' \in CirQueue /\ Coherent(queue') /\ queue'.InQueue = 0
    BY <1>3, <2>1, ResetIsCoherent DEF Reset, ResetQueue, CirQueue
  <2>3. Contents(queue') = <<>>
    BY <2>2, EmptyContents
  <2> QED
    BY <2>1, <2>3 DEF Fifo!Next, Fifo!Flush
<1>4. ASSUME NEW b \in Byte, AddByte(b)
      PROVE  [Fifo!Next]_(Fifo!vars)
  <2>1. queue \in CirQueue /\ Coherent(queue) /\ InUse
    BY <1>4, OpenIsCirQueue DEF IInv, AddByte, Idle
  <2>2. CASE queue.InQueue < queue.Size
    BY <1>4, <2>1, <2>2, StoringIsPut DEF AddByte, Fifo!Next
  <2>3. CASE ~(queue.InQueue < queue.Size)
    BY <1>4, <2>1, <2>3, AddByteRefused, StutterStep DEF AddByte
  <2> QED
    BY <2>2, <2>3
<1>5. CASE GetByte
  <2>1. queue \in CirQueue /\ Coherent(queue) /\ InUse
    BY <1>5, OpenIsCirQueue DEF IInv, GetByte, CanRead, Idle
  <2>2. queue.InQueue # 0
    BY <1>5, <2>1, StatusOfCoherent DEF GetByte, UsedSpaceinQueue
  <2> QED
    BY <1>5, <2>1, <2>2, FetchingIsTake DEF GetByte
<1>6. ASSUME NEW bytes, AddtoQueue(bytes)
      PROVE  [Fifo!Next]_(Fifo!vars)
  BY <1>6, StutterStep DEF AddtoQueue
<1>7. CASE AddtoQueueStep
  <2>1. /\ queue \in CirQueue /\ Coherent(queue) /\ InUse
        /\ done \in Nat /\ data \in Seq(Byte) /\ done < Len(data)
    BY <1>7, OpenIsCirQueue
       DEF IInv, AddtoQueueStep, AddContinues, CallInv, TypeOK
  <2>2. queue.InQueue < queue.Size
    BY <1>7, <2>1, QueueAssumption
       DEF AddtoQueueStep, AddContinues, FreeSpaceinQueue, Minus32, CirQueue,
           Coherent, UInt32
  <2>3. data[done + 1] \in Byte
    BY <2>1
  <2> QED
    BY <1>7, <2>1, <2>2, <2>3, StoringIsPut DEF AddtoQueueStep, Fifo!Next
<1>8. CASE AddtoQueueReturn
  BY <1>8, StutterStep DEF AddtoQueueReturn
<1>9. ASSUME NEW max, RemovefromQueue(max)
      PROVE  [Fifo!Next]_(Fifo!vars)
  BY <1>9, StutterStep DEF RemovefromQueue
<1>10. CASE RemovefromQueueStep
  <2>1. queue \in CirQueue /\ Coherent(queue) /\ InUse
    BY <1>10, OpenIsCirQueue DEF IInv, RemovefromQueueStep, CallInv
  <2>2. queue.InQueue # 0
    BY <1>10, <2>1, StatusOfCoherent
       DEF RemovefromQueueStep, RemoveContinues, UsedSpaceinQueue
  <2> QED
    BY <1>10, <2>1, <2>2, FetchingIsTake DEF RemovefromQueueStep
<1>11. CASE RemovefromQueueReturn
  BY <1>11, StutterStep DEF RemovefromQueueReturn
<1>12. ASSUME NEW max, BeginDirectRead(max)
       PROVE  [Fifo!Next]_(Fifo!vars)
  BY <1>12, StutterStep DEF BeginDirectRead
<1>13. ASSUME NEW n \in 0 .. kMaxCirBufferSize, EndDirectRead(n)
       PROVE  [Fifo!Next]_(Fifo!vars)
  <2>1. /\ queue \in CirQueue /\ Coherent(queue) /\ InUse
        /\ window.open
    BY <1>13, OpenIsCirQueue DEF IInv, EndDirectRead, Idle
  <2>2. n \in 0 .. queue.InQueue /\ queue.LastChar + n <= queue.Size
    BY <1>13, <2>1, QueueAssumption
       DEF IInv, EndDirectRead, WindowInv, TypeOK, CirQueue, UInt32, Offset
  <2>3. /\ queue' \in CirQueue
        /\ Contents(queue') = SubSeq(Contents(queue), n + 1, Len(Contents(queue)))
    BY <1>13, <2>1, <2>2, EndDirectReadDrops DEF EndDirectRead
  <2>4. taken' = SubSeq(Contents(queue), 1, n)
    BY <1>13, <2>1, <2>2, InPlaceIsPrefix DEF EndDirectRead, InPlace
  <2> QED
    BY <2>1, <2>2, <2>3, <2>4, TakingIsTake
<1>14. CASE UNCHANGED vars
  BY <1>14, StutterStep DEF vars
<1> QED
  BY <1>1, <1>2, <1>3, <1>4, <1>5, <1>6, <1>7, <1>8, <1>9, <1>10, <1>11,
     <1>12, <1>13, <1>14 DEF Next

(* The ring buffer of SccQueue.cpp implements a bounded first-in first-out *)
(* queue: bytes come out in the order they went in, none is lost, invented *)
(* or repeated, whether they are read one by one, in bulk or in place.     *)
THEOREM FifoImplemented == Spec => ImplementsFifo
<1>1. Init => Fifo!Init
  BY DEF Init, Fifo!Init, CloseQueue, InUse
<1> QED
  BY <1>1, FifoStep, IInvAlways, PTL DEF Spec, ImplementsFifo, Fifo!Spec

===============================================================================
