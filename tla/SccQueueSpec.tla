----------------------------- MODULE SccQueueSpec -----------------------------
(***************************************************************************)
(* One CirQueue and its callers.  The functions of SccQueue.cpp run one at *)
(* a time (their logging calls it "inGate"); a bulk call is a loop, one    *)
(* iteration per step.  A direct read is two calls, and bytes may be added *)
(* between them.                                                           *)
(***************************************************************************)
EXTENDS SccQueue

CONSTANT MaxRequest   \* bound: the most bytes one call asks for

ASSUME RequestAssumption == MaxRequest \in Nat

VARIABLES
  queue,   \* the CirQueue
  op,      \* the bulk call in progress, or "none"
  data,    \* its Buffer: bytes to add, or bytes removed so far
  size,    \* its Size or MaxSize argument
  done,    \* its BytesWritten or BytesReceived
  before,  \* history: the contents when it began
  window,  \* the direct read in progress
  taken    \* history: what the last read handed out

vars == <<queue, op, data, size, done, before, window, taken>>
callVars == <<op, data, size, done, before>>

NoWindow == [open |-> FALSE, size |-> 0, wrapped |-> FALSE, bytes |-> <<>>]

InUse   == queue.Size # 0
Idle    == InUse /\ op = "none"
CanRead == Idle /\ ~window.open

Init ==
  /\ queue = CloseQueue(InitQueue)
  /\ op = "none"
  /\ data = <<>>
  /\ size = 0
  /\ done = 0
  /\ before = <<>>
  /\ window = NoWindow
  /\ taken = <<>>

(* The driver's start allocates a buffer and hands it to the queue.        *)
Open ==
  /\ ~InUse
  /\ queue' = InitQueue
  /\ UNCHANGED <<callVars, window, taken>>

Close ==
  /\ CanRead
  /\ queue' = CloseQueue(queue)
  /\ UNCHANGED <<callVars, window, taken>>

Reset ==
  /\ CanRead
  /\ queue' = ResetQueue(queue)
  /\ UNCHANGED <<callVars, window, taken>>

AddByte(b) ==
  /\ Idle
  /\ queue' = AddBytetoQueue(queue, b)
  /\ UNCHANGED <<callVars, window, taken>>

GetByte ==
  /\ CanRead
  /\ GetQueueStatus(queue) # "queueEmpty"
  /\ taken' = <<GotByte(queue)>>
  /\ queue' = GetBytetoQueue(queue)
  /\ UNCHANGED <<callVars, window>>

-------------------------------------------------------------------------------
(* AddtoQueue: while there is room and there is something left, add.       *)

AddtoQueue(bytes) ==
  /\ Idle
  /\ op' = "AddtoQueue"
  /\ data' = bytes
  /\ size' = Len(bytes)
  /\ done' = 0
  /\ before' = Contents(queue)
  /\ UNCHANGED <<queue, window, taken>>

(* Mutant: the last free place is not used.                                *)
AddContinues_KeepsOneFree == FreeSpaceinQueue(queue) > 1 /\ size > done

AddContinues == FreeSpaceinQueue(queue) # 0 /\ size > done

AddtoQueueStep ==
  /\ op = "AddtoQueue"
  /\ AddContinues
  /\ queue' = AddBytetoQueue(queue, data[done + 1])
  /\ done' = done + 1
  /\ UNCHANGED <<op, data, size, before, window, taken>>

AddtoQueueReturn ==
  /\ op = "AddtoQueue"
  /\ ~AddContinues
  /\ op' = "none"
  /\ data' = <<>>
  /\ size' = 0
  /\ done' = 0
  /\ before' = <<>>
  /\ UNCHANGED <<queue, window, taken>>

(* RemovefromQueue: get bytes until MaxSize of them or queueEmpty.         *)
RemovefromQueue(max) ==
  /\ CanRead
  /\ op' = "RemovefromQueue"
  /\ data' = <<>>
  /\ size' = max
  /\ done' = 0
  /\ before' = Contents(queue)
  /\ UNCHANGED <<queue, window, taken>>

(* Mutant: one byte more than was asked for.                               *)
RemoveContinues_Inclusive ==
  size >= done /\ GetQueueStatus(queue) # "queueEmpty"

RemoveContinues == size > done /\ GetQueueStatus(queue) # "queueEmpty"

RemovefromQueueStep ==
  /\ op = "RemovefromQueue"
  /\ RemoveContinues
  /\ data' = Append(data, GotByte(queue))
  /\ taken' = <<GotByte(queue)>>
  /\ queue' = GetBytetoQueue(queue)
  /\ done' = done + 1
  /\ UNCHANGED <<op, size, before, window>>

RemovefromQueueReturn ==
  /\ op = "RemovefromQueue"
  /\ ~RemoveContinues
  /\ op' = "none"
  /\ data' = <<>>
  /\ size' = 0
  /\ done' = 0
  /\ before' = <<>>
  /\ UNCHANGED <<queue, window, taken>>

-------------------------------------------------------------------------------
(* A direct read: the caller reads the window in place, then says how much *)
(* of it it used.                                                          *)

InPlace(n) == [i \in 1 .. n |-> queue.mem[queue.LastChar + i - 1]]

BeginDirectRead(max) ==
  /\ CanRead
  /\ queue.InQueue # 0
  /\ window' = [ open    |-> TRUE,
                 size    |-> DirectReadSize(queue, max),
                 wrapped |-> DirectReadWraps(queue, max),
                 bytes   |-> InPlace(DirectReadSize(queue, max)) ]
  /\ UNCHANGED <<queue, callVars, taken>>

EndDirectRead(n) ==
  /\ Idle
  /\ window.open
  /\ n <= window.size
  /\ taken' = InPlace(n)
  /\ queue' = EndDirectReadFromQueue(queue, n)
  /\ window' = NoWindow
  /\ UNCHANGED callVars

Next ==
  \/ Open
  \/ Close
  \/ Reset
  \/ \E b \in Byte : AddByte(b)
  \/ GetByte
  \/ \E n \in 0 .. MaxRequest : \E bytes \in [1 .. n -> Byte] : AddtoQueue(bytes)
  \/ AddtoQueueStep
  \/ AddtoQueueReturn
  \/ \E max \in 0 .. MaxRequest : RemovefromQueue(max)
  \/ RemovefromQueueStep
  \/ RemovefromQueueReturn
  \/ \E max \in 1 .. MaxRequest : BeginDirectRead(max)
  \/ \E n \in 0 .. kMaxCirBufferSize : EndDirectRead(n)

Spec == Init /\ [][Next]_vars

-------------------------------------------------------------------------------
(* Properties.                                                             *)

SmallerOf(m, n) == IF m < n THEN m ELSE n

(* Every variable has its type; an open queue is a CirQueue record.        *)
TypeOK ==
  /\ queue \in CirQueue \cup ClosedQueue
  /\ op \in {"none", "AddtoQueue", "RemovefromQueue"}
  /\ data \in Seq(Byte)
  /\ size \in Nat
  /\ done \in Nat
  /\ before \in Seq(Byte)
  /\ window \in [open : BOOLEAN, size : 0 .. kMaxCirBufferSize,
                 wrapped : BOOLEAN, bytes : Seq(Byte)]
  /\ taken \in Seq(Byte)

(* The two descriptions of fullness agree: the pointers and InQueue that   *)
(* GetQueueStatus tests, and the counter FreeSpaceinQueue computes from.   *)
(* AddtoQueue depends on it: it tests the second and ignores the status    *)
(* AddBytetoQueue derives from the first.                                  *)
StatusAgreesWithSpace ==
  InUse =>
    /\ (GetQueueStatus(queue) = "queueFull") <=> (FreeSpaceinQueue(queue) = 0)
    /\ (GetQueueStatus(queue) = "queueEmpty") <=> (UsedSpaceinQueue(queue) = 0)

(* AddtoQueue appends a prefix of its buffer in order, and returns the     *)
(* number of bytes it stored: all of them, or as many as there was room    *)
(* for when it was called.                                                 *)
AddReportsWhatFitted ==
  op = "AddtoQueue" =>
    /\ Contents(queue) = before \o SubSeq(data, 1, done)
    /\ ~AddContinues => done = SmallerOf(size, queue.Size - Len(before))

(* RemovefromQueue hands out the oldest bytes in order, and returns how    *)
(* many: MaxSize, or everything that was queued when it was called.        *)
RemoveReportsWhatWasThere ==
  op = "RemovefromQueue" =>
    /\ before = data \o Contents(queue)
    /\ ~RemoveContinues => done = SmallerOf(size, Len(before))

(* Between BeginDirectReadFromQueue and EndDirectReadFromQueue the bytes   *)
(* the caller looks at stay inside the buffer, stay queued and stay what   *)
(* they were, whatever is added meanwhile.                                 *)
DirectReadStable ==
  window.open =>
    /\ window.size <= queue.InQueue
    /\ queue.LastChar + window.size <= queue.Size
    /\ window.bytes = InPlace(window.size)
    /\ window.wrapped <=> (queue.LastChar + window.size = queue.Size)

(* The queue is a bounded first-in first-out queue of bytes.               *)
Fifo == INSTANCE ByteFifo
          WITH contents <- IF InUse THEN Contents(queue) ELSE <<>>,
               Capacity <- kMaxCirBufferSize

ImplementsFifo == Fifo!Spec
===============================================================================
