------------------------------- MODULE SccQueue -------------------------------
(***************************************************************************)
(* The circular byte queue of SccQueue.cpp, as operators on CirQueue       *)
(* records.  A pointer into the buffer is its offset from Start, so Start  *)
(* is 0 and End is Size.  InQueue is a UInt32: it wraps modulo UInt32Mod   *)
(* (2^32 in the code, a small number above the capacity in a model).       *)
(***************************************************************************)
EXTENDS Integers, Sequences

CONSTANTS
  Byte,               \* the values a caller stores
  Garbage,            \* what memory holds before anything is stored there
  kMaxCirBufferSize,  \* capacity of the driver's queues
  UInt32Mod           \* one more than the largest UInt32

ASSUME QueueAssumption ==
  /\ kMaxCirBufferSize \in Nat \ {0}
  /\ UInt32Mod \in Nat
  /\ UInt32Mod > kMaxCirBufferSize
  /\ Garbage \notin Byte

Offset == 0 .. kMaxCirBufferSize - 1
UInt32 == 0 .. UInt32Mod - 1

(* Mutant: the counter is not an unsigned one.                             *)
Decrement32_Signed(n) == n - 1

Increment32(n)   == IF n + 1 = UInt32Mod THEN 0 ELSE n + 1
Decrement32(n)   == IF n = 0 THEN UInt32Mod - 1 ELSE n - 1
Minus32(m, n)    == IF m >= n THEN m - n ELSE UInt32Mod + m - n

CirQueue ==
  [ mem      : [Offset -> Byte \cup {Garbage}],
    NextChar : Offset,
    LastChar : Offset,
    Size     : {kMaxCirBufferSize},
    InQueue  : UInt32 ]

(* A queue whose buffer has been given back: every pointer is NULL.        *)
ClosedQueue ==
  [ mem : {<<>>}, NextChar : {0}, LastChar : {0}, Size : {0}, InQueue : UInt32 ]

InitQueue ==
  [ mem |-> [i \in Offset |-> Garbage], NextChar |-> 0, LastChar |-> 0,
    Size |-> kMaxCirBufferSize, InQueue |-> 0 ]

(* The number of queued bytes is not among the fields CloseQueue clears.   *)
CloseQueue(q) ==
  [ mem |-> <<>>, NextChar |-> 0, LastChar |-> 0, Size |-> 0,
    InQueue |-> q.InQueue ]

ResetQueue(q) == [q EXCEPT !.NextChar = 0, !.LastChar = 0, !.InQueue = 0]

FreeSpaceinQueue(q) == Minus32(q.Size, q.InQueue)
UsedSpaceinQueue(q) == q.InQueue

(* Mutant: pointers that meet are taken for an empty queue.                *)
GetQueueStatus_NoCount(q) ==
  IF q.NextChar = q.LastChar THEN "queueEmpty" ELSE "queueNoError"

GetQueueStatus(q) ==
  IF q.NextChar = q.LastChar
    THEN IF q.InQueue # 0 THEN "queueFull" ELSE "queueEmpty"
    ELSE "queueNoError"

(* "Check to see if we need to wrap the pointer."                          *)
Wrapped(q, ptr) == IF ptr >= q.Size THEN 0 ELSE ptr

(* Mutant: the write pointer is not wrapped.                               *)
AddBytetoQueue_Unwrapped(q, Value) ==
  IF GetQueueStatus(q) = "queueFull"
    THEN q
    ELSE [q EXCEPT !.mem      = [q.mem EXCEPT ![q.NextChar] = Value],
                   !.NextChar = q.NextChar + 1,
                   !.InQueue  = Increment32(q.InQueue)]

AddBytetoQueue(q, Value) ==
  IF GetQueueStatus(q) = "queueFull"
    THEN q
    ELSE [q EXCEPT !.mem      = [q.mem EXCEPT ![q.NextChar] = Value],
                   !.NextChar = Wrapped(q, q.NextChar + 1),
                   !.InQueue  = Increment32(q.InQueue)]

(* Mutant: the byte is read where the next one is written.                 *)
GotByte_AtNextChar(q) == q.mem[q.NextChar]

(* GetBytetoQueue removes a byte; GotByte is the *Value it returns.        *)
GotByte(q) == q.mem[q.LastChar]

GetBytetoQueue(q) ==
  IF GetQueueStatus(q) = "queueEmpty"
    THEN q
    ELSE [q EXCEPT !.LastChar = Wrapped(q, q.LastChar + 1),
                   !.InQueue  = Decrement32(q.InQueue)]

(* Mutant: a read that ends exactly at End is not seen to wrap.            *)
DirectReadWraps_Strict(q, size) ==
  q.LastChar + (IF size < q.InQueue THEN size ELSE q.InQueue) > q.Size

(* BeginDirectReadFromQueue: the part of a queue that is not empty which   *)
(* can be read in place, and whether reading it takes LastChar to End.     *)
DirectReadWraps(q, size) ==
  q.LastChar + (IF size < q.InQueue THEN size ELSE q.InQueue) >= q.Size

DirectReadSize(q, size) ==
  IF DirectReadWraps(q, size) THEN q.Size - q.LastChar
  ELSE IF size < q.InQueue THEN size ELSE q.InQueue

(* Mutant: the bytes are skipped but still counted.                        *)
EndDirectReadFromQueue_StillCounted(q, size) ==
  [q EXCEPT !.LastChar = Wrapped(q, q.LastChar + size)]

EndDirectReadFromQueue(q, size) ==
  [q EXCEPT !.LastChar = Wrapped(q, q.LastChar + size),
            !.InQueue  = Minus32(q.InQueue, size)]

-------------------------------------------------------------------------------
(* What the representation stands for.                                     *)

(* The i-th stored position after LastChar, counted from 0.                *)
Position(q, i) ==
  IF q.LastChar + i >= q.Size THEN q.LastChar + i - q.Size ELSE q.LastChar + i

Contents(q) == [i \in 1 .. q.InQueue |-> q.mem[Position(q, i - 1)]]

(* The write pointer is where the count says it is, and only stored bytes  *)
(* are counted.                                                            *)
Coherent(q) ==
  /\ q.InQueue <= q.Size
  /\ q.NextChar = Position(q, q.InQueue)
  /\ \A i \in 1 .. q.InQueue : q.mem[Position(q, i - 1)] \in Byte
===============================================================================
