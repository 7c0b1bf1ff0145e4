---------------------------- MODULE DeliveryProofs ----------------------------
(***************************************************************************)
(* Proof that the running driver hands the tester's bytes to dequeueData   *)
(* in order, each once, when nothing else is called while the port is      *)
(* taken or given back: what FifoImplemented shows of the queue alone      *)
(* holds of the queue as the driver's threads use it.  Then, however calls *)
(* overlap, when the state word describes the queue.                       *)
(***************************************************************************)
EXTENDS OwnershipProofs, SccQueueLemmas, QueueStatus

(* How far the reset of the queue has got.                                 *)
ResetInv ==
  \A s \in Sessions :
    /\ pc[s] = "acq_last" => RX.NextChar = 0
    /\ pc[s] = "acq_inq" => RX.NextChar = 0 /\ RX.LastChar = 0

(* A tester adds only bytes.                                               *)
DataOK == \A t \in Testers : data[t] \in Seq(Byte)

QueueInv == OwnerInv /\ ResetInv /\ DataOK /\ QueueCoherent

QueueKept ==
  ResetInv' /\ DataOK' /\ QueueCoherent' /\ [Fifo!Next]_(Fifo!vars)

-------------------------------------------------------------------------------
(* Steps that leave the queue alone.                                       *)

LEMMA ResettingKept ==
  ASSUME QueueInv, NEW t \in Threads, NEW label,
         Goto(t, label) \/ UNCHANGED pc,
         {pc[t], label} \cap {"acq_last", "acq_inq"} = {}
  PROVE  /\ Resetting' <=> Resetting
         /\ \A s \in Sessions : /\ pc'[s] = "acq_last" => pc[s] = "acq_last"
                                /\ pc'[s] = "acq_inq" => pc[s] = "acq_inq"
<1>1. \A s \in Sessions : /\ pc'[s] = "acq_last" <=> pc[s] = "acq_last"
                          /\ pc'[s] = "acq_inq" <=> pc[s] = "acq_inq"
  BY ThreadRoles DEF QueueInv, OwnerInv, TypeOK, Goto
<1> QED
  BY <1>1 DEF Resetting

LEMMA QueueUntouched ==
  ASSUME QueueInv, NEW t \in Threads, NEW label,
         Goto(t, label) \/ UNCHANGED pc,
         {pc[t], label} \cap {"acq_last", "acq_inq"} = {},
         UNCHANGED <<RX, taken>>, DataOK'
  PROVE  QueueKept
<1>1. /\ Resetting' <=> Resetting
      /\ \A s \in Sessions : /\ pc'[s] = "acq_last" => pc[s] = "acq_last"
                             /\ pc'[s] = "acq_inq" => pc[s] = "acq_inq"
  BY ResettingKept
<1>2. ResetInv' /\ QueueCoherent'
  BY <1>1 DEF QueueInv, ResetInv, QueueCoherent, Coherent, Position
<1>3. UNCHANGED Fifo!vars
  BY <1>1 DEF Fifo!vars, Contents, Position
<1> QED
  BY <1>2, <1>3 DEF QueueKept

LEMMA DataUntouched == QueueInv /\ UNCHANGED data => DataOK'
  BY DEF QueueInv, DataOK

-------------------------------------------------------------------------------
(* Steps that change the queue.                                            *)

(* Nobody inside sendData or dequeueData sees a queue being reset.         *)
LEMMA NotResetting ==
  ASSUME QueueInv, NEW t \in Threads \ Sessions, pc[t] # "idle"
  PROVE  ~Resetting /\ RX \in CirQueue /\ Coherent(RX)
<1>1. ASSUME NEW s \in Sessions, pc[s] \in {"acq_last", "acq_inq"} PROVE FALSE
  <2>1. pc[s] \in Taking /\ t \in Threads \ {s}
    BY <1>1 DEF Taking
  <2>2. Leaving(t)
    BY <2>1 DEF QueueInv, OwnerInv, Undisturbed
  <2> QED
    BY <2>2 DEF Leaving, AtRest
<1>2. ~Resetting
  BY <1>1 DEF Resetting
<1> QED
  BY <1>2 DEF QueueInv, OwnerInv, TypeOK, QueueCoherent

(* The bytes sendData adds are the FIFO's Put.                             *)
LEMMA SendIsPut ==
  ASSUME QueueInv, NEW t \in Testers, SendAdd(t)
  PROVE  QueueKept
<1>1. t \in Threads \ Sessions /\ pc[t] = "send_add"
  BY ThreadRoles, RolesApart DEF SendAdd
<1>2. ~Resetting /\ RX \in CirQueue /\ Coherent(RX)
  BY <1>1, NotResetting
<1>3. data[t] \in Seq(Byte) /\ data \in [Threads -> Seq(Byte \cup {Garbage})]
  BY DEF QueueInv, DataOK, OwnerInv, TypeOK
<1>4. CASE FreeSpaceinQueue(RX) # 0 /\ data[t] # <<>>
  <2> DEFINE b == Head(data[t])
  <2>1. b \in Byte /\ Tail(data[t]) \in Seq(Byte)
    BY <1>3, <1>4
  <2>2. /\ RX' = AddBytetoQueue(RX, b) /\ data' = [data EXCEPT ![t] = Tail(@)]
        /\ UNCHANGED <<pc, taken>>
    BY <1>4 DEF SendAdd
  <2>3. RX.InQueue < RX.Size
    BY <1>2, <1>4, QueueAssumption
       DEF FreeSpaceinQueue, Minus32, CirQueue, Coherent, UInt32
  <2>4. /\ RX' \in CirQueue /\ Coherent(RX)'
        /\ Contents(RX') = Append(Contents(RX), b)
    <3> HIDE DEF b
    <3>1. Coherent(AddBytetoQueue(RX, b))
      BY <1>2, <2>1, <2>3, AddByteAppends
    <3> QED
      BY <1>2, <2>1, <2>2, <2>3, <3>1, AddByteAppends DEF Coherent, Position
  <2>5. DataOK'
    BY <1>3, <2>1, <2>2, ThreadRoles DEF QueueInv, DataOK
  <2>6. ~Resetting'
    BY <1>2, <2>2 DEF Resetting
  <2>7. ResetInv'
    BY <2>2, <2>6 DEF ResetInv, Resetting
  <2>8. Len(Contents(RX)) < kMaxCirBufferSize
    BY <1>2, <2>3, ContentsIsSeq DEF CirQueue
  <2>9. Fifo!Put(b)
    BY <1>2, <2>2, <2>4, <2>6, <2>8 DEF Fifo!Put
  <2> QED
    BY <2>1, <2>4, <2>5, <2>7, <2>9 DEF QueueKept, QueueCoherent, Fifo!Next
<1>5. CASE ~(FreeSpaceinQueue(RX) # 0 /\ data[t] # <<>>)
  <2>1. /\ data' = [data EXCEPT ![t] = <<>>] /\ Goto(t, "cq_state")
        /\ UNCHANGED <<RX, taken>>
    BY <1>5 DEF SendAdd
  <2>2. DataOK'
    BY <1>3, <2>1, ThreadRoles DEF QueueInv, DataOK
  <2> QED
    BY <1>1, <2>1, <2>2, QueueUntouched
<1> QED
  BY <1>4, <1>5

(* The byte dequeueData fetches is the FIFO's Take.                        *)
LEMMA FetchIsTake ==
  ASSUME QueueInv, NEW r \in Readers, DequeueGet(r)
  PROVE  QueueKept
<1>1. r \in Threads \ Sessions /\ pc[r] = "deq_get" /\ r \notin Testers
  BY ThreadRoles, RolesApart DEF DequeueGet
<1>2. ~Resetting /\ RX \in CirQueue /\ Coherent(RX)
  BY <1>1, NotResetting
<1>3. /\ RX' = GetBytetoQueue(RX) /\ taken' = <<GotByte(RX)>> /\ UNCHANGED pc
      /\ \E x : data' = [data EXCEPT ![r] = x]
  BY DEF DequeueGet
<1>4. RX.InQueue # 0
  BY <1>2, StatusOfCoherent DEF DequeueGet, DequeueContinues, UsedSpaceinQueue
<1>5. /\ RX' \in CirQueue /\ Coherent(RX')
      /\ GotByte(RX) = Contents(RX)[1]
      /\ Contents(RX') = SubSeq(Contents(RX), 2, Len(Contents(RX)))
  BY <1>2, <1>3, <1>4, GetByteTakesOldest
<1>6. DataOK'
  BY <1>1, <1>3, ThreadRoles DEF QueueInv, OwnerInv, TypeOK, DataOK
<1>7. ~Resetting'
  BY <1>2, <1>3 DEF Resetting
<1>8. ResetInv'
  BY <1>7 DEF ResetInv, Resetting
<1>9. /\ Contents(RX) \in Seq(Byte) /\ Len(Contents(RX)) = RX.InQueue
      /\ RX.InQueue \in 1 .. kMaxCirBufferSize
  BY <1>2, <1>4, ContentsIsSeq DEF CirQueue, Coherent
<1>10. SubSeq(Contents(RX), 1, 1) = <<Contents(RX)[1]>>
  BY <1>9, PrefixOfOne
<1>11. /\ taken' = SubSeq(Contents(RX), 1, 1)
       /\ Contents(RX') = SubSeq(Contents(RX), 1 + 1, Len(Contents(RX)))
       /\ 1 <= Len(Contents(RX)) /\ 1 \in 0 .. kMaxCirBufferSize
  BY <1>3, <1>5, <1>9, <1>10, QueueAssumption
<1>12. Fifo!Take(1)
  BY <1>2, <1>7, <1>11 DEF Fifo!Take
<1> QED
  BY <1>5, <1>6, <1>8, <1>11, <1>12 DEF QueueKept, QueueCoherent, Fifo!Next

(* The three stores of ResetQueue: the first discards everything.          *)
LEMMA ResetIsFlush ==
  ASSUME QueueInv, NEW s \in Sessions, AcquireResetQueue(s)
  PROVE  QueueKept
<1> /\ s \in Threads /\ \A u \in Sessions : u \in Threads
  BY ThreadRoles
<1>1. /\ pc[s] \in Taking /\ RX \in CirQueue /\ pc \in [Threads -> Labels]
      /\ UNCHANGED <<taken, data>>
  BY DEF AcquireResetQueue, Taking, QueueInv, OwnerInv, TypeOK, localVars
<1>2. \A u \in Sessions \ {s} : pc[u] \notin {"acq_last", "acq_inq"}
  BY <1>1, TakerAlone DEF QueueInv, Taking
<1>3. DataOK'
  BY <1>1, DataUntouched
<1>4. CASE pc[s] = "acq_next"
  <2>1. /\ RX' = [RX EXCEPT !.NextChar = 0] /\ pc'[s] = "acq_last"
        /\ \A u \in Sessions \ {s} : pc'[u] = pc[u]
    BY <1>1, <1>4 DEF AcquireResetQueue, Goto
  <2>2. ~Resetting /\ Resetting'
    BY <1>2, <1>4, <2>1 DEF Resetting
  <2>3. ResetInv'
    BY <1>1, <1>2, <2>1 DEF ResetInv, CirQueue
  <2>4. Fifo!Flush
    BY <1>1, <2>2 DEF Fifo!Flush
  <2> QED
    BY <1>3, <2>2, <2>3, <2>4 DEF QueueKept, QueueCoherent, Fifo!Next
<1>5. CASE pc[s] = "acq_last"
  <2>1. /\ RX' = [RX EXCEPT !.LastChar = 0] /\ pc'[s] = "acq_inq"
        /\ \A u \in Sessions \ {s} : pc'[u] = pc[u]
    BY <1>1, <1>5 DEF AcquireResetQueue, Goto
  <2>2. Resetting /\ Resetting'
    BY <1>5, <2>1 DEF Resetting
  <2>3. ResetInv'
    BY <1>1, <1>2, <1>5, <2>1 DEF QueueInv, ResetInv, CirQueue
  <2>4. UNCHANGED Fifo!vars
    BY <1>1, <2>2 DEF Fifo!vars
  <2> QED
    BY <1>3, <2>2, <2>3, <2>4 DEF QueueKept, QueueCoherent
<1>6. CASE pc[s] = "acq_inq"
  <2>1. /\ RX' = [RX EXCEPT !.InQueue = 0] /\ pc'[s] = "acq_cts"
        /\ \A u \in Sessions \ {s} : pc'[u] = pc[u]
    BY <1>1, <1>6 DEF AcquireResetQueue, Goto
  <2>2. Resetting /\ ~Resetting'
    BY <1>2, <1>6, <2>1 DEF Resetting
  <2>3. ResetInv'
    BY <2>2 DEF ResetInv, Resetting
  <2>4. /\ RX' \in CirQueue /\ RX'.InQueue = 0
        /\ RX'.NextChar = 0 /\ RX'.LastChar = 0 /\ RX'.Size = kMaxCirBufferSize
    BY <1>1, <1>6, <2>1, ZeroedType DEF QueueInv, ResetInv, CirQueue
  <2>5. Coherent(RX')
    BY <2>4, QueueAssumption DEF Coherent, Position
  <2>6. Contents(RX') = <<>>
    BY <2>4, <2>5, EmptyContents
  <2>7. UNCHANGED Fifo!vars
    BY <1>1, <2>2, <2>6 DEF Fifo!vars
  <2> QED
    BY <1>3, <2>2, <2>3, <2>5, <2>7 DEF QueueKept, QueueCoherent
<1> QED
  BY <1>4, <1>5, <1>6 DEF AcquireResetQueue

-------------------------------------------------------------------------------
(* Every step.                                                             *)

LEMMA SessionQueue ==
  ASSUME QueueInv, NEW s \in Sessions, SessionCall(s) \/ SessionStep(s)
  PROVE  QueueKept
<1> s \in Threads
  BY ThreadRoles
<1> USE DEF queueVars, localVars, openVars
<1>1. CASE SessionCall(s)
  <2>1. /\ pc[s] = "idle" /\ UNCHANGED <<RX, taken, data>>
        /\ \/ UNCHANGED pc
           \/ \E label \in {"acq_read", "rel_write", "write", "ev_defaults", "ev_flow"} :
                Goto(s, label)
    BY <1>1 DEF SessionCall, AcquirePort, ReleasePort, SetState, Activate, Deactivate,
                LineBreak, SetFlowControl, Pend, MayAcquire, MayRelease, MaySet, MayCall
  <2> QED
    BY <2>1, QueueUntouched, DataUntouched
<1>2. CASE SessionStep(s) /\ ~AcquireResetQueue(s)
  <2>1. /\ pc[s] \in {"acq_read", "wat_check", "acq_set", "acq_defaults", "acq_cts",
                      "rel_write", "rel_mask", "ev_defaults", "ev_flow"}
        /\ UNCHANGED <<RX, taken, data>>
        /\ \E label \in {"acq_set", "wat_check", "wat_enter", "idle", "acq_defaults",
                         "acq_next", "rel_mask", "write"} : Goto(s, label)
    BY <1>2 DEF SessionStep, AcquireRead, AcquireWatch, AcquireFails, AcquireSet,
                AcquireDefaults, AcquireReturn, ReleaseClear, ReleaseReturn,
                ActivateDefaults, StoreFlowControl, Pend
  <2> QED
    BY <2>1, QueueUntouched, DataUntouched
<1> QED
  BY <1>1, <1>2, ResetIsFlush

LEMMA WatchQueue ==
  ASSUME QueueInv, NEW t \in Threads, WatchStep(t)
  PROVE  QueueKept
<1>1. /\ pc[t] \in {"wat_enter", "wat_block"} /\ UNCHANGED <<RX, taken, data>>
      /\ \E label \in {"acq_read", "idle", "wat_block"} : Goto(t, label)
  BY DEF WatchStep, WatchEnter, WatchRestart, WatchBroken, WatchLoop, LeaveWatch, Block,
         queueVars
<1> QED
  BY <1>1, QueueUntouched, DataUntouched

LEMMA CheckQueue ==
  ASSUME QueueInv, NEW t \in Threads, CheckStep(t)
  PROVE  QueueKept
<1>1. /\ pc[t] \in {"cq_state", "cq_used", "cq_free", "cq_delta", "write"}
      /\ UNCHANGED <<RX, taken, data>>
      /\ \E label \in {"cq_used", "cq_free", "cq_delta", "write", "idle", "send_dsr"} :
           Goto(t, label)
  BY DEF CheckStep, CheckState, CheckUsed, CheckFree, CheckDelta, Write, queueVars
<1> QED
  BY <1>1, QueueUntouched, DataUntouched

LEMMA TesterQueue ==
  ASSUME QueueInv, NEW t \in Testers,
         \/ \E msg \in Messages : SendData(t, msg)
         \/ SendStep(t)
  PROVE  QueueKept
<1> t \in Threads
  BY ThreadRoles
<1>1. ASSUME NEW msg \in Messages, SendData(t, msg) PROVE QueueKept
  <2>1. /\ pc[t] = "idle" /\ Goto(t, "send_lock") /\ UNCHANGED <<RX, taken>>
        /\ data' = [data EXCEPT ![t] = msg] /\ msg \in Seq(Byte)
    BY <1>1, PortAssumption DEF SendData, MayCall, queueVars
  <2>2. DataOK'
    BY <2>1, ThreadRoles DEF QueueInv, OwnerInv, TypeOK, DataOK
  <2> QED
    BY <2>1, <2>2, QueueUntouched
<1>2. CASE SendReturn(t)
  <2>1. /\ pc[t] = "send_dsr" /\ Goto(t, "idle") /\ UNCHANGED <<RX, taken, data>>
    BY <1>2 DEF SendReturn, localVars
  <2> QED
    BY <2>1, QueueUntouched, DataUntouched
<1>3. CASE SendLock(t)
  <2>1. /\ pc[t] = "send_lock" /\ Goto(t, "send_add") /\ UNCHANGED <<RX, taken, data>>
    BY <1>3 DEF SendLock, localVars
  <2> QED
    BY <2>1, QueueUntouched, DataUntouched
<1> QED
  BY <1>1, <1>2, <1>3, SendIsPut DEF SendStep

LEMMA ReaderQueue ==
  ASSUME QueueInv, NEW r \in Readers,
         (\E max \in ReadSizes : DequeueData(r, max)) \/ DequeueStep(r)
  PROVE  QueueKept
<1> r \in Threads /\ r \notin Testers
  BY ThreadRoles, RolesApart
<1>1. CASE (\E max \in ReadSizes : DequeueData(r, max)) \/ DequeueLock(r)
  <2>1. /\ pc[r] \in {"idle", "deq_lock"} /\ UNCHANGED <<RX, taken, data>>
        /\ \E label \in {"deq_lock", "deq_get"} : Goto(r, label)
    BY <1>1 DEF DequeueData, DequeueLock, MayCall, queueVars, localVars
  <2> QED
    BY <2>1, QueueUntouched, DataUntouched
<1>2. CASE DequeueDone(r)
  <2>1. /\ pc[r] = "deq_get" /\ UNCHANGED <<RX, taken>>
        /\ data' = [data EXCEPT ![r] = <<>>]
        /\ \E label \in {"cq_state", "idle"} : Goto(r, label)
    BY <1>2 DEF DequeueDone
  <2>2. DataOK'
    BY <2>1, ThreadRoles DEF QueueInv, OwnerInv, TypeOK, DataOK
  <2> QED
    BY <2>1, <2>2, QueueUntouched
<1> QED
  BY <1>1, <1>2, FetchIsTake DEF DequeueStep

LEMMA NextQueue == QueueInv /\ [Next]_vars => QueueKept
<1> SUFFICES ASSUME QueueInv, [Next]_vars PROVE QueueKept
  OBVIOUS
<1>1. CASE UNCHANGED vars
  <2>1. UNCHANGED <<pc, RX, taken, data>>
    BY <1>1 DEF vars, queueVars, localVars
  <2>2. ResetInv' /\ DataOK' /\ QueueCoherent'
    BY <2>1 DEF QueueInv, ResetInv, DataOK, QueueCoherent, Resetting, Coherent, Position
  <2>3. UNCHANGED Fifo!vars
    BY <2>1 DEF Fifo!vars, Resetting, Contents, Position
  <2> QED
    BY <2>2, <2>3 DEF QueueKept
<1>2. ASSUME NEW t \in Watchers \cup Pollers,
             (\E arg \in WatchArgs : WatchState(t, arg)) \/ GetState(t)
      PROVE  QueueKept
  <2>1. /\ t \in Threads /\ pc[t] = "idle" /\ UNCHANGED <<RX, taken, data>>
        /\ \E label \in {"wat_enter", "cq_state"} : Goto(t, label)
    BY <1>2, ThreadRoles DEF WatchState, GetState, Pend, MayCall, queueVars, localVars
  <2> QED
    BY <2>1, QueueUntouched, DataUntouched
<1>3. CASE Next
  BY <1>2, <1>3, SessionQueue, WatchQueue, CheckQueue, TesterQueue, ReaderQueue DEF Next
<1> QED
  BY <1>1, <1>3

LEMMA InitQueueInv == Init => QueueInv /\ Fifo!Init
<1> SUFFICES ASSUME Init PROVE QueueInv /\ Fifo!Init
  OBVIOUS
<1>1. /\ \A t \in Threads : pc[t] = "idle" /\ data[t] = <<>>
      /\ RX = InitQueue /\ taken = <<>>
  BY DEF Init
<1>2. ResetInv /\ ~Resetting
  BY <1>1, ThreadRoles DEF ResetInv, Resetting
<1>3. DataOK
  <2>1. <<>> \in Seq(Byte)
    OBVIOUS
  <2> QED
    BY <1>1, <2>1, ThreadRoles DEF DataOK
<1>4. RX \in CirQueue /\ Coherent(RX) /\ RX.InQueue = 0
  BY <1>1, InitIsCoherent DEF InitQueue
<1>5. Contents(RX) = <<>>
  BY <1>4, EmptyContents
<1> QED
  BY <1>1, <1>2, <1>3, <1>4, <1>5, InitOwner DEF QueueInv, QueueCoherent, Fifo!Init

LEMMA QueueInvAlways ==
  ASSUME OpenMode = "quiescent"
  PROVE  Spec => []QueueInv
<1>1. Init => QueueInv
  BY InitQueueInv
<1>2. QueueInv /\ [Next]_vars => QueueInv'
  BY NextOwner, NextQueue DEF QueueInv, QueueKept
<1> QED
  BY <1>1, <1>2, PTL DEF Spec

(* When no call is in progress while the port is taken or given back, the  *)
(* receive queue's pointers and count agree between two resets: the reset, *)
(* which takes no lock, never meets an addition or a removal.              *)
THEOREM QueueStaysCoherent ==
  ASSUME OpenMode = "quiescent"
  PROVE  Spec => []QueueCoherent
<1>1. QueueInv => QueueCoherent
  BY DEF QueueInv
<1> QED
  BY <1>1, QueueInvAlways, PTL

(* What sendData adds from the tester, dequeueData hands out in the same   *)
(* order, each byte once; nothing but acquirePort's reset discards a byte  *)
(* that was accepted.                                                      *)
THEOREM Delivery ==
  ASSUME OpenMode = "quiescent"
  PROVE  Spec => DeliversInOrder
<1>1. Init => Fifo!Init
  BY InitQueueInv
<1>2. QueueInv /\ [Next]_vars => [Fifo!Next]_(Fifo!vars)
  BY NextQueue DEF QueueKept
<1> QED
  BY <1>1, <1>2, QueueInvAlways, PTL DEF Spec, DeliversInOrder, Fifo!Spec

(* While the reset of the queue meets no addition or removal, pointers that*)
(* meet mean an empty queue or a full one.                                 *)
THEOREM PointersTell ==
  ASSUME OpenMode = "quiescent"
  PROVE  Spec => []MatchMeansEmptyOrFull
<1>1. ASSUME RX \in CirQueue, Coherent(RX), RX.NextChar = RX.LastChar
      PROVE  RX.InQueue \in {0, RX.Size}
  BY <1>1, QueueAssumption DEF Coherent, Position, CirQueue, Offset, UInt32
<1>2. TypeOK /\ QueueCoherent => MatchMeansEmptyOrFull
  BY <1>1 DEF TypeOK, QueueCoherent, MatchMeansEmptyOrFull
<1> QED
  BY <1>2, QueueStaysCoherent, TypeCorrect, PTL

-------------------------------------------------------------------------------
(* The queue bits of the state word, however calls overlap: with getState, *)
(* which takes no lock, with setState of these bits and with resets.       *)

(* RXBufferLock is free, or its holder is before its first change of the   *)
(* queue or has told of its last one.                                      *)
Quiet ==
  \/ RXBufferLock = Nobody
  \/ \E t \in Testers : pc[t] = "send_dsr"
  \/ \E r \in Readers : pc[r] = "deq_get" /\ data[r] = <<>>

ToldOK == told /\ Quiet => RXBits = Level

(* What a checkQueues that was not overtaken has read is still so.         *)
ReadingOK(t) ==
  /\ pc[t] = "cq_free" => used[t] = RX.InQueue
  /\ pc[t] = "cq_delta" => want[t] \cap RXQ_MASK = Level
  /\ pc[t] = "write" =>
       ((State \ mask[t]) \cup (want[t] \cap mask[t])) \cap RXQ_MASK = Level

OvertakenOK == \A t \in overtaken : t \in Checkers /\ pc[t] \in HasRead

StatusInv ==
  IInv /\ OvertakenOK /\ ToldOK /\ \A t \in Checkers \ overtaken : ReadingOK(t)

(* Thread t does nothing in this step.                                     *)
Still(t) ==
  /\ pc'[t] = pc[t] /\ want'[t] = want[t] /\ mask'[t] = mask[t]
  /\ used'[t] = used[t] /\ data'[t] = data[t]

LEMMA CheckersAreOthers ==
  /\ Checkers \subseteq Threads
  /\ Readers \subseteq Checkers /\ Testers \subseteq Checkers
  /\ Nobody \notin Checkers
  BY ThreadRoles, RolesApart DEF Checkers

LEMMA LevelKept ==
  ASSUME UNCHANGED <<RX, marksSet>>
  PROVE  Level' = Level
  BY DEF Level, QueueBits, HighWater, LowWater, FreeSpaceinQueue, Minus32

-------------------------------------------------------------------------------
(* What each kind of step does to the threads that run checkQueues.        *)

(* A step of a session: it changes the queue only as it moves.             *)
LEMMA SessionStill ==
  ASSUME IInv, NEW s \in Sessions, SessionCall(s) \/ SessionStep(s)
  PROVE  /\ \A t \in Checkers : Still(t)
         /\ UNCHANGED RXBufferLock
         /\ RX' = RX \/ pc'[s] # pc[s]
<1> USE DEF portVars, queueVars, localVars, openVars
<1>1. \A t \in Checkers : t \in Threads /\ t # s
  BY DEF Checkers
<1>2. TypeOK /\ s \in Threads
  BY ThreadRoles DEF IInv
<1>3. CASE SessionCall(s)
  <2>1. UNCHANGED <<RX, RXBufferLock, used, data>>
    BY <1>3 DEF SessionCall, AcquirePort, ReleasePort, SetState, Activate,
                Deactivate, LineBreak, SetFlowControl
  <2>2. /\ UNCHANGED pc \/ \E label : Goto(s, label)
        /\ \/ UNCHANGED <<want, mask>>
           \/ \E x, y : want' = [want EXCEPT ![s] = x] /\ mask' = [mask EXCEPT ![s] = y]
    BY <1>3 DEF SessionCall, AcquirePort, ReleasePort, SetState, Activate,
                Deactivate, LineBreak, SetFlowControl, Pend
  <2> QED
    BY <1>1, <1>2, <2>1, <2>2 DEF Still, Goto, TypeOK
<1>4. CASE SessionStep(s) /\ ~AcquireResetQueue(s)
  <2>1. UNCHANGED <<RX, RXBufferLock, used, data>>
    BY <1>4 DEF SessionStep, AcquireRead, AcquireWatch, AcquireSet,
                AcquireDefaults, AcquireReturn, ReleaseClear, ReleaseReturn,
                ActivateDefaults, StoreFlowControl
  <2>2. /\ \E label : Goto(s, label)
        /\ \/ UNCHANGED <<want, mask>>
           \/ \E y : UNCHANGED want /\ mask' = [mask EXCEPT ![s] = y]
           \/ \E x, y : want' = [want EXCEPT ![s] = x] /\ mask' = [mask EXCEPT ![s] = y]
    BY <1>4 DEF SessionStep, AcquireRead, AcquireWatch, AcquireFails, AcquireSet,
                AcquireDefaults, AcquireReturn, ReleaseClear, ReleaseReturn,
                ActivateDefaults, StoreFlowControl, Pend
  <2> QED
    BY <1>1, <1>2, <2>1, <2>2 DEF Still, Goto, TypeOK
<1>5. CASE AcquireResetQueue(s)
  <2>1. /\ UNCHANGED <<RXBufferLock, want, mask, used, data>>
        /\ \E label : Goto(s, label) /\ pc[s] # label
    BY <1>5 DEF AcquireResetQueue
  <2> QED
    BY <1>1, <1>2, <2>1 DEF Still, Goto, TypeOK
<1> QED
  BY <1>3, <1>4, <1>5

(* A step of t alone.                                                      *)
OnlyMoves(t) == \A u \in Threads \ {t} : Still(u)

LEMMA WatchStill ==
  ASSUME IInv, NEW t \in Threads, WatchStep(t)
  PROVE  /\ OnlyMoves(t) /\ UNCHANGED <<RX, RXBufferLock>>
         /\ pc[t] \in {"wat_enter", "wat_block"}
         /\ pc'[t] \in {"idle", "acq_read", "wat_block"}
<1>1. /\ pc[t] \in {"wat_enter", "wat_block"}
      /\ UNCHANGED <<RX, RXBufferLock, used, data>>
      /\ \E label \in {"idle", "acq_read", "wat_block"} : Goto(t, label)
      /\ \/ UNCHANGED <<want, mask>>
         \/ want' = [want EXCEPT ![t] = {}] /\ mask' = [mask EXCEPT ![t] = {}]
  BY DEF WatchStep, WatchEnter, WatchRestart, WatchBroken, WatchLoop, LeaveWatch,
         Block, queueVars
<1> QED
  BY <1>1 DEF OnlyMoves, Still, Goto, IInv, TypeOK

LEMMA CheckStill ==
  ASSUME IInv, NEW t \in Threads, CheckStep(t)
  PROVE  /\ OnlyMoves(t) /\ UNCHANGED <<RX, marksSet>>
         /\ ~Write(t) => /\ UNCHANGED <<RXBufferLock, State>>
                         /\ pc[t] \in CheckLabels /\ pc'[t] \in CheckLabels \ {"cq_state"}
         /\ Write(t) => pc[t] = "write" /\ pc'[t] \in {"idle", "send_dsr"}
<1> USE DEF portVars, queueVars, openVars
<1>1. CASE CheckState(t) \/ CheckUsed(t) \/ CheckFree(t) \/ CheckDelta(t)
  <2>1. /\ UNCHANGED <<RX, marksSet, RXBufferLock, State, data>>
        /\ \E label \in CheckLabels \ {"cq_state"} : Goto(t, label)
        /\ pc[t] \in CheckLabels \ {"write"}
        /\ UNCHANGED want \/ \E x : want' = [want EXCEPT ![t] = x]
        /\ UNCHANGED mask \/ \E x : mask' = [mask EXCEPT ![t] = x]
        /\ UNCHANGED used \/ \E x : used' = [used EXCEPT ![t] = x]
    BY <1>1 DEF CheckState, CheckUsed, CheckFree, CheckDelta, CheckLabels
  <2>2. ~Write(t)
    BY <2>1 DEF Write
  <2> QED
    BY <2>1, <2>2 DEF OnlyMoves, Still, Goto, IInv, TypeOK
<1>2. CASE Write(t)
  <2>1. /\ pc[t] = "write" /\ UNCHANGED <<RX, marksSet, used, data>>
        /\ \E label \in {"idle", "send_dsr"} : Goto(t, label)
        /\ want' = [want EXCEPT ![t] = {}] /\ mask' = [mask EXCEPT ![t] = {}]
    BY <1>2 DEF Write
  <2> QED
    BY <1>2, <2>1 DEF OnlyMoves, Still, Goto, IInv, TypeOK
<1> QED
  BY <1>1, <1>2 DEF CheckStep

(* sendData, dequeueData, watchState and getState begin or go on.          *)
Transfers(t) ==
  \/ \E arg \in WatchArgs : WatchState(t, arg)
  \/ GetState(t)
  \/ t \in Testers /\ ((\E msg \in Messages : SendData(t, msg)) \/ SendStep(t))
  \/ t \in Readers /\ ((\E max \in ReadSizes : DequeueData(t, max)) \/ DequeueStep(t))

LEMMA TransferStill ==
  ASSUME IInv, NEW t \in Threads, Transfers(t)
  PROVE  /\ OnlyMoves(t)
         /\ pc'[t] \in {"wat_enter", "cq_state", "send_lock", "send_add", "idle",
                        "deq_lock", "deq_get"}
         /\ pc[t] \in {"idle", "send_lock", "send_add", "send_dsr", "deq_lock", "deq_get"}
<1> USE DEF portVars, queueVars, localVars, openVars
<1>1. CASE \/ \E arg \in WatchArgs : WatchState(t, arg)
           \/ GetState(t)
           \/ (\E msg \in Messages : SendData(t, msg))
           \/ (\E max \in ReadSizes : DequeueData(t, max))
  <2>1. /\ pc[t] = "idle" /\ UNCHANGED used
        /\ \E label \in {"wat_enter", "cq_state", "send_lock", "deq_lock"} : Goto(t, label)
        /\ UNCHANGED want \/ \E x : want' = [want EXCEPT ![t] = x]
        /\ UNCHANGED mask \/ \E x : mask' = [mask EXCEPT ![t] = x]
        /\ UNCHANGED data \/ \E x : data' = [data EXCEPT ![t] = x]
    BY <1>1 DEF WatchState, Pend, GetState, SendData, DequeueData, MayCall
  <2> QED
    BY <2>1 DEF OnlyMoves, Still, Goto, IInv, TypeOK
<1>2. CASE SendStep(t) \/ DequeueStep(t)
  <2>1. /\ pc[t] \in {"send_lock", "send_add", "send_dsr", "deq_lock", "deq_get"}
        /\ UNCHANGED <<want, mask, used>>
        /\ \/ UNCHANGED pc
           \/ \E label \in {"send_add", "cq_state", "idle", "deq_get"} : Goto(t, label)
        /\ UNCHANGED data \/ \E x : data' = [data EXCEPT ![t] = x]
    BY <1>2 DEF SendStep, SendLock, SendAdd, SendReturn, DequeueStep, DequeueLock,
                DequeueGet, DequeueDone
  <2>2. UNCHANGED pc => pc[t] \in {"send_add", "deq_get"}
    BY <1>2 DEF SendStep, SendLock, SendAdd, SendReturn, DequeueStep, DequeueLock,
                DequeueGet, DequeueDone, Goto, IInv, TypeOK
  <2> QED
    BY <2>1, <2>2 DEF OnlyMoves, Still, Goto, IInv, TypeOK
<1> QED
  BY <1>1, <1>2 DEF Transfers

LEMMA StatusSteps ==
  ASSUME Next
  PROVE  \/ \E s \in Sessions : SessionCall(s) \/ SessionStep(s)
         \/ \E t \in Threads : WatchStep(t) \/ CheckStep(t) \/ Transfers(t)
  BY ThreadRoles DEF Next, Transfers

(* Whoever runs checkQueues moves alone, by a step of its own.             *)
LEMMA OneMoves ==
  ASSUME IInv, Next, NEW t \in Checkers, ~Still(t)
  PROVE  /\ OnlyMoves(t)
         /\ WatchStep(t) \/ CheckStep(t) \/ Transfers(t)
<1> t \in Threads
  BY CheckersAreOthers
<1>1. PICK u \in Threads : WatchStep(u) \/ CheckStep(u) \/ Transfers(u)
  BY StatusSteps, SessionStill
<1>2. OnlyMoves(u)
  BY <1>1, WatchStill, CheckStill, TransferStill
<1> QED
  BY <1>1, <1>2 DEF OnlyMoves

-------------------------------------------------------------------------------
(* What a checkQueues has read stays right until it is overtaken.          *)

LEMMA ReadingStays ==
  ASSUME StatusInv, Next, Record, NEW t \in Checkers \ overtaken'
  PROVE  ReadingOK(t)'
<1> SUFFICES ASSUME pc'[t] \in HasRead PROVE ReadingOK(t)'
  BY DEF ReadingOK, HasRead
<1>1. IInv /\ t \in Threads
  BY CheckersAreOthers DEF StatusInv
<1>2. t \notin overtaken /\ ~Overtakes(t)
  BY DEF Record
<1>3. UNCHANGED <<RX, marksSet>> /\ (pc[t] = "write" => RXBits' = RXBits)
  BY <1>2 DEF Overtakes
<1>4. Level' = Level /\ ReadingOK(t)
  BY <1>2, <1>3, LevelKept DEF StatusInv
<1>5. CASE Still(t)
  <2>1. ASSUME pc[t] = "write"
        PROVE  ((State' \ mask'[t]) \cup (want'[t] \cap mask'[t])) \cap RXQ_MASK
                 = ((State \ mask[t]) \cup (want[t] \cap mask[t])) \cap RXQ_MASK
    <3>1. State' \cap RXQ_MASK = State \cap RXQ_MASK /\ UNCHANGED <<want[t], mask[t]>>
      BY <1>3, <1>5, <2>1 DEF RXBits, Still
    <3> QED
      BY <3>1
  <2> QED
    BY <1>3, <1>4, <1>5, <2>1 DEF ReadingOK, Still
<1>6. CASE ~Still(t)
  <2>1. CheckStep(t) /\ ~Write(t)
    BY <1>1, <1>6, OneMoves, WatchStill, CheckStill, TransferStill DEF HasRead
  <2>2. ~CheckState(t)
    BY <1>1 DEF CheckState, Goto, HasRead, IInv, TypeOK
  <2>3. CASE CheckUsed(t)
    <3>1. pc'[t] = "cq_free" /\ used'[t] = RX.InQueue
      BY <1>1, <2>3 DEF CheckUsed, Goto, IInv, TypeOK, UsedSpaceinQueue
    <3> QED
      BY <1>3, <3>1 DEF ReadingOK
  <2>4. CASE CheckFree(t)
    <3>1. pc[t] = "cq_free" /\ pc'[t] = "cq_delta" /\ used[t] = RX.InQueue
      BY <1>1, <1>4, <2>4 DEF CheckFree, Goto, IInv, TypeOK, ReadingOK
    <3>2. want'[t] = (want[t] \ (RXQ_MASK \cup TXQ_MASK))
                       \cup QueueBits(TXQ, 0, kMaxCirBufferSize) \cup Level
      BY <1>1, <2>4, <3>1 DEF CheckFree, IInv, TypeOK, Level
    <3>3. /\ Level \subseteq RXQ_MASK
          /\ QueueBits(TXQ, 0, kMaxCirBufferSize) \cap RXQ_MASK = {}
      BY DEF Level, QueueBits, RXQ_MASK, RXQ, TXQ
    <3>4. want'[t] \cap RXQ_MASK = Level
      BY <3>2, <3>3
    <3> QED
      BY <1>4, <3>1, <3>4 DEF ReadingOK
  <2>5. CASE CheckDelta(t)
    <3>1. /\ pc[t] = "cq_delta" /\ pc'[t] = "write" /\ UNCHANGED <<State, want>>
          /\ mask'[t] = (want[t] \ State) \cup (State \ want[t])
      BY <1>1, <2>5 DEF CheckDelta, Goto, IInv, TypeOK, portVars
    <3>2. want[t] \cap RXQ_MASK = Level
      BY <1>4, <3>1 DEF ReadingOK
    <3>3. (State' \ mask'[t]) \cup (want'[t] \cap mask'[t]) = want[t]
      BY <3>1
    <3> QED
      BY <1>4, <3>1, <3>2, <3>3 DEF ReadingOK
  <2> QED
    BY <2>1, <2>2, <2>3, <2>4, <2>5 DEF CheckStep
<1> QED
  BY <1>5, <1>6

-------------------------------------------------------------------------------
(* The bits keep telling of the queue.                                     *)

(* Inside the section of RXBufferLock, away from its ends, it is not quiet.*)
LEMMA QuietHolder ==
  ASSUME IInv', NEW t \in Testers \cup Readers, RXBufferLock' = t, Quiet'
  PROVE  \/ t \in Testers /\ pc'[t] = "send_dsr"
         \/ t \in Readers /\ pc'[t] = "deq_get" /\ data'[t] = <<>>
<1>1. t # Nobody /\ \A u \in Testers \cup Readers : u \in Threads
  BY CheckersAreOthers
<1>2. \A u \in Threads : InRXSection(u)' => u = t
  BY DEF IInv, OneInRXSection
<1>3. \A u \in Testers : pc'[u] = "send_dsr" => InRXSection(u)'
  BY DEF InRXSection
<1>4. \A u \in Readers : pc'[u] = "deq_get" => InRXSection(u)'
  BY DEF InRXSection
<1> QED
  BY <1>1, <1>2, <1>3, <1>4 DEF Quiet

(* A step that neither ends a checkQueues nor disturbs the bits changes    *)
(* the queue only where it is not quiet, and makes it quiet only where it  *)
(* was.                                                                    *)
LEMMA QuietBefore ==
  ASSUME IInv, IInv', Next, Writing = {}, ~Disturbs, Quiet'
  PROVE  Quiet /\ RX' = RX
<1>1. CASE \E s \in Sessions : SessionCall(s) \/ SessionStep(s)
  <2>1. (\A t \in Checkers : Still(t)) /\ UNCHANGED <<RX, RXBufferLock>>
    BY <1>1, SessionStill DEF Disturbs
  <2> QED
    BY <2>1, CheckersAreOthers DEF Quiet, Still
<1>2. ASSUME NEW t \in Threads, OnlyMoves(t), UNCHANGED <<RX, RXBufferLock>>,
             pc'[t] \notin {"send_dsr", "deq_get"}
      PROVE  Quiet /\ RX' = RX
  BY <1>2, ThreadRoles DEF Quiet, OnlyMoves, Still
<1>3. ASSUME NEW t \in Threads, WatchStep(t) PROVE Quiet /\ RX' = RX
  BY <1>2, <1>3, WatchStill
<1>4. ASSUME NEW t \in Threads, CheckStep(t) PROVE Quiet /\ RX' = RX
  <2>1. CASE ~Write(t)
    BY <1>2, <1>4, <2>1, CheckStill DEF CheckLabels
  <2>2. CASE Write(t)
    <3>1. t \notin Checkers
      BY <1>4, <2>2, CheckStill DEF Writing
    <3>2. /\ t \notin Readers /\ t \notin Testers
          /\ UNCHANGED RXBufferLock /\ Goto(t, "idle")
      BY <2>2, <3>1, CheckersAreOthers DEF Write
    <3>3. pc'[t] = "idle"
      BY <3>2 DEF Goto, IInv, TypeOK
    <3> QED
      BY <1>2, <1>4, <3>2, <3>3, CheckStill
  <2> QED
    BY <2>1, <2>2
<1>5. ASSUME NEW t \in Threads, Transfers(t) PROVE Quiet /\ RX' = RX
  <2> USE DEF queueVars
  <2>1. CASE \/ \E arg \in WatchArgs : WatchState(t, arg)
             \/ GetState(t)
             \/ (\E msg \in Messages : SendData(t, msg))
             \/ (\E max \in ReadSizes : DequeueData(t, max))
    <3>1. /\ UNCHANGED <<RX, RXBufferLock>>
          /\ \E label \in {"wat_enter", "cq_state", "send_lock", "deq_lock"} : Goto(t, label)
      BY <2>1 DEF WatchState, Pend, GetState, SendData, DequeueData
    <3>2. pc'[t] \notin {"send_dsr", "deq_get"}
      BY <3>1 DEF Goto, IInv, TypeOK
    <3> QED
      BY <1>2, <1>5, <3>1, <3>2, TransferStill
  <2>2. CASE SendLock(t) \/ DequeueLock(t)
    BY <2>2 DEF SendLock, DequeueLock, Quiet
  <2>3. CASE t \in Testers /\ SendReturn(t)
    BY <2>3 DEF SendReturn, Quiet
  <2>4. CASE t \in Testers /\ SendAdd(t)
    <3>1. InRXSection(t) /\ UNCHANGED RXBufferLock /\ pc[t] = "send_add"
      BY <2>4 DEF SendAdd, InRXSection
    <3>2. RXBufferLock' = t
      BY <3>1 DEF IInv, OneInRXSection
    <3>3. pc'[t] \in {"send_add", "cq_state"}
      BY <2>4 DEF SendAdd, Goto, IInv, TypeOK
    <3> QED
      BY <2>4, <3>2, <3>3, QuietHolder
  <2>5. CASE t \in Readers /\ DequeueGet(t)
    <3>1. /\ InRXSection(t) /\ UNCHANGED RXBufferLock /\ pc[t] = "deq_get"
          /\ data[t] \in Seq(Byte \cup {Garbage})
          /\ data'[t] = Append(data[t], GotByte(RX))
      BY <2>5 DEF DequeueGet, InRXSection, IInv, TypeOK
    <3>2. RXBufferLock' = t
      BY <3>1 DEF IInv, OneInRXSection
    <3>3. data'[t] # <<>>
      BY <3>1
    <3> QED
      BY <2>5, <3>2, <3>3, RolesApart, QuietHolder
  <2>6. CASE t \in Readers /\ DequeueDone(t)
    <3>1. InRXSection(t) /\ pc[t] = "deq_get" /\ RX' = RX
      BY <2>6 DEF DequeueDone, InRXSection
    <3>2. CASE data[t] = <<>>
      BY <2>6, <3>1, <3>2 DEF Quiet
    <3>3. CASE data[t] # <<>>
      <4>1. RXBufferLock' = t /\ pc'[t] = "cq_state"
        BY <2>6, <3>1, <3>3 DEF DequeueDone, Goto, IInv, TypeOK, OneInRXSection
      <4> QED
        BY <2>6, <4>1, QuietHolder
    <3> QED
      BY <3>2, <3>3
  <2> QED
    BY <1>5, <2>1, <2>2, <2>3, <2>4, <2>5, <2>6 DEF Transfers, SendStep, DequeueStep
<1> QED
  BY <1>1, <1>3, <1>4, <1>5, StatusSteps

LEMMA ToldStays ==
  ASSUME StatusInv, IInv', Next, Record
  PROVE  ToldOK'
<1> SUFFICES ASSUME told', Quiet' PROVE RXBits' = Level'
  BY DEF ToldOK
<1>1. IInv
  BY DEF StatusInv
<1>2. CASE Writing # {}
  <2>1. PICK t \in Checkers : pc[t] = "write" /\ pc'[t] # "write" /\ t \notin overtaken
    BY <1>2 DEF Record, Writing
  <2>2. t \in Threads /\ ~Still(t)
    BY <2>1, CheckersAreOthers DEF Still
  <2>3. CheckStep(t)
    BY <1>1, <2>1, <2>2, OneMoves, WatchStill, TransferStill
  <2>4. Write(t)
    BY <2>1, <2>3 DEF CheckStep, CheckState, CheckUsed, CheckFree, CheckDelta
  <2>5. Level' = Level
    BY <1>1, <2>2, <2>3, CheckStill, LevelKept
  <2>6. ((State \ mask[t]) \cup (want[t] \cap mask[t])) \cap RXQ_MASK = Level
    BY <2>1 DEF StatusInv, ReadingOK
  <2>7. State' = (State \ mask[t]) \cup (want[t] \cap mask[t])
    BY <2>4 DEF Write, WritePortState
  <2> QED
    BY <2>5, <2>6, <2>7 DEF RXBits
<1>3. CASE Writing = {}
  <2>1. told /\ ~Disturbs
    BY <1>3 DEF Record
  <2>2. Quiet /\ RX' = RX
    BY <1>1, <1>3, <2>1, QuietBefore
  <2>3. RXBits = Level
    BY <2>1, <2>2 DEF StatusInv, ToldOK
  <2>4. UNCHANGED marksSet /\ RXBits' = RXBits
    BY <2>1 DEF Disturbs
  <2> QED
    BY <2>2, <2>3, <2>4, LevelKept
<1> QED
  BY <1>2, <1>3

LEMMA NextStatus == StatusInv /\ [StatusNext]_<<vars, statusVars>> => StatusInv'
<1> SUFFICES ASSUME StatusInv, [StatusNext]_<<vars, statusVars>> PROVE StatusInv'
  OBVIOUS
<1>1. IInv'
  BY NextType, NextLock DEF StatusInv, IInv, StatusNext
<1>2. CASE UNCHANGED <<vars, statusVars>>
  <2>1. UNCHANGED <<pc, want, mask, used, data, State, RX, RXBufferLock, marksSet,
                    overtaken, told>>
    BY <1>2 DEF vars, statusVars, portVars, queueVars, localVars, openVars
  <2>2. Level' = Level /\ RXBits' = RXBits
    BY <2>1, LevelKept DEF RXBits
  <2>3. ToldOK'
    BY <2>1, <2>2 DEF StatusInv, ToldOK, Quiet
  <2>4. \A t \in Checkers \ overtaken' : ReadingOK(t)'
    BY <2>1, <2>2 DEF StatusInv, ReadingOK
  <2> QED
    BY <1>1, <2>1, <2>3, <2>4 DEF StatusInv, OvertakenOK
<1>3. CASE StatusNext
  <2>1. Next /\ Record
    BY <1>3 DEF StatusNext
  <2>2. OvertakenOK'
    BY <2>1 DEF Record, OvertakenOK
  <2>3. ToldOK'
    BY <1>1, <2>1, ToldStays
  <2>4. \A t \in Checkers \ overtaken' : ReadingOK(t)'
    BY <2>1, ReadingStays
  <2> QED
    BY <1>1, <2>2, <2>3, <2>4 DEF StatusInv
<1> QED
  BY <1>2, <1>3

LEMMA InitStatus == StatusInit => StatusInv
<1> SUFFICES ASSUME StatusInit PROVE StatusInv
  OBVIOUS
<1>1. Init /\ overtaken = {} /\ told = FALSE
  BY DEF StatusInit
<1>2. IInv
  BY <1>1, InitType, InitLock DEF IInv
<1>3. \A t \in Checkers : pc[t] = "idle"
  BY <1>1, CheckersAreOthers DEF Init
<1> QED
  BY <1>1, <1>2, <1>3 DEF StatusInv, OvertakenOK, ToldOK, ReadingOK

(* Whatever calls overlap, in every mode: while nobody is using the queue, *)
(* the state word's RX bits are those of its fill level, but for the two   *)
(* ways the code lets them go stale.  Either the last checkQueues worked   *)
(* on readings another call had changed, as getState's may, which takes no *)
(* lock; or a session has reset the queue, set its water marks or written  *)
(* the bits with setState since.                                           *)
THEOREM StatusStaysCurrent == StatusSpec => []StatusCurrent
<1>1. StatusInv => StatusCurrent
  BY DEF StatusInv, ToldOK, Quiet, StatusCurrent
<1> QED
  BY <1>1, InitStatus, NextStatus, PTL DEF StatusSpec
===============================================================================
